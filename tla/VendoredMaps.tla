---------------------------- MODULE VendoredMaps ----------------------------
(***************************************************************************)
(* The two hashmaps of other projects that the benchmarks compare with     *)
(* LinearHashmap, each alone: a behaviour is one of the hashmap that       *)
(* vendored names.                                                         *)
(***************************************************************************)
CONSTANTS TableKeys, TableValues, TableHash, EmptyFlag, DeletedFlag, Junk, MaxBuckets,   \* AlignHash
          ChainEntries, ChainKeys, Asked, NoEntry, Dangling                      \* HashChain

VARIABLES
    vendored,
    slots, lastCall, cursor, crossing,                           \* AlignHash
    mask, chain, snap, key, place, held, taken, stroll           \* HashChain

Aln == INSTANCE AlignHash WITH Keys <- TableKeys, Values <- TableValues, Hash <- TableHash,
            Empty <- EmptyFlag, Deleted <- DeletedFlag,
            table <- slots, call <- lastCall, cur <- cursor, walk <- crossing
Chn == INSTANCE HashChain WITH Entries <- ChainEntries, Keys <- ChainKeys, Null <- NoEntry,
            cur <- place, walk <- stroll

ASSUME VendoredAssumption ==
    /\ Aln!HashAssumption /\ Aln!ReservedAssumption /\ Aln!BucketAssumption
    /\ Chn!ChainAssumption

InitVendored ==
    /\ vendored \in {"neither", "AlignHash", "HashChain"}
    /\ Aln!Init /\ Chn!Init

slotVars     == <<slots, lastCall, cursor, crossing>>
chainVars    == <<mask, chain, snap, key, place, held, taken, stroll>>
varsVendored == <<vendored, slotVars, chainVars>>

NextVendored ==
    /\ UNCHANGED vendored
    /\ IF vendored = "AlignHash" THEN Aln!Next ELSE UNCHANGED slotVars
    /\ IF vendored = "HashChain" THEN Chn!Next ELSE UNCHANGED chainVars

SpecVendored == InitVendored /\ [][NextVendored]_varsVendored

-----------------------------------------------------------------------------
\* align_hash_map never fills up, its counts are right, and every traversal
\* meets all of it (set, resize and del of alignhash_tpl.h, the iterator of
\* alignhash.h).
TableIntact == Aln!TypeOK /\ Aln!RoomLeft /\ Aln!CountsAgree /\ Aln!TraversalMeetsAll

\* Its calls make of it a finite function (alignhash.h).
TableSpec == Aln!MapSpec

\* The chains have what was inserted and not erased, in the right order, and
\* walks meet what they should, through the snapshot in its order or sorted
\* (hash_chain.h and hash_chain_prot.h).
HashChainsIntact == Chn!TypeOK /\ Chn!EntriesFound /\ Chn!WalkMeetsAll
=============================================================================
