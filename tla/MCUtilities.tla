----------------------------- MODULE MCUtilities -----------------------------
(***************************************************************************)
(* The small components and the two vendored hashmaps, each alone, with    *)
(* the bounds of utilities.cfg.  A behaviour is one of the small           *)
(* components, or the hashmap that vendored names.                         *)
(***************************************************************************)
EXTENDS Utilities, VendoredMaps

MCTableHash == [k \in TableKeys |-> k]

\* What is not active starts in one state.
InitMC ==
    /\ InitAll /\ InitVendored
    /\ vendored # "neither" => active = "Trie"

varsMC == <<varsAll, varsVendored>>

NextMC == IF vendored = "neither" THEN NextAll /\ UNCHANGED varsVendored
                                  ELSE NextVendored /\ UNCHANGED varsAll

SpecMC == InitMC /\ [][NextMC]_varsMC

\* The operating system keeps running some thread that can run.
FairSpecMC == SpecMC /\ WF_varsMC(NextMC)
=============================================================================
