--------------------------- MODULE MCLinearHashmap ---------------------------
(* LinearHashmap with the keys, bounds and clients of hashmap*.cfg.  Keys are *)
(* numbers and hash to themselves, as int does with std::hash.               *)
EXTENDS LinearHashmap, TLC

MCHash == [k \in Keys |-> k]

\* The operations treat the map objects alike.
MCSymmetry == Permutations(Maps)

Client(maps, keys, values, counts, iterates, careful) ==
    [maps |-> maps, keys |-> keys, values |-> values, counts |-> counts,
     iterates |-> iterates, careful |-> careful]

\* One map with two values; one map that is walked through; two maps.
MCClients ==
    {Client({m}, {7, 15, 16}, Values, {0, 1, 9}, FALSE, TRUE) : m \in Maps}
        \cup {Client({m}, Keys, {1}, {1, 9}, TRUE, TRUE) : m \in Maps}
        \cup {Client(Maps, {7, 15}, Values, {9}, FALSE, TRUE)}

\* One map, whose client inserts and erases at will.
MCCareless == {Client(Maps, Keys, Values, {0}, FALSE, FALSE)}
=============================================================================
