----------------------------- MODULE FiniteMaps -----------------------------
(***************************************************************************)
(* What a hashmap promises its client: each map object is a finite         *)
(* function from keys to values.  call is the operation that was called    *)
(* last, with its arguments; it determines what becomes of the functions.  *)
(***************************************************************************)
CONSTANTS Maps, Keys, Values

VARIABLES contents,   \* the function each map object holds
          call        \* the last call, as a tuple

vars == <<contents, call>>

\* The function without a key.
Nowhere == [k \in {} |-> k]

Init ==
    /\ contents = [m \in Maps |-> Nowhere]
    /\ call = <<"none">>

\* The call c makes f the contents of m.
Becomes(m, f, c) ==
    /\ call' = c
    /\ contents' = [contents EXCEPT ![m] = f]

Construct(m) == Becomes(m, Nowhere, <<"construct", m>>)

\* The function f, but for k |-> v.
With(f, k, v) == [j \in DOMAIN f \cup {k} |-> IF j = k THEN v ELSE f[j]]

\* The first value stays.
Insert(m, k, v) ==
    Becomes(m, IF k \in DOMAIN contents[m] THEN contents[m] ELSE With(contents[m], k, v),
            <<"insert", m, k, v>>)

\* The new value replaces the old one.
Assign(m, k, v) ==
    \E name \in {"insert_or_assign", "subscript"} :
        Becomes(m, With(contents[m], k, v), <<name, m, k, v>>)

Erase(m, k) ==
    Becomes(m, [j \in DOMAIN contents[m] \ {k} |-> contents[m][j]], <<"erase", m, k>>)

Clear(m) == Becomes(m, Nowhere, <<"clear", m>>)

Copy(m, other) == Becomes(m, contents[other], <<"copy", m, other>>)

\* The other map is empty afterwards.
Move(m, other) ==
    /\ call' = <<"move", m, other>>
    /\ contents' = [contents EXCEPT ![m] = contents[other], ![other] = Nowhere]

Swap(m, other) ==
    /\ call' = <<"swap", m, other>>
    /\ contents' = [contents EXCEPT ![m] = contents[other], ![other] = contents[m]]

Next ==
    \E m \in Maps :
        \/ Construct(m) \/ Clear(m)
        \/ \E k \in Keys : Erase(m, k)
        \/ \E k \in Keys, v \in Values : Insert(m, k, v) \/ Assign(m, k, v)
        \/ \E other \in Maps \ {m} : Copy(m, other) \/ Move(m, other) \/ Swap(m, other)

Spec == Init /\ [][Next]_vars
=============================================================================
