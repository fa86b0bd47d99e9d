-------------------------------- MODULE Range --------------------------------
(***************************************************************************)
(* naesala/common/range.h: for (i : Range(start, end, step)).  The loop    *)
(* ends when the iterator equals end(): operator!= compares the values.    *)
(*                                                                         *)
(* T has Word values.  A signed T has negative ones, and what becomes of   *)
(* it when a sum does not fit is undefined; an unsigned T wraps around.    *)
(***************************************************************************)
EXTENDS Integers

CONSTANTS Word, Signs   \* Signs: those of "signed" and "unsigned" in use

WordAssumption == Word \in Nat \ {0} /\ Signs \subseteq {"signed", "unsigned"}

VARIABLES sign,               \* which kind of type T is
          start, end, step,   \* _start, _end and _step
          value               \* _value of the loop's iterator

vars == <<sign, start, end, step, value>>

T == IF sign = "signed" THEN -(Word \div 2)..Word - Word \div 2 - 1 ELSE 0..Word - 1

Init ==
    /\ sign \in Signs
    /\ start \in T /\ end \in T /\ step \in T
    /\ value = start

\* A defect to catch: a sum that does not fit is left out.
SumsKept == IF value + step \in T THEN {value + step} ELSE {value}

\* What _value + _step can be.
Sums ==
    IF value + step \in T THEN {value + step}
    ELSE IF sign = "signed" THEN T
    ELSE {(value + step) % Word}

\* A defect to catch: the step is always 1.
IncrementByOne ==
    /\ value # end
    /\ value' = IF value + 1 \in T THEN value + 1 ELSE 0
    /\ UNCHANGED <<sign, start, end, step>>

\* The iterator is not end() yet, and is incremented after the body.
Increment ==
    /\ value # end
    /\ value' \in Sums
    /\ UNCHANGED <<sign, start, end, step>>

Next == Increment

Spec == Init /\ [][Next]_vars

\* A thread goes on with its loop.
FairSpec == Spec /\ WF_vars(Next)

-----------------------------------------------------------------------------
\* Some number of steps leads from start to end.
Even == step > 0 /\ \E n \in 0..Word - 1 : end = start + n * step

\* On an unsigned T, some number of steps does that when it wraps around.
EvenAround == sign = "unsigned" /\ \E n \in 0..Word - 1 : end = (start + n * step) % Word

\* Type invariant.
TypeOK == sign \in Signs /\ {start, end, step, value} \subseteq T

\* The body is given start, start + step, start + 2 * step and so on and
\* nothing beyond end, if the step leads to end (operator++ and operator!= of
\* range.h).
StaysInRange ==
    Even => \E k \in 0..Word - 1 : value = start + k * step /\ value <= end

\* The loop ends, if the step leads to end, or around to it on an unsigned T
\* (the loops over range and sequence in benchmark/).
LoopEnds == Even \/ EvenAround => <>(value = end)
=============================================================================
