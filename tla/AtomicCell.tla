------------------------------ MODULE AtomicCell ------------------------------
(***************************************************************************)
(* What an atomic, replacing write promises, without files: a call either  *)
(* puts its whole value in the cell, in one step, and then returns, or it  *)
(* gives up and the cell is as it was.                                     *)
(***************************************************************************)
CONSTANTS Value, Writer, Nothing

VARIABLES
    cell,       \* what a reader finds: a value, or Nothing
    pending     \* per writer: the value of a call that has not taken effect

Init ==
    /\ cell = Nothing
    /\ pending = [w \in Writer |-> Nothing]

Call(w, v) ==
    /\ pending[w] = Nothing
    /\ pending' = [pending EXCEPT ![w] = v]
    /\ UNCHANGED cell

Take(w) ==
    /\ pending[w] # Nothing
    /\ cell' = pending[w]
    /\ pending' = [pending EXCEPT ![w] = Nothing]

GiveUp(w) ==
    /\ pending' = [pending EXCEPT ![w] = Nothing]
    /\ UNCHANGED cell

Next == \E w \in Writer : (\E v \in Value : Call(w, v)) \/ Take(w) \/ GiveUp(w)

Spec == Init /\ [][Next]_<<cell, pending>>
================================================================================
