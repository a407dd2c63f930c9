------------------------------- MODULE OnceOnly -------------------------------
(***************************************************************************)
(* What a replay cache promises, without saying how: of everything that is *)
(* offered under one key, at most one thing is ever let through.           *)
(***************************************************************************)
EXTENDS Naturals

CONSTANT Key
VARIABLE passes     \* how often each key has been let through

Init == passes = [k \in Key |-> 0]

Pass(k) ==
    /\ passes[k] = 0
    /\ passes' = [passes EXCEPT ![k] = 1]

Next == \E k \in Key : Pass(k)

Spec == Init /\ [][Next]_passes
================================================================================
