------------------------------- MODULE MCVerifierKeys -------------------------------
(***************************************************************************)
(* One verifier.  The first list names its first key and goes stale within *)
(* the clock; a later one no longer lists it.  A document that does not    *)
(* verify is refused as a failing fetch is.  The user may remove the       *)
(* verifier, or add it with another key.                                   *)
(***************************************************************************)
EXTENDS VerifierKeys, TLC

CONSTANTS c1, c2, acme, k1, k2

ListOf(iat, authentic, key) ==
    [iat |-> iat, authentic |-> authentic, keys |-> [d \in Domain |-> key]]

MCSignedList ==
    { ListOf(0, TRUE, k1), ListOf(1, TRUE, NoKey) }

OverrideOf(removed, key) == [remove |-> removed, add |-> [d \in Domain |-> key]]

MCOverride ==
    { OverrideOf({}, NoKey), OverrideOf({acme}, NoKey), OverrideOf({}, k2) }

Calls == Permutations(Call)
===============================================================================
