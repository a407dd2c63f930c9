--------------------------- MODULE MCFollowupGrants ---------------------------
(***************************************************************************)
(* A clinic's store with two customers.  john grants the same service      *)
(* twice, and jane uses the nonce of john's second grant.                  *)
(***************************************************************************)
EXTENDS FollowupGrants

CONSTANTS john, jane

GrantOf(issuer, nonce, iat, cadence, window, until) ==
    [issuer |-> issuer, service |-> "cleaning", nonce |-> nonce, iat |-> iat,
     authentic |-> TRUE, cadence |-> cadence, window |-> window, until |-> until]

MCGrant ==
    { GrantOf(john, "a", 0, 4, 2, 6),
      GrantOf(john, "b", 2, 2, 0, 9),
      GrantOf(jane, "b", 2, 4, 2, 9) }
===============================================================================
