--------------------------- MODULE MCRelationships ---------------------------
(***************************************************************************)
(* Relationships twice, with no state in common, so that a behaviour is    *)
(* about one of the two.                                                   *)
(*                                                                         *)
(* One store: john's, and his peer mary: two friend handshakes, one        *)
(* proposed by each, a team handshake, and one that carries the nonce of   *)
(* the first but names the admin type; a friend revoke of mary's and a     *)
(* team revoke of john's.  The age limit is short enough for the first     *)
(* handshake to go stale within the bound of the clock.                    *)
(*                                                                         *)
(* Two agents: john and mary, with three proposals, the second one of      *)
(* mary's, and one revoke: proposals may cross, and a new one may follow   *)
(* the revoke.                                                             *)
(***************************************************************************)
EXTENDS Relationships, Handshake

CONSTANTS john, mary, repo, n1, n2, n3, r1, r2

Friend(p, a, n, iats) ==
    [proposer |-> p, accepter |-> a, type |-> "friend", resource |-> NoResource,
     nonce |-> n, answers |-> n, iats |-> iats, authentic |-> TRUE]

MCHandshake ==
    { Friend(john, mary, n1, {0, 1}),
      Friend(mary, john, n2, {2}),
      [Friend(john, mary, n1, {1}) EXCEPT !.type = "admin"],
      [Friend(mary, john, n3, {1}) EXCEPT !.type = "team", !.resource = repo] }

Ends(i, type, resource, n, iat) ==
    [issuer |-> i, type |-> type, resource |-> resource, nonce |-> n,
     iat |-> iat, authentic |-> TRUE]

MCRevoke ==
    { Ends(mary, "friend", NoResource, r1, 1),
      Ends(john, "team", repo, r2, 2) }

MCProposer == [n \in Nonce |-> IF n = n2 THEN mary ELSE john]

VARIABLE part

BothInit ==
    /\ part \in {"store", "agents"}
    /\ Init /\ HandshakeInit

BothNext ==
    \/ part = "store" /\ Next /\ UNCHANGED <<part, handshakeVars>>
    \/ part = "agents" /\ HandshakeNext /\ UNCHANGED <<part, vars>>

BothSpec == BothInit /\ [][BothNext]_<<part, vars, handshakeVars>> /\ Fairness
==============================================================================
