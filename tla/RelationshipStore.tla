-------------------------- MODULE RelationshipStore --------------------------
(***************************************************************************)
(* The data of aap.relationships.RelationshipStore and what its operations *)
(* do to it, as functions of a store value.  A store is a record           *)
(*    rows         the active relationships                                *)
(*    revocations  the revocations it keeps as proof                       *)
(* The order of the rows is left out: no operation depends on it.  A row   *)
(* keeps the nonce of the signed proposal stored in it.                    *)
(*                                                                         *)
(* A handshake is a pair of signed envelopes, a proposal and an accept:    *)
(*    proposer, accepter   their issuers                                   *)
(*    type, resource       what is proposed; nonce: the proposal's nonce   *)
(*    answers              the nonce the accept refers to                  *)
(*    iats                 when the two envelopes and the two AgentCards   *)
(*                         inside them were issued                         *)
(*    authentic            the four verify, and the cards are the issuers' *)
(* A revoke is one: issuer, type, resource, nonce, iat, authentic.         *)
(***************************************************************************)
EXTENDS EnvelopePolicy

CONSTANT NoResource    \* the resource of a relationship that names none

EmptyStore == [rows |-> {}, revocations |-> {}]

SameKey(r, s) == r.peer = s.peer /\ r.type = s.type /\ r.resource = s.resource

\* The checks of establish() on a handshake with peer, at an instant.
ProvesConsent(h, self, peer, now) ==
    /\ h.authentic
    /\ \A t \in h.iats : FreshIat(t, now)
    /\ h.answers = h.nonce
    /\ {h.proposer, h.accepter} = {self, peer}
    /\ self # peer

\* Mutant: a proposal nonce is never looked up.
SeenNoProposal(store, nonce) == FALSE

\* _has_seen_proposal_nonce looks at the active rows and nowhere else.
SeenProposal(store, nonce) == \E r \in store.rows : r.nonce = nonce

RowOf(h, peer) ==
    [peer |-> peer, type |-> h.type, resource |-> h.resource, nonce |-> h.nonce]

\* _add_verified: the row takes the place of the one with the same key.
AddRow(store, row) ==
    [store EXCEPT !.rows = {r \in @ : ~ SameKey(r, row)} \cup {row}]

\* The checks of revoke().
ProvesRevocation(v, self, peer, now) ==
    /\ v.authentic
    /\ FreshIat(v.iat, now)
    /\ self # peer
    /\ v.issuer \in {self, peer}

SeenRevocation(store, nonce) == \E v \in store.revocations : v.nonce = nonce

RevocationOf(v, peer) ==
    [peer |-> peer, type |-> v.type, resource |-> v.resource,
     issuer |-> v.issuer, nonce |-> v.nonce]

\* The proof is kept, the rows with exactly its key go: the resource counts for
\* every type of relationship.
DropRow(store, revocation) ==
    [rows |-> {r \in store.rows : ~ SameKey(r, revocation)},
     revocations |-> store.revocations \cup {revocation}]

\* find() as has_friend, has_admin and has_team use it: the resource counts for
\* a team only.
Has(store, peer, type, resource) ==
    \E r \in store.rows :
        /\ r.peer = peer
        /\ r.type = type
        /\ type = "team" => r.resource = resource
================================================================================
