---------------------------- MODULE Relationships ----------------------------
(***************************************************************************)
(* One agent's RelationshipStore: what it holds in memory, the file behind *)
(* it, saves that fail, restarts, and signed handshakes and revokes that   *)
(* reach it in any order, any number of times, at any moment of a bounded  *)
(* clock.                                                                  *)
(*                                                                         *)
(* establish() and revoke() change memory first and save last.  When the   *)
(* save raises, the caller is told of an error and memory keeps the change.*)
(***************************************************************************)
EXTENDS RelationshipStore, FiniteSets

CONSTANTS
    Self,        \* self_address
    Peer,        \* the addresses the host passes as peer_address
    Handshake,   \* the proposal and accept pairs that exist
    Revoke,      \* the revokes that exist
    MaxTime      \* bound: the clock stops here

ASSUME RelationshipAssumption ==
    /\ \A h \in Handshake : /\ h.iats \subseteq Nat
                            /\ h.authentic \in BOOLEAN
                            /\ h.type = "team" => h.resource # NoResource
    /\ \A v \in Revoke : /\ v.iat \in Nat
                         /\ v.authentic \in BOOLEAN
                         /\ v.type = "team" => v.resource # NoResource
    /\ MaxTime \in Nat

VARIABLES
    now,
    mem,        \* the store object
    file,       \* the store in aap-relationships.json
    answer,     \* history: what the last call that returned said of a row key
    torn,       \* history: row keys whose last call raised because of the save
    acks        \* history: how often each revoke has been acknowledged

vars == <<now, mem, file, answer, torn, acks>>

RowKey(r) == <<r.peer, r.type, r.resource>>

Keys == {RowKey(RowOf(h, p)) : h \in Handshake, p \in Peer}
          \cup {RowKey(RevocationOf(v, p)) : v \in Revoke, p \in Peer}

Stores ==
    [rows: SUBSET {RowOf(h, p) : h \in Handshake, p \in Peer},
     revocations: SUBSET {RevocationOf(v, p) : v \in Revoke, p \in Peer}]

Init ==
    /\ now = 0
    /\ mem = EmptyStore
    /\ file = EmptyStore
    /\ answer = [k \in Keys |-> "none"]
    /\ torn = {}
    /\ acks = [v \in Revoke |-> 0]

--------------------------------------------------------------------------------
\* The save: either the file takes what memory now holds and the caller is told
\* so, or write_json_private raises.
Returns(key, said) ==
    /\ file' = mem'
    /\ answer' = [answer EXCEPT ![key] = said]
    /\ torn' = torn \ {key}

Raises(key) ==
    /\ torn' = torn \cup {key}
    /\ UNCHANGED <<file, answer>>

CanEstablish(h, p) ==
    /\ ProvesConsent(h, Self, p, now)
    /\ ~ SeenProposal(mem, h.nonce)

Establish(h, p) ==
    /\ CanEstablish(h, p)
    /\ mem' = AddRow(mem, RowOf(h, p))
    /\ Returns(RowKey(RowOf(h, p)), "established")
    /\ UNCHANGED <<now, acks>>

EstablishSaveFails(h, p) ==
    /\ CanEstablish(h, p)
    /\ mem' = AddRow(mem, RowOf(h, p))
    /\ Raises(RowKey(RowOf(h, p)))
    /\ UNCHANGED <<now, acks>>

CanRevoke(v, p) ==
    /\ ProvesRevocation(v, Self, p, now)
    /\ ~ SeenRevocation(mem, v.nonce)

\* Mutant: a revoke that is not saved is acknowledged.
RevokeUnsaved(v, p) ==
    /\ CanRevoke(v, p)
    /\ mem' = DropRow(mem, RevocationOf(v, p))
    /\ answer' = [answer EXCEPT ![RowKey(RevocationOf(v, p))] = "revoked"]
    /\ acks' = [acks EXCEPT ![v] = @ + 1]
    /\ UNCHANGED <<now, file, torn>>

\* revoke() saves whether or not a row was removed, and returns which.
RevokeRow(v, p) ==
    /\ CanRevoke(v, p)
    /\ mem' = DropRow(mem, RevocationOf(v, p))
    /\ Returns(RowKey(RevocationOf(v, p)), "revoked")
    /\ acks' = [acks EXCEPT ![v] = @ + 1]
    /\ UNCHANGED now

RevokeSaveFails(v, p) ==
    /\ CanRevoke(v, p)
    /\ mem' = DropRow(mem, RevocationOf(v, p))
    /\ Raises(RowKey(RevocationOf(v, p)))
    /\ UNCHANGED <<now, acks>>

\* Mutant: the revocations are not read back.
LoadRowsOnly ==
    /\ mem' = [file EXCEPT !.revocations = {}]
    /\ UNCHANGED <<now, file, answer, torn, acks>>

\* RelationshipStore.load in a new process, or in the same one.
Load ==
    /\ mem' = file
    /\ UNCHANGED <<now, file, answer, torn, acks>>

Tick ==
    /\ now < MaxTime
    /\ now' = now + 1
    /\ UNCHANGED <<mem, file, answer, torn, acks>>

Next ==
    \/ \E h \in Handshake, p \in Peer : Establish(h, p) \/ EstablishSaveFails(h, p)
    \/ \E v \in Revoke, p \in Peer : RevokeRow(v, p) \/ RevokeSaveFails(v, p)
    \/ Load
    \/ Tick

Spec == Init /\ [][Next]_vars

--------------------------------------------------------------------------------
RowsUnder(store, key) == {r \in store.rows : RowKey(r) = key}

\* Unless the last call about a (peer, type, resource) raised while saving,
\* memory and file both hold exactly what that call said: one row after an
\* establish(), none after a revoke(), through restarts and the failed saves of
\* calls about other rows.
AnswersAreDurable ==
    \A k \in Keys \ torn : \A store \in {mem, file} :
        /\ answer[k] # "established" => RowsUnder(store, k) = {}
        /\ answer[k] = "established" => \E r \in store.rows : RowsUnder(store, k) = {r}

\* A revoke that was acknowledged is never applied again, not even after a
\* restart: a late second copy cannot end the relationship that followed.
RevokeOnce == \A v \in Revoke : acks[v] <= 1

\* Of one signed consent there is at most one active row, in memory and on
\* file, whichever keys the handshakes that share its nonce name.
OneRowPerConsent ==
    \A store \in {mem, file} :
        \A r, s \in store.rows : r.nonce = s.nonce => r = s
================================================================================
