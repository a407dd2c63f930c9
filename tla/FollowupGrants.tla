----------------------------- MODULE FollowupGrants -----------------------------
(***************************************************************************)
(* One agent's FollowupGrantStore: signed grants that arrive any number of *)
(* times, the follow-ups that they allow, revocations, failed saves and    *)
(* restarts, against a bounded clock.  A grant is a record                 *)
(*    issuer, service, nonce, iat, authentic                               *)
(*    cadence, window   how often, and how much earlier than due           *)
(*    until             the end of its lifetime                            *)
(* The host looks a row up by nonce, asks whether it is within its         *)
(* lifetime and its outreach window, and stamps it, in one handler.        *)
(***************************************************************************)
EXTENDS EnvelopePolicy, Sequences, FiniteSets

CONSTANTS
    Peer,        \* this agent's counterparties
    Grant,       \* the signed grants that exist
    MaxUses,     \* bound: follow-ups under one nonce
    MaxTime,     \* bound: the clock stops here
    Never

ASSUME GrantAssumption ==
    /\ \A g \in Grant : {g.iat, g.until, g.cadence, g.window} \subseteq Nat
    /\ {MaxUses, MaxTime} \subseteq Nat /\ Never \notin Nat

VARIABLES
    now,
    mem,        \* the rows in the store object
    file,       \* the rows in aap-followup-grants.json
    dropped,    \* history: the nonces whose row was replaced or revoked
    uses        \* history: per nonce, when follow-ups were let through

grantsVars == <<now, mem, file, dropped, uses>>

Nonces == {g.nonce : g \in Grant}

GrantsInit ==
    /\ now = 0
    /\ mem = {} /\ file = {}
    /\ dropped = {}
    /\ uses = [n \in Nonces |-> <<>>]

--------------------------------------------------------------------------------
Under(rows, direction, peer, service) ==
    {r \in rows : r.direction = direction /\ r.peer = peer /\ r.grant.service = service}

Row(direction, peer, g) ==
    [direction |-> direction, peer |-> peer, grant |-> g, lastUsed |-> Never]

\* The checks of _record.
CanRecord(peer, g) ==
    /\ g.issuer = peer
    /\ g.authentic /\ FreshIat(g.iat, now)
    /\ \A r \in mem : r.grant.nonce # g.nonce

\* The new row takes the place of the one for the same peer and service.
Recorded(direction, peer, g) ==
    (mem \ Under(mem, direction, peer, g.service)) \cup {Row(direction, peer, g)}

\* record_issued or record_received, up to the return.
Record(direction, peer, g) ==
    /\ CanRecord(peer, g)
    /\ mem' = Recorded(direction, peer, g)
    /\ file' = mem'
    /\ dropped' = dropped \cup {r.grant.nonce : r \in mem \ mem'}
    /\ UNCHANGED <<now, uses>>

\* The save raises and memory keeps the row.
RecordSaveFails(direction, peer, g) ==
    /\ CanRecord(peer, g)
    /\ mem' = Recorded(direction, peer, g)
    /\ dropped' = dropped \cup {r.grant.nonce : r \in mem \ mem'}
    /\ UNCHANGED <<now, file, uses>>

WithinLifetime(r) == r.grant.until > now

\* Mutant: the window counts from the grant, not from its last use.
WithinWindowOfIssue(r) == now >= r.grant.iat + r.grant.cadence - r.grant.window

\* is_within_outreach_window: the early side only.
WithinWindow(r) ==
    LET anchor == IF r.lastUsed = Never THEN r.grant.iat ELSE r.lastUsed
    IN  now >= anchor + r.grant.cadence - r.grant.window

Stamped(r) == (mem \ {r}) \cup {[r EXCEPT !.lastUsed = WholeSeconds(now)]}

\* A follow-up under r is let through, and the row stamped and saved.
FollowUp(r) ==
    /\ WithinLifetime(r) /\ WithinWindow(r)
    /\ Len(uses[r.grant.nonce]) < MaxUses
    /\ mem' = Stamped(r)
    /\ file' = mem'
    /\ uses' = [uses EXCEPT ![r.grant.nonce] = Append(@, now)]
    /\ UNCHANGED <<now, dropped>>

\* stamp_used raises: the host stops before it acts on the follow-up.
FollowUpSaveFails(r) ==
    /\ WithinLifetime(r) /\ WithinWindow(r)
    /\ mem' = Stamped(r)
    /\ UNCHANGED <<now, file, dropped, uses>>

Revoke(direction, peer, service) ==
    /\ Under(mem, direction, peer, service) # {}
    /\ mem' = mem \ Under(mem, direction, peer, service)
    /\ file' = mem'
    /\ dropped' = dropped \cup {r.grant.nonce : r \in mem \ mem'}
    /\ UNCHANGED <<now, uses>>

\* revoke() raises while saving: the row is gone until a restart brings it back.
RevokeSaveFails(direction, peer, service) ==
    /\ Under(mem, direction, peer, service) # {}
    /\ mem' = mem \ Under(mem, direction, peer, service)
    /\ dropped' = dropped \cup {r.grant.nonce : r \in mem \ mem'}
    /\ UNCHANGED <<now, file, uses>>

Load ==
    /\ mem' = file
    /\ UNCHANGED <<now, file, dropped, uses>>

Tick ==
    /\ now < MaxTime
    /\ now' = now + 1
    /\ UNCHANGED <<mem, file, dropped, uses>>

GrantsNext ==
    \/ \E p \in Peer, g \in Grant :
          \E d \in {"issued", "received"} : Record(d, p, g) \/ RecordSaveFails(d, p, g)
    \/ \E r \in mem : FollowUp(r) \/ FollowUpSaveFails(r)
    \/ \E d \in {"issued", "received"}, p \in Peer, g \in Grant :
          Revoke(d, p, g.service) \/ RevokeSaveFails(d, p, g.service)
    \/ Load
    \/ Tick

GrantsSpec == GrantsInit /\ [][GrantsNext]_grantsVars

--------------------------------------------------------------------------------
\* "ONE follow-up proposal per cadence window": under a grant that was neither
\* replaced nor revoked, two follow-ups are a cadence less the outreach window
\* apart, up to the second that the stamp is cut down to, through failed stamps
\* and restarts.
FollowUpsAreSpaced ==
    \A g \in {r.grant : r \in file} : g.nonce \notin dropped =>
        \A i \in 1..(Len(uses[g.nonce]) - 1) :
            uses[g.nonce][i + 1] > uses[g.nonce][i] + g.cadence - g.window - Second

\* A grant is stored only when its "nonce has not been stored before": one that
\* was replaced or revoked does not come back to the file.
StoredOnce ==
    [][\A r \in file' : r.grant.nonce \in dropped =>
          \E s \in file : s.grant.nonce = r.grant.nonce]_grantsVars
================================================================================
