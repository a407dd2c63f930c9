----------------------------- MODULE Verification -----------------------------
(***************************************************************************)
(* How an agent's user proves to own a phone number or a mail address:     *)
(* the calls of verifier_client, the pending codes and the attestations of *)
(* the agent Me, and what a recipient makes of an attestation.  The        *)
(* verifier, which sends codes and signs, is external.  What comes back to *)
(* a call is any response the verifier ever signed, or an error: its own,  *)
(* the one to an earlier call, or the one to another agent.                *)
(***************************************************************************)
EXTENDS Naturals, FiniteSets

CONSTANTS
    Agent, Me,
    Identity,
    Owner,       \* per identity, the agent whose user reads what is sent there
    CodeTtl,     \* how long a code can be confirmed
    AttTtl,      \* how long an attestation lasts
    MaxTime,     \* bound: the clock stops here
    MaxCalls     \* bound: calls of Me to the verifier

ASSUME VerificationAssumption ==
    /\ Me \in Agent /\ Owner \in [Identity -> Agent]
    /\ {CodeTtl, AttTtl, MaxTime, MaxCalls} \subseteq Nat

VARIABLES
    now,
    calls,       \* how many request nonces Me has used
    posted,      \* requests the verifier has not handled
    codes,       \* the codes it sent, with the identity and the subject
    signed,      \* the responses it signed
    task,        \* the command of Me that is running
    pend, pendFile,     \* PendingVerifications: rows by otp_id
    held, heldFile,     \* AttestationStore; the order of the list is left out
    got,         \* attestations that confirm calls returned to Me
    recorded     \* history: those for which record() returned

outside == <<posted, codes, signed>>
stores == <<pend, pendFile, held, heldFile>>
verificationVars == <<now, calls, outside, task, stores, got, recorded>>

NoTask == [step |-> "none"]

VerificationInit ==
    /\ now = 0 /\ calls = 0
    /\ posted = {} /\ codes = {} /\ signed = {}
    /\ task = NoTask
    /\ pend = {} /\ pendFile = {}
    /\ held = {} /\ heldFile = {}
    /\ got = {} /\ recorded = {}

--------------------------------------------------------------------------------
\* start_sms_verification and its like, up to the await.
Start(i) ==
    /\ task = NoTask /\ calls < MaxCalls
    /\ calls' = calls + 1
    /\ task' = [step |-> "starting", nonce |-> calls', identity |-> i]
    /\ posted' = posted \cup {[nonce |-> calls', identity |-> i, otp |-> 0]}
    /\ UNCHANGED <<now, codes, signed, stores, got, recorded>>

PostConfirm(otp) ==
    /\ task = NoTask /\ calls < MaxCalls
    /\ calls' = calls + 1
    /\ task' = [step |-> "confirming", nonce |-> calls', otp |-> otp]
    /\ \E c \in codes : c.otp = otp /\ posted' =
          posted \cup {[nonce |-> calls', identity |-> c.identity, otp |-> otp]}

Live(rows) == {r \in rows : r.until > now}

\* prune_expired writes the file only when it dropped a row.
Pruned == pend' = Live(pend) /\ pendFile' = IF pend' = pend THEN pendFile ELSE pend'

\* A confirm command with the otp_id; rows are looked up expired or not.
ConfirmNamed(r) ==
    /\ PostConfirm(r.otp)
    /\ UNCHANGED <<now, codes, signed, stores, got, recorded>>

\* A confirm command without: find_one wants one row to be left.
ConfirmOnly ==
    /\ Pruned
    /\ \E r \in pend' : pend' = {r} /\ PostConfirm(r.otp)
    /\ UNCHANGED <<now, codes, signed, held, heldFile, got, recorded>>

\* find_one among no rows or several: only the pruning stays, with a save that
\* may raise.
FindsNone ==
    /\ pend # Live(pend)
    /\ \/ Pruned /\ Cardinality(pend') # 1
       \/ pend' = Live(pend) /\ UNCHANGED pendFile
    /\ UNCHANGED <<now, calls, outside, task, held, heldFile, got, recorded>>

\* The call raises: no connection, an HTTP error, a response that is refused.
CallFails ==
    /\ task.step \in {"starting", "confirming"}
    /\ task' = NoTask
    /\ UNCHANGED <<now, calls, outside, stores, got, recorded>>

\* Mutant: a response counts when it verifies, whatever call it answers.
AnyResponse(r) == TRUE

\* The checks of _post_start and _post_confirm on a response that verifies.
Answers(r) ==
    /\ r.nonce = task.nonce
    /\ r.kind = "confirm" => r.otp = task.otp /\ r.att.subject = Me

\* add(): the row takes the place of any other for this identity.
Started(r) ==
    LET row == [otp |-> r.otp, identity |-> task.identity, until |-> r.until]
    IN  /\ task.step = "starting" /\ r.kind = "start" /\ Answers(r)
        /\ pend' = {p \in Live(pend) : p.identity # row.identity} \cup {row}
        /\ pendFile' \in {pend', pendFile}      \* the save may raise
        /\ task' = NoTask
        /\ UNCHANGED <<now, calls, outside, held, heldFile, got, recorded>>

Confirmed(r) ==
    /\ task.step = "confirming" /\ r.kind = "confirm" /\ Answers(r)
    /\ got' = got \cup {r.att}
    /\ task' = [step |-> "recording", otp |-> task.otp, att |-> r.att]
    /\ UNCHANGED <<now, calls, outside, stores, recorded>>

IsNew(a) == \A b \in held : b.nonce # a.nonce

\* Mutant: record() returns and does not save.
RecordUnsaved(a) ==
    /\ IsNew(a)
    /\ held' = held \cup {a}
    /\ recorded' = recorded \cup {a}
    /\ UNCHANGED heldFile

\* AttestationStore.record, with a save that may raise.
Record(a) ==
    /\ IsNew(a)
    /\ held' = held \cup {a}
    /\ \/ heldFile' = held' /\ recorded' = recorded \cup {a}
       \/ UNCHANGED <<heldFile, recorded>>

\* The host records what it got and then removes the pending row; it stops at
\* an error, which is why it may come to record the same thing once more.
RecordGot ==
    /\ task.step = "recording" /\ Record(task.att)
    /\ task' = IF task.att \in recorded' THEN [task EXCEPT !.step = "removing"] ELSE NoTask
    /\ UNCHANGED <<now, calls, outside, pend, pendFile, got>>

RecordAgain(a) ==
    /\ task = NoTask /\ Record(a)
    /\ UNCHANGED <<now, calls, outside, task, pend, pendFile, got>>

RemoveRow ==
    /\ task.step = "removing"
    /\ pend' = {p \in pend : p.otp # task.otp}
    /\ pendFile' \in {pendFile, IF pend' = pend THEN pendFile ELSE pend'}
    /\ task' = NoTask
    /\ UNCHANGED <<now, calls, outside, held, heldFile, got, recorded>>

Unexpired(a) == a.until > now

RemoveExpired ==
    /\ held' = {a \in held : Unexpired(a)}
    /\ heldFile' \in {heldFile, IF held' = held THEN heldFile ELSE held'}
    /\ UNCHANGED <<now, calls, outside, task, pend, pendFile, got, recorded>>

\* The process dies wherever it is; load() prunes the pending rows.
Restart ==
    /\ task' = NoTask
    /\ pend' = Live(pendFile) /\ pendFile' = pend'
    /\ held' = heldFile
    /\ UNCHANGED <<now, calls, outside, heldFile, got, recorded>>

--------------------------------------------------------------------------------
\* The verifier sends a code, or finds the code that the user typed right.
VerifierStarts(q) ==
    /\ q.otp = 0
    /\ posted' = posted \ {q}
    /\ codes' = codes \cup {[otp |-> q.nonce, identity |-> q.identity, used |-> FALSE,
                             until |-> now + CodeTtl]}
    /\ signed' = signed \cup {[kind |-> "start", nonce |-> q.nonce, otp |-> q.nonce,
                               until |-> now + CodeTtl]}
    /\ UNCHANGED <<now, calls, task, stores, got, recorded>>

Attested(i, subject, nonce) ==
    [identity |-> i, subject |-> subject, nonce |-> nonce, until |-> now + AttTtl]

VerifierConfirms(q, c) ==
    /\ q.otp = c.otp /\ ~ c.used /\ c.until > now /\ Owner[c.identity] = Me
    /\ posted' = posted \ {q}
    /\ codes' = (codes \ {c}) \cup {[c EXCEPT !.used = TRUE]}
    /\ signed' = signed \cup {[kind |-> "confirm", nonce |-> q.nonce, otp |-> c.otp,
                               att |-> Attested(c.identity, Me, q.nonce)]}
    /\ UNCHANGED <<now, calls, task, stores, got, recorded>>

\* Another agent goes through the same with an identity of its user.
OtherVerifies(i) ==
    /\ Owner[i] # Me
    /\ \A r \in signed : r.nonce # 0
    /\ signed' = signed \cup
          { [kind |-> "start", nonce |-> 0, otp |-> 0, until |-> now + CodeTtl],
            [kind |-> "confirm", nonce |-> 0, otp |-> 0, att |-> Attested(i, Owner[i], 0)] }
    /\ UNCHANGED <<now, calls, posted, codes, task, stores, got, recorded>>

Tick ==
    /\ now < MaxTime
    /\ now' = now + 1
    /\ UNCHANGED <<calls, outside, task, stores, got, recorded>>

VerificationNext ==
    \/ \E i \in Identity : Start(i) \/ OtherVerifies(i)
    \/ \E r \in pend : ConfirmNamed(r)
    \/ ConfirmOnly \/ FindsNone \/ CallFails
    \/ \E r \in signed : Started(r) \/ Confirmed(r)
    \/ RecordGot \/ RemoveRow \/ RemoveExpired \/ Restart \/ Tick
    \/ \E a \in got : RecordAgain(a)
    \/ \E q \in posted : VerifierStarts(q) \/ \E c \in codes : VerifierConfirms(q, c)

VerificationSpec == VerificationInit /\ [][VerificationNext]_verificationVars

--------------------------------------------------------------------------------
\* A pending row names the identity that its code was sent to, so the code that
\* the user types is confirmed for the identity the user sees: no response of
\* another call is taken for the answer to a start.
PendingIsTrue ==
    \A r \in pend \cup pendFile :
        \E c \in codes : c.otp = r.otp /\ c.identity = r.identity

\* What the agent holds, it holds about itself, and its user read the code:
\* through stale responses, failed saves, crashes and calls made again.
HeldIsEarned ==
    \A a \in held \cup heldFile : a.subject = Me /\ Owner[a.identity] = Me

\* An attestation for which record() returned is in the store until it expires.
RecordedIsKept ==
    \A a \in recorded : Unexpired(a) => a \in held \cap heldFile
================================================================================
