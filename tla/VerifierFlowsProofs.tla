--------------------------- MODULE VerifierFlowsProofs ---------------------------
(***************************************************************************)
(* What the verification flow leaves in an agent's stores, and what a      *)
(* discovery promises the searcher and the target, for every set of agents, *)
(* identities and verifiers.                                               *)
(***************************************************************************)
EXTENDS Verification, Discovery, TLAPS

(***************************************************************************)
(* What the verification flow leaves in an agent's stores, for every       *)
(* lifetime of codes and attestations.                                     *)
(***************************************************************************)

\* An attestation about Me is about an identity whose code Me's user read.
Earned(a) == a.subject = Me => Owner[a.identity] = Me

AboutMe(a) == a.subject = Me /\ Owner[a.identity] = Me

\* Whatever is held, or is about to be, came out of a confirm call of Me.
EarnedInv ==
    /\ \A r \in signed : r.kind = "confirm" => Earned(r.att)
    /\ \A a \in got \cup held \cup heldFile : AboutMe(a)
    /\ task.step = "recording" => task.att \in got

\* Of what was recorded and has not expired, nothing is missing.  The dates are
\* those of attestations that were returned to Me.
KeptInv ==
    /\ now \in Nat
    /\ \A r \in signed : r.kind = "confirm" => r.att.until \in Nat
    /\ \A a \in got : a.until \in Nat
    /\ recorded \subseteq got
    /\ task.step = "recording" => task.att \in got
    /\ RecordedIsKept

\* Requests and codes bear numbers that have been used, ...
Numbered ==
    /\ calls \in Nat
    /\ \A q \in posted : q.nonce \in 1..calls
    /\ codes \subseteq [otp : 1..calls, identity : Identity, used : BOOLEAN, until : Nat]
    /\ posted \subseteq [nonce : 1..calls, identity : Identity, otp : Nat]

\* ... the request and the code of a start call name the identity it is for, ...
NamesIdentity ==
    task.step = "starting" =>
        /\ task.nonce \in 1..calls
        /\ \A q \in posted : q.nonce = task.nonce => q.identity = task.identity
        /\ \A c \in codes : c.otp = task.nonce => c.identity = task.identity

\* ... and a response to it says that the code was sent.
CodeWasSent ==
    \A r \in signed : r.kind = "start" /\ r.nonce # 0 =>
        r.otp = r.nonce /\ \E c \in codes : c.otp = r.otp

NamedInv == now \in Nat /\ Numbered /\ NamesIdentity /\ CodeWasSent /\ PendingIsTrue

--------------------------------------------------------------------------------
LEMMA EarnedStep == EarnedInv /\ [VerificationNext]_verificationVars => EarnedInv'
<1> SUFFICES ASSUME EarnedInv, [VerificationNext]_verificationVars PROVE EarnedInv'
  OBVIOUS
<1> USE DEF EarnedInv
<1>1. ASSUME NEW i \in Identity, Start(i) PROVE EarnedInv'
  BY <1>1 DEF Start, stores
<1>2. ASSUME NEW i \in Identity, OtherVerifies(i) PROVE EarnedInv'
  BY <1>2 DEF OtherVerifies, stores, Earned, Attested
<1>3. ASSUME NEW r \in pend, ConfirmNamed(r) PROVE EarnedInv'
  BY <1>3 DEF ConfirmNamed, PostConfirm, stores
<1>4. CASE ConfirmOnly
  BY <1>4 DEF ConfirmOnly, PostConfirm
<1>5. CASE FindsNone
  BY <1>5 DEF FindsNone, outside
<1>6. CASE CallFails
  BY <1>6 DEF CallFails, NoTask, outside, stores
<1>7. ASSUME NEW r \in signed, Started(r) PROVE EarnedInv'
  BY <1>7 DEF Started, NoTask, outside
<1>8. ASSUME NEW r \in signed, Confirmed(r) PROVE EarnedInv'
  <2>1. AboutMe(r.att)
    BY <1>8 DEF Confirmed, Answers, Earned, AboutMe
  <2> QED
    BY <1>8, <2>1 DEF Confirmed, outside, stores
<1>9. CASE RecordGot
  <2>1. task.att \in got /\ held' = held \cup {task.att} /\ heldFile' \in {held', heldFile}
    BY <1>9 DEF RecordGot, Record
  <2>2. task'.step # "recording" /\ UNCHANGED <<signed, got>>
    BY <1>9 DEF RecordGot, NoTask, outside
  <2> QED
    BY <2>1, <2>2
<1>10. ASSUME NEW a \in got, RecordAgain(a) PROVE EarnedInv'
  BY <1>10 DEF RecordAgain, Record, outside
<1>11. CASE RemoveRow
  BY <1>11 DEF RemoveRow, NoTask, outside
<1>12. CASE RemoveExpired
  BY <1>12 DEF RemoveExpired, outside
<1>13. CASE Restart
  BY <1>13 DEF Restart, NoTask, outside
<1>14. CASE Tick
  BY <1>14 DEF Tick, outside, stores
<1>15. ASSUME NEW q \in posted, VerifierStarts(q) PROVE EarnedInv'
  BY <1>15 DEF VerifierStarts, stores
<1>16. ASSUME NEW q \in posted, NEW c \in codes, VerifierConfirms(q, c) PROVE EarnedInv'
  BY <1>16 DEF VerifierConfirms, stores, Earned, Attested
<1>17. CASE UNCHANGED verificationVars
  BY <1>17 DEF verificationVars, outside, stores
<1> QED
  BY <1>1, <1>2, <1>3, <1>4, <1>5, <1>6, <1>7, <1>8, <1>9, <1>10, <1>11, <1>12, <1>13,
     <1>14, <1>15, <1>16, <1>17 DEF VerificationNext

LEMMA RecordStep ==
    ASSUME KeptInv, NEW a \in got, Record(a), UNCHANGED <<now, got>>
    PROVE  recorded' \subseteq got' /\ RecordedIsKept'
BY DEF KeptInv, Record, RecordedIsKept, Unexpired

LEMMA KeptStep == KeptInv /\ [VerificationNext]_verificationVars => KeptInv'
<1> SUFFICES ASSUME KeptInv, [VerificationNext]_verificationVars PROVE KeptInv'
  OBVIOUS
<1> USE VerificationAssumption DEF KeptInv, RecordedIsKept, Unexpired
<1>1. ASSUME NEW i \in Identity, Start(i) PROVE KeptInv'
  BY <1>1 DEF Start, stores
<1>2. ASSUME NEW i \in Identity, OtherVerifies(i) PROVE KeptInv'
  BY <1>2 DEF OtherVerifies, stores, Attested
<1>3. ASSUME NEW r \in pend, ConfirmNamed(r) PROVE KeptInv'
  BY <1>3 DEF ConfirmNamed, PostConfirm, stores
<1>4. CASE ConfirmOnly
  BY <1>4 DEF ConfirmOnly, PostConfirm
<1>5. CASE FindsNone
  BY <1>5 DEF FindsNone, outside
<1>6. CASE CallFails
  BY <1>6 DEF CallFails, NoTask, outside, stores
<1>7. ASSUME NEW r \in signed, Started(r) PROVE KeptInv'
  BY <1>7 DEF Started, NoTask, outside
<1>8. ASSUME NEW r \in signed, Confirmed(r) PROVE KeptInv'
  BY <1>8 DEF Confirmed, outside, stores
<1>9. CASE RecordGot
  <2>1. task.att \in got /\ Record(task.att) /\ UNCHANGED <<now, got, signed>>
    BY <1>9 DEF RecordGot, outside
  <2>2. task'.step # "recording"
    BY <1>9 DEF RecordGot, NoTask
  <2> QED
    BY <2>1, <2>2, RecordStep
<1>10. ASSUME NEW a \in got, RecordAgain(a) PROVE KeptInv'
  <2>1. Record(a) /\ UNCHANGED <<now, got, signed, task>>
    BY <1>10 DEF RecordAgain, outside
  <2> QED
    BY <2>1, RecordStep
<1>11. CASE RemoveRow
  BY <1>11 DEF RemoveRow, NoTask, outside
<1>12. CASE RemoveExpired
  BY <1>12 DEF RemoveExpired, outside
<1>13. CASE Restart
  BY <1>13 DEF Restart, NoTask, outside
<1>14. CASE Tick
  BY <1>14 DEF Tick, outside, stores
<1>15. ASSUME NEW q \in posted, VerifierStarts(q) PROVE KeptInv'
  BY <1>15 DEF VerifierStarts, stores
<1>16. ASSUME NEW q \in posted, NEW c \in codes, VerifierConfirms(q, c) PROVE KeptInv'
  BY <1>16 DEF VerifierConfirms, stores, Attested
<1>17. CASE UNCHANGED verificationVars
  BY <1>17 DEF verificationVars, outside, stores
<1> QED
  BY <1>1, <1>2, <1>3, <1>4, <1>5, <1>6, <1>7, <1>8, <1>9, <1>10, <1>11, <1>12, <1>13,
     <1>14, <1>15, <1>16, <1>17 DEF VerificationNext

\* A request is posted under the next number, and nothing else changes outside.
LEMMA PostFacts ==
    ASSUME NamedInv, NEW i \in Identity, NEW otp \in Nat,
           calls' = calls + 1,
           posted' = posted \cup {[nonce |-> calls', identity |-> i, otp |-> otp]},
           UNCHANGED <<now, codes, signed>>
    PROVE  /\ Numbered' /\ CodeWasSent'
           /\ \A q \in posted' : q.nonce = calls' => q.identity = i
           /\ \A c \in codes' : c.otp # calls'
<1> USE DEF NamedInv, Numbered
<1>1. /\ calls \in Nat /\ 1..calls \subseteq 1..calls'
      /\ calls' \in 1..calls' /\ calls' \notin 1..calls
  OBVIOUS
<1>2. Numbered'
  BY <1>1
<1>3. \A q \in posted' : q.nonce = calls' => q.identity = i
  BY <1>1
<1> QED
  BY <1>1, <1>2, <1>3 DEF CodeWasSent

LEMMA PostConfirmFacts ==
    ASSUME NamedInv, NEW otp, PostConfirm(otp), UNCHANGED <<now, codes, signed>>
    PROVE  Numbered' /\ CodeWasSent' /\ NamesIdentity'
<1>1. PICK c \in codes : c.otp = otp /\ posted' =
          posted \cup {[nonce |-> calls', identity |-> c.identity, otp |-> otp]}
  BY DEF PostConfirm
<1>2. c.identity \in Identity /\ otp \in Nat
  BY <1>1 DEF NamedInv, Numbered
<1>3. calls' = calls + 1 /\ task'.step = "confirming"
  BY DEF PostConfirm
<1> QED
  BY <1>1, <1>2, <1>3, PostFacts DEF NamesIdentity

LEMMA NamedStep == NamedInv /\ [VerificationNext]_verificationVars => NamedInv'
<1> SUFFICES ASSUME NamedInv, [VerificationNext]_verificationVars PROVE NamedInv'
  OBVIOUS
<1> USE VerificationAssumption DEF NamedInv, PendingIsTrue
\* Steps that leave the verifier alone, and the row of no call is new.
<1>0. ASSUME UNCHANGED <<now, calls, outside>>,
             task' = task \/ task'.step # "starting",
             pend' \cup pendFile' \subseteq pend \cup pendFile
      PROVE  NamedInv'
  BY <1>0 DEF outside, Numbered, NamesIdentity, CodeWasSent
<1>1. ASSUME NEW i \in Identity, Start(i) PROVE NamedInv'
  <2>1. /\ Numbered' /\ CodeWasSent'
        /\ \A q \in posted' : q.nonce = calls' => q.identity = i
        /\ \A c \in codes' : c.otp # calls'
    BY <1>1, PostFacts DEF Start
  <2>2. task' = [step |-> "starting", nonce |-> calls', identity |-> i] /\ calls' \in 1..calls'
    BY <1>1 DEF Start, Numbered
  <2> QED
    BY <1>1, <2>1, <2>2 DEF Start, stores, NamesIdentity
<1>2. ASSUME NEW i \in Identity, OtherVerifies(i) PROVE NamedInv'
  BY <1>2 DEF OtherVerifies, stores, Attested, Numbered, NamesIdentity, CodeWasSent
<1>3. ASSUME NEW r \in pend, ConfirmNamed(r) PROVE NamedInv'
  BY <1>3, PostConfirmFacts DEF ConfirmNamed, stores
<1>4. CASE ConfirmOnly
  <2>1. pend' \cup pendFile' \subseteq pend \cup pendFile
    BY <1>4 DEF ConfirmOnly, Pruned, Live
  <2> QED
    BY <1>4, <2>1, PostConfirmFacts DEF ConfirmOnly
<1>5. CASE FindsNone
  BY <1>0, <1>5 DEF FindsNone, Pruned, Live
<1>6. CASE CallFails
  BY <1>0, <1>6 DEF CallFails, NoTask, stores
<1>7. ASSUME NEW r \in signed, Started(r) PROVE NamedInv'
  <2> DEFINE row == [otp |-> r.otp, identity |-> task.identity, until |-> r.until]
  <2>1. /\ task.step = "starting" /\ r.kind = "start" /\ r.nonce = task.nonce
        /\ pend' \cup pendFile' \subseteq pend \cup pendFile \cup {row}
        /\ task' = NoTask /\ UNCHANGED <<now, calls, outside>>
    BY <1>7 DEF Started, Answers, Live
  <2>2. r.nonce # 0
    BY <2>1 DEF NamesIdentity, Numbered
  <2>3. \E c \in codes : c.otp = r.otp /\ c.identity = task.identity
    BY <2>1, <2>2 DEF CodeWasSent, NamesIdentity
  <2>4. PendingIsTrue'
    BY <2>1, <2>3 DEF outside
  <2> QED
    BY <2>1, <2>4 DEF NoTask, outside, Numbered, NamesIdentity, CodeWasSent
<1>8. ASSUME NEW r \in signed, Confirmed(r) PROVE NamedInv'
  BY <1>0, <1>8 DEF Confirmed, stores
<1>9. CASE RecordGot
  <2>1. task'.step # "starting"
    BY <1>9 DEF RecordGot, NoTask
  <2> QED
    BY <1>0, <1>9, <2>1 DEF RecordGot
<1>10. ASSUME NEW a \in got, RecordAgain(a) PROVE NamedInv'
  BY <1>0, <1>10 DEF RecordAgain
<1>11. CASE RemoveRow
  BY <1>0, <1>11 DEF RemoveRow, NoTask
<1>12. CASE RemoveExpired
  BY <1>0, <1>12 DEF RemoveExpired
<1>13. CASE Restart
  BY <1>0, <1>13 DEF Restart, NoTask, Live
<1>14. CASE Tick
  BY <1>14 DEF Tick, outside, stores, Numbered, NamesIdentity, CodeWasSent
<1>15. ASSUME NEW q \in posted, VerifierStarts(q) PROVE NamedInv'
  <2> DEFINE code == [otp |-> q.nonce, identity |-> q.identity, used |-> FALSE,
                      until |-> now + CodeTtl]
  <2>1. /\ posted' \subseteq posted /\ codes' = codes \cup {code}
        /\ UNCHANGED <<now, calls, task, stores>>
    BY <1>15 DEF VerifierStarts
  <2>2. code \in [otp : 1..calls, identity : Identity, used : BOOLEAN, until : Nat]
    BY DEF Numbered
  <2>3. code.otp = q.nonce /\ code.identity = q.identity
    OBVIOUS
  <2> HIDE DEF code
  <2>4. Numbered'
    BY <2>1, <2>2 DEF Numbered
  <2>5. NamesIdentity'
    BY <2>1, <2>3 DEF NamesIdentity
  <2>6. CodeWasSent'
    <3>1. \A r \in signed' \ signed : r.otp = r.nonce /\ r.otp = q.nonce
      BY <1>15 DEF VerifierStarts
    <3>2. SUFFICES ASSUME NEW r \in signed', r.kind = "start", r.nonce # 0
                   PROVE  r.otp = r.nonce /\ \E c \in codes' : c.otp = r.otp
      BY DEF CodeWasSent
    <3>3. CASE r \in signed
      BY <2>1, <3>2, <3>3 DEF CodeWasSent
    <3>4. CASE r \notin signed
      <4>1. r.otp = r.nonce /\ r.otp = q.nonce
        BY <3>1, <3>4
      <4> QED
        BY <2>1, <2>3, <4>1
    <3> QED
      BY <3>3, <3>4
  <2>7. PendingIsTrue'
    BY <2>1 DEF stores
  <2> QED
    BY <2>1, <2>4, <2>5, <2>6, <2>7
<1>16. ASSUME NEW q \in posted, NEW c \in codes, VerifierConfirms(q, c) PROVE NamedInv'
  <2> DEFINE d == [c EXCEPT !.used = TRUE]
  <2>1. /\ posted' \subseteq posted /\ codes' = (codes \ {c}) \cup {d}
        /\ UNCHANGED <<now, calls, task, stores>>
    BY <1>16 DEF VerifierConfirms
  <2>2. /\ d \in [otp : 1..calls, identity : Identity, used : BOOLEAN, until : Nat]
        /\ d.otp = c.otp /\ d.identity = c.identity
    BY DEF Numbered
  <2>3. Numbered' /\ NamesIdentity'
    BY <2>1, <2>2 DEF Numbered, NamesIdentity
  <2>4. CodeWasSent'
    BY <1>16, <2>1, <2>2 DEF VerifierConfirms, CodeWasSent
  <2>5. PendingIsTrue'
    BY <2>1, <2>2 DEF stores
  <2> QED
    BY <2>1, <2>3, <2>4, <2>5
<1>17. CASE UNCHANGED verificationVars
  BY <1>0, <1>17 DEF verificationVars, stores
<1> QED
  BY <1>1, <1>2, <1>3, <1>4, <1>5, <1>6, <1>7, <1>8, <1>9, <1>10, <1>11, <1>12, <1>13,
     <1>14, <1>15, <1>16, <1>17 DEF VerificationNext

--------------------------------------------------------------------------------
\* What the agent holds, it holds about itself, and its user read the code.
THEOREM OnlyEarnedIsHeld == VerificationSpec => []HeldIsEarned
<1>1. VerificationInit => EarnedInv
  BY DEF VerificationInit, EarnedInv, NoTask
<1>2. EarnedInv => HeldIsEarned
  BY DEF EarnedInv, HeldIsEarned, AboutMe
<1> QED
  BY <1>1, <1>2, EarnedStep, PTL DEF VerificationSpec

\* An attestation for which record() returned is kept until it expires.
THEOREM RecordedStays == VerificationSpec => []RecordedIsKept
<1>1. VerificationInit => KeptInv
  BY DEF VerificationInit, KeptInv, RecordedIsKept, NoTask
<1>2. KeptInv => RecordedIsKept
  BY DEF KeptInv
<1> QED
  BY <1>1, <1>2, KeptStep, PTL DEF VerificationSpec

\* A pending row names the identity that its code was sent to.
THEOREM RowsNameTheirIdentity == VerificationSpec => []PendingIsTrue
<1>1. VerificationInit => NamedInv
  BY DEF VerificationInit, NamedInv, Numbered, NamesIdentity, CodeWasSent, PendingIsTrue, NoTask
<1>2. NamedInv => PendingIsTrue
  BY DEF NamedInv
<1> QED
  BY <1>1, <1>2, NamedStep, PTL DEF VerificationSpec

--------------------------------------------------------------------------------
(***************************************************************************)
(* What query_discovery promises, for every list of candidates: an address *)
(* comes with the consent to this very call, and None after everybody was  *)
(* asked.                                                                  *)
(***************************************************************************)

WasAsked(c, k) == \E p \in queries : p.query = <<c.nr, k>>

CallType ==
    call \in [nr : Nat, list : Seq(Verifier), pos : Nat,
              state : {"none", "asking", "address", "None", "raised"}]

\* While the call runs, it has a candidate and has asked the ones up to it.
AskedSoFar ==
    call.state = "asking" =>
        /\ call.pos \in 1..Len(call.list)
        /\ \A k \in 1..call.pos : WasAsked(call, k)

\* Consent is on its way from the target to the verifier, and from there to the
\* searcher, only under the query whose introduction was approved.
ConsentBehind ==
    /\ \A m \in replies : m.yes => m.query \in approved
    /\ \A r \in responses : r.found => r.query \in approved

SearchInv == CallType /\ AskedSoFar /\ NoneMeansAllAsked

ConsentInv == CallType /\ ConsentBehind /\ FoundWithConsent

--------------------------------------------------------------------------------
\* The call that asks its next candidate, and the call that returns.
LEMMA AskFacts ==
    ASSUME NEW c \in [nr : Nat, list : Seq(Verifier), pos : Nat, state : {"asking"}],
           c.pos \in 1..Len(c.list),
           \A k \in 1..(c.pos - 1) : WasAsked(c, k),
           AskFrom(c)
    PROVE  SearchInv'
<1>1. CallType'
  BY DEF AskFrom, CallType
<1>2. ASSUME NEW k \in 1..c.pos PROVE WasAsked(c, k)'
  <2>1. CASE k = c.pos
    <3>1. [query |-> Query(c), verifier |-> Asked(c)] \in queries'
      BY DEF AskFrom
    <3> QED
      BY <2>1, <3>1 DEF WasAsked, Query
  <2>2. CASE k # c.pos
    <3>1. k \in 1..(c.pos - 1)
      BY <1>2, <2>2
    <3> QED
      BY <3>1 DEF AskFrom, WasAsked
  <2> QED
    BY <2>1, <2>2
<1> QED
  BY <1>1, <1>2 DEF AskFrom, SearchInv, AskedSoFar, NoneMeansAllAsked, WasAsked

\* A candidate that gave no address: the next one is asked, or there is none.
LEMMA GoOnFacts ==
    ASSUME SearchInv, call.state = "asking", GoOn
    PROVE  SearchInv' /\ call'.state \in {"asking", "None"} /\ call'.nr = call.nr
<1>1. call.pos \in 1..Len(call.list) /\ Len(call.list) \in Nat
  BY DEF SearchInv, CallType, AskedSoFar
<1>2. CASE call.pos < Len(call.list)
  <2> DEFINE c == [call EXCEPT !.pos = call.pos + 1]
  <2>1. AskFrom(c)
    BY <1>2 DEF GoOn
  <2>2. /\ c \in [nr : Nat, list : Seq(Verifier), pos : Nat, state : {"asking"}]
        /\ c.nr = call.nr /\ c.list = call.list /\ c.pos = call.pos + 1
    BY <1>1 DEF SearchInv, CallType
  <2>3. c.pos \in 1..Len(c.list)
    BY <1>1, <1>2, <2>2
  <2>4. ASSUME NEW k \in 1..(c.pos - 1) PROVE WasAsked(c, k)
    <3>1. k \in 1..call.pos
      BY <1>1, <2>2
    <3>2. WasAsked(call, k)
      BY <3>1 DEF SearchInv, AskedSoFar
    <3>3. c.nr = call.nr
      BY <2>2
    <3> HIDE DEF c
    <3> QED
      BY <3>2, <3>3 DEF WasAsked
  <2>5. SearchInv'
    BY <2>1, <2>2, <2>3, <2>4, AskFacts
  <2> QED
    BY <2>1, <2>2, <2>5 DEF AskFrom
<1>3. CASE ~ (call.pos < Len(call.list))
  <2>1. call.pos = Len(call.list) /\ Return("None")
    BY <1>1, <1>3 DEF GoOn
  <2>2. call' = [call EXCEPT !.state = "None"] /\ queries' = queries
    BY <2>1 DEF Return
  <2>3. CallType'
    BY <2>2 DEF SearchInv, CallType
  <2>4. \A k \in 1..Len(call.list) : WasAsked(call, k)
    BY <2>1 DEF SearchInv, AskedSoFar
  <2>5. call'.state = "None" /\ call'.nr = call.nr /\ call'.list = call.list
    BY <2>2 DEF SearchInv, CallType
  <2> QED
    BY <2>2, <2>3, <2>4, <2>5 DEF SearchInv, AskedSoFar, NoneMeansAllAsked, WasAsked
<1> QED
  BY <1>2, <1>3

--------------------------------------------------------------------------------
\* The search, step by step.  Only the searcher's own actions touch it.
LEMMA BeginStep ==
    ASSUME NEW list \in Candidates, SearchInv, Begin(list)
    PROVE  SearchInv' /\ call'.state = "asking"
<1> DEFINE c == [nr |-> call.nr + 1, list |-> list, pos |-> 1, state |-> "asking"]
<1>1. AskFrom(c) /\ Len(list) > 0
  BY DEF Begin
<1>2. list \in Seq(Verifier) /\ Len(list) \in Nat
  BY DiscoveryAssumption
<1>3. c \in [nr : Nat, list : Seq(Verifier), pos : Nat, state : {"asking"}]
  BY <1>2 DEF SearchInv, CallType
<1>4. c.pos \in 1..Len(c.list) /\ \A k \in 1..(c.pos - 1) : WasAsked(c, k)
  BY <1>1, <1>2
<1>5. SearchInv'
  BY <1>1, <1>3, <1>4, AskFacts
<1> QED
  BY <1>1, <1>5 DEF AskFrom

LEMMA AnsweredStep ==
    ASSUME NEW r \in responses, SearchInv, Answered(r)
    PROVE  SearchInv'
<1>1. CASE r.found
  <2>1. call' = [call EXCEPT !.state = "address"]
    BY <1>1 DEF Answered, Return
  <2> QED
    BY <2>1 DEF SearchInv, CallType, AskedSoFar, NoneMeansAllAsked
<1>2. CASE ~ r.found
  BY <1>2, GoOnFacts DEF Answered
<1> QED
  BY <1>1, <1>2

LEMMA SearchStep == SearchInv /\ [DiscoveryNext]_discoveryVars => SearchInv'
<1> SUFFICES ASSUME SearchInv, [DiscoveryNext]_discoveryVars PROVE SearchInv'
  OBVIOUS
<1>1. ASSUME NEW list \in Candidates, Begin(list) PROVE SearchInv'
  BY <1>1, BeginStep
<1>2. ASSUME NEW r \in responses, Answered(r) PROVE SearchInv'
  BY <1>2, AnsweredStep
<1>3. CASE NoAnswer
  BY <1>3, GoOnFacts DEF NoAnswer
<1>11. ASSUME NEW r \in responses, ResolverRaises(r) PROVE SearchInv'
  <2>1. call' = [call EXCEPT !.state = "raised"]
    BY <1>11 DEF ResolverRaises, Return
  <2> QED
    BY <2>1 DEF SearchInv, CallType, AskedSoFar, NoneMeansAllAsked
<1>4. CASE UNCHANGED searcher
  BY <1>4 DEF searcher, SearchInv, CallType, AskedSoFar, NoneMeansAllAsked, WasAsked
<1>5. ASSUME NEW p \in queries, Introduce(p) \/ SignsNull(p) PROVE UNCHANGED searcher
  BY <1>5 DEF Introduce, SignsNull
<1>6. ASSUME NEW m \in replies, PassesOn(m) PROVE UNCHANGED searcher
  BY <1>6 DEF PassesOn
<1>7. ASSUME NEW q, NEW yes, Resolve(q, yes) PROVE UNCHANGED searcher
  BY <1>7 DEF Resolve
<1>8. ASSUME NEW p \in introduced, Park(p) PROVE UNCHANGED searcher
  BY <1>8 DEF Park
<1>9. CASE TargetRestarts
  BY <1>4, <1>9 DEF TargetRestarts
<1>10. CASE UNCHANGED discoveryVars
  BY <1>4, <1>10 DEF discoveryVars
<1> QED
  BY <1>1, <1>2, <1>3, <1>4, <1>5, <1>6, <1>7, <1>8, <1>9, <1>10, <1>11
     DEF DiscoveryNext, ResolveRecent

--------------------------------------------------------------------------------
\* Consent, step by step.  What was approved stays approved.
LEMMA ConsentStep == SearchInv /\ ConsentInv /\ [DiscoveryNext]_discoveryVars => ConsentInv'
<1> SUFFICES ASSUME SearchInv, ConsentInv, [DiscoveryNext]_discoveryVars PROVE ConsentInv'
  OBVIOUS
<1>0. CallType'
  BY SearchStep DEF SearchInv
<1>1. ASSUME NEW list \in Candidates, Begin(list) PROVE ConsentInv'
  <2>1. call'.state = "asking" /\ UNCHANGED <<replies, responses, approved>>
    BY <1>1, BeginStep DEF Begin, AskFrom, mediators, target
  <2> QED
    BY <1>0, <2>1 DEF ConsentInv, ConsentBehind, FoundWithConsent
<1>2. ASSUME NEW r \in responses, Answered(r) PROVE ConsentInv'
  <2>1. UNCHANGED <<replies, responses, approved>>
    BY <1>2 DEF Answered, Return, GoOn, AskFrom, mediators, target
  <2>2. CASE r.found
    <3>1. call' = [call EXCEPT !.state = "address"]
      BY <1>2, <2>2 DEF Answered, Return
    <3>2. call'.nr = call.nr
      BY <3>1 DEF ConsentInv, CallType
    <3>3. r.query \in approved /\ r.query[1] = call.nr
      BY <1>2, <2>2 DEF ConsentInv, ConsentBehind, Answered, Accepted, Query
    <3> QED
      BY <1>0, <2>1, <3>2, <3>3 DEF ConsentInv, ConsentBehind, FoundWithConsent
  <2>3. CASE ~ r.found
    <3>1. call'.state \in {"asking", "None"}
      BY <1>2, <2>3, GoOnFacts DEF Answered
    <3> QED
      BY <1>0, <2>1, <3>1 DEF ConsentInv, ConsentBehind, FoundWithConsent
  <2> QED
    BY <2>2, <2>3
<1>3. CASE NoAnswer
  <2>1. UNCHANGED <<replies, responses, approved>>
    BY <1>3 DEF NoAnswer, Return, GoOn, AskFrom, mediators, target
  <2>2. call'.state \in {"asking", "None"}
    BY <1>3, GoOnFacts DEF NoAnswer
  <2> QED
    BY <1>0, <2>1, <2>2 DEF ConsentInv, ConsentBehind, FoundWithConsent
<1>10. ASSUME NEW r \in responses, ResolverRaises(r) PROVE ConsentInv'
  <2>1. UNCHANGED <<replies, responses, approved>>
    BY <1>10 DEF ResolverRaises, Return, mediators, target
  <2>2. call'.state = "raised"
    BY <1>10 DEF ResolverRaises, Return, ConsentInv, CallType
  <2> QED
    BY <1>0, <2>1, <2>2 DEF ConsentInv, ConsentBehind, FoundWithConsent
<1>4. ASSUME NEW p \in queries, Introduce(p) \/ SignsNull(p) PROVE ConsentInv'
  BY <1>0, <1>4 DEF Introduce, SignsNull, Sign, searcher, target, ConsentInv, ConsentBehind,
                    FoundWithConsent
<1>5. ASSUME NEW m \in replies, PassesOn(m) PROVE ConsentInv'
  BY <1>0, <1>5 DEF PassesOn, Sign, searcher, target, ConsentInv, ConsentBehind,
                    FoundWithConsent
<1>6. ASSUME NEW p \in introduced, Park(p) PROVE ConsentInv'
  BY <1>0, <1>6 DEF Park, searcher, mediators, ConsentInv, ConsentBehind, FoundWithConsent
<1>7. ASSUME NEW q, NEW yes \in BOOLEAN, Resolve(q, yes) PROVE ConsentInv'
  <2>1. UNCHANGED <<call, responses>> /\ approved \subseteq approved'
    BY <1>7 DEF Resolve, searcher, mediators
  <2>2. \A m \in replies' \ replies : m.yes => m.query \in approved'
    BY <1>7 DEF Resolve, SaveFails
  <2> QED
    BY <1>0, <2>1, <2>2 DEF ConsentInv, ConsentBehind, FoundWithConsent
<1>8. CASE TargetRestarts
  BY <1>0, <1>8 DEF TargetRestarts, searcher, mediators, ConsentInv, ConsentBehind, FoundWithConsent
<1>9. CASE UNCHANGED discoveryVars
  BY <1>0, <1>9 DEF discoveryVars, searcher, mediators, target, ConsentInv, ConsentBehind,
                    FoundWithConsent
<1> QED
  BY <1>1, <1>2, <1>3, <1>4, <1>5, <1>6, <1>7, <1>8, <1>9, <1>10 DEF DiscoveryNext, ResolveRecent

--------------------------------------------------------------------------------
\* query_discovery returns None only after every candidate was asked, whatever
\* the verifiers answer and in whatever order their answers come.
THEOREM EverybodyAsked == DiscoverySpec => []NoneMeansAllAsked
<1>1. DiscoveryInit => SearchInv
  BY DEF DiscoveryInit, SearchInv, CallType, AskedSoFar, NoneMeansAllAsked
<1>2. SearchInv => NoneMeansAllAsked
  BY DEF SearchInv
<1> QED
  BY <1>1, <1>2, SearchStep, PTL DEF DiscoverySpec

\* The searcher gets an address only when the target's user approved an
\* introduction of this very call.
THEOREM ConsentBeforeAddress == DiscoverySpec => []FoundWithConsent
<1>1. DiscoveryInit => SearchInv /\ ConsentInv
  BY DEF DiscoveryInit, SearchInv, ConsentInv, CallType, AskedSoFar, NoneMeansAllAsked,
         ConsentBehind, FoundWithConsent
<1>2. ConsentInv => FoundWithConsent
  BY DEF ConsentInv
<1> QED
  BY <1>1, <1>2, SearchStep, ConsentStep, PTL DEF DiscoverySpec
================================================================================
