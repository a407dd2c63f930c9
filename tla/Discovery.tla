------------------------------- MODULE Discovery -------------------------------
(***************************************************************************)
(* A searcher's query_discovery calls, one after the other; the verifiers  *)
(* that mediate, which are external; and the target, whose host parks each *)
(* introduction in PendingIntroductions until the user answers.            *)
(*                                                                         *)
(* A query is <<call, position>>, which stands for its nonce and, at the   *)
(* verifier and the target, for verifier_nonce.  What comes back to a call *)
(* is any response a verifier ever signed, or an error.  The dates of the  *)
(* responses are left out: a stale or expired one is refused like a        *)
(* damaged one, and any may be.                                            *)
(***************************************************************************)
EXTENDS Naturals, Sequences, FiniteSets, SequencesExt

CONSTANTS
    Verifier,
    Candidates,   \* the lists of verifiers that a call may find trusted
    MaxQueries,   \* bound: queries of all calls, if every candidate is asked
    MaxAsked,     \* bound: introductions that verifiers send
    MaxFaults,    \* bound: saves that fail
    Nobody        \* None, and no query

ASSUME DiscoveryAssumption ==
    /\ Candidates \subseteq Seq(Verifier)
    /\ {MaxQueries, MaxAsked, MaxFaults} \subseteq Nat

VARIABLES
    call,         \* the running or last call: its number, list, position, state
    queries,      \* queries that reached their verifier
    introduced,   \* introductions sent to the target
    replies,      \* the target's responses, signed by it
    responses,    \* the verifiers' responses: query, issuer, found
    rows, rowsFile,   \* PendingIntroductions: the keys of a dict, in its order
    faults,       \* how many saves have failed
    approved      \* history: the introductions the user said yes to

searcher == <<call, queries>>
mediators == <<introduced, responses>>
target == <<replies, rows, rowsFile, faults, approved>>
discoveryVars == <<searcher, mediators, target>>

DiscoveryInit ==
    /\ call = [nr |-> 0, list |-> <<>>, pos |-> 0, state |-> "none"]
    /\ queries = {} /\ introduced = {} /\ replies = {} /\ responses = {}
    /\ rows = <<>> /\ rowsFile = <<>> /\ faults = 0
    /\ approved = {}

--------------------------------------------------------------------------------
\* The query of a call, and the verifier it is posted to.
Query(c) == <<c.nr, c.pos>>
Asked(c) == c.list[c.pos]

\* The loop body up to its await: a new nonce, a query to the next verifier.
AskFrom(c) ==
    /\ call' = c
    /\ queries' = queries \cup {[query |-> Query(c), verifier |-> Asked(c)]}
    /\ UNCHANGED <<mediators, target>>

\* A call that finds no candidate returns None without a trace.
Begin(list) ==
    /\ call.state # "asking"
    /\ Len(list) > 0 /\ Cardinality(queries) + Len(list) <= MaxQueries
    /\ AskFrom([nr |-> call.nr + 1, list |-> list, pos |-> 1, state |-> "asking"])

Return(result) == call' = [call EXCEPT !.state = result] /\ UNCHANGED <<queries, mediators, target>>

\* Mutant: an error ends the call.
GoOnOrReturn == Return("None")

\* Mutant: the verifier that did not answer is asked once more.
AskAgain == AskFrom(call)

\* "null / empty: try the next verifier", and the same after any error.
GoOn ==
    IF call.pos < Len(call.list)
    THEN AskFrom([call EXCEPT !.pos = @ + 1])
    ELSE Return("None")

\* Mutant: the nonce is not compared.
SignedByAsked(r) == r.verifier = Asked(call)

\* _verified_query_result: the issuer asked, the nonce of this query.
Accepted(r) == r.verifier = Asked(call) /\ r.query = Query(call)

Answered(r) ==
    /\ call.state = "asking" /\ Accepted(r)
    /\ IF r.found THEN Return("address") ELSE GoOn

\* No connection, a timeout, an HTTP error, a response that is refused.
NoAnswer == call.state = "asking" /\ GoOn

\* The caller's key resolver raises something else than EnvelopeError, ValueError
\* or TypeError, when the response at hand names the verifier that was asked.
ResolverRaises(r) ==
    /\ call.state = "asking" /\ r.verifier = Asked(call)
    /\ Return("raised")

--------------------------------------------------------------------------------
Sign(q, v, found) == responses' = responses \cup {[query |-> q, verifier |-> v, found |-> found]}

IsOpen(p) == \A r \in responses : r.query # p.query

\* External: the verifier knows the identity and asks its owner, ...
Introduce(p) ==
    /\ IsOpen(p) /\ p \notin introduced /\ Cardinality(introduced) < MaxAsked
    /\ introduced' = introduced \cup {p}
    /\ UNCHANGED <<searcher, responses, target>>

\* ... or it does not, or the wait for the owner ended.
SignsNull(p) ==
    /\ IsOpen(p) /\ Sign(p.query, p.verifier, FALSE)
    /\ UNCHANGED <<searcher, introduced, target>>

\* It takes the first response of the owner.
PassesOn(m) ==
    /\ \E p \in introduced :
          /\ p.query = m.query /\ IsOpen(p) /\ Sign(p.query, p.verifier, m.yes)
    /\ UNCHANGED <<searcher, introduced, target>>

--------------------------------------------------------------------------------
\* A key that is in a dict keeps its place there.
Added(q) == IF q \in ToSet(rows) THEN rows ELSE Append(rows, q)

SaveFails == faults < MaxFaults /\ faults' = faults + 1 /\ UNCHANGED rowsFile

\* add(), whenever the introduction is delivered, with a save that may raise.
Park(p) ==
    /\ rows' = Added(p.query)
    /\ \/ rowsFile' = rows' /\ UNCHANGED faults
       \/ SaveFails
    /\ UNCHANGED <<searcher, mediators, replies, approved>>

\* The user answers: resolve() and, when it returned, the signed response.
Resolve(q, yes) ==
    /\ q \in ToSet(rows)
    /\ rows' = SelectSeq(rows, LAMBDA k : k # q)
    /\ \/ rowsFile' = rows' /\ replies' = replies \cup {[query |-> q, yes |-> yes]}
          /\ UNCHANGED faults
       \/ SaveFails /\ UNCHANGED replies
    /\ approved' = IF yes THEN approved \cup {q} ELSE approved
    /\ UNCHANGED <<searcher, mediators>>

\* most_recent_nonce: the last key of the dict.
MostRecent == IF rows = <<>> THEN Nobody ELSE Last(rows)

\* A bare "approve" or "deny".
ResolveRecent(yes) == MostRecent # Nobody /\ Resolve(MostRecent, yes)

TargetRestarts ==
    /\ rows' = rowsFile
    /\ UNCHANGED <<searcher, mediators, replies, rowsFile, faults, approved>>

DiscoveryNext ==
    \/ \E list \in Candidates : Begin(list)
    \/ \E r \in responses : Answered(r) \/ ResolverRaises(r)
    \/ NoAnswer
    \/ \E p \in queries : Introduce(p) \/ SignsNull(p)
    \/ \E m \in replies : PassesOn(m)
    \/ \E p \in introduced : Park(p) \/ \E yes \in BOOLEAN : Resolve(p.query, yes)
    \/ \E yes \in BOOLEAN : ResolveRecent(yes)
    \/ TargetRestarts

\* The HTTP client gives up after timeout_seconds + 5.
DiscoverySpec == DiscoveryInit /\ [][DiscoveryNext]_discoveryVars /\ WF_discoveryVars(NoAnswer)

--------------------------------------------------------------------------------
\* A call returns the address only when the target's user approved an
\* introduction that this very call caused: the consent to an earlier call does
\* not count, though its signed answer may come back.
FoundWithConsent ==
    call.state = "address" => \E q \in approved : q[1] = call.nr

\* None is returned only after every candidate was asked and the last one
\* failed or said no: an error of one verifier does not end the search.
NoneMeansAllAsked ==
    call.state = "None" =>
        \A k \in 1..Len(call.list) : \E p \in queries : p.query = <<call.nr, k>>

\* Every call returns, whatever verifiers and targets do.
QueryReturns == call.state = "asking" ~> call.state # "asking"
================================================================================
