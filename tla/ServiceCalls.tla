------------------------------- MODULE ServiceCalls -------------------------------
(***************************************************************************)
(* A customer's service requests: the tool call that sends one and awaits  *)
(* a future (PendingResponses), the ledger of requests and responses       *)
(* (ServiceRequestStore: memory and file), and the handler of inbound      *)
(* responses, which records a response, resolves the future, and mirrors   *)
(* the response to the user when no tool is waiting for it.  Tool and      *)
(* handler are the host's and not part of the library; they follow the     *)
(* protocol that PendingResponses describes.                               *)
(*                                                                         *)
(* A response is a record [nonce, request, iss, service, fresh]: fresh   *)
(* says that its signature and timestamp hold.  Its status decides nothing.*)
(***************************************************************************)
EXTENDS Integers

CONSTANTS
    Request,      \* the request nonces; one business, one service each
    Business,     \* the business a request goes to, by request
    Service,      \* the service it names, by request
    Response      \* the signed responses that may arrive

ASSUME ServiceAssumption ==
    \A v \in Response : v.fresh \in BOOLEAN

VARIABLES
    ledger,     \* the store: [pending, responses]
    ledgerFile, \* aap-service-requests.json
    tool,       \* per request: idle, waiting, resolved, expired, returned
    futures,    \* the requests in PendingResponses._futures
    answer,     \* per request, the responses its future was resolved with
    told,       \* history: per response, how often the user was told
    cut         \* history: responses whose handling was interrupted

callsVars == <<ledger, ledgerFile, tool, futures, answer, told, cut>>

Empty == [pending |-> {}, responses |-> {}]

CallsInit ==
    /\ ledger = Empty /\ ledgerFile = Empty
    /\ tool = [r \in Request |-> "idle"]
    /\ futures = {}
    /\ answer = [r \in Request |-> {}]
    /\ told = [v \in Response |-> 0]
    /\ cut = {}

--------------------------------------------------------------------------------
Responded(v) == [pending |-> ledger.pending \ {v.request}, responses |-> ledger.responses \cup {v}]

\* A response answers a request that was sent.
Sent(r) == tool[r] # "idle"

\* The checks of record_response.
Expected(v) ==
    /\ v.fresh
    /\ \A w \in ledger.responses : w.nonce # v.nonce
    /\ v.request \in ledger.pending
    /\ v.iss = Business[v.request]
    /\ v.service = Service[v.request]

\* The tool records the request, registers a future and sends.
Call(r) ==
    /\ tool[r] = "idle"
    /\ r \notin ledger.pending
    /\ ledger' = [ledger EXCEPT !.pending = @ \cup {r}]
    /\ ledgerFile' = ledger'
    /\ futures' = futures \cup {r}
    /\ tool' = [tool EXCEPT ![r] = "waiting"]
    /\ UNCHANGED <<answer, told, cut>>

\* The save of record_request raises: nothing is sent, and memory has the row.
CallSaveFails(r) ==
    /\ tool[r] = "idle"
    /\ r \notin ledger.pending
    /\ ledger' = [ledger EXCEPT !.pending = @ \cup {r}]
    /\ UNCHANGED <<ledgerFile, tool, futures, answer, told, cut>>

\* The tool's wait times out: its future is cancelled, and still registered.
Expire(r) ==
    /\ tool[r] = "waiting"
    /\ tool' = [tool EXCEPT ![r] = "expired"]
    /\ UNCHANGED <<ledger, ledgerFile, futures, answer, told, cut>>

\* It clears the registration and returns without a response.
Clear(r) ==
    /\ tool[r] = "expired"
    /\ futures' = futures \ {r}
    /\ tool' = [tool EXCEPT ![r] = "returned"]
    /\ UNCHANGED <<ledger, ledgerFile, answer, told, cut>>

\* The future has a result and the tool returns it to the user.
Return(r) ==
    /\ tool[r] = "resolved"
    /\ told' = [v \in Response |-> told[v] + IF v \in answer[r] THEN 1 ELSE 0]
    /\ tool' = [tool EXCEPT ![r] = "returned"]
    /\ UNCHANGED <<ledger, ledgerFile, futures, answer, cut>>

\* resolve() returns True.
Resolves(r) == r \in futures /\ tool[r] = "waiting"

\* Mutant: the response is mirrored to the user in any case.
HandleMirrorsToo(v) ==
    /\ Sent(v.request) /\ Expected(v)
    /\ ledger' = Responded(v)
    /\ ledgerFile' = ledger'
    /\ futures' = futures \ {v.request}
    /\ told' = [told EXCEPT ![v] = @ + 1]
    /\ IF Resolves(v.request)
       THEN /\ tool' = [tool EXCEPT ![v.request] = "resolved"]
            /\ answer' = [answer EXCEPT ![v.request] = @ \cup {v}]
       ELSE UNCHANGED <<tool, answer>>
    /\ UNCHANGED cut

\* Mutant: a cancelled future that is still registered swallows the response.
HandleResolvesDone(v) ==
    /\ Sent(v.request) /\ Expected(v)
    /\ ledger' = Responded(v)
    /\ ledgerFile' = ledger'
    /\ futures' = futures \ {v.request}
    /\ IF Resolves(v.request)
       THEN /\ tool' = [tool EXCEPT ![v.request] = "resolved"]
            /\ answer' = [answer EXCEPT ![v.request] = @ \cup {v}]
            /\ UNCHANGED told
       ELSE /\ told' = [told EXCEPT ![v] = @ + IF v.request \in futures THEN 0 ELSE 1]
            /\ UNCHANGED <<tool, answer>>
    /\ UNCHANGED cut

\* record_response returns; resolve() pops the future and sets its result, or
\* returns False and the response is mirrored.
Handle(v) ==
    /\ Sent(v.request) /\ Expected(v)
    /\ ledger' = Responded(v)
    /\ ledgerFile' = ledger'
    /\ futures' = futures \ {v.request}
    /\ IF Resolves(v.request)
       THEN /\ tool' = [tool EXCEPT ![v.request] = "resolved"]
            /\ answer' = [answer EXCEPT ![v.request] = @ \cup {v}]
            /\ UNCHANGED told
       ELSE /\ told' = [told EXCEPT ![v] = @ + 1]
            /\ UNCHANGED <<tool, answer>>
    /\ UNCHANGED cut

\* The save raises: the handler stops, memory keeps the change.
HandleSaveFails(v) ==
    /\ Sent(v.request) /\ Expected(v)
    /\ ledger' = Responded(v)
    /\ cut' = cut \cup {v}
    /\ UNCHANGED <<ledgerFile, tool, futures, answer, told>>

\* The process dies, in the middle of a handler or not, and starts again:
\* futures and tools are gone, and what they were about to return with them.
DieHandling(v) ==
    /\ Sent(v.request) /\ Expected(v)
    /\ ledger' = Responded(v)
    /\ ledgerFile' = ledger'
    /\ futures' = {}
    /\ tool' = [r \in Request |-> IF tool[r] = "idle" THEN "idle" ELSE "returned"]
    /\ cut' = cut \cup {v} \cup UNION {answer[r] : r \in {q \in Request : tool[q] = "resolved"}}
    /\ UNCHANGED <<answer, told>>

Restart ==
    /\ ledger' = ledgerFile
    /\ futures' = {}
    /\ tool' = [r \in Request |-> IF tool[r] = "idle" THEN "idle" ELSE "returned"]
    /\ cut' = cut \cup UNION {answer[r] : r \in {q \in Request : tool[q] = "resolved"}}
    /\ UNCHANGED <<ledgerFile, answer, told>>

CallsNext ==
    \/ \E r \in Request : Call(r) \/ CallSaveFails(r) \/ Expire(r) \/ Clear(r) \/ Return(r)
    \/ \E v \in Response : Handle(v) \/ HandleSaveFails(v) \/ DieHandling(v)
    \/ Restart

CallsSpec == CallsInit /\ [][CallsNext]_callsVars

--------------------------------------------------------------------------------
\* "So the user is never notified twice for the same response", however often it
\* is delivered and whether it meets the tool, its timeout or a restart.
ToldOnce == \A v \in Response : told[v] <= 1

\* No response is swallowed between tool and mirror: one that the ledger holds
\* was told, or is in a future whose tool will return it, unless its handling
\* was interrupted.
NothingSwallowed ==
    \A v \in ledgerFile.responses :
        \/ told[v] > 0
        \/ tool[v.request] = "resolved" /\ v \in answer[v.request]
        \/ v \in cut
================================================================================
