------------------------------ MODULE GroupIndex ------------------------------
(***************************************************************************)
(* ServiceRequestGroupIndex: which group conversation a service request    *)
(* was made for.  Nothing is kept in memory: record and pop load the file, *)
(* change what they loaded and save all of it with write_json_private,     *)
(* whose errors they log and swallow.                                      *)
(***************************************************************************)
EXTENDS AtomicFile

CONSTANTS
    Nonce,
    Conversation,
    Unknown

ASSUME IndexAssumption ==
    /\ Value = [Nonce -> Conversation \cup {Nothing}]
    /\ Nothing \notin Conversation
    /\ Unknown \notin Conversation \cup {Nothing}

VARIABLES
    call,       \* per process: the nonce of its call, and what it will have said
    said        \* history: per nonce, what the last call about it said

indexVars == <<names, data, private, at, val, fd, call, said>>

EmptyIndex == [n \in Nonce |-> Nothing]

NoCall == [nonce |-> Nothing, says |-> Nothing]

IndexInit ==
    /\ FileInit
    /\ call = [w \in Writer |-> NoCall]
    /\ said = EmptyIndex

\* _load: no file, and one that is no JSON, count as an empty index.
Loaded == IF Visible \in Value THEN Visible ELSE EmptyIndex

\* A call about n changes the loaded index and starts to save it.
Change(w, n, entry) ==
    /\ BeginWrite(w, [Loaded EXCEPT ![n] = entry])
    /\ call' = [call EXCEPT ![w] = [nonce |-> n, says |-> entry]]
    /\ said' = [said EXCEPT ![n] = Unknown]

RecordGroup(w, n, c) == Change(w, n, c)

\* Mutant: pop answers and does not save.
PopUnsaved(w, n) ==
    /\ at[w] = "idle" /\ Loaded[n] # Nothing
    /\ said' = [said EXCEPT ![n] = Nothing]
    /\ UNCHANGED <<names, data, private, at, val, fd, call>>

\* pop saves only when it found an entry.
Pop(w, n) == Loaded[n] # Nothing /\ Change(w, n, Nothing)

Save(w) == WriteStep(w) /\ UNCHANGED <<call, said>>

Over(w, outcome) ==
    /\ said' = [said EXCEPT ![call[w].nonce] = outcome]
    /\ call' = [call EXCEPT ![w] = NoCall]

Saved(w) == ReturnOk(w) /\ Over(w, call[w].says)

\* _save logs the error, and record and pop return as if it had worked.
SaveFails(w) == Raise(w) /\ Over(w, Unknown)

Crash(w) == Die(w) /\ Over(w, Unknown)

IndexNext ==
    \E w \in Writer :
        \/ \E n \in Nonce : Pop(w, n) \/ \E c \in Conversation : RecordGroup(w, n, c)
        \/ Save(w) \/ Saved(w) \/ SaveFails(w) \/ Crash(w)

IndexSpec == IndexInit /\ [][IndexNext]_indexVars

--------------------------------------------------------------------------------
\* The index says what the last call about a nonce said, unless its save
\* failed: a recorded conversation is there when the response comes, one that
\* was popped is not found twice, and neither a failed save nor a crash over
\* one nonce loses the entry of another.
IndexAsTold == \A n \in Nonce : said[n] # Unknown => Loaded[n] = said[n]
================================================================================
