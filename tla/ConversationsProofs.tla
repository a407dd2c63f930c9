-------------------------- MODULE ConversationsProofs --------------------------
(***************************************************************************)
(* The log of one ConversationStore explains its conversation and had      *)
(* authority for each event, also while broadcasts run, each of which      *)
(* reports on everyone once.  A group of such stores never has two         *)
(* conveners, whatever the network loses, duplicates or reorders; and what *)
(* the members of a group hold at rest is right, or has been refused, as   *)
(* far as the network and the leaves let it.                               *)
(***************************************************************************)
EXTENDS Broadcast, Group, FiniteSetTheorems, TLAPS

Rostered(log) == {i \in DOMAIN log : log[i].kind \in {"invitation", "update"}}

LastRoster(log) == CHOOSE i \in Rostered(log) : \A j \in Rostered(log) : j <= i

Since(log) == {log[i] : i \in {j \in DOMAIN log : j > LastRoster(log)}}

Remaining(log) ==
    log[LastRoster(log)].members \ {e.issuer : e \in {d \in Since(log) : d.kind = "leave"}}

Held(members, convener, completed) ==
    [members |-> members, convener |-> convener, completed |-> completed]

Reassigned(old, members, convener) ==
    [old EXCEPT !.members = members, !.convener = convener]

Reduced(old, members) == [old EXCEPT !.members = members]

Finished(old) == [old EXCEPT !.completed = TRUE]

\* Whether a completion came after the last roster.
Over(log) == \E e \in Since(log) : e.kind = "complete"

\* A log of signed events; what ToldBy chooses among its rosters exists.
Log(log) ==
    /\ log \in Seq(Event)
    /\ Rostered(log) # {} =>
          \E i \in Rostered(log) : \A j \in Rostered(log) : j <= i

AuthorizedAt(log, i) ==
    LET e == log[i]
        before == ToldBy(SubSeq(log, 1, i - 1))
    IN  IF e.kind = "invitation"
        THEN before = NoConversation /\ e.issuer = e.convener
        ELSE /\ before # NoConversation /\ ~ before.completed
             /\ IF e.kind = "leave"
                THEN e.issuer \in before.members \ {before.convener}
                ELSE e.issuer = before.convener

\* A store whose log says how its conversation came about.
Explained(st) ==
    /\ Log(st.events)
    /\ st.conv = ToldBy(st.events)
    /\ \A i \in DOMAIN st.events : AuthorizedAt(st.events, i)

LogInv == edits \in Nat /\ (edits = 0 => Explained(mem) /\ Explained(file))

LEMMA ToldByParts ==
    ASSUME NEW log
    PROVE  ToldBy(log) =
             IF Rostered(log) = {} \/ Self \notin Remaining(log) \/ Cardinality(Remaining(log)) < 2
             THEN NoConversation
             ELSE Held(Remaining(log), log[LastRoster(log)].convener, Over(log))
BY DEF ToldBy, Held, Over, Remaining, Since, LastRoster, Rostered

LEMMA FinishedHeld ==
    ASSUME NEW m, NEW c, NEW b
    PROVE  Finished(Held(m, c, b)) = Held(m, c, TRUE)
<1>1. Finished(Held(m, c, b)) \in [members : {m}, convener : {c}, completed : {TRUE}]
  BY DEF Held, Finished
<1> QED
  BY <1>1 DEF Held

LEMMA ReducedHeld ==
    ASSUME NEW m, NEW c, NEW b, NEW n
    PROVE  Reduced(Held(m, c, b), n) = Held(n, c, b)
BY DEF Held, Reduced

LEMMA ReassignedHeld ==
    ASSUME NEW m, NEW c, NEW b, NEW n, NEW d
    PROVE  Reassigned(Held(m, c, b), n, d) = Held(n, d, b)
<1> DEFINE r == Reassigned(Held(m, c, b), n, d)
<1>1. r = [Reduced(Held(m, c, b), n) EXCEPT !.convener = d]
  BY DEF Reassigned, Reduced
<1>2. r = [Held(n, c, b) EXCEPT !.convener = d]
  BY <1>1, ReducedHeld
<1> HIDE DEF r
<1>3. r = Held(n, d, b)
  BY <1>2 DEF Held
<1> QED
  BY <1>3 DEF r

\* The conversation that a log tells, and what the three edits make of it.
LEMMA ToldEdits ==
    ASSUME NEW log, ToldBy(log) # NoConversation
    PROVE  /\ Rostered(log) # {} /\ Self \in Remaining(log)
           /\ ~ (Cardinality(Remaining(log)) < 2)
           /\ ToldBy(log).members = Remaining(log)
           /\ ~ ToldBy(log).completed => Over(log) = FALSE
           /\ Finished(ToldBy(log)) = Held(Remaining(log), log[LastRoster(log)].convener, TRUE)
           /\ \A n : Reduced(ToldBy(log), n) = Held(n, log[LastRoster(log)].convener, Over(log))
           /\ \A n, d : Reassigned(ToldBy(log), n, d) = Held(n, d, Over(log))
<1>1. /\ Rostered(log) # {} /\ Self \in Remaining(log) /\ ~ (Cardinality(Remaining(log)) < 2)
      /\ ToldBy(log) = Held(Remaining(log), log[LastRoster(log)].convener, Over(log))
  BY ToldByParts
<1>2. ToldBy(log).members = Remaining(log) /\ ToldBy(log).completed = Over(log)
  BY <1>1 DEF Held
<1> DEFINE m == Remaining(log)
           c == log[LastRoster(log)].convener
           b == Over(log)
<1>3. /\ Finished(ToldBy(log)) = Held(m, c, TRUE)
      /\ \A n : Reduced(ToldBy(log), n) = Held(n, c, b)
      /\ \A n, d : Reassigned(ToldBy(log), n, d) = Held(n, d, b)
  <2>1. ToldBy(log) = Held(m, c, b)
    BY <1>1
  <2> HIDE DEF m, c, b
  <2>2. Finished(Held(m, c, b)) = Held(m, c, TRUE)
    BY FinishedHeld
  <2>3. ASSUME NEW n PROVE Reduced(Held(m, c, b), n) = Held(n, c, b)
    BY ReducedHeld
  <2>4. ASSUME NEW n, NEW d PROVE Reassigned(Held(m, c, b), n, d) = Held(n, d, b)
    BY ReassignedHeld
  <2> QED
    BY <2>1, <2>2, <2>3, <2>4
<1>4. ~ ToldBy(log).completed => Over(log) = FALSE
  BY <1>2 DEF Over
<1> QED
  BY <1>1, <1>2, <1>3, <1>4

\* Of a log to which an event without a roster is added: the last roster stays
\* where it is.
LEMMA AppendOther ==
    ASSUME NEW log, Log(log), Rostered(log) # {}, NEW e \in Event,
           e.kind \notin {"invitation", "update"}
    PROVE  LET new == Append(log, e) IN
           /\ Log(new) /\ Rostered(new) = Rostered(log)
           /\ new[LastRoster(new)] = log[LastRoster(log)]
           /\ Since(new) = Since(log) \cup {e}
<1> DEFINE new == Append(log, e)
           n == Len(log)
<1>1. /\ n \in Nat /\ DOMAIN log = 1..n /\ DOMAIN new = 1..(n + 1)
      /\ new[n + 1] = e /\ \A i \in 1..n : new[i] = log[i]
      /\ new \in Seq(Event)
  BY DEF Log
<1> HIDE DEF new, n
<1>2. Rostered(new) = Rostered(log)
  BY <1>1 DEF Rostered
<1>3. LastRoster(new) = LastRoster(log)
  BY <1>2 DEF LastRoster
<1>4. LastRoster(log) \in Rostered(log)
  BY DEF LastRoster, Log
<1>5. LastRoster(log) \in 1..n
  BY <1>1, <1>4 DEF Rostered
<1>6. Since(new) = Since(log) \cup {e}
  BY <1>1, <1>3, <1>5 DEF Since
<1>7. Log(new)
  BY <1>1, <1>2 DEF Log
<1> QED
  BY <1>1, <1>2, <1>3, <1>5, <1>6, <1>7 DEF new

\* Of a log to which a roster is added: it is the last, and nothing came since.
LEMMA AppendRoster ==
    ASSUME NEW log, Log(log), NEW e \in Event, e.kind \in {"invitation", "update"}
    PROVE  LET new == Append(log, e) IN
           /\ Log(new) /\ Rostered(new) # {}
           /\ new[LastRoster(new)] = e
           /\ Since(new) = {}
<1> DEFINE new == Append(log, e)
           n == Len(log)
<1>1. /\ n \in Nat /\ DOMAIN log = 1..n /\ DOMAIN new = 1..(n + 1)
      /\ new[n + 1] = e /\ \A i \in 1..n : new[i] = log[i]
      /\ new \in Seq(Event)
  BY DEF Log
<1> HIDE DEF new, n
<1>2. n + 1 \in Rostered(new) /\ \A j \in Rostered(new) : j \in Nat /\ j <= n + 1
  BY <1>1 DEF Rostered
<1>3. LastRoster(new) \in Rostered(new) /\ \A j \in Rostered(new) : j <= LastRoster(new)
  BY <1>2 DEF LastRoster
<1>4. LastRoster(new) = n + 1
  BY <1>1, <1>2, <1>3
<1>5. Since(new) = {}
  BY <1>1, <1>4 DEF Since
<1> QED
  BY <1>1, <1>2, <1>4, <1>5 DEF Log, new

LEMMA AppendPrefix ==
    ASSUME NEW log \in Seq(Event), NEW e \in Event
    PROVE  /\ SubSeq(Append(log, e), 1, Len(log)) = log
           /\ \A i \in 1..Len(log) : SubSeq(Append(log, e), 1, i - 1) = SubSeq(log, 1, i - 1)
OBVIOUS

\* What the store does with an event is what reading the longer log tells.
LEMMA ToldByAppend ==
    ASSUME NEW st, Log(st.events), st.conv = ToldBy(st.events), NEW t,
           NEW e \in Event, Accepts(st, Self, e, t)
    PROVE  Apply(st, Self, e).conv = ToldBy(Append(st.events, e))
<1> DEFINE log == st.events
           new == Append(st.events, e)
<1>1. e.kind \in {"invitation", "update", "leave", "complete"}
  BY ConversationAssumption
<1>2. CASE e.kind = "invitation"
  <2>1. /\ Self \in e.members /\ ~ (Cardinality(e.members) < 2)
        /\ Apply(st, Self, e).conv = Conversation(e.members, e.convener)
    BY <1>2, ConversationAssumption DEF Accepts, AcceptsInvitation, WellFormed, Apply
  <2>2. Rostered(new) # {} /\ new[LastRoster(new)] = e /\ Since(new) = {}
    BY <1>2, AppendRoster
  <2>3. Remaining(new) = e.members
    BY <2>2 DEF Remaining
  <2>4. Over(new) = FALSE
    BY <2>2 DEF Over
  <2> QED
    BY <2>1, <2>2, <2>3, <2>4, ToldByParts DEF Conversation, Held
<1>3. CASE e.kind = "update"
  <2>1. /\ st.conv # NoConversation /\ ~ st.conv.completed /\ ~ (Cardinality(e.members) < 2)
        /\ Apply(st, Self, e).conv = AfterUpdate(st.conv, Self, e)
    BY <1>3 DEF Accepts, AcceptsUpdate, Open, WellFormed, Apply
  <2>2. Rostered(new) # {} /\ new[LastRoster(new)] = e /\ Since(new) = {}
    BY <1>3, AppendRoster
  <2>3. Remaining(new) = e.members
    BY <2>2 DEF Remaining
  <2>4. Over(new) = FALSE
    BY <2>2 DEF Over
  <2>5. Reassigned(st.conv, e.members, e.convener) = Held(e.members, e.convener, FALSE)
    <3>1. Over(log) = FALSE
      BY <2>1, ToldEdits
    <3>2. Reassigned(ToldBy(log), e.members, e.convener)
            = Held(e.members, e.convener, Over(log))
      BY <2>1, ToldEdits
    <3> QED
      BY <3>1, <3>2
  <2> QED
    BY <2>1, <2>2, <2>3, <2>4, <2>5, ToldByParts DEF AfterUpdate, Reassigned
<1>4. CASE e.kind \in {"leave", "complete"}
  <2>1. st.conv # NoConversation /\ ~ st.conv.completed
    BY <1>4 DEF Accepts, AcceptsLeave, AcceptsComplete, Open
  <2>2. /\ Rostered(log) # {} /\ Self \in Remaining(log) /\ ~ (Cardinality(Remaining(log)) < 2)
    BY <2>1, ToldEdits
  <2>3. /\ Rostered(new) # {}
        /\ new[LastRoster(new)] = log[LastRoster(log)]
        /\ Since(new) = Since(log) \cup {e}
    BY <1>4, <2>2, AppendOther
  <2>4. CASE e.kind = "leave"
    <3>1. Remaining(new) = Remaining(log) \ {e.issuer}
      BY <2>3, <2>4 DEF Remaining
    <3>2. Over(new) = Over(log)
      BY <2>3, <2>4 DEF Over
    <3>3. Apply(st, Self, e).conv = AfterLeave(st.conv, Self, e)
      BY <2>4 DEF Apply
    <3>4. Reduced(st.conv, Remaining(new))
            = Held(Remaining(new), log[LastRoster(log)].convener, Over(new))
      BY <2>1, <3>2, ToldEdits
    <3>5. st.conv.members = Remaining(log)
      BY <2>1, ToldEdits
    <3> QED
      BY <2>2, <2>3, <3>1, <3>3, <3>4, <3>5, ToldByParts DEF AfterLeave, Reduced
  <2>5. CASE e.kind = "complete"
    <3>1. Remaining(new) = Remaining(log)
      BY <2>3, <2>5 DEF Remaining
    <3>2. Over(new) = TRUE
      BY <2>3, <2>5 DEF Over
    <3>3. Apply(st, Self, e).conv = Finished(st.conv)
      BY <2>5 DEF Apply, Finished
    <3>4. Finished(st.conv) = Held(Remaining(log), log[LastRoster(log)].convener, TRUE)
      BY <2>1, ToldEdits
    <3> QED
      BY <2>2, <2>3, <3>1, <3>2, <3>3, <3>4, ToldByParts
  <2> QED
    BY <1>4, <2>4, <2>5
<1> QED
  BY <1>1, <1>2, <1>3, <1>4

LEMMA ApplyExplained ==
    ASSUME NEW st, Explained(st), NEW t, NEW e \in Event, Accepts(st, Self, e, t)
    PROVE  Explained(Apply(st, Self, e))
<1> DEFINE log == st.events
           new == Append(st.events, e)
           n == Len(st.events)
<1>1. /\ n \in Nat /\ DOMAIN new = 1..(n + 1) /\ DOMAIN log = 1..n
      /\ new[n + 1] = e /\ \A i \in 1..n : new[i] = log[i]
      /\ log \in Seq(Event)
  BY DEF Explained, Log
<1>2. Apply(st, Self, e).events = new
  BY DEF Apply
<1>3. Log(new)
  <2>1. CASE e.kind \in {"invitation", "update"}
    BY <2>1, AppendRoster DEF Explained
  <2>2. CASE e.kind \notin {"invitation", "update"} /\ Rostered(log) # {}
    BY <2>2, AppendOther DEF Explained
  <2>3. CASE e.kind \notin {"invitation", "update"} /\ Rostered(log) = {}
    <3>1. new \in Seq(Event)
      BY <1>1
    <3>2. Rostered(new) = {}
      <4> HIDE DEF new, log, n
      <4> QED
        BY <1>1, <2>3 DEF Rostered
    <3> QED
      BY <3>1, <3>2 DEF Log
  <2> QED
    BY <2>1, <2>2, <2>3
<1>4. Apply(st, Self, e).conv = ToldBy(new)
  BY ToldByAppend DEF Explained
<1>5. /\ SubSeq(new, 1, n + 1 - 1) = log
      /\ \A i \in 1..n : SubSeq(new, 1, i - 1) = SubSeq(log, 1, i - 1)
  BY <1>1, AppendPrefix
<1> HIDE DEF new, log, n
<1>10. SubSeq(new, 1, (n + 1) - 1) = log
  BY <1>1, <1>5
<1>9. ToldBy(SubSeq(new, 1, (n + 1) - 1)) = st.conv /\ \A i \in 1..n : AuthorizedAt(log, i)
  <2>1. ToldBy(log) = st.conv /\ \A i \in DOMAIN log : AuthorizedAt(log, i)
    BY DEF Explained, log
  <2> QED
    BY <1>1, <1>10, <2>1
<1>6. AuthorizedAt(new, n + 1)
  <2>1. e.kind \in {"invitation", "update", "leave", "complete"}
    BY ConversationAssumption
  <2>2. CASE e.kind = "invitation"
    <3>1. st.conv = NoConversation /\ e.issuer = e.convener
      BY <2>2 DEF Accepts, AcceptsInvitation
    <3> QED
      BY <1>1, <1>5, <1>9, <2>1, <2>2, <3>1 DEF AuthorizedAt
  <2>3. CASE e.kind = "leave"
    <3>1. /\ st.conv # NoConversation /\ ~ st.conv.completed
          /\ e.issuer \in st.conv.members \ {st.conv.convener}
      BY <2>3 DEF Accepts, AcceptsLeave, Open
    <3> QED
      BY <1>1, <1>5, <1>9, <2>1, <2>3, <3>1 DEF AuthorizedAt
  <2>4. CASE e.kind \in {"update", "complete"}
    <3>1. /\ st.conv # NoConversation /\ ~ st.conv.completed
          /\ e.issuer = st.conv.convener
      BY <2>4 DEF Accepts, AcceptsUpdate, AcceptsComplete, Open
    <3> QED
      BY <1>1, <1>5, <1>9, <2>1, <2>4, <3>1 DEF AuthorizedAt
  <2> QED
    BY <2>1, <2>2, <2>3, <2>4
<1>7. \A i \in 1..n : AuthorizedAt(new, i)
  BY <1>1, <1>5, <1>9 DEF AuthorizedAt
<1>8. \A i \in DOMAIN new : AuthorizedAt(new, i)
  BY <1>1, <1>6, <1>7
<1> QED
  BY <1>2, <1>3, <1>4, <1>8 DEF Explained

LEMMA LogInvariant == Spec => []LogInv
<1>1. Init => LogInv
  <2> SUFFICES ASSUME Init PROVE LogInv
    OBVIOUS
  <2>1. Rostered(<<>>) = {}
    BY DEF Rostered
  <2>2. ToldBy(<<>>) = NoConversation
    BY <2>1, ToldByParts
  <2>3. Explained(NewStore)
    BY <2>1, <2>2 DEF Explained, Log, NewStore
  <2> QED
    BY <2>3 DEF Init, LogInv
<1>2. LogInv /\ [Next]_vars => LogInv'
  <2> SUFFICES ASSUME LogInv, [Next]_vars PROVE LogInv'
    OBVIOUS
  <2>1. ASSUME NEW e \in Event, Receive(e) \/ ReceiveSaveFails(e) PROVE LogInv'
    <3>1. /\ edits' = edits /\ Accepts(mem, Self, e, now)
          /\ mem' = Apply(mem, Self, e) /\ file' \in {file, mem'}
      BY <2>1 DEF Receive, ReceiveSaveFails
    <3>2. edits = 0 => Explained(Apply(mem, Self, e))
      BY <3>1, ApplyExplained DEF LogInv
    <3>3. edits = 0 => Explained(mem') /\ Explained(file')
      BY <3>1, <3>2 DEF LogInv
    <3> QED
      BY <3>1, <3>3 DEF LogInv
  <2>2. ASSUME NEW c, Edit(c) PROVE LogInv'
    BY <2>2 DEF Edit, LogInv
  <2>3. CASE Record \/ UpdateMembers \/ Dissolve \/ \E a \in People : RemoveMember(a)
    BY <2>2, <2>3 DEF Record, UpdateMembers, Dissolve, RemoveMember
  <2>4. CASE Load \/ Tick \/ UNCHANGED vars
    <3>1. edits' = edits /\ mem' \in {mem, file} /\ file' = file
      BY <2>4 DEF Load, Tick, vars
    <3>2. edits = 0 => Explained(mem') /\ Explained(file')
      BY <3>1 DEF LogInv
    <3> QED
      BY <3>1, <3>2 DEF LogInv
  <2> QED
    BY <2>1, <2>3, <2>4 DEF Next
<1> QED
  BY <1>1, <1>2, PTL DEF Spec

\* Without local edits, memory and file hold the conversation that their log of
\* signed events tells, for every set of events and through failed saves and
\* restarts.
THEOREM LogTellsConversation == Spec => []LogExplainsConversation
<1>1. LogInv => LogExplainsConversation
  BY DEF LogInv, Explained, LogExplainsConversation
<1> QED
  BY <1>1, LogInvariant, PTL

\* Without local edits, every event in the log had authority by the events
\* before it in the log alone.
THEOREM LogHasAuthority == Spec => []LogIsAuthorized
<1>1. LogInv => LogIsAuthorized
  BY DEF LogInv, Explained, LogIsAuthorized, AuthorizedAt
<1> QED
  BY <1>1, LogInvariant, PTL

--------------------------------------------------------------------------------
\* A broadcast leaves the store alone: each step of the two together is a step
\* of the store by itself or does not change it, so what holds of every
\* behaviour of the store holds while broadcasts run.
THEOREM BroadcastKeepsTheStore == BroadcastSpec => Spec
<1>1. BroadcastInit => Init
  BY DEF BroadcastInit
<1>2. [BroadcastNext]_<<vars, call>> => [Next]_vars
  BY DEF BroadcastNext, Call, Answer, Task, Restart, Next
<1> QED
  BY <1>1, <1>2, PTL DEF BroadcastSpec, Spec

--------------------------------------------------------------------------------
Records == [members : SUBSET People, convener : {c.convener : c \in Rosters}, completed : BOOLEAN]

\* What is recorded locally is a conversation, and None is neither one nor an
\* address.
NoneIsApart ==
    /\ LocalRoster \subseteq Records
    /\ None \notin Records \cup People

\* The store and the call hold conversations.
StoreHoldsRecords == \A c \in {mem.conv, file.conv} : c \in Records \cup {NoConversation}

RecordsInv ==
    /\ StoreHoldsRecords
    /\ Called => conv \in Records
    /\ held => Called

\* Each recipient is left, or awaited, or has one result; nobody else has any.
ReportsInv ==
    /\ None \notin asked
    /\ ~ Called => results = {} /\ sending = None /\ todo = {}
    /\ todo \subseteq asked
    /\ sending \in (asked \ todo) \cup {None}
    /\ sending = None => todo = {}
    /\ Called => \A r \in asked \ (todo \cup {sending}) : \E ok \in BOOLEAN :
          results \cap [to : {r}, ok : BOOLEAN] = {[to |-> r, ok |-> ok]}
    /\ \A res \in results : res.to \in asked \ (todo \cup {sending})

ReportedOnce ==
    Done => \A r \in asked : \E ok \in BOOLEAN :
              results \cap [to : {r}, ok : BOOLEAN] = {[to |-> r, ok |-> ok]}

LEMMA EventRecords ==
    ASSUME NoneIsApart, NEW st, st.conv \in Records \cup {NoConversation}, NEW t,
           NEW e \in Event, Accepts(st, Self, e, t)
    PROVE  Apply(st, Self, e).conv \in Records \cup {NoConversation}
<1>1. CASE e.kind \in {"invitation", "update"}
  <2>1. Conversation(e.members, e.convener) \in Rosters
    BY <1>1 DEF Rosters
  <2>2. e.members \subseteq People /\ e.convener \in {c.convener : c \in Rosters}
    BY <2>1 DEF People, Conversation
  <2>3. CASE e.kind = "invitation"
    BY <2>2, <2>3 DEF Apply, Conversation, Records
  <2>4. CASE e.kind = "update"
    <3>1. st.conv \in Records
      BY <2>4 DEF Accepts, AcceptsUpdate, Open
    <3>2. [st.conv EXCEPT !.members = e.members, !.convener = e.convener] \in Records
      BY <2>2, <3>1 DEF Records
    <3>3. Apply(st, Self, e).conv = AfterUpdate(st.conv, Self, e)
      BY <2>4 DEF Apply
    <3> QED
      BY <3>2, <3>3 DEF AfterUpdate
  <2> QED
    BY <1>1, <2>3, <2>4
<1>2. CASE e.kind \in {"leave", "complete"}
  <2>1. st.conv \in Records
    BY <1>2 DEF Accepts, AcceptsLeave, AcceptsComplete, Open
  <2>2. CASE e.kind = "leave"
    <3>1. [st.conv EXCEPT !.members = st.conv.members \ {e.issuer}] \in Records
      BY <2>1 DEF Records
    <3>2. Apply(st, Self, e).conv = AfterLeave(st.conv, Self, e)
      BY <2>2 DEF Apply
    <3> QED
      BY <3>1, <3>2 DEF AfterLeave
  <2>3. CASE e.kind = "complete"
    <3>1. [st.conv EXCEPT !.completed = TRUE] \in Records
      BY <2>1 DEF Records
    <3> QED
      BY <2>3, <3>1 DEF Apply
  <2> QED
    BY <1>2, <2>2, <2>3
<1> QED
  BY <1>1, <1>2, ConversationAssumption

\* The store's steps keep conversations conversations.
LEMMA StoreRecords ==
    ASSUME NoneIsApart, RecordsInv, [Next]_vars
    PROVE  StoreHoldsRecords'
<1> USE DEF RecordsInv, StoreHoldsRecords
<1>1. ASSUME NEW e \in Event, Receive(e) \/ ReceiveSaveFails(e)
      PROVE  StoreHoldsRecords'
  <2>1. /\ Accepts(mem, Self, e, now) /\ mem' = Apply(mem, Self, e) /\ file' \in {mem', file}
    BY <1>1 DEF Receive, ReceiveSaveFails
  <2> QED
    BY <2>1, EventRecords
<1>2. ASSUME NEW c \in Records \cup {NoConversation}, Edit(c)
      PROVE  StoreHoldsRecords'
  <2>1. mem' = [mem EXCEPT !.conv = c] /\ file' \in {mem', file}
    BY <1>2 DEF Edit
  <2>2. mem'.conv \in {c, mem.conv}
    BY <2>1
  <2> QED
    BY <2>1, <2>2
<1>3. CASE Record
  BY <1>2, <1>3 DEF Record, NoneIsApart
<1>4. CASE UpdateMembers
  <2>1. PICK l \in LocalRoster :
          Edit(IF mem.conv = NoConversation THEN NoConversation
               ELSE [mem.conv EXCEPT !.members = l.members])
    BY <1>4 DEF UpdateMembers
  <2>2. l.members \subseteq People
    BY DEF NoneIsApart, Records
  <2>3. mem.conv # NoConversation => [mem.conv EXCEPT !.members = l.members] \in Records
    BY <2>2 DEF Records
  <2> QED
    BY <1>2, <2>1, <2>3
<1>5. ASSUME NEW a \in People, RemoveMember(a)
      PROVE  StoreHoldsRecords'
  <2>1. mem.conv # NoConversation =>
          [mem.conv EXCEPT !.members = mem.conv.members \ {a}] \in Records
    BY DEF Records
  <2> QED
    BY <1>2, <1>5, <2>1 DEF RemoveMember
<1>6. CASE Dissolve
  BY <1>2, <1>6 DEF Dissolve
<1>7. CASE Load \/ Tick \/ UNCHANGED vars
  BY <1>7 DEF Load, Tick, vars
<1> QED
  BY <1>1, <1>3, <1>4, <1>5, <1>6, <1>7 DEF Next

\* What the other tasks do to the object of the call.
LEMMA TaskRecords ==
    ASSUME NoneIsApart, RecordsInv, StoreHoldsRecords', Task
    PROVE  RecordsInv' /\ (Called' <=> Called) /\ UNCHANGED <<asked, todo, sending, results>>
<1> USE DEF RecordsInv, StoreHoldsRecords, Called
<1>1. conv # None => conv \in Records
  OBVIOUS
<1>2. CASE Follows
  <2>1. held' => held /\ mem'.conv \in Records
    BY <1>2 DEF Follows
  <2>2. conv' = IF held' THEN mem'.conv ELSE conv
    BY <1>2 DEF Follows
  <2> QED
    BY <1>2, <2>1, <2>2 DEF Follows, NoneIsApart
<1>3. CASE Replaced
  BY <1>3 DEF Replaced
<1>4. CASE UNCHANGED call
  BY <1>4 DEF call
<1>5. ASSUME NEW e \in Event, Applied(e), ~ Follows
      PROVE  RecordsInv' /\ (Called' <=> Called) /\ UNCHANGED <<asked, todo, sending, results>>
  <2>1. /\ held /\ ~ held' /\ conv' = [conv EXCEPT !.members = conv.members \ {e.issuer}]
        /\ UNCHANGED <<asked, todo, sending, results>>
    BY <1>5 DEF Applied
  <2>2. conv' \in Records
    BY <1>1, <2>1 DEF Records
  <2> QED
    BY <2>1, <2>2 DEF NoneIsApart
<1> QED
  BY <1>2, <1>3, <1>4, <1>5 DEF Task

LEMMA RecordsStep ==
    NoneIsApart /\ RecordsInv /\ [BroadcastNext]_<<vars, call>> => RecordsInv'
<1> SUFFICES ASSUME NoneIsApart, RecordsInv, [BroadcastNext]_<<vars, call>> PROVE RecordsInv'
  OBVIOUS
<1>1. StoreHoldsRecords'
  <2>1. [Next]_vars
    BY DEF BroadcastNext, Call, Answer, Task, Restart, Next
  <2> QED
    BY <2>1, StoreRecords
<1>2. CASE Call
  BY <1>1, <1>2 DEF Call, RecordsInv, StoreHoldsRecords, Called, NoneIsApart
<1>3. ASSUME NEW ok \in BOOLEAN, Answer(ok) PROVE RecordsInv'
  BY <1>1, <1>3 DEF Answer, RecordsInv, Called
<1>4. CASE Task
  BY <1>1, <1>4, TaskRecords DEF RecordsInv
<1>5. CASE Restart
  BY <1>1, <1>5 DEF Restart, NoCall, RecordsInv, Called
<1>6. CASE UNCHANGED <<vars, call>>
  BY <1>1, <1>6 DEF call, RecordsInv, Called
<1> QED
  BY <1>2, <1>3, <1>4, <1>5, <1>6 DEF BroadcastNext

\* The start of the next send takes one recipient from those that are left.
LEMMA NextRecipient ==
    ASSUME NEW left, None \notin left, SendNext(left)
    PROVE  \/ left = {} /\ sending' = None /\ todo' = {}
           \/ sending' \in left /\ sending' # None /\ todo' = left \ {sending'}
BY DEF SendNext

LEMMA ReportsStep ==
    NoneIsApart /\ RecordsInv /\ ReportsInv /\ [BroadcastNext]_<<vars, call>> => ReportsInv'
<1> SUFFICES ASSUME NoneIsApart, RecordsInv, ReportsInv, [BroadcastNext]_<<vars, call>>
             PROVE  ReportsInv'
  OBVIOUS
<1> USE DEF ReportsInv
<1>1. RecordsInv'
  BY RecordsStep
<1>2. CASE Call
  <2>1. /\ ~ Called /\ results' = results /\ SendNext(asked') /\ conv' \in Records
        /\ asked' = conv'.members \ {Self}
    BY <1>1, <1>2 DEF Call, RecordsInv, StoreHoldsRecords
  <2>2. results' = {} /\ Called' /\ None \notin asked'
    BY <2>1 DEF Called, NoneIsApart, Records
  <2>3. asked' \ (todo' \cup {sending'}) = {}
    BY <2>1, <2>2, NextRecipient
  <2> QED
    BY <2>1, <2>2, <2>3, NextRecipient
<1>3. ASSUME NEW ok \in BOOLEAN, Answer(ok) PROVE ReportsInv'
  <2>1. /\ sending # None /\ results' = results \cup {[to |-> sending, ok |-> ok]}
        /\ SendNext(todo) /\ UNCHANGED <<conv, asked>>
    BY <1>3 DEF Answer
  <2>2. /\ None \notin asked' /\ todo' \subseteq asked' /\ sending' \in (asked' \ todo') \cup {None}
        /\ sending' = None => todo' = {}
        /\ asked' \ (todo' \cup {sending'}) = (asked \ (todo \cup {sending})) \cup {sending}
    BY <2>1, NextRecipient
  <2>3. Called /\ Called'
    BY <2>1 DEF Called
  <2>4. \A r \in asked \ (todo \cup {sending}) :
          results' \cap [to : {r}, ok : BOOLEAN] = results \cap [to : {r}, ok : BOOLEAN]
    BY <2>1
  <2>5. results' \cap [to : {sending}, ok : BOOLEAN] = {[to |-> sending, ok |-> ok]}
    BY <2>1
  <2>6. \A res \in results' : res.to \in asked' \ (todo' \cup {sending'})
    BY <2>1, <2>2
  <2> QED
    BY <2>2, <2>3, <2>4, <2>5, <2>6
<1>4. CASE Task
  BY <1>1, <1>4, TaskRecords DEF RecordsInv
<1>5. CASE Restart
  BY <1>5 DEF Restart, NoCall, Called
<1>6. CASE UNCHANGED <<vars, call>>
  BY <1>6 DEF call, Called
<1> QED
  BY <1>2, <1>3, <1>4, <1>5, <1>6 DEF BroadcastNext

\* A broadcast that has ended has exactly one result for everyone who was a
\* member when it was made: nobody is skipped or asked twice, whatever happens
\* to the conversation while it runs.
THEOREM EndedReportsAll == ASSUME NoneIsApart PROVE BroadcastSpec => []ReportedOnce
<1>1. BroadcastInit => RecordsInv /\ ReportsInv
  BY DEF BroadcastInit, Init, NewStore, RecordsInv, StoreHoldsRecords, ReportsInv, Called
<1>2. RecordsInv /\ ReportsInv => ReportedOnce
  BY DEF ReportsInv, ReportedOnce, Done
<1> QED
  BY <1>1, <1>2, RecordsStep, ReportsStep, PTL DEF BroadcastSpec

--------------------------------------------------------------------------------
ConversationRecords == [members : SUBSET Agent, convener : Agent, completed : BOOLEAN]

Kinds == {"invitation", "update", "leave", "complete"}

\* An event somebody signed: one with a roster names agents.
SignedEvent(e) ==
    /\ e.kind \in Kinds
    /\ e.issuer \in Agent
    /\ e.kind \in {"invitation", "update"} => e.members \subseteq Agent /\ e.convener \in Agent

\* What the agents' stores and the network may hold.  No event is sent to its
\* own issuer.
StoreTypes ==
    /\ DOMAIN store = Agent
    /\ \A a \in Agent :
          /\ store[a].events = [i \in 1..Len(store[a].events) |-> store[a].events[i]]
          /\ Len(store[a].events) \in Nat
          /\ Conv(a) # NoConversation => Conv(a) \in ConversationRecords

NetTypes == \A m \in net : SignedEvent(m.event) /\ m.to \in Agent \ {m.event.issuer}

NothingYet ==
    /\ issued \in Nat
    /\ issued = 0 => net = {} /\ \A a \in Agent : Conv(a) = NoConversation

OwnMember == \A a \in Agent : Conv(a) # NoConversation => a \in Conv(a).members

\* A handover that can still make the agent it is sent to the convener.
Pending(m) ==
    /\ m.event.kind = "update"
    /\ m.event.convener = m.to
    /\ FreshEvent(store[m.to], m.event)

\* The role of the convener is a token: an agent has it, or one handover that
\* has not been applied, and never both.
OneToken ==
    \A m \in net : Pending(m) =>
        /\ \A a \in Agent : ~ IsConvener(a)
        /\ \A o \in net : Pending(o) => o.to = m.to /\ o.event = m.event

Types == StoreTypes /\ NetTypes /\ NothingYet /\ OwnMember

TokenInv == Types /\ AtMostOneConvener /\ OneToken

--------------------------------------------------------------------------------
\* The log of an agent that applied e has e and what it had.
LEMMA LogGrows ==
    ASSUME StoreTypes, NEW a \in Agent, NEW e, NEW d, FreshEvent(Apply(store[a], a, e), d)
    PROVE  FreshEvent(store[a], d) /\ ~ (d.kind = e.kind /\ d.nonce = e.nonce)
<1> DEFINE log == store[a].events
           more == Append(log, e)
<1>1. log = [i \in 1..Len(log) |-> log[i]] /\ Len(log) \in Nat
  BY DEF StoreTypes
<1>2. DOMAIN log = 1..Len(log) /\ log \in Seq({log[i] : i \in 1..Len(log)} \cup {e})
  BY <1>1
<1>3. DOMAIN more = 1..(Len(log) + 1) /\ more[Len(log) + 1] = e
      /\ \A i \in 1..Len(log) : more[i] = log[i]
  BY <1>1, <1>2
<1>4. \A i \in DOMAIN more : ~ (more[i].kind = d.kind /\ more[i].nonce = d.nonce)
  BY DEF FreshEvent, Apply
<1> HIDE DEF more
<1>5. ASSUME NEW i \in DOMAIN log PROVE ~ (log[i].kind = d.kind /\ log[i].nonce = d.nonce)
  <2>1. i \in DOMAIN more /\ more[i] = log[i]
    BY <1>1, <1>2, <1>3
  <2> QED
    BY <1>4, <2>1
<1>6. ~ (e.kind = d.kind /\ e.nonce = d.nonce)
  <2>1. Len(log) + 1 \in DOMAIN more
    BY <1>1, <1>3
  <2> QED
    BY <1>3, <1>4, <2>1
<1> QED
  BY <1>5, <1>6 DEF FreshEvent

LEMMA LogTypes ==
    ASSUME StoreTypes, NEW a \in Agent, NEW e, NEW log, log = Apply(store[a], a, e).events
    PROVE  log = [i \in 1..Len(log) |-> log[i]] /\ Len(log) \in Nat
<1> DEFINE old == store[a].events
<1>1. old = [i \in 1..Len(old) |-> old[i]] /\ Len(old) \in Nat
  BY DEF StoreTypes
<1>2. old \in Seq({old[i] : i \in 1..Len(old)} \cup {e})
  BY <1>1
<1>3. log = Append(old, e)
  BY DEF Apply
<1> QED
  BY <1>2, <1>3

\* What applying an event makes of the agent's conversation.
LEMMA AfterApply ==
    ASSUME Types, NEW a \in Agent, NEW e, SignedEvent(e), Accepts(store[a], a, e, 0),
           NEW c, c = Apply(store[a], a, e).conv, c # NoConversation
    PROVE  /\ c \in ConversationRecords /\ a \in c.members
           /\ \/ e.kind = "invitation" /\ c.convener = e.issuer
              \/ Conv(a) # NoConversation /\ e.kind = "update" /\ e.issuer = Conv(a).convener
                    /\ c.convener = e.convener
              \/ Conv(a) # NoConversation /\ e.kind \in {"leave", "complete"}
                    /\ c.convener = Conv(a).convener
<1> DEFINE old == Conv(a)
<1> USE DEF Types, Kinds, SignedEvent, Conv
<1>1. CASE e.kind = "invitation"
  <2>1. c = Conversation(e.members, e.convener)
    BY <1>1 DEF Apply
  <2>2. e.issuer = e.convener /\ a \in e.members
    BY <1>1 DEF Accepts, AcceptsInvitation
  <2> QED
    BY <1>1, <2>1, <2>2 DEF Conversation, ConversationRecords
<1>2. CASE e.kind = "update"
  <2>1. c = AfterUpdate(old, a, e)
    BY <1>2 DEF Apply
  <2>2. old # NoConversation /\ e.issuer = old.convener
    BY <1>2 DEF Accepts, AcceptsUpdate, Open
  <2>3. old \in ConversationRecords
    BY <2>2 DEF StoreTypes
  <2>4. a \in e.members /\ c = [old EXCEPT !.members = e.members, !.convener = e.convener]
    BY <2>1 DEF AfterUpdate
  <2> QED
    BY <1>2, <2>2, <2>3, <2>4 DEF ConversationRecords
<1>3. CASE e.kind = "leave"
  <2>1. c = AfterLeave(old, a, e)
    BY <1>3 DEF Apply
  <2>2. old # NoConversation
    BY <1>3 DEF Accepts, AcceptsLeave, Open
  <2>3. old \in ConversationRecords /\ a \in old.members
    BY <2>2 DEF StoreTypes, OwnMember
  <2>4. a # e.issuer /\ c = [old EXCEPT !.members = old.members \ {e.issuer}]
    BY <2>1 DEF AfterLeave
  <2> QED
    BY <1>3, <2>2, <2>3, <2>4 DEF ConversationRecords
<1>4. CASE e.kind = "complete"
  <2>1. c = [old EXCEPT !.completed = TRUE]
    BY <1>4 DEF Apply
  <2>2. old # NoConversation
    BY <1>4 DEF Accepts, AcceptsComplete, Open
  <2>3. old \in ConversationRecords /\ a \in old.members
    BY <2>2 DEF StoreTypes, OwnMember
  <2> QED
    BY <1>4, <2>1, <2>2, <2>3 DEF ConversationRecords
<1> QED
  BY <1>1, <1>2, <1>3, <1>4

\* The stores keep their shape when one of them applies an event.
LEMMA AppliesTypes ==
    ASSUME Types, NEW a \in Agent, NEW e, SignedEvent(e), Accepts(store[a], a, e, 0),
           store' = [store EXCEPT ![a] = Apply(@, a, e)]
    PROVE  StoreTypes' /\ OwnMember'
<1>1. DOMAIN store' = Agent /\ \A b \in Agent \ {a} : store'[b] = store[b]
  BY DEF Types, StoreTypes
<1>2. store'[a] = Apply(store[a], a, e)
  BY DEF Types, StoreTypes
<1>3. store'[a].events = [i \in 1..Len(store'[a].events) |-> store'[a].events[i]]
      /\ Len(store'[a].events) \in Nat
  BY <1>2, LogTypes DEF Types
<1>4. Conv(a)' # NoConversation => Conv(a)' \in ConversationRecords /\ a \in Conv(a)'.members
  BY <1>2, AfterApply DEF Conv
<1> QED
  BY <1>1, <1>3, <1>4 DEF Types, StoreTypes, OwnMember, Conv

\* No step but a handover and its arrival makes a convener or a new handover.
LEMMA TokenStays ==
    ASSUME AtMostOneConvener, OneToken,
           \A a \in Agent : IsConvener(a)' => IsConvener(a),
           \A m \in net' : Pending(m)' => m \in net /\ Pending(m)
    PROVE  AtMostOneConvener' /\ OneToken'
BY DEF AtMostOneConvener, OneToken

\* What applying an event leaves of the handovers, and of the conveners if it
\* is not one of them.
LEMMA AppliesTokens ==
    ASSUME Types, NEW a \in Agent, NEW e, SignedEvent(e), Accepts(store[a], a, e, 0),
           store' = [store EXCEPT ![a] = Apply(@, a, e)]
    PROVE  /\ \A m : m.to \in Agent /\ Pending(m)' => Pending(m)
           /\ \A m : m.to = a /\ m.event = e => ~ Pending(m)'
           /\ \A b \in Agent : IsConvener(b)' =>
                 \/ IsConvener(b)
                 \/ b = a /\ e.kind = "update" /\ e.convener = a
                 \/ b = a /\ e.kind = "invitation" /\ e.issuer = a
<1>1. DOMAIN store' = Agent /\ \A b \in Agent \ {a} : store'[b] = store[b]
  BY DEF Types, StoreTypes
<1>2. store'[a] = Apply(store[a], a, e)
  BY DEF Types, StoreTypes
<1>3. \A d : FreshEvent(store'[a], d) =>
        FreshEvent(store[a], d) /\ ~ (d.kind = e.kind /\ d.nonce = e.nonce)
  BY <1>2, LogGrows DEF Types
<1>4. ASSUME NEW m, m.to \in Agent, Pending(m)' PROVE Pending(m)
  BY <1>1, <1>3, <1>4 DEF Pending
<1>5. ASSUME NEW m, m.to = a, m.event = e PROVE ~ Pending(m)'
  BY <1>3, <1>5 DEF Pending
<1>6. ASSUME NEW b \in Agent, IsConvener(b)'
      PROVE  \/ IsConvener(b)
             \/ b = a /\ e.kind = "update" /\ e.convener = a
             \/ b = a /\ e.kind = "invitation" /\ e.issuer = a
  <2>1. CASE b # a
    BY <1>1, <1>6, <2>1 DEF IsConvener, Conv
  <2>2. CASE b = a
    BY <1>2, <1>6, <2>2, AfterApply DEF IsConvener, Conv
  <2> QED
    BY <2>1, <2>2
<1> QED
  BY <1>4, <1>5, <1>6

--------------------------------------------------------------------------------
LEMMA ConveneStep == TokenInv /\ (\E members \in SUBSET Agent : Convene(members)) => TokenInv'
<1> SUFFICES ASSUME TokenInv, NEW members \in SUBSET Agent, Convene(members) PROVE TokenInv'
  OBVIOUS
<1> DEFINE e == Invitation(Founder, members)
<1> USE GroupAssumption DEF TokenInv, Types
<1>1. \A a \in Agent : Conv(a) = NoConversation
  BY DEF Convene, NothingYet
<1>2. store' = [store EXCEPT ![Founder].conv = Conversation(members, Founder)]
      /\ net' = To(members \ {Founder}, e) /\ issued' = issued + 1
      /\ Founder \in members
  BY DEF Convene, Invitation, WellFormed
<1>3. /\ DOMAIN store' = Agent
      /\ \A a \in Agent : store'[a].events = store[a].events
      /\ \A a \in Agent \ {Founder} : Conv(a)' = NoConversation
      /\ Conv(Founder)' = Conversation(members, Founder)
  BY <1>1, <1>2 DEF StoreTypes, Conv
<1>4. StoreTypes' /\ OwnMember' /\ AtMostOneConvener'
  BY <1>2, <1>3 DEF StoreTypes, OwnMember, AtMostOneConvener, IsConvener, Conversation,
                    ConversationRecords, Conv
<1>5. \A m \in net' : m.event = e /\ m.to \in members \ {Founder}
  BY <1>2 DEF To
<1>6. e.kind = "invitation" /\ e.issuer = Founder /\ e.members = members /\ e.convener = Founder
  BY DEF Invitation
<1>7. NetTypes' /\ OneToken'
  BY <1>5, <1>6 DEF NetTypes, OneToken, Pending, SignedEvent, Kinds
<1>8. NothingYet'
  BY <1>2 DEF NothingYet
<1> QED
  BY <1>4, <1>7, <1>8

\* Of an event that its issuer applies itself.
LEMMA OwnEvent ==
    ASSUME TokenInv, NEW a \in Agent, NEW e, SignedEvent(e), AppliesOwn(a, e)
    PROVE  /\ StoreTypes' /\ OwnMember' /\ NothingYet'
           /\ \A m : m.to \in Agent /\ Pending(m)' => Pending(m)
           /\ \A b \in Agent \ {a} : IsConvener(b)' => IsConvener(b)
<1> USE DEF TokenInv, AppliesOwn
<1>1. StoreTypes' /\ OwnMember'
  BY AppliesTypes
<1>2. NothingYet'
  BY DEF Types, NothingYet
<1> QED
  BY <1>1, <1>2, AppliesTokens

LEMMA ChangeMembersStep ==
    ASSUME TokenInv, NEW c \in Agent, NEW members \in SUBSET Agent, ChangeMembers(c, members)
    PROVE  TokenInv'
<1> DEFINE old == Conv(c).members
           e == Update(c, old, members, c)
           i == Invitation(c, members)
<1> USE DEF TokenInv, Types
<1>1. /\ Conv(c) # NoConversation /\ AppliesOwn(c, e)
      /\ net' = net \cup To(old \ {c}, e) \cup To(members \ old, i)
  BY DEF ChangeMembers
<1>2. /\ e.kind = "update" /\ e.issuer = c /\ e.members = members /\ e.convener = c
      /\ i.kind = "invitation" /\ i.issuer = c /\ i.members = members /\ i.convener = c
  BY DEF Update, Invitation
<1>3. SignedEvent(e) /\ SignedEvent(i)
  BY <1>2 DEF SignedEvent, Kinds
<1>4. c \in old /\ old \subseteq Agent /\ IsConvener(c)
  BY <1>1, <1>2 DEF AppliesOwn, Accepts, AcceptsUpdate, IsConvener, Conv, OwnMember,
                    StoreTypes, ConversationRecords
<1>5. /\ StoreTypes' /\ OwnMember' /\ NothingYet'
      /\ \A m : m.to \in Agent /\ Pending(m)' => Pending(m)
      /\ \A b \in Agent : IsConvener(b)' => IsConvener(b)
  BY <1>1, <1>3, <1>4, OwnEvent
<1>6. \A m \in net' : \/ m \in net
                      \/ m.to \in Agent \ {c} /\ m.event \in {e, i}
  BY <1>1, <1>4 DEF To
<1>7. NetTypes'
  BY <1>2, <1>3, <1>6 DEF NetTypes
<1>8. \A m \in net' : Pending(m)' => m \in net /\ Pending(m)
  BY <1>2, <1>5, <1>6 DEF NetTypes, Pending
<1> QED
  BY <1>5, <1>7, <1>8, TokenStays

\* The convener steps down when it signs the handover.
LEMMA HandOffStep ==
    ASSUME TokenInv, NEW c \in Agent, NEW to \in Agent, NEW members \in SUBSET Agent,
           HandOff(c, to, members)
    PROVE  TokenInv'
<1> DEFINE old == Conv(c).members
           e == Update(c, old, members, to)
<1> USE DEF TokenInv, Types
<1>1. /\ Conv(c) # NoConversation /\ c # to /\ AppliesOwn(c, e)
      /\ net' = net \cup To(old \ {c}, e)
  BY DEF HandOff
<1>2. e.kind = "update" /\ e.issuer = c /\ e.members = members /\ e.convener = to
  BY DEF Update
<1>3. SignedEvent(e)
  BY <1>2 DEF SignedEvent, Kinds
<1>4. old \subseteq Agent /\ IsConvener(c) /\ Accepts(store[c], c, e, 0)
      /\ store' = [store EXCEPT ![c] = Apply(@, c, e)]
  BY <1>1, <1>2 DEF AppliesOwn, Accepts, AcceptsUpdate, IsConvener, Conv,
                    StoreTypes, ConversationRecords
<1>5. /\ StoreTypes' /\ OwnMember' /\ NothingYet'
      /\ \A m : m.to \in Agent /\ Pending(m)' => Pending(m)
      /\ \A b \in Agent \ {c} : IsConvener(b)' => IsConvener(b)
  BY <1>1, <1>3, OwnEvent
<1>6. ~ IsConvener(c)'
  <2>1. Conv(c)' = Apply(store[c], c, e).conv
    BY <1>4 DEF StoreTypes, Conv
  <2>2. Conv(c)' # NoConversation => Conv(c)'.convener = to
    BY <1>2, <1>3, <1>4, <2>1, AfterApply
  <2> QED
    BY <1>1, <2>2 DEF IsConvener
<1>7. \A a \in Agent : ~ IsConvener(a)'
  BY <1>4, <1>5, <1>6 DEF AtMostOneConvener
<1>8. \A m \in net' : \/ m \in net
                      \/ m.to \in Agent \ {c} /\ m.event = e
  BY <1>1, <1>4 DEF To
<1>9. NetTypes'
  BY <1>2, <1>3, <1>8 DEF NetTypes
<1>10. \A m \in net' : Pending(m)' => m.event = e /\ m.to = to
  <2>1. \A m \in net : ~ Pending(m)
    BY <1>4 DEF OneToken
  <2> QED
    BY <1>2, <1>5, <1>8, <2>1 DEF NetTypes, Pending
<1> QED
  BY <1>5, <1>7, <1>9, <1>10 DEF AtMostOneConvener, OneToken

\* Leaves and completions concern the role only in that they end it.
LEMMA PlainEventStep ==
    ASSUME TokenInv, NEW a \in Agent, NEW e, SignedEvent(e), AppliesOwn(a, e),
           e.kind \in {"leave", "complete"}, e.issuer = a, Conv(a) # NoConversation,
           net' = net \cup To(Conv(a).members \ {a}, e)
    PROVE  TokenInv'
<1> USE DEF TokenInv, Types
<1>1. /\ StoreTypes' /\ OwnMember' /\ NothingYet'
      /\ \A m : m.to \in Agent /\ Pending(m)' => Pending(m)
  BY OwnEvent
<1>2. \A b \in Agent : IsConvener(b)' => IsConvener(b)
  BY AppliesTokens DEF AppliesOwn
<1>3. \A m \in net' : m \in net \/ (m.to \in Agent \ {a} /\ m.event = e)
  BY DEF To, StoreTypes, ConversationRecords
<1>4. NetTypes'
  BY <1>3 DEF NetTypes
<1>5. \A m \in net' : Pending(m)' => m \in net /\ Pending(m)
  BY <1>1, <1>3 DEF NetTypes, Pending
<1> QED
  BY <1>1, <1>2, <1>4, <1>5, TokenStays

\* An event that reaches an agent other than its issuer makes it the convener
\* only if it is the handover that was pending, and uses that up.
LEMMA DeliverStep ==
    ASSUME TokenInv, NEW m \in net, Deliver(m)
    PROVE  TokenInv'
<1> DEFINE a == m.to
           e == m.event
<1> USE DEF TokenInv, Types
<1>1. SignedEvent(e) /\ a \in Agent /\ a # e.issuer
  BY DEF NetTypes
<1>3. net' \subseteq net /\ issued' = issued
  BY DEF Deliver
<1>4. NetTypes' /\ NothingYet'
  BY <1>3 DEF NetTypes, NothingYet
<1>5. CASE ~ Accepts(store[a], a, e, 0)
  <2>1. store' = store
    BY <1>5 DEF Deliver
  <2>2. StoreTypes' /\ OwnMember'
    BY <2>1 DEF StoreTypes, OwnMember, Conv
  <2>3. /\ \A b \in Agent : IsConvener(b)' => IsConvener(b)
        /\ \A o \in net' : Pending(o)' => o \in net /\ Pending(o)
    BY <1>3, <2>1 DEF IsConvener, Conv, Pending
  <2> QED
    BY <1>4, <2>2, <2>3, TokenStays
<1>6. CASE Accepts(store[a], a, e, 0)
  <2>1. store' = [store EXCEPT ![a] = Apply(@, a, e)]
    BY <1>6 DEF Deliver
  <2>2. StoreTypes' /\ OwnMember'
    BY <1>1, <1>6, <2>1, AppliesTypes
  <2>3. /\ \A o : o.to \in Agent /\ Pending(o)' => Pending(o)
        /\ \A o : o.to = a /\ o.event = e => ~ Pending(o)'
        /\ \A b \in Agent : IsConvener(b)' =>
              IsConvener(b) \/ (b = a /\ e.kind = "update" /\ e.convener = a)
    <3> HIDE DEF a, e, Types
    <3>1. Types
      BY DEF TokenInv
    <3>2. \A b \in Agent : IsConvener(b)' =>
             \/ IsConvener(b)
             \/ b = a /\ e.kind = "update" /\ e.convener = a
             \/ b = a /\ e.kind = "invitation" /\ e.issuer = a
      BY <1>1, <1>6, <2>1, <3>1, AppliesTokens
    <3>3. \A o : o.to = a /\ o.event = e => ~ Pending(o)'
      BY <1>1, <1>6, <2>1, <3>1, AppliesTokens
    <3>4. \A o : o.to \in Agent /\ Pending(o)' => Pending(o)
      BY <1>1, <1>6, <2>1, <3>1, AppliesTokens
    <3> QED
      BY <1>1, <3>2, <3>3, <3>4
  <2>4. CASE Pending(m)
    <3>1. /\ \A b \in Agent : ~ IsConvener(b)
          /\ \A o \in net : Pending(o) => o.to = a /\ o.event = e
      BY <2>4 DEF OneToken
    <3>2. \A b \in Agent : IsConvener(b)' => b = a
      BY <2>3, <3>1
    <3>3. \A o \in net' : ~ Pending(o)'
      BY <1>3, <2>3, <3>1 DEF NetTypes
    <3> QED
      BY <1>4, <2>2, <3>2, <3>3 DEF AtMostOneConvener, OneToken
  <2>5. CASE ~ Pending(m)
    <3>1. FreshEvent(store[a], e) \/ e.kind # "update"
      BY <1>6 DEF Accepts, AcceptsUpdate
    <3>2. \A b \in Agent : IsConvener(b)' => IsConvener(b)
      BY <2>3, <2>5, <3>1 DEF Pending
    <3>3. \A o \in net' : Pending(o)' => o \in net /\ Pending(o)
      BY <1>3, <2>3 DEF NetTypes
    <3> QED
      BY <1>4, <2>2, <3>2, <3>3, TokenStays
  <2> QED
    BY <2>4, <2>5
<1> QED
  BY <1>5, <1>6

LEMMA TokenInit == GroupInit => TokenInv
BY DEF GroupInit, NewStore, TokenInv, Types, StoreTypes, NetTypes, NothingYet, OwnMember,
       AtMostOneConvener, OneToken, IsConvener, Conv

LEMMA TokenNext == TokenInv /\ [GroupNext]_groupVars => TokenInv'
<1> SUFFICES ASSUME TokenInv, [GroupNext]_groupVars PROVE TokenInv'
  OBVIOUS
<1>1. CASE \E members \in SUBSET Agent : Convene(members)
  BY <1>1, ConveneStep
<1>2. ASSUME NEW c \in Agent, NEW members \in SUBSET Agent, ChangeMembers(c, members)
      PROVE  TokenInv'
  BY <1>2, ChangeMembersStep
<1>3. ASSUME NEW c \in Agent, NEW members \in SUBSET Agent, NEW to \in Agent,
             HandOff(c, to, members)
      PROVE  TokenInv'
  BY <1>3, HandOffStep
<1>4. ASSUME NEW a \in Agent, Leave(a) PROVE TokenInv'
  <2> DEFINE e == Signed("leave", a)
  <2>1. e.kind = "leave" /\ e.issuer = a /\ SignedEvent(e)
    BY DEF Signed, SignedEvent, Kinds
  <2> HIDE DEF e
  <2>2. Conv(a) # NoConversation /\ AppliesOwn(a, e) /\ net' = net \cup To(Conv(a).members \ {a}, e)
    BY <1>4 DEF Leave, e
  <2> QED
    BY <2>1, <2>2, PlainEventStep
<1>5. ASSUME NEW a \in Agent, Complete(a) PROVE TokenInv'
  <2> DEFINE e == Signed("complete", a)
  <2>1. e.kind = "complete" /\ e.issuer = a /\ SignedEvent(e)
    BY DEF Signed, SignedEvent, Kinds
  <2> HIDE DEF e
  <2>2. Conv(a) # NoConversation /\ AppliesOwn(a, e) /\ net' = net \cup To(Conv(a).members \ {a}, e)
    BY <1>5 DEF Complete, e
  <2> QED
    BY <2>1, <2>2, PlainEventStep
<1>6. ASSUME NEW m \in net, Deliver(m) PROVE TokenInv'
  BY <1>6, DeliverStep
<1>7. CASE UNCHANGED groupVars
  BY <1>7 DEF groupVars, TokenInv, Types, StoreTypes, NetTypes, NothingYet, OwnMember,
              AtMostOneConvener, OneToken, IsConvener, Conv, Pending
<1> QED
  BY <1>1, <1>2, <1>3, <1>4, <1>5, <1>6, <1>7 DEF GroupNext

\* A group has at most one convener at every moment, as all its members' stores
\* tell it: whatever is lost, duplicated or reordered, a handover works once,
\* after the one who hands over has stepped down.
THEOREM TokenIsNeverDoubled == GroupSpec => []AtMostOneConvener
<1>1. TokenInv => AtMostOneConvener
  BY DEF TokenInv
<1> QED
  BY <1>1, TokenInit, TokenNext, PTL DEF GroupSpec

--------------------------------------------------------------------------------
(***************************************************************************)
(* The numbers of a group's events, and what each action does.  Later      *)
(* proofs reason from the effects below and not from the actions.          *)
(***************************************************************************)

\* The numbers of the events that a has applied.
Known(a) == {store[a].events[i].nonce : i \in DOMAIN store[a].events}

\* Each event carries the number under which it was signed.  Where the network
\* does not duplicate, an agent hears of each number once.
Numbered ==
    /\ \A m \in net : m.event.nonce \in 1..issued
    /\ \A a \in Agent : Known(a) \subseteq 1..issued
    /\ network # "duplicating" =>
          /\ \A m \in net : m.event.nonce \notin Known(m.to)
          /\ \A m, o \in net : m.to = o.to /\ m.event.nonce = o.event.nonce => m = o

\* The members an update was made for.
Old(e) == (e.members \ e.added) \cup e.removed

\* What an agent signs: its own store would not have accepted less.
Proper(e) ==
    /\ e.authentic /\ FreshIat(e.iat, 0) /\ WellFormed(e)
    /\ e.kind = "update" =>
          /\ e.added = e.members \ Old(e) /\ e.removed = Old(e) \ e.members
          /\ e.from = IF e.convener = e.issuer THEN NoChange ELSE e.issuer

ProperMail == \A m \in net : Proper(m.event)

MailInv == TokenInv /\ Numbered /\ ProperMail

\* An agent applies an event of its own and sends word of it, to each agent
\* at most once.
Sends(a, e, out) ==
    /\ SignedEvent(e) /\ e.nonce = issued + 1
    /\ AppliesOwn(a, e)
    /\ net' = net \cup out
    /\ \A m \in out : m.to \in Agent \ {a} /\ m.event.nonce = issued + 1 /\ Proper(m.event)
    /\ \A m, o \in out : m.to = o.to => m = o

LEMMA FreshByNumber ==
    ASSUME NEW a, NEW d, d.nonce \notin Known(a)
    PROVE  FreshEvent(store[a], d)
BY DEF FreshEvent, Known

LEMMA LogNumbers ==
    ASSUME StoreTypes, NEW a \in Agent, NEW e, NEW log, log = Apply(store[a], a, e).events
    PROVE  {log[i].nonce : i \in DOMAIN log} = Known(a) \cup {e.nonce}
<1> DEFINE old == store[a].events
           n == Len(old)
<1>1. old = [i \in 1..n |-> old[i]] /\ n \in Nat
  BY DEF StoreTypes
<1>2. DOMAIN old = 1..n /\ old \in Seq({old[i] : i \in 1..n} \cup {e})
  BY <1>1
<1>3. log = Append(old, e)
  BY DEF Apply
<1>4. DOMAIN log = 1..(n + 1) /\ log[n + 1] = e /\ \A i \in 1..n : log[i] = old[i]
  BY <1>2, <1>3
<1>5. Known(a) = {old[i].nonce : i \in 1..n}
  BY <1>2 DEF Known
<1> HIDE DEF old, n
<1>6. 1..(n + 1) = (1..n) \cup {n + 1}
  BY <1>1
<1> QED
  BY <1>4, <1>5, <1>6

\* What a store that applies an event changes for the others: nothing.
LEMMA ApplyChanges ==
    ASSUME StoreTypes, NEW a \in Agent, NEW e, store' = [store EXCEPT ![a] = Apply(@, a, e)]
    PROVE  /\ Conv(a)' = Apply(store[a], a, e).conv
           /\ Known(a)' = Known(a) \cup {e.nonce}
           /\ \A b \in Agent \ {a} : Conv(b)' = Conv(b) /\ Known(b)' = Known(b)
<1>1. DOMAIN store = Agent
  BY DEF StoreTypes
<1>2. store'[a] = Apply(store[a], a, e) /\ \A b \in Agent \ {a} : store'[b] = store[b]
  BY <1>1
<1>3. Known(a)' = Known(a) \cup {e.nonce}
  <2> DEFINE log == Apply(store[a], a, e).events
  <2>1. {log[i].nonce : i \in DOMAIN log} = Known(a) \cup {e.nonce}
    BY LogNumbers
  <2>2. store'[a].events = log
    BY <1>2
  <2> HIDE DEF log
  <2>3. Known(a)' = {log[i].nonce : i \in DOMAIN log}
    BY <2>2 DEF Known
  <2> QED
    BY <2>1, <2>3
<1>4. Conv(a)' = Apply(store[a], a, e).conv
  BY <1>2 DEF Conv
<1>5. \A b \in Agent \ {a} : Conv(b)' = Conv(b) /\ Known(b)' = Known(b)
  BY <1>2 DEF Conv, Known
<1> QED
  BY <1>3, <1>4, <1>5

LEMMA UpdateIsProper ==
    ASSUME NEW c, NEW old, NEW members, NEW to, NEW st, NEW e, e = Update(c, old, members, to),
           Accepts(st, c, e, 0)
    PROVE  /\ Old(e) = old /\ Proper(e)
           /\ Proper(Invitation(c, members)) \/ to # c
<1>1. /\ e.kind = "update" /\ e.members = members /\ e.convener = to /\ e.issuer = c
      /\ e.added = members \ old /\ e.removed = old \ members
      /\ e.from = (IF to = c THEN NoChange ELSE c) /\ e.iat = 0
  BY DEF Update
<1>2. Old(e) = old
  BY <1>1 DEF Old
<1>3. e.authentic /\ FreshIat(e.iat, 0) /\ WellFormed(e)
  BY DEF Accepts
<1>4. Proper(e)
  BY <1>1, <1>2, <1>3 DEF Proper
<1>5. ASSUME to = c PROVE Proper(Invitation(c, members))
  <2> DEFINE i == Invitation(c, members)
  <2>1. /\ i.kind = "invitation" /\ i.members = members /\ i.convener = c
        /\ i.authentic = TRUE /\ i.iat = 0
    BY DEF Invitation
  <2> HIDE DEF i
  <2>2. WellFormed(i)
    BY <1>1, <1>3, <1>5, <2>1 DEF WellFormed
  <2>3. FreshIat(i.iat, 0)
    BY <1>1, <1>3, <2>1
  <2>4. Proper(i)
    BY <2>1, <2>2, <2>3 DEF Proper
  <2> QED
    BY <2>4 DEF i
<1> QED
  BY <1>2, <1>4, <1>5

LEMMA SignedIsProper ==
    ASSUME NEW a, NEW kind \in {"leave", "complete"}, NEW st, NEW e, e = Signed(kind, a),
           Accepts(st, a, e, 0)
    PROVE  Proper(e)
<1>1. e.kind = kind
  BY DEF Signed
<1> QED
  BY <1>1 DEF Proper, Accepts

\* What the actions by which an agent signs have in common.
LEMMA ChangeMembersSends ==
    ASSUME TokenInv, NEW c \in Agent, NEW members \in SUBSET Agent, ChangeMembers(c, members),
           NEW old, old = Conv(c).members
    PROVE  Sends(c, Update(c, old, members, c),
                 To(old \ {c}, Update(c, old, members, c))
                   \cup To(members \ old, Invitation(c, members)))
<1> DEFINE e == Update(c, old, members, c)
           i == Invitation(c, members)
<1>1. /\ Conv(c) # NoConversation /\ AppliesOwn(c, e)
      /\ net' = net \cup To(old \ {c}, e) \cup To(members \ old, i)
  BY DEF ChangeMembers
<1>2. /\ e.kind = "update" /\ e.issuer = c /\ e.members = members /\ e.convener = c
      /\ e.nonce = issued + 1 /\ i.nonce = issued + 1
  BY DEF Update, Invitation
<1>3. SignedEvent(e)
  BY <1>2 DEF SignedEvent, Kinds
<1>4. c \in old /\ old \subseteq Agent
  BY <1>1 DEF TokenInv, Types, OwnMember, StoreTypes, ConversationRecords
<1>6. Proper(e) /\ Proper(i)
  BY <1>1, UpdateIsProper DEF AppliesOwn
<1> HIDE DEF e, i
<1>5. \A m, o \in To(old \ {c}, e) \cup To(members \ old, i) : m.to = o.to => m = o
  BY DEF To
<1> QED
  BY <1>1, <1>2, <1>3, <1>4, <1>5, <1>6 DEF To, Sends, e, i

LEMMA PlainSends ==
    ASSUME TokenInv, NEW a \in Agent, NEW e, SignedEvent(e), e.nonce = issued + 1, Proper(e),
           AppliesOwn(a, e), Conv(a) # NoConversation,
           net' = net \cup To(Conv(a).members \ {a}, e)
    PROVE  Sends(a, e, To(Conv(a).members \ {a}, e))
<1>1. Conv(a).members \subseteq Agent
  BY DEF TokenInv, Types, StoreTypes, ConversationRecords
<1>2. \A m, o \in To(Conv(a).members \ {a}, e) : m.to = o.to => m = o
  BY DEF To
<1> QED
  BY <1>1, <1>2 DEF To, Sends

LEMMA SendsNumbers ==
    ASSUME MailInv, NEW a \in Agent, NEW e, NEW out, Sends(a, e, out)
    PROVE  Numbered' /\ ProperMail'
<1>1. issued \in Nat /\ issued' = issued + 1 /\ network' = network /\ net' = net \cup out
  BY DEF MailInv, TokenInv, Types, NothingYet, Sends, AppliesOwn
<1>2. /\ Known(a)' = Known(a) \cup {issued + 1}
      /\ \A b \in Agent \ {a} : Known(b)' = Known(b)
  BY ApplyChanges DEF MailInv, TokenInv, Types, Sends, AppliesOwn
<1>3. \A m \in net : m.event.nonce \in 1..issued /\ m.event.nonce # issued + 1 /\ m.to \in Agent
  BY <1>1 DEF MailInv, Numbered, TokenInv, Types, NetTypes
<1>4. \A b \in Agent : Known(b) \subseteq 1..issued /\ issued + 1 \notin Known(b)
  BY <1>1 DEF MailInv, Numbered
<1>5. 1..issued \subseteq 1..issued' /\ issued + 1 \in 1..issued'
  BY <1>1
<1>6. \A m \in out : m.to \in Agent \ {a} /\ m.event.nonce = issued + 1
  BY DEF Sends
<1>7. \A m \in net' : m.event.nonce \in 1..issued'
  BY <1>1, <1>3, <1>5, <1>6
<1>8. \A b \in Agent : Known(b)' \subseteq 1..issued'
  BY <1>2, <1>4, <1>5
<1>9. ASSUME network # "duplicating", NEW m \in net' PROVE m.event.nonce \notin Known(m.to)'
  <2>1. CASE m \in out
    BY <1>2, <1>4, <1>6, <2>1
  <2>2. CASE m \in net
    BY <1>2, <1>3, <1>9, <2>2 DEF MailInv, Numbered
  <2> QED
    BY <1>1, <2>1, <2>2
<1>10. ASSUME network # "duplicating", NEW m \in net', NEW o \in net',
              m.to = o.to, m.event.nonce = o.event.nonce
       PROVE  m = o
  <2>1. (m \in out /\ o \in out) \/ (m \in net /\ o \in net)
    BY <1>1, <1>3, <1>6, <1>10
  <2> QED
    BY <1>10, <2>1 DEF Sends, MailInv, Numbered
<1>11. ProperMail'
  BY <1>1 DEF MailInv, ProperMail, Sends
<1> QED
  BY <1>1, <1>7, <1>8, <1>9, <1>10, <1>11 DEF Numbered

LEMMA DeliverNumbers ==
    ASSUME MailInv, NEW m \in net, Deliver(m)
    PROVE  Numbered' /\ ProperMail'
<1> DEFINE a == m.to
           e == m.event
<1>1. /\ issued' = issued /\ network' = network /\ net' \subseteq net
      /\ network # "duplicating" => net' = net \ {m}
  BY DEF Deliver
<1>2. a \in Agent /\ e.nonce \in 1..issued /\ \A o \in net : o.to \in Agent
  BY DEF MailInv, TokenInv, Types, NetTypes, Numbered
<1>3. \A b \in Agent : Known(b)' = Known(b) \/ (b = a /\ Known(b)' = Known(b) \cup {e.nonce})
  <2>1. CASE Accepts(store[a], a, e, 0)
    BY <1>2, <2>1, ApplyChanges DEF Deliver, MailInv, TokenInv, Types
  <2>2. CASE ~ Accepts(store[a], a, e, 0)
    BY <2>2 DEF Deliver, Known
  <2> QED
    BY <2>1, <2>2
<1> HIDE DEF a, e
<1>4. \A b \in Agent : Known(b)' \subseteq 1..issued
  BY <1>2, <1>3 DEF MailInv, Numbered
<1>5. ASSUME network # "duplicating", NEW o \in net' PROVE o.event.nonce \notin Known(o.to)'
  <2>1. o \in net /\ o # m /\ o.to \in Agent /\ o.event.nonce \notin Known(o.to)
    BY <1>1, <1>2, <1>5 DEF MailInv, Numbered
  <2>2. o.to = a => o.event.nonce # e.nonce
    BY <1>5, <2>1 DEF MailInv, Numbered, a, e
  <2> QED
    BY <1>3, <2>1, <2>2
<1>6. ProperMail'
  BY <1>1 DEF MailInv, ProperMail
<1> QED
  BY <1>1, <1>4, <1>5, <1>6 DEF MailInv, Numbered

LEMMA MailInit == GroupInit => MailInv
<1> SUFFICES ASSUME GroupInit PROVE MailInv
  OBVIOUS
<1>1. TokenInv
  BY TokenInit
<1>2. \A a \in Agent : Known(a) = {}
  BY DEF GroupInit, NewStore, Known
<1> QED
  BY <1>1, <1>2 DEF GroupInit, MailInv, Numbered, ProperMail

LEMMA MailNext == MailInv /\ [GroupNext]_groupVars => MailInv'
<1> SUFFICES ASSUME MailInv, [GroupNext]_groupVars PROVE Numbered' /\ ProperMail'
  BY TokenNext DEF MailInv
<1>1. ASSUME NEW members \in SUBSET Agent, Convene(members) PROVE Numbered' /\ ProperMail'
  <2> DEFINE e == Invitation(Founder, members)
  <2>1. /\ issued = 0 /\ issued' = 1 /\ network' = network
        /\ net' = To(members \ {Founder}, e) /\ e.nonce = 1
        /\ store' = [store EXCEPT ![Founder].conv = Conversation(members, Founder)]
    BY <1>1 DEF Convene, Invitation
  <2>2. \A a \in Agent : Known(a)' = Known(a)
    BY <2>1 DEF Known, MailInv, TokenInv, Types, StoreTypes
  <2>3. \A a \in Agent : Known(a) = {}
    BY <2>1 DEF MailInv, Numbered
  <2>9. Proper(e)
    <3>1. e.kind = "invitation" /\ e.authentic = TRUE /\ e.iat = 0 /\ WellFormed(e)
      BY <1>1 DEF Convene, Invitation
    <3>2. FreshIat(0, 0)
      BY PolicyAssumption DEF FreshIat
    <3> QED
      BY <3>1, <3>2 DEF Proper
  <2> HIDE DEF e
  <2>4. \A m \in net' : m.to \in Agent /\ m.event = e
    BY <2>1 DEF To
  <2>5. \A m, o \in net' : m.to = o.to => m = o
    BY <2>1 DEF To
  <2>6. \A m \in net' : m.event.nonce = 1 /\ Known(m.to)' = {}
    BY <2>1, <2>2, <2>3, <2>4
  <2>8. 1 \in 1..1
    OBVIOUS
  <2>7. \A a \in Agent : Known(a)' \subseteq 1..issued'
    BY <2>2, <2>3
  <2> HIDE DEF To
  <2> QED
    BY <2>1, <2>4, <2>5, <2>6, <2>7, <2>8, <2>9 DEF Numbered, ProperMail
<1>2. ASSUME NEW c \in Agent, NEW members \in SUBSET Agent, ChangeMembers(c, members)
      PROVE  Numbered' /\ ProperMail'
  BY <1>2, ChangeMembersSends, SendsNumbers DEF MailInv
<1>3. ASSUME NEW c \in Agent, NEW members \in SUBSET Agent, NEW to \in Agent,
             HandOff(c, to, members)
      PROVE  Numbered' /\ ProperMail'
  <2> DEFINE e == Update(c, Conv(c).members, members, to)
  <2>1. SignedEvent(e) /\ e.nonce = issued + 1
    BY DEF SignedEvent, Kinds, Update
  <2> HIDE DEF e
  <2>2. /\ AppliesOwn(c, e) /\ Conv(c) # NoConversation
        /\ net' = net \cup To(Conv(c).members \ {c}, e)
    BY <1>3 DEF HandOff, e
  <2>3. Proper(e)
    BY <2>2, UpdateIsProper DEF AppliesOwn, e
  <2> QED
    BY <2>1, <2>2, <2>3, PlainSends, SendsNumbers DEF MailInv
<1>4. ASSUME NEW a \in Agent, Leave(a) PROVE Numbered' /\ ProperMail'
  <2> DEFINE e == Signed("leave", a)
  <2>1. SignedEvent(e) /\ e.nonce = issued + 1
    BY DEF SignedEvent, Kinds, Signed
  <2> HIDE DEF e
  <2>2. /\ AppliesOwn(a, e) /\ Conv(a) # NoConversation
        /\ net' = net \cup To(Conv(a).members \ {a}, e)
    BY <1>4 DEF Leave, e
  <2>3. Proper(e)
    BY <2>2, SignedIsProper DEF AppliesOwn, e
  <2> QED
    BY <2>1, <2>2, <2>3, PlainSends, SendsNumbers DEF MailInv
<1>5. ASSUME NEW a \in Agent, Complete(a) PROVE Numbered' /\ ProperMail'
  <2> DEFINE e == Signed("complete", a)
  <2>1. SignedEvent(e) /\ e.nonce = issued + 1
    BY DEF SignedEvent, Kinds, Signed
  <2> HIDE DEF e
  <2>2. /\ AppliesOwn(a, e) /\ Conv(a) # NoConversation
        /\ net' = net \cup To(Conv(a).members \ {a}, e)
    BY <1>5 DEF Complete, e
  <2>3. Proper(e)
    BY <2>2, SignedIsProper DEF AppliesOwn, e
  <2> QED
    BY <2>1, <2>2, <2>3, PlainSends, SendsNumbers DEF MailInv
<1>6. ASSUME NEW m \in net, Deliver(m) PROVE Numbered' /\ ProperMail'
  BY <1>6, DeliverNumbers DEF MailInv
<1>7. CASE UNCHANGED groupVars
  BY <1>7 DEF groupVars, MailInv, Numbered, ProperMail, Known
<1> QED
  BY <1>1, <1>2, <1>3, <1>4, <1>5, <1>6, <1>7 DEF GroupNext

\* What a holds of a conversation between these members.
Placed(a, members, convener) ==
    IF a \in members THEN Held(members, convener, FALSE) ELSE NoConversation

LEMMA HeldExists ==
    ASSUME NEW m \in SUBSET Agent, NEW c \in Agent, NEW b \in BOOLEAN
    PROVE  Held(m, c, b) \in ConversationRecords /\ Held(m, c, b) # NoConversation
<1>1. Held(m, c, b) \in ConversationRecords
  BY DEF Held, ConversationRecords
<1> QED
  BY <1>1, GroupAssumption DEF ConversationRecords

LEMMA RecordIsHeld ==
    ASSUME NEW r \in ConversationRecords
    PROVE  r = Held(r.members, r.convener, r.completed)
BY DEF ConversationRecords, Held

LEMMA EditedRecord ==
    ASSUME NEW r \in ConversationRecords, r.completed = FALSE
    PROVE  /\ Finished(r) = Held(r.members, r.convener, TRUE)
           /\ \A n : Reduced(r, n) = Held(n, r.convener, FALSE)
           /\ \A n, d : Reassigned(r, n, d) = Held(n, d, FALSE)
<1> DEFINE m == r.members
           c == r.convener
           b == r.completed
<1>1. r = Held(m, c, b)
  BY RecordIsHeld
<1> HIDE DEF m, c, b
<1>2. Finished(Held(m, c, b)) = Held(m, c, TRUE)
  BY FinishedHeld
<1>3. ASSUME NEW n PROVE Reduced(Held(m, c, b), n) = Held(n, c, b)
  BY ReducedHeld
<1>4. ASSUME NEW n, NEW d PROVE Reassigned(Held(m, c, b), n, d) = Held(n, d, b)
  BY ReassignedHeld
<1>5. /\ Finished(r) = Held(m, c, TRUE)
      /\ \A n : Reduced(r, n) = Held(n, c, b)
      /\ \A n, d : Reassigned(r, n, d) = Held(n, d, b)
  BY <1>1, <1>2, <1>3, <1>4
<1> QED
  BY <1>5 DEF m, c, b

LEMMA OpenRecord ==
    ASSUME NEW r \in ConversationRecords, r.completed = FALSE
    PROVE  r = Held(r.members, r.convener, FALSE)
BY RecordIsHeld

\* What an event that a store accepts finds there, and what it leaves.
LEMMA ReceivedInvitation ==
    ASSUME NEW a \in Agent, NEW e, Accepts(store[a], a, e, 0), e.kind = "invitation"
    PROVE  /\ Conv(a) = NoConversation /\ a \in e.members /\ e.issuer = e.convener
           /\ e.convener \in e.members /\ Cardinality(e.members) \in 2..MaxMembers
           /\ Apply(store[a], a, e).conv = Held(e.members, e.convener, FALSE)
BY DEF Accepts, AcceptsInvitation, WellFormed, Conv, Apply, Conversation, Held

LEMMA ReceivedOther ==
    ASSUME Types, NEW a \in Agent, NEW e, SignedEvent(e), Accepts(store[a], a, e, 0),
           e.kind # "invitation"
    PROVE  /\ Conv(a) # NoConversation /\ Conv(a) \in ConversationRecords
           /\ Conv(a).completed = FALSE /\ a \in Conv(a).members
           /\ e.kind \in {"update", "complete"} => e.issuer = Conv(a).convener
<1>1. Conv(a) # NoConversation /\ ~ Conv(a).completed
  BY DEF SignedEvent, Kinds, Accepts, AcceptsUpdate, AcceptsLeave, AcceptsComplete, Open, Conv
<1>2. Conv(a) \in ConversationRecords /\ a \in Conv(a).members
  BY <1>1 DEF Types, StoreTypes, OwnMember
<1>3. Conv(a).completed = FALSE
  BY <1>1, <1>2 DEF ConversationRecords
<1>4. e.kind \in {"update", "complete"} => e.issuer = Conv(a).convener
  BY DEF Accepts, AcceptsUpdate, AcceptsComplete, Conv
<1> QED
  BY <1>1, <1>2, <1>3, <1>4

LEMMA ReceivedUpdate ==
    ASSUME Types, NEW a \in Agent, NEW e, SignedEvent(e), Accepts(store[a], a, e, 0),
           e.kind = "update"
    PROVE  /\ Conv(a).members = Old(e)
           /\ e.convener \in e.members /\ Cardinality(e.members) \in 2..MaxMembers
           /\ Apply(store[a], a, e).conv = Placed(a, e.members, e.convener)
<1>1. /\ e.added = e.members \ Conv(a).members /\ e.removed = Conv(a).members \ e.members
      /\ Apply(store[a], a, e).conv = AfterUpdate(Conv(a), a, e)
      /\ e.convener \in e.members /\ Cardinality(e.members) \in 2..MaxMembers
  BY DEF Accepts, AcceptsUpdate, WellFormed, Conv, Apply
<1>2. Conv(a).members = Old(e)
  BY <1>1 DEF Old
<1>3. Reassigned(Conv(a), e.members, e.convener) = Held(e.members, e.convener, FALSE)
  <2>1. Conv(a) \in ConversationRecords /\ Conv(a).completed = FALSE
    BY ReceivedOther
  <2>2. \A n, d : Reassigned(Conv(a), n, d) = Held(n, d, FALSE)
    BY <2>1, EditedRecord
  <2> QED
    BY <2>2
<1> QED
  BY <1>1, <1>2, <1>3 DEF AfterUpdate, Placed, Reassigned

LEMMA ReceivedLeave ==
    ASSUME Types, NEW a \in Agent, NEW e, SignedEvent(e), Accepts(store[a], a, e, 0),
           e.kind = "leave", NEW left, left = Conv(a).members \ {e.issuer}
    PROVE  /\ e.issuer \in Conv(a).members /\ e.issuer # Conv(a).convener
           /\ Apply(store[a], a, e).conv =
                IF a = e.issuer \/ Cardinality(left) < 2 THEN NoConversation
                ELSE Held(left, Conv(a).convener, FALSE)
<1>1. /\ e.issuer \in Conv(a).members /\ e.issuer # Conv(a).convener
      /\ Apply(store[a], a, e).conv = AfterLeave(Conv(a), a, e)
  BY DEF Accepts, AcceptsLeave, Conv, Apply
<1>2. Reduced(Conv(a), left) = Held(left, Conv(a).convener, FALSE)
  BY ReceivedOther, EditedRecord
<1> QED
  BY <1>1, <1>2 DEF AfterLeave, Reduced

LEMMA ReceivedComplete ==
    ASSUME Types, NEW a \in Agent, NEW e, SignedEvent(e), Accepts(store[a], a, e, 0),
           e.kind = "complete"
    PROVE  Apply(store[a], a, e).conv = Held(Conv(a).members, Conv(a).convener, TRUE)
<1>1. Apply(store[a], a, e).conv = Finished(Conv(a))
  BY DEF Apply, Conv, Finished
<1> QED
  BY <1>1, ReceivedOther, EditedRecord

\* What the founder's invitation i leaves.
Convened(members, i) ==
    /\ issued = 0 /\ issued' = 1 /\ net = {}
    /\ \A a \in Agent : Conv(a) = NoConversation
    /\ Founder \in Agent /\ Founder \in members /\ Cardinality(members) \in 2..MaxMembers
    /\ Conv(Founder)' = Held(members, Founder, FALSE)
    /\ Conv(Founder)'.members = members /\ Conv(Founder)'.convener = Founder
    /\ Conv(Founder)'.completed = FALSE
    /\ \A b \in Agent \ {Founder} : Conv(b)' = NoConversation
    /\ net' = To(members \ {Founder}, i)
    /\ i.kind = "invitation" /\ i.issuer = Founder /\ i.members = members
    /\ i.convener = Founder /\ i.nonce = 1
    /\ network' = network /\ refused' = refused /\ happened' = happened

\* What the convener c finds and leaves when it makes the old members these, by
\* the update e to the old ones and the invitation i to the new ones.
MembersChanged(c, members, old, e, i) ==
    /\ IsConvener(c) /\ Conv(c) \in ConversationRecords /\ Conv(c) = Held(old, c, FALSE)
    /\ c \in old /\ old \subseteq Agent /\ c \in members
    /\ Cardinality(members) \in 2..MaxMembers
    /\ Conv(c)' = Held(members, c, FALSE)
    /\ Conv(c)'.members = members /\ Conv(c)'.convener = c /\ Conv(c)'.completed = FALSE
    /\ \A b \in Agent \ {c} : Conv(b)' = Conv(b)
    /\ net' = net \cup To(old \ {c}, e) \cup To(members \ old, i)
    /\ e.kind = "update" /\ e.issuer = c /\ e.members = members /\ e.convener = c
    /\ e.nonce = issued + 1 /\ Old(e) = old
    /\ i.kind = "invitation" /\ i.issuer = c /\ i.members = members /\ i.convener = c
    /\ i.nonce = issued + 1
    /\ network' = network /\ refused' = refused /\ happened' = happened
    /\ issued' = issued + 1 /\ issued \in Nat

\* What c finds and leaves when it hands over by the update e.
HandedOff(c, to, members, old, e) ==
    /\ IsConvener(c) /\ Conv(c) \in ConversationRecords /\ Conv(c) = Held(old, c, FALSE)
    /\ c \in old /\ old \subseteq Agent /\ c # to /\ to \in members
    /\ members \in {old, old \ {c}}
    /\ Conv(c)' = Placed(c, members, to)
    /\ \A b \in Agent \ {c} : Conv(b)' = Conv(b)
    /\ net' = net \cup To(old \ {c}, e)
    /\ e.kind = "update" /\ e.issuer = c /\ e.members = members /\ e.convener = to
    /\ e.nonce = issued + 1 /\ Old(e) = old
    /\ network' = network /\ refused' = refused /\ happened' = happened \cup {"handoff"}
    /\ issued' = issued + 1 /\ issued \in Nat

\* What a member a finds and leaves when it leaves by the event e.
Left(a, old, e) ==
    /\ Conv(a) # NoConversation /\ Conv(a).completed = FALSE
    /\ a \in old /\ old \subseteq Agent /\ a # Conv(a).convener
    /\ Conv(a)' = NoConversation
    /\ \A b \in Agent \ {a} : Conv(b)' = Conv(b)
    /\ net' = net \cup To(old \ {a}, e)
    /\ e.kind = "leave" /\ e.issuer = a /\ e.nonce = issued + 1
    /\ network' = network /\ refused' = refused /\ happened' = happened \cup {"leave"}
    /\ issued' = issued + 1 /\ issued \in Nat

\* What the convener c finds and leaves when it completes by the event e.
Completed(c, old, e) ==
    /\ IsConvener(c) /\ Conv(c) \in ConversationRecords /\ Conv(c) = Held(old, c, FALSE)
    /\ c \in old /\ old \subseteq Agent
    /\ Conv(c)' = Held(old, c, TRUE)
    /\ Conv(c)'.members = old /\ Conv(c)'.convener = c /\ Conv(c)'.completed = TRUE
    /\ \A b \in Agent \ {c} : Conv(b)' = Conv(b)
    /\ net' = net \cup To(old \ {c}, e)
    /\ e.kind = "complete" /\ e.issuer = c /\ e.nonce = issued + 1
    /\ network' = network /\ refused' = refused /\ happened' = happened
    /\ issued' = issued + 1 /\ issued \in Nat

\* What the arrival of e at a leaves.
Delivered(m, a, e) ==
    /\ a \in Agent /\ SignedEvent(e) /\ e.issuer # a
    /\ net' = IF network = "duplicating" THEN net ELSE net \ {m}
    /\ network' = network /\ issued' = issued /\ happened' = happened
    /\ \A b \in Agent \ {a} : Conv(b)' = Conv(b)
    /\ IF Accepts(store[a], a, e, 0)
       THEN /\ Conv(a)' = Apply(store[a], a, e).conv /\ refused' = refused
            /\ store' = [store EXCEPT ![a] = Apply(@, a, e)]
       ELSE Conv(a)' = Conv(a) /\ refused' = refused \cup {a} /\ store' = store

\* Of an event that its issuer applies itself.
LEMMA OwnEffect ==
    ASSUME TokenInv, NEW a \in Agent, NEW e, AppliesOwn(a, e)
    PROVE  /\ Accepts(store[a], a, e, 0) /\ Conv(a)' = Apply(store[a], a, e).conv
           /\ \A b \in Agent \ {a} : Conv(b)' = Conv(b)
           /\ network' = network /\ refused' = refused /\ issued' = issued + 1 /\ issued \in Nat
<1>1. StoreTypes /\ store' = [store EXCEPT ![a] = Apply(@, a, e)]
  BY DEF TokenInv, Types, AppliesOwn
<1> QED
  BY <1>1, ApplyChanges DEF AppliesOwn, TokenInv, Types, NothingYet

LEMMA ConveneFacts ==
    ASSUME TokenInv, NEW members \in SUBSET Agent, Convene(members),
           NEW i, i = Invitation(Founder, members)
    PROVE  Convened(members, i)
<1>1. /\ i.kind = "invitation" /\ i.issuer = Founder /\ i.members = members
      /\ i.convener = Founder /\ i.nonce = issued + 1
  BY DEF Invitation
<1>2. /\ issued = 0 /\ issued' = issued + 1 /\ net' = To(members \ {Founder}, i) /\ WellFormed(i)
      /\ store' = [store EXCEPT ![Founder].conv = Conversation(members, Founder)]
      /\ network' = network /\ refused' = refused /\ happened' = happened
  BY DEF Convene
<1>3. net = {} /\ \A a \in Agent : Conv(a) = NoConversation
  BY <1>2 DEF TokenInv, Types, NothingYet
<1>4. Founder \in members /\ Cardinality(members) \in 2..MaxMembers
  BY <1>1, <1>2 DEF WellFormed
<1>5. /\ Conv(Founder)' = Conversation(members, Founder)
      /\ \A b \in Agent \ {Founder} : Conv(b)' = Conv(b)
  BY <1>2, GroupAssumption DEF TokenInv, Types, StoreTypes, Conv
<1>6. Conversation(members, Founder) = Held(members, Founder, FALSE)
  BY DEF Conversation, Held
<1>20. /\ Held(members, Founder, FALSE).members = members
       /\ Held(members, Founder, FALSE).convener = Founder
       /\ Held(members, Founder, FALSE).completed = FALSE
  BY DEF Held
<1>7. /\ Conv(Founder)' = Held(members, Founder, FALSE)
      /\ Conv(Founder)'.members = members /\ Conv(Founder)'.convener = Founder
      /\ Conv(Founder)'.completed = FALSE
  BY <1>5, <1>6, <1>20
<1>8. \A b \in Agent \ {Founder} : Conv(b)' = NoConversation
  BY <1>3, <1>5
<1>9. /\ i.kind = "invitation" /\ i.issuer = Founder /\ i.members = members
      /\ i.convener = Founder /\ i.nonce = 1 /\ issued' = 1 /\ Founder \in Agent
  BY <1>1, <1>2, GroupAssumption
<1> QED
  BY <1>2, <1>3, <1>4, <1>7, <1>8, <1>9 DEF Convened

LEMMA ChangeMembersFacts ==
    ASSUME TokenInv, NEW c \in Agent, NEW members \in SUBSET Agent, ChangeMembers(c, members),
           NEW old, old = Conv(c).members,
           NEW e, e = Update(c, old, members, c), NEW i, i = Invitation(c, members)
    PROVE  MembersChanged(c, members, old, e, i)
<1>1. /\ Conv(c) # NoConversation /\ AppliesOwn(c, e) /\ happened' = happened
      /\ net' = net \cup To(old \ {c}, e) \cup To(members \ old, i)
  BY DEF ChangeMembers
<1>2. /\ e.kind = "update" /\ e.issuer = c /\ e.members = members /\ e.convener = c
      /\ e.nonce = issued + 1
      /\ i.kind = "invitation" /\ i.issuer = c /\ i.members = members /\ i.convener = c
      /\ i.nonce = issued + 1
  BY DEF Update, Invitation
<1>3. SignedEvent(e)
  BY <1>2 DEF SignedEvent, Kinds
<1>4. Accepts(store[c], c, e, 0) /\ Old(e) = old
  BY <1>1, UpdateIsProper DEF AppliesOwn
<1>5. /\ Conv(c) \in ConversationRecords /\ Conv(c).completed = FALSE
      /\ c \in old /\ c = Conv(c).convener
  BY <1>2, <1>3, <1>4, ReceivedOther DEF TokenInv
<1>10. /\ c \in members /\ Cardinality(members) \in 2..MaxMembers
       /\ Apply(store[c], c, e).conv = Placed(c, members, c)
  BY <1>2, <1>3, <1>4, ReceivedUpdate DEF TokenInv
<1>6. Placed(c, members, c) = Held(members, c, FALSE)
  BY <1>10 DEF Placed
<1>7. IsConvener(c) /\ old \subseteq Agent
  BY <1>1, <1>5 DEF IsConvener, ConversationRecords
<1>8. /\ Conv(c)' = Held(members, c, FALSE)
      /\ \A b \in Agent \ {c} : Conv(b)' = Conv(b)
      /\ network' = network /\ refused' = refused /\ issued' = issued + 1 /\ issued \in Nat
  BY <1>1, <1>6, <1>10, OwnEffect
<1>9. Conv(c) = Held(old, c, FALSE)
  BY <1>5, OpenRecord
<1>20. /\ Held(members, c, FALSE).members = members /\ Held(members, c, FALSE).convener = c
       /\ Held(members, c, FALSE).completed = FALSE
  BY DEF Held
<1> QED
  BY <1>20, <1>1, <1>2, <1>4, <1>5, <1>7, <1>8, <1>9, <1>10 DEF MembersChanged

LEMMA HandOffFacts ==
    ASSUME TokenInv, NEW c \in Agent, NEW to \in Agent, NEW members \in SUBSET Agent,
           HandOff(c, to, members), NEW old, old = Conv(c).members,
           NEW e, e = Update(c, old, members, to)
    PROVE  HandedOff(c, to, members, old, e)
<1>1. /\ Conv(c) # NoConversation /\ AppliesOwn(c, e) /\ happened' = happened \cup {"handoff"}
      /\ net' = net \cup To(old \ {c}, e) /\ c # to /\ members \in {old, old \ {c}}
  BY DEF HandOff
<1>2. /\ e.kind = "update" /\ e.issuer = c /\ e.members = members /\ e.convener = to
      /\ e.nonce = issued + 1
  BY DEF Update
<1>3. SignedEvent(e)
  BY <1>2 DEF SignedEvent, Kinds
<1>4. Accepts(store[c], c, e, 0) /\ Old(e) = old
  BY <1>1, UpdateIsProper DEF AppliesOwn
<1>5. /\ Conv(c) \in ConversationRecords /\ Conv(c).completed = FALSE
      /\ c \in old /\ c = Conv(c).convener
  BY <1>2, <1>3, <1>4, ReceivedOther DEF TokenInv
<1>6. to \in members /\ Apply(store[c], c, e).conv = Placed(c, members, to)
  BY <1>2, <1>3, <1>4, ReceivedUpdate DEF TokenInv
<1>7. IsConvener(c) /\ old \subseteq Agent
  BY <1>1, <1>5 DEF IsConvener, ConversationRecords
<1>8. /\ Conv(c)' = Placed(c, members, to)
      /\ \A b \in Agent \ {c} : Conv(b)' = Conv(b)
      /\ network' = network /\ refused' = refused /\ issued' = issued + 1 /\ issued \in Nat
  BY <1>1, <1>6, OwnEffect
<1>9. Conv(c) = Held(old, c, FALSE)
  BY <1>5, OpenRecord
<1> QED
  BY <1>1, <1>2, <1>4, <1>5, <1>6, <1>7, <1>8, <1>9 DEF HandedOff

LEMMA LeaveFacts ==
    ASSUME TokenInv, NEW a \in Agent, Leave(a), NEW old, old = Conv(a).members,
           NEW e, e = Signed("leave", a)
    PROVE  Left(a, old, e)
<1>1. /\ AppliesOwn(a, e) /\ happened' = happened \cup {"leave"} /\ Conv(a) # NoConversation
      /\ net' = net \cup To(old \ {a}, e)
  BY DEF Leave
<1>2. e.kind = "leave" /\ e.issuer = a /\ e.nonce = issued + 1
  BY DEF Signed
<1>3. SignedEvent(e)
  BY <1>2 DEF SignedEvent, Kinds
<1>4. Accepts(store[a], a, e, 0)
  BY <1>1 DEF AppliesOwn
<1>5. /\ Conv(a) \in ConversationRecords /\ a \in old /\ a # Conv(a).convener
      /\ Conv(a).completed = FALSE
      /\ Apply(store[a], a, e).conv = NoConversation
  BY <1>2, <1>3, <1>4, ReceivedOther, ReceivedLeave DEF TokenInv
<1> QED
  BY <1>1, <1>2, <1>5, OwnEffect DEF ConversationRecords, Left

LEMMA CompleteFacts ==
    ASSUME TokenInv, NEW c \in Agent, Complete(c), NEW old, old = Conv(c).members,
           NEW e, e = Signed("complete", c)
    PROVE  Completed(c, old, e)
<1>1. /\ AppliesOwn(c, e) /\ happened' = happened /\ Conv(c) # NoConversation
      /\ net' = net \cup To(old \ {c}, e)
  BY DEF Complete
<1>2. e.kind = "complete" /\ e.issuer = c /\ e.nonce = issued + 1
  BY DEF Signed
<1>3. SignedEvent(e)
  BY <1>2 DEF SignedEvent, Kinds
<1>4. Accepts(store[c], c, e, 0)
  BY <1>1 DEF AppliesOwn
<1>5. /\ Conv(c) \in ConversationRecords /\ c \in old /\ c = Conv(c).convener
      /\ Conv(c).completed = FALSE
      /\ Apply(store[c], c, e).conv = Held(Conv(c).members, Conv(c).convener, TRUE)
  BY <1>2, <1>3, <1>4, ReceivedOther, ReceivedComplete DEF TokenInv
<1>6. Conv(c) = Held(old, c, FALSE) /\ Apply(store[c], c, e).conv = Held(old, c, TRUE)
  BY <1>5, OpenRecord
<1>7. IsConvener(c) /\ old \subseteq Agent
  BY <1>1, <1>5 DEF IsConvener, ConversationRecords
<1>20. /\ Held(old, c, TRUE).members = old /\ Held(old, c, TRUE).convener = c
       /\ Held(old, c, TRUE).completed = TRUE
  BY DEF Held
<1> QED
  BY <1>20, <1>1, <1>2, <1>5, <1>6, <1>7, OwnEffect DEF Completed

LEMMA DeliverFacts ==
    ASSUME TokenInv, NEW m \in net, Deliver(m), NEW a, a = m.to, NEW e, e = m.event
    PROVE  Delivered(m, a, e)
<1>1. a \in Agent /\ SignedEvent(e) /\ e.issuer # a
  BY DEF TokenInv, Types, NetTypes
<1>2. CASE Accepts(store[a], a, e, 0)
  <2>1. /\ Conv(a)' = Apply(store[a], a, e).conv
        /\ \A b \in Agent \ {a} : Conv(b)' = Conv(b)
    BY <1>1, <1>2, ApplyChanges DEF Deliver, TokenInv, Types
  <2> QED
    BY <1>1, <1>2, <2>1 DEF Deliver, Delivered
<1>3. CASE ~ Accepts(store[a], a, e, 0)
  <2>1. store' = store
    BY <1>3 DEF Deliver
  <2>2. \A b \in Agent : Conv(b)' = Conv(b)
    BY <2>1 DEF Conv
  <2> QED
    BY <1>1, <1>3, <2>1, <2>2 DEF Deliver, Delivered
<1> QED
  BY <1>2, <1>3

--------------------------------------------------------------------------------
(***************************************************************************)
(* A group without handovers: whom the founder counts as a member.  What   *)
(* has to be said of the events in between is that each member that lost   *)
(* the conversation will hear from the founder, or the founder from it.    *)
(***************************************************************************)

\* As long as nobody hands over, the founder is everyone's convener, and every
\* event but a leave is the founder's.
OneFounder ==
    "handoff" \notin happened =>
        /\ \A b \in Agent : Conv(b) # NoConversation =>
              Conv(b).convener = Founder /\ Founder \in Conv(b).members
        /\ \A m \in net : m.event.kind = "leave" <=> m.event.issuer # Founder
        /\ \A m \in net : m.event.kind \in {"update", "invitation"} =>
              m.event.convener = Founder /\ Founder \in m.event.members

\* a will hear from the founder, or the founder from a.
HearsFromFounder(a) == \E m \in net : m.to = a /\ m.event.issuer = Founder

IsHeardByFounder(a) == \E m \in net : m.to = Founder /\ m.event.issuer = a

WillComplete(a) ==
    \E m \in net : m.to = a /\ m.event.issuer = Founder /\ m.event.kind = "complete"

\* The founder has sent the agent of m nothing after m.
LastWord(m) ==
    \A o \in net : o.to = m.to /\ o.event.issuer = Founder => o.event.nonce <= m.event.nonce

\* A member that the founder counts and that refused nothing is in the
\* conversation, or word of a change of that is on its way.
Counted(a) ==
    /\ Conv(a) = NoConversation =>
          \/ HearsFromFounder(a)
          \/ IsHeardByFounder(a) /\ ~ Conv(Founder).completed
    /\ Conv(Founder).completed =>
          WillComplete(a) \/ (Conv(a) # NoConversation /\ Conv(a).completed)

AllCounted ==
    network = "ordered" /\ "handoff" \notin happened /\ Conv(Founder) # NoConversation =>
        /\ \A a \in Conv(Founder).members \ (refused \cup {Founder}) : Counted(a)
        /\ \A m \in net : m.event.kind = "update" /\ m.to \notin m.event.members /\ LastWord(m) =>
              m.to \notin Conv(Founder).members

CountInv == MailInv /\ OneFounder /\ AllCounted

LEMMA ToElements ==
    ASSUME NEW S, NEW e
    PROVE  /\ \A m \in To(S, e) : m.to \in S /\ m.event = e
           /\ \A a \in S : \E m \in To(S, e) : m.to = a /\ m.event = e
<1>1. \A m \in To(S, e) : m.to \in S /\ m.event = e
  BY DEF To
<1>2. ASSUME NEW a \in S PROVE \E m \in To(S, e) : m.to = a /\ m.event = e
  <2>1. [to |-> a, event |-> e] \in To(S, e)
    BY DEF To
  <2> QED
    BY <2>1
<1> QED
  BY <1>1, <1>2

LEMMA TwoMembers ==
    ASSUME NEW S \in SUBSET Agent, NEW a \in S, NEW b \in S, a # b
    PROVE  ~ (Cardinality(S) < 2)
<1>1. IsFiniteSet(S)
  BY GroupAssumption, FS_Subset
<1>2. IsFiniteSet(S \ {a}) /\ Cardinality(S) \in Nat /\ Cardinality(S \ {a}) = Cardinality(S) - 1
  BY <1>1, FS_RemoveElement, FS_CardinalityType
<1>3. Cardinality(S \ {a}) \in Nat /\ Cardinality(S \ {a}) # 0
  BY <1>2, FS_CardinalityType, FS_EmptySet
<1> QED
  BY <1>2, <1>3

LEMMA FounderConvenes ==
    ASSUME MailInv, NEW members \in SUBSET Agent, Convene(members)
    PROVE  OneFounder' /\ AllCounted'
<1>1. PICK i : i = Invitation(Founder, members)
  OBVIOUS
<1>0. Convened(members, i)
  BY <1>1, ConveneFacts DEF MailInv
<1>2. /\ Founder \in Agent /\ Founder \in members
      /\ Conv(Founder)'.members = members /\ Conv(Founder)'.convener = Founder
      /\ Conv(Founder)'.completed = FALSE
      /\ \A b \in Agent \ {Founder} : Conv(b)' = NoConversation
  BY <1>0 DEF Convened
<1>3. /\ i.kind = "invitation" /\ i.issuer = Founder /\ i.members = members
      /\ i.convener = Founder
  BY <1>0 DEF Convened
<1>4. net' = To(members \ {Founder}, i)
  BY <1>0 DEF Convened
<1>5. \A m \in net' : m.event = i
  BY <1>4, ToElements
<1>6. \A a \in members \ {Founder} : \E m \in net' : m.to = a /\ m.event = i
  BY <1>4, ToElements
<1>7. OneFounder'
  BY <1>2, <1>3, <1>5 DEF OneFounder
<1>8. ASSUME NEW a \in Conv(Founder)'.members \ (refused' \cup {Founder}) PROVE Counted(a)'
  <2>1. HearsFromFounder(a)'
    BY <1>2, <1>3, <1>6, <1>8 DEF HearsFromFounder
  <2> QED
    BY <1>2, <2>1 DEF Counted
<1>9. AllCounted'
  BY <1>3, <1>5, <1>8 DEF AllCounted
<1> QED
  BY <1>7, <1>9

LEMMA FounderChangesMembers ==
    ASSUME MailInv, OneFounder, AllCounted, NEW c \in Agent, NEW members \in SUBSET Agent,
           ChangeMembers(c, members)
    PROVE  OneFounder' /\ AllCounted'
<1>11. happened' = happened
  BY DEF ChangeMembers
<1> SUFFICES ASSUME "handoff" \notin happened PROVE OneFounder' /\ AllCounted'
  BY <1>11 DEF OneFounder, AllCounted
<1>1. PICK old, e, i : /\ old = Conv(c).members /\ e = Update(c, old, members, c)
                       /\ i = Invitation(c, members)
  OBVIOUS
<1>0. MembersChanged(c, members, old, e, i)
  BY <1>1, ChangeMembersFacts DEF MailInv
<1>2. /\ IsConvener(c) /\ c \in old /\ c \in members
      /\ Conv(c)'.members = members /\ Conv(c)'.convener = c /\ Conv(c)'.completed = FALSE
      /\ \A b \in Agent \ {c} : Conv(b)' = Conv(b)
  BY <1>0 DEF MembersChanged
<1>12. /\ e.kind = "update" /\ e.issuer = c /\ e.members = members /\ e.convener = c
       /\ e.nonce = issued + 1
       /\ i.kind = "invitation" /\ i.issuer = c /\ i.members = members /\ i.convener = c
       /\ i.nonce = issued + 1
       /\ issued \in Nat
  BY <1>0 DEF MembersChanged
<1>13. net' = net \cup To(old \ {c}, e) \cup To(members \ old, i)
  BY <1>0 DEF MembersChanged
<1>3. c = Founder
  BY <1>2 DEF OneFounder, IsConvener
<1>14. \A m \in net' : \/ m \in net
                       \/ m.to \in old \ {Founder} /\ m.event = e
                       \/ m.to \in members \ old /\ m.event = i
  BY <1>3, <1>13, ToElements
<1>15. ASSUME NEW a \in old \cup members, a # Founder
       PROVE  \E m \in net' : m.to = a /\ m.event \in {e, i}
  <2>1. CASE a \in old
    <3>1. PICK m \in To(old \ {c}, e) : m.to = a /\ m.event = e
      BY <1>3, <1>15, <2>1, ToElements
    <3> QED
      BY <1>13, <3>1
  <2>2. CASE a \in members \ old
    <3>1. PICK m \in To(members \ old, i) : m.to = a /\ m.event = i
      BY <2>2, ToElements
    <3> QED
      BY <1>13, <3>1
  <2> QED
    BY <1>15, <2>1, <2>2
<1>5. /\ Conv(Founder)'.convener = Founder /\ Conv(Founder)'.members = members
      /\ Conv(Founder)'.completed = FALSE
  BY <1>2, <1>3
<1>6. OneFounder'
  <2>1. \A b \in Agent : Conv(b)' # NoConversation =>
           Conv(b)'.convener = Founder /\ Founder \in Conv(b)'.members
    BY <1>2, <1>3 DEF OneFounder
  <2>2. \A m \in net' : m.event.kind = "leave" <=> m.event.issuer # Founder
    BY <1>3, <1>12, <1>14 DEF OneFounder
  <2>3. \A m \in net' : m.event.kind \in {"update", "invitation"} =>
           m.event.convener = Founder /\ Founder \in m.event.members
    BY <1>2, <1>3, <1>12, <1>14 DEF OneFounder
  <2> QED
    BY <2>1, <2>2, <2>3 DEF OneFounder
<1>7. ASSUME NEW a \in Conv(Founder)'.members \ (refused' \cup {Founder}) PROVE Counted(a)'
  <2>1. PICK m \in net' : m.to = a /\ m.event \in {e, i}
    BY <1>2, <1>5, <1>7, <1>15
  <2>2. HearsFromFounder(a)'
    BY <1>3, <1>12, <2>1 DEF HearsFromFounder
  <2> QED
    BY <1>5, <2>2 DEF Counted
<1>8. ASSUME NEW m \in net', m.event.kind = "update", m.to \notin m.event.members, LastWord(m)'
      PROVE  m.to \notin Conv(Founder)'.members
  <2>1. \A o \in net : o.event.nonce \in Nat /\ o.event.nonce <= issued
    BY <1>12 DEF MailInv, Numbered
  <2>2. CASE m \in net
    <3>1. m.to # Founder
      BY <1>8, <2>2 DEF OneFounder, MailInv, TokenInv, Types, NetTypes
    <3>2. ASSUME m.to \in members PROVE FALSE
      <4>1. PICK o \in net' : o.to = m.to /\ o.event \in {e, i}
        BY <3>1, <3>2, <1>15
      <4>2. o.event.nonce = issued + 1 /\ o.event.issuer = Founder
        BY <1>3, <1>12, <4>1
      <4>3. o.event.nonce <= m.event.nonce
        BY <1>8, <4>1, <4>2 DEF LastWord
      <4> QED
        BY <1>12, <2>1, <2>2, <4>2, <4>3
    <3> QED
      BY <1>5, <3>2
  <2>3. CASE m \notin net
    BY <1>5, <1>8, <1>12, <1>14, <2>3
  <2> QED
    BY <2>2, <2>3
<1>9. AllCounted'
  BY <1>7, <1>8 DEF AllCounted
<1> QED
  BY <1>6, <1>9

LEMMA FounderCompletes ==
    ASSUME MailInv, OneFounder, AllCounted, NEW c \in Agent, Complete(c)
    PROVE  OneFounder' /\ AllCounted'
<1>11. happened' = happened
  BY DEF Complete
<1> SUFFICES ASSUME "handoff" \notin happened PROVE OneFounder' /\ AllCounted'
  BY <1>11 DEF OneFounder, AllCounted
<1>1. PICK old, e : old = Conv(c).members /\ e = Signed("complete", c)
  OBVIOUS
<1>0. Completed(c, old, e)
  BY <1>1, CompleteFacts DEF MailInv
<1>2. /\ IsConvener(c) /\ c \in old
      /\ Conv(c)'.members = old /\ Conv(c)'.convener = c
      /\ \A b \in Agent \ {c} : Conv(b)' = Conv(b)
      /\ refused' = refused
  BY <1>0 DEF Completed
<1>12. e.kind = "complete" /\ e.issuer = c /\ e.nonce = issued + 1 /\ issued \in Nat
  BY <1>0 DEF Completed
<1>13. net' = net \cup To(old \ {c}, e)
  BY <1>0 DEF Completed
<1>3. c = Founder
  BY <1>2 DEF OneFounder, IsConvener
<1>14. \A m \in net' : m \in net \/ (m.to \in old \ {Founder} /\ m.event = e)
  BY <1>3, <1>13, ToElements
<1>15. \A a \in old \ {Founder} : \E m \in net' : m.to = a /\ m.event = e
  BY <1>3, <1>13, ToElements
<1>5. Conv(Founder)'.convener = Founder /\ Conv(Founder)'.members = old
  BY <1>2, <1>3
<1>6. OneFounder'
  <2>1. \A b \in Agent : Conv(b)' # NoConversation =>
           Conv(b)'.convener = Founder /\ Founder \in Conv(b)'.members
    BY <1>2, <1>3 DEF OneFounder
  <2>2. \A m \in net' : m.event.kind = "leave" <=> m.event.issuer # Founder
    BY <1>3, <1>12, <1>14 DEF OneFounder
  <2>3. \A m \in net' : m.event.kind \in {"update", "invitation"} =>
           m.event.convener = Founder /\ Founder \in m.event.members
    BY <1>12, <1>14 DEF OneFounder
  <2> QED
    BY <2>1, <2>2, <2>3 DEF OneFounder
<1>7. ASSUME NEW a \in Conv(Founder)'.members \ (refused' \cup {Founder}) PROVE Counted(a)'
  <2>1. PICK m \in net' : m.to = a /\ m.event = e
    BY <1>5, <1>7, <1>15
  <2>2. HearsFromFounder(a)' /\ WillComplete(a)'
    BY <1>3, <1>12, <2>1 DEF HearsFromFounder, WillComplete
  <2> QED
    BY <2>2 DEF Counted
<1>8. ASSUME NEW m \in net', m.event.kind = "update", m.to \notin m.event.members, LastWord(m)'
      PROVE  m.to \notin Conv(Founder)'.members
  <2>1. \A o \in net : o.event.nonce \in Nat /\ o.event.nonce <= issued
    BY <1>12 DEF MailInv, Numbered
  <2>2. m \in net
    BY <1>8, <1>12, <1>14
  <2>4. m.to # Founder
    BY <1>8, <2>2 DEF OneFounder, MailInv, TokenInv, Types, NetTypes
  <2>3. ASSUME m.to \in old PROVE FALSE
    <3>1. PICK o \in net' : o.to = m.to /\ o.event = e
      BY <1>15, <2>3, <2>4
    <3>2. o.event.nonce <= m.event.nonce
      BY <1>3, <1>8, <1>12, <3>1 DEF LastWord
    <3> QED
      BY <1>12, <2>1, <2>2, <3>1, <3>2
  <2> QED
    BY <1>5, <2>3
<1>9. AllCounted'
  BY <1>7, <1>8 DEF AllCounted
<1> QED
  BY <1>6, <1>9

LEMMA MemberLeaves ==
    ASSUME MailInv, OneFounder, AllCounted, NEW a \in Agent, Leave(a)
    PROVE  OneFounder' /\ AllCounted'
<1>11. happened \subseteq happened'
  BY DEF Leave
<1> SUFFICES ASSUME "handoff" \notin happened PROVE OneFounder' /\ AllCounted'
  BY <1>11 DEF OneFounder, AllCounted
<1>1. PICK old, e : old = Conv(a).members /\ e = Signed("leave", a)
  OBVIOUS
<1>0. Left(a, old, e)
  BY <1>1, LeaveFacts DEF MailInv
<1>2. /\ Conv(a) # NoConversation /\ Conv(a).completed = FALSE
      /\ a \in old /\ a # Conv(a).convener /\ Conv(a)' = NoConversation
      /\ \A b \in Agent \ {a} : Conv(b)' = Conv(b)
      /\ net' = net \cup To(old \ {a}, e) /\ e.kind = "leave" /\ e.issuer = a
      /\ network' = network /\ refused' = refused
  BY <1>0 DEF Left
<1>3. a # Founder /\ Founder \in old \ {a} /\ Founder \in Agent
  BY <1>1, <1>2, GroupAssumption DEF OneFounder
<1>4. /\ \A m \in net' \ net : m.event = e
      /\ net \subseteq net'
      /\ \E m \in net' : m.to = Founder /\ m.event = e
  BY <1>2, <1>3, ToElements
<1>5. Conv(Founder)' = Conv(Founder)
  BY <1>2, <1>3
<1>6. OneFounder'
  BY <1>2, <1>3, <1>4 DEF OneFounder
<1>7. ASSUME AllCounted, network = "ordered", Conv(Founder) # NoConversation,
             NEW b \in Conv(Founder).members \ (refused \cup {Founder})
      PROVE  Counted(b)'
  <2>1. Counted(b)
    BY <1>7 DEF AllCounted
  <2>5. b \in Agent
    <3>1. Conv(Founder) \in ConversationRecords
      BY <1>3, <1>7 DEF MailInv, TokenInv, Types, StoreTypes
    <3> QED
      BY <1>7, <3>1 DEF ConversationRecords
  <2>2. /\ HearsFromFounder(b) => HearsFromFounder(b)'
        /\ IsHeardByFounder(b) => IsHeardByFounder(b)'
        /\ WillComplete(b) => WillComplete(b)'
    BY <1>4 DEF HearsFromFounder, IsHeardByFounder, WillComplete
  <2>3. WillComplete(b) => HearsFromFounder(b)
    BY DEF WillComplete, HearsFromFounder
  <2>4. b = a => IsHeardByFounder(b)'
    BY <1>2, <1>4 DEF IsHeardByFounder
  <2> QED
    BY <1>2, <1>5, <2>1, <2>2, <2>3, <2>4, <2>5 DEF Counted
<1>8. ASSUME NEW m \in net', m.event.kind = "update", LastWord(m)'
      PROVE  m \in net /\ LastWord(m)
  BY <1>2, <1>4, <1>8 DEF LastWord
<1>9. AllCounted'
  BY <1>2, <1>5, <1>7, <1>8 DEF AllCounted
<1> QED
  BY <1>6, <1>9

\* A leave that a member signed is accepted by a convener that counts it.
LEMMA LeaveIsAccepted ==
    ASSUME NEW a, NEW e, Proper(e), e.kind = "leave", e.nonce \notin Known(a),
           Conv(a) # NoConversation, ~ Conv(a).completed,
           e.issuer \in Conv(a).members, e.issuer # Conv(a).convener
    PROVE  Accepts(store[a], a, e, 0)
BY FreshByNumber DEF Proper, Accepts, AcceptsLeave, Open, Conv

\* What the event that arrives leaves of an agent's conversation.
LEMMA ArrivalKeepsFounder ==
    ASSUME TokenInv, OneFounder, "handoff" \notin happened, NEW m \in net, Deliver(m)
    PROVE  OneFounder'
<1>1. PICK a, e : a = m.to /\ e = m.event
  OBVIOUS
<1>0. Delivered(m, a, e)
  BY <1>1, DeliverFacts
<1>2. a \in Agent /\ SignedEvent(e) /\ e.issuer # a /\ net' \subseteq net /\ Types
  BY <1>0 DEF Delivered, TokenInv
<1>3. /\ \A b \in Agent \ {a} : Conv(b)' = Conv(b)
      /\ Conv(a)' = Conv(a) \/ (Accepts(store[a], a, e, 0)
                                /\ Conv(a)' = Apply(store[a], a, e).conv)
  BY <1>0 DEF Delivered
<1>4. /\ e.kind = "leave" <=> e.issuer # Founder
      /\ e.kind \in {"update", "invitation"} => e.convener = Founder /\ Founder \in e.members
  BY <1>1 DEF OneFounder
<1>5. ASSUME Accepts(store[a], a, e, 0), NEW new, new = Apply(store[a], a, e).conv,
             new # NoConversation
      PROVE  new.convener = Founder /\ Founder \in new.members
  <2>1. CASE e.kind = "invitation"
    <3>1. new = Held(e.members, e.convener, FALSE)
      BY <1>2, <1>5, <2>1, ReceivedInvitation
    <3> QED
      BY <1>4, <2>1, <3>1 DEF Held
  <2>2. CASE e.kind = "update"
    <3>1. new = Placed(a, e.members, e.convener)
      BY <1>2, <1>5, <2>2, ReceivedUpdate
    <3>2. new = Held(e.members, e.convener, FALSE)
      BY <1>5, <3>1 DEF Placed
    <3> QED
      BY <1>4, <2>2, <3>2 DEF Held
  <2>3. CASE e.kind \in {"leave", "complete"}
    <3>1. Conv(a) # NoConversation
      BY <1>2, <1>5, <2>3, ReceivedOther
    <3>2. Conv(a).convener = Founder /\ Founder \in Conv(a).members
      BY <1>2, <3>1 DEF OneFounder
    <3>3. CASE e.kind = "leave"
      <4>1. PICK left : left = Conv(a).members \ {e.issuer}
        OBVIOUS
      <4>2. new = IF a = e.issuer \/ Cardinality(left) < 2 THEN NoConversation
                  ELSE Held(left, Conv(a).convener, FALSE)
        BY <1>2, <1>5, <3>3, <4>1, ReceivedLeave
      <4>3. new = Held(left, Conv(a).convener, FALSE)
        BY <1>5, <4>2
      <4>4. new.convener = Conv(a).convener /\ new.members = left
        BY <4>3 DEF Held
      <4> QED
        BY <1>4, <3>2, <3>3, <4>1, <4>4
    <3>4. CASE e.kind = "complete"
      <4>1. new = Held(Conv(a).members, Conv(a).convener, TRUE)
        BY <1>2, <1>5, <3>4, ReceivedComplete
      <4>2. new.convener = Conv(a).convener /\ new.members = Conv(a).members
        BY <4>1 DEF Held
      <4> QED
        BY <3>2, <4>2
    <3> QED
      BY <2>3, <3>3, <3>4
  <2> QED
    BY <1>2, <2>1, <2>2, <2>3 DEF SignedEvent, Kinds
<1>6. ASSUME NEW b \in Agent, Conv(b)' # NoConversation
      PROVE  Conv(b)'.convener = Founder /\ Founder \in Conv(b)'.members
  <2>1. CASE Conv(b)' = Conv(b)
    BY <1>6, <2>1 DEF OneFounder
  <2>2. CASE Conv(b)' # Conv(b)
    <3>1. b = a /\ Accepts(store[a], a, e, 0) /\ Conv(b)' = Apply(store[a], a, e).conv
      BY <1>3, <2>2
    <3> QED
      BY <1>5, <1>6, <3>1
  <2> QED
    BY <2>1, <2>2
<1> QED
  BY <1>2, <1>6 DEF OneFounder

\* Of an event from somebody else that reaches the founder: it is a leave.
LEMMA FounderHears ==
    ASSUME MailInv, OneFounder, AllCounted, network = "ordered", "handoff" \notin happened,
           NEW m \in net, Deliver(m), m.to = Founder, Conv(Founder)' # NoConversation,
           NEW x \in Conv(Founder)'.members \ (refused' \cup {Founder})
    PROVE  Counted(x)' /\ x \in Conv(Founder).members /\ Conv(Founder) # NoConversation
<1>1. PICK a, e : a = m.to /\ e = m.event
  OBVIOUS
<1>0. Delivered(m, a, e)
  BY <1>1, DeliverFacts DEF MailInv
<1>2. /\ a = Founder /\ a \in Agent /\ SignedEvent(e) /\ e.issuer # a /\ Types
      /\ \A b \in Agent \ {a} : Conv(b)' = Conv(b)
  BY <1>0, <1>1 DEF Delivered, MailInv, TokenInv
<1>3. e.kind = "leave" /\ Proper(e) /\ e.nonce \notin Known(a)
  BY <1>1, <1>2 DEF OneFounder, MailInv, ProperMail, Numbered
<1>4. net' = net \ {m}
  BY <1>0 DEF Delivered
<1>5. HearsFromFounder(x) => HearsFromFounder(x)'
  BY <1>1, <1>2, <1>4 DEF HearsFromFounder
<1>6. WillComplete(x) => WillComplete(x)'
  BY <1>1, <1>2, <1>4 DEF WillComplete
<1>7. x # e.issuer /\ IsHeardByFounder(x) => IsHeardByFounder(x)'
  BY <1>1, <1>4 DEF IsHeardByFounder
<1>8. CASE Accepts(store[a], a, e, 0)
  <2>1. PICK left : left = Conv(a).members \ {e.issuer}
    OBVIOUS
  <2>2. Conv(a)' = Apply(store[a], a, e).conv /\ refused' = refused
    BY <1>0, <1>8 DEF Delivered
  <2>3. Apply(store[a], a, e).conv =
          IF a = e.issuer \/ Cardinality(left) < 2 THEN NoConversation
          ELSE Held(left, Conv(a).convener, FALSE)
    BY <1>2, <1>3, <1>8, <2>1, ReceivedLeave
  <2>4. Conv(a)' = Held(left, Conv(a).convener, FALSE)
    BY <1>2, <2>2, <2>3
  <2>5. Conv(a)'.members = left
    BY <2>4 DEF Held
  <2>6. Conv(a)'.completed = FALSE
    BY <2>4 DEF Held
  <2>7. Conv(a) # NoConversation /\ Conv(a) \in ConversationRecords
    BY <1>2, <1>3, <1>8, ReceivedOther
  <2>8. x \in Conv(a).members \ {e.issuer} /\ x \in Agent \ {Founder} /\ x \notin refused
    BY <1>2, <2>1, <2>2, <2>5, <2>7 DEF ConversationRecords
  <2>9. Counted(x)
    BY <1>2, <2>7, <2>8 DEF AllCounted
  <2>10. Conv(x)' = Conv(x)
    BY <1>2, <2>8
  <2>11. Counted(x)'
    BY <1>2, <1>5, <1>7, <2>6, <2>7, <2>8, <2>9, <2>10 DEF Counted
  <2> QED
    BY <1>2, <2>7, <2>8, <2>11
<1>9. CASE ~ Accepts(store[a], a, e, 0)
  <2>1. Conv(a)' = Conv(a) /\ refused' = refused \cup {a}
    BY <1>0, <1>9 DEF Delivered
  <2>2. Conv(a) # NoConversation /\ Conv(a) \in ConversationRecords /\ Conv(a).convener = a
    BY <1>2, <2>1 DEF Types, StoreTypes, OneFounder
  <2>3. x \in Conv(a).members /\ x \in Agent \ {Founder} /\ x \notin refused
    BY <1>2, <2>1, <2>2 DEF ConversationRecords
  <2>4. Counted(x) /\ Conv(x)' = Conv(x)
    BY <1>2, <2>2, <2>3 DEF AllCounted
  <2>5. x = e.issuer => Conv(Founder).completed
    BY <1>2, <1>3, <1>9, <2>2, <2>3, LeaveIsAccepted
  <2>6. Counted(x)'
    BY <1>2, <1>5, <1>6, <1>7, <2>1, <2>4, <2>5 DEF Counted
  <2> QED
    BY <1>2, <2>2, <2>3, <2>6
<1> QED
  BY <1>8, <1>9

\* Of an event that reaches another member: if it ends the conversation there,
\* the founder no longer counts that member or has sent it more.
LEMMA MemberHears ==
    ASSUME MailInv, OneFounder, AllCounted, network = "ordered", "handoff" \notin happened,
           NEW m \in net, Deliver(m), m.to # Founder, Conv(Founder)' # NoConversation,
           NEW x \in Conv(Founder)'.members \ (refused' \cup {Founder})
    PROVE  Counted(x)'
<1>1. PICK a, e : a = m.to /\ e = m.event
  OBVIOUS
<1>0. Delivered(m, a, e)
  BY <1>1, DeliverFacts DEF MailInv
<1>2. /\ a # Founder /\ a \in Agent /\ SignedEvent(e) /\ e.issuer # a /\ Types
      /\ \A b \in Agent \ {a} : Conv(b)' = Conv(b)
      /\ refused \subseteq refused'
  BY <1>0, <1>1 DEF Delivered, MailInv, TokenInv
<1>3. net' = net \ {m}
  BY <1>0 DEF Delivered
<1>4. Conv(Founder)' = Conv(Founder)
  BY <1>2, GroupAssumption
<1>5. /\ Conv(Founder) \in ConversationRecords
      /\ Conv(Founder).convener = Founder /\ Founder \in Conv(Founder).members
  BY <1>2, <1>4, GroupAssumption DEF Types, StoreTypes, OneFounder
<1>6. x \in Conv(Founder).members /\ x \in Agent \ {Founder} /\ x \notin refused /\ Counted(x)
  BY <1>2, <1>4, <1>5 DEF AllCounted, ConversationRecords
<1>7. IsHeardByFounder(x) => IsHeardByFounder(x)'
  BY <1>1, <1>2, <1>3 DEF IsHeardByFounder
<1>8. CASE x # a
  <2>1. HearsFromFounder(x) => HearsFromFounder(x)'
    BY <1>1, <1>3, <1>8 DEF HearsFromFounder
  <2>2. WillComplete(x) => WillComplete(x)'
    BY <1>1, <1>3, <1>8 DEF WillComplete
  <2>3. Conv(x)' = Conv(x)
    BY <1>2, <1>6, <1>8
  <2> QED
    BY <1>4, <1>6, <1>7, <2>1, <2>2, <2>3 DEF Counted
<1>9. CASE x = a
  <2>1. Accepts(store[a], a, e, 0) /\ Conv(a)' = Apply(store[a], a, e).conv
    BY <1>0, <1>9 DEF Delivered
  <2>2. Conv(a) # NoConversation => Conv(a).completed = FALSE
    <3>1. CASE e.kind = "invitation"
      BY <1>2, <2>1, <3>1, ReceivedInvitation
    <3>2. CASE e.kind # "invitation"
      BY <1>2, <2>1, <3>2, ReceivedOther
    <3> QED
      BY <3>1, <3>2
  <2>3. CASE e.kind = "invitation"
    <3>1. Conv(a)' = Held(e.members, e.convener, FALSE)
      BY <1>2, <2>1, <2>3, ReceivedInvitation
    <3>2. Conv(a)' # NoConversation
      BY <1>2, <2>3, <3>1, HeldExists DEF SignedEvent
    <3>3. Conv(Founder).completed => WillComplete(a)
      BY <1>6, <1>9, <2>2 DEF Counted
    <3>4. WillComplete(a) => WillComplete(a)'
      BY <1>1, <1>3, <2>3 DEF WillComplete
    <3> QED
      BY <1>4, <1>9, <3>2, <3>3, <3>4 DEF Counted
  <2>4. CASE e.kind = "update"
    <3>1. Conv(a)' = Placed(a, e.members, e.convener)
      BY <1>2, <2>1, <2>4, ReceivedUpdate
    <3>2. a \in e.members => Conv(a)' # NoConversation
      BY <1>2, <2>4, <3>1, HeldExists DEF SignedEvent, Placed
    <3>3. Conv(Founder).completed => WillComplete(a)
      BY <1>6, <1>9, <2>2 DEF Counted
    <3>4. WillComplete(a) => WillComplete(a)'
      BY <1>1, <1>3, <2>4 DEF WillComplete
    <3>5. a \notin e.members => HearsFromFounder(a)'
      <4>1. SUFFICES ASSUME a \notin e.members PROVE HearsFromFounder(a)'
        OBVIOUS
      <4>2. ~ LastWord(m)
        BY <1>1, <1>4, <1>6, <1>9, <2>4, <4>1 DEF AllCounted
      <4>3. PICK o \in net : o.to = a /\ o.event.issuer = Founder /\ ~ (o.event.nonce <= e.nonce)
        BY <1>1, <4>2 DEF LastWord
      <4>4. o # m
        BY <1>1, <4>3 DEF MailInv, Numbered
      <4> QED
        BY <1>3, <4>3, <4>4 DEF HearsFromFounder
    <3> QED
      BY <1>4, <1>9, <3>2, <3>3, <3>4, <3>5 DEF Counted
  <2>5. CASE e.kind = "leave"
    <3>1. PICK left : left = Conv(a).members \ {e.issuer}
      OBVIOUS
    <3>2. Conv(a)' = IF a = e.issuer \/ Cardinality(left) < 2 THEN NoConversation
                     ELSE Held(left, Conv(a).convener, FALSE)
      BY <1>2, <2>1, <2>5, <3>1, ReceivedLeave
    <3>3. Conv(a) # NoConversation /\ Conv(a) \in ConversationRecords /\ a \in Conv(a).members
      BY <1>2, <2>1, <2>5, ReceivedOther
    <3>4. Founder \in Conv(a).members /\ e.issuer # Founder
      BY <1>1, <1>2, <2>5, <3>3 DEF OneFounder
    <3>5. left \subseteq Agent /\ a \in left /\ Founder \in left /\ Conv(a).convener \in Agent
      BY <1>2, <3>1, <3>3, <3>4 DEF ConversationRecords
    <3>6. ~ (Cardinality(left) < 2)
      BY <1>2, <3>5, TwoMembers
    <3>7. Conv(a)' # NoConversation
      BY <1>2, <3>2, <3>5, <3>6, HeldExists
    <3>8. Conv(Founder).completed => WillComplete(a)
      BY <1>6, <1>9, <2>2 DEF Counted
    <3>9. WillComplete(a) => WillComplete(a)'
      BY <1>1, <1>3, <2>5 DEF WillComplete
    <3> QED
      BY <1>4, <1>9, <3>7, <3>8, <3>9 DEF Counted
  <2>6. CASE e.kind = "complete"
    <3>1. Conv(a)' = Held(Conv(a).members, Conv(a).convener, TRUE)
      BY <1>2, <2>1, <2>6, ReceivedComplete
    <3>2. Conv(a) \in ConversationRecords
      BY <1>2, <2>1, <2>6, ReceivedOther
    <3>3. Conv(a)' # NoConversation
      BY <3>1, <3>2, HeldExists DEF ConversationRecords
    <3>4. Conv(a)'.completed
      BY <3>1 DEF Held
    <3> QED
      BY <1>9, <3>3, <3>4 DEF Counted
  <2> QED
    BY <1>2, <2>3, <2>4, <2>5, <2>6 DEF SignedEvent, Kinds
<1> QED
  BY <1>8, <1>9

LEMMA FounderLosesMembers ==
    ASSUME TokenInv, OneFounder, "handoff" \notin happened, NEW m \in net, Deliver(m),
           Conv(Founder)' # NoConversation
    PROVE  Conv(Founder) # NoConversation /\ Conv(Founder)'.members \subseteq Conv(Founder).members
<1>1. PICK a, e : a = m.to /\ e = m.event
  OBVIOUS
<1>0. Delivered(m, a, e)
  BY <1>1, DeliverFacts
<1>2. /\ a \in Agent /\ SignedEvent(e) /\ e.issuer # a /\ Types
      /\ \A b \in Agent \ {a} : Conv(b)' = Conv(b)
  BY <1>0 DEF Delivered, TokenInv
<1>3. CASE Conv(Founder)' = Conv(Founder)
  BY <1>3
<1>4. CASE Conv(Founder)' # Conv(Founder)
  <2>1. a = Founder /\ e.kind = "leave"
    BY <1>1, <1>2, <1>4, GroupAssumption DEF OneFounder
  <2>2. Accepts(store[a], a, e, 0) /\ Conv(a)' = Apply(store[a], a, e).conv
    BY <1>0, <1>4, <2>1 DEF Delivered
  <2>3. PICK left : left = Conv(a).members \ {e.issuer}
    OBVIOUS
  <2>4. Conv(a)' = IF a = e.issuer \/ Cardinality(left) < 2 THEN NoConversation
                   ELSE Held(left, Conv(a).convener, FALSE)
    BY <1>2, <2>1, <2>2, <2>3, ReceivedLeave
  <2>5. Conv(a)' = Held(left, Conv(a).convener, FALSE)
    BY <2>1, <2>4
  <2>6. Conv(a)'.members = left
    BY <2>5 DEF Held
  <2>7. Conv(a) # NoConversation
    BY <1>2, <2>1, <2>2, ReceivedOther
  <2> QED
    BY <2>1, <2>3, <2>6, <2>7
<1> QED
  BY <1>3, <1>4

LEMMA ArrivalKeepsCount ==
    ASSUME MailInv, OneFounder, AllCounted, NEW m \in net, Deliver(m)
    PROVE  OneFounder' /\ AllCounted'
<1>1. PICK a, e : a = m.to /\ e = m.event
  OBVIOUS
<1>0. Delivered(m, a, e)
  BY <1>1, DeliverFacts DEF MailInv
<1>2. /\ happened' = happened /\ network' = network /\ a \in Agent
      /\ \A b \in Agent \ {a} : Conv(b)' = Conv(b)
  BY <1>0 DEF Delivered
<1> SUFFICES ASSUME "handoff" \notin happened PROVE OneFounder' /\ AllCounted'
  BY <1>2 DEF OneFounder, AllCounted
<1>3. OneFounder'
  BY ArrivalKeepsFounder DEF MailInv
<1>4. SUFFICES ASSUME network = "ordered", Conv(Founder)' # NoConversation PROVE AllCounted'
  BY <1>2, <1>3 DEF AllCounted
<1>5. \A x \in Conv(Founder)'.members \ (refused' \cup {Founder}) : Counted(x)'
  BY <1>4, FounderHears, MemberHears
<1>6. net' = net \ {m}
  BY <1>0, <1>4 DEF Delivered
<1>7. ASSUME NEW o \in net', o.event.kind = "update", o.to \notin o.event.members, LastWord(o)'
      PROVE  o.to \notin Conv(Founder)'.members
  <2>1. o \in net /\ o.event.issuer = Founder
    BY <1>6, <1>7 DEF OneFounder
  <2>2. o.to # Founder
    BY <2>1 DEF MailInv, TokenInv, Types, NetTypes
  <2>3. LastWord(o)
    <3>1. ASSUME m.to = o.to, m.event.issuer = Founder PROVE m.event.nonce <= o.event.nonce
      <4>1. o.event.nonce >= m.event.nonce
        BY <1>4, <2>1, <3>1 DEF Deliver
      <4>2. o.event.nonce \in Nat /\ m.event.nonce \in Nat
        <5>1. issued \in Nat
          BY DEF MailInv, TokenInv, Types, NothingYet
        <5> QED
          BY <2>1, <5>1 DEF MailInv, Numbered
      <4> QED
        BY <4>1, <4>2
    <3> QED
      BY <1>6, <1>7, <3>1 DEF LastWord
  <2>4. Conv(Founder) # NoConversation => o.to \notin Conv(Founder).members
    BY <1>4, <1>7, <2>1, <2>3 DEF AllCounted
  <2>5. Conv(Founder) # NoConversation /\ Conv(Founder)'.members \subseteq Conv(Founder).members
    BY <1>4, FounderLosesMembers DEF MailInv
  <2> QED
    BY <2>4, <2>5
<1> QED
  BY <1>3, <1>5, <1>7 DEF AllCounted

LEMMA CountInit == GroupInit => CountInv
<1> SUFFICES ASSUME GroupInit PROVE CountInv
  OBVIOUS
<1>1. \A a \in Agent : Conv(a) = NoConversation
  BY DEF GroupInit, NewStore, Conv
<1>2. net = {} /\ Founder \in Agent
  BY GroupAssumption DEF GroupInit
<1> QED
  BY <1>1, <1>2, MailInit DEF CountInv, OneFounder, AllCounted

LEMMA CountNext == CountInv /\ [GroupNext]_groupVars => CountInv'
<1> SUFFICES ASSUME CountInv, [GroupNext]_groupVars PROVE OneFounder' /\ AllCounted'
  BY MailNext DEF CountInv
<1> USE DEF CountInv
<1>1. ASSUME NEW members \in SUBSET Agent, Convene(members) PROVE OneFounder' /\ AllCounted'
  BY <1>1, FounderConvenes
<1>2. ASSUME NEW c \in Agent, NEW members \in SUBSET Agent, ChangeMembers(c, members)
      PROVE  OneFounder' /\ AllCounted'
  BY <1>2, FounderChangesMembers
<1>3. ASSUME NEW c \in Agent, NEW members \in SUBSET Agent, NEW to \in Agent,
             HandOff(c, to, members)
      PROVE  OneFounder' /\ AllCounted'
  BY <1>3 DEF HandOff, OneFounder, AllCounted
<1>4. ASSUME NEW a \in Agent, Leave(a) PROVE OneFounder' /\ AllCounted'
  BY <1>4, MemberLeaves
<1>5. ASSUME NEW a \in Agent, Complete(a) PROVE OneFounder' /\ AllCounted'
  BY <1>5, FounderCompletes
<1>6. ASSUME NEW m \in net, Deliver(m) PROVE OneFounder' /\ AllCounted'
  BY <1>6, ArrivalKeepsCount
<1>7. CASE UNCHANGED groupVars
  BY <1>7 DEF groupVars, OneFounder, AllCounted, Counted, HearsFromFounder, IsHeardByFounder,
              WillComplete, LastWord, Conv
<1> QED
  BY <1>1, <1>2, <1>3, <1>4, <1>5, <1>6, <1>7 DEF GroupNext

\* Whoever the founder still counts as a member when every event has arrived
\* in order, and nobody handed over, is in the conversation or has refused an event.
THEOREM ConvenerCountsRight == GroupSpec => []ConvenerCountsOnlyMembers
<1>1. CountInv => ConvenerCountsOnlyMembers
  <2> SUFFICES ASSUME CountInv, network = "ordered", "handoff" \notin happened, AtRest,
                      NEW c \in Agent, IsConvener(c), NEW a \in Conv(c).members,
                      Conv(a) = NoConversation, a \notin refused
               PROVE  FALSE
    BY DEF ConvenerCountsOnlyMembers
  <2>1. c = Founder /\ Conv(Founder) # NoConversation /\ a # Founder
    BY DEF CountInv, OneFounder, IsConvener
  <2>2. Counted(a)
    BY <2>1 DEF CountInv, AllCounted
  <2> QED
    BY <2>2 DEF Counted, HearsFromFounder, IsHeardByFounder, AtRest
<1> QED
  BY <1>1, CountInit, CountNext, PTL DEF GroupSpec

--------------------------------------------------------------------------------
(***************************************************************************)
(* A group with one convener, without leaves, on an ordered network: the   *)
(* events on their way to an agent are a chain from what it holds to what  *)
(* the founder holds, and it takes them from the front.                    *)
(***************************************************************************)

\* What an event of the founder finds at an agent when its turn comes, and what
\* it leaves there.
Due(e) ==
    CASE e.kind = "invitation" -> NoConversation
      [] e.kind = "update"     -> Held(Old(e), Founder, FALSE)
      [] OTHER                 -> Held(Conv(Founder).members, Founder, FALSE)

Outcome(e, a) ==
    IF e.kind = "complete" THEN Conv(Founder) ELSE Placed(a, e.members, Founder)

FirstFor(m) == \A o \in net : o.to = m.to => m.event.nonce <= o.event.nonce

LastFor(m) == \A o \in net : o.to = m.to => o.event.nonce <= m.event.nonce

Succeeds(o, m) ==
    /\ o.to = m.to /\ m.event.nonce < o.event.nonce
    /\ \A p \in net : p.to = m.to =>
          p.event.nonce <= m.event.nonce \/ o.event.nonce <= p.event.nonce

Orderly ==
    /\ refused = {}
    /\ issued # 0 => Conv(Founder) # NoConversation
    /\ \A m \in net :
          /\ m.event.issuer = Founder
          /\ m.event.kind = "invitation" => m.to \in m.event.members
          /\ m.event.kind = "update" => Old(m.event) \subseteq Agent
          /\ m.event.kind = "complete" => Conv(Founder).completed

\* The events on their way to an agent lead, one from the next, from what it
\* holds to what it should hold.
Chained ==
    /\ \A m \in net : FirstFor(m) => Conv(m.to) = Due(m.event)
    /\ \A m \in net : LastFor(m) => Outcome(m.event, m.to) = Told(Founder, m.to)
    /\ \A m, o \in net : Succeeds(o, m) => Outcome(m.event, m.to) = Due(o.event)
    /\ \A a \in Agent : issued # 0 /\ (\A m \in net : m.to # a) => Conv(a) = Told(Founder, a)

Peaceful == network = "ordered" /\ happened = {}

TurnInv == CountInv /\ (Peaceful => Orderly /\ Chained)

\* An event that the founder signs after all others lengthens the chains.
LEMMA ChainGrows ==
    ASSUME Chained, issued \in Nat, issued # 0, NEW out, net' = net \cup out,
           \A m \in net : m.to \in Agent \ {Founder} /\ m.event.nonce \in 1..issued,
           \A n \in out : n.to \in Agent \ {Founder} /\ n.event.nonce = issued + 1,
           \A b \in Agent \ {Founder} : Conv(b)' = Conv(b),
           Conv(Founder)' = Told(Founder, Founder)',
           \A m \in net : Due(m.event)' = Due(m.event)
                          /\ Outcome(m.event, m.to)' = Outcome(m.event, m.to),
           \A n \in out : Due(n.event)' = Told(Founder, n.to)
                          /\ Outcome(n.event, n.to)' = Told(Founder, n.to)',
           \A a \in Agent \ {Founder} :
              (\A n \in out : n.to # a) => Told(Founder, a)' = Told(Founder, a)
    PROVE  Chained'
<1>1. \A m \in net, n \in out : m.event.nonce < n.event.nonce /\ ~ (n.event.nonce <= m.event.nonce)
  OBVIOUS
<1>2. ASSUME NEW m \in net', FirstFor(m)' PROVE Conv(m.to)' = Due(m.event)'
  <2>1. CASE m \in net
    <3>1. FirstFor(m)
      BY <1>2 DEF FirstFor
    <3> QED
      BY <2>1, <3>1 DEF Chained
  <2>2. CASE m \in out
    <3>1. \A o \in net : o.to # m.to
      BY <1>1, <1>2, <2>2 DEF FirstFor
    <3>2. Conv(m.to) = Told(Founder, m.to)
      BY <2>2, <3>1 DEF Chained
    <3> QED
      BY <2>2, <3>2
  <2> QED
    BY <2>1, <2>2
<1>3. ASSUME NEW m \in net', LastFor(m)' PROVE Outcome(m.event, m.to)' = Told(Founder, m.to)'
  <2>1. CASE m \in net
    <3>1. LastFor(m) /\ \A n \in out : n.to # m.to
      BY <1>1, <1>3, <2>1 DEF LastFor
    <3>2. Outcome(m.event, m.to) = Told(Founder, m.to)
      BY <2>1, <3>1 DEF Chained
    <3> QED
      BY <2>1, <3>1, <3>2
  <2> QED
    BY <2>1
<1>4. ASSUME NEW m \in net', NEW o \in net', Succeeds(o, m)'
      PROVE  Outcome(m.event, m.to)' = Due(o.event)'
  <2>1. m.to = o.to /\ m.event.nonce < o.event.nonce
    BY <1>4 DEF Succeeds
  <2>2. m \in net
    <3>1. \A n \in out : \A p \in net' : ~ (n.event.nonce < p.event.nonce)
      OBVIOUS
    <3> QED
      BY <2>1, <3>1
  <2>3. CASE o \in net
    <3>1. Succeeds(o, m)
      BY <1>4 DEF Succeeds
    <3> QED
      BY <2>2, <2>3, <3>1 DEF Chained
  <2>4. CASE o \in out
    <3>1. LastFor(m)
      BY <1>1, <1>4, <2>4 DEF Succeeds, LastFor
    <3>2. Outcome(m.event, m.to) = Told(Founder, m.to)
      BY <2>2, <3>1 DEF Chained
    <3> QED
      BY <2>1, <2>2, <2>4, <3>2
  <2> QED
    BY <2>3, <2>4
<1>5. ASSUME NEW a \in Agent, \A m \in net' : m.to # a PROVE Conv(a)' = Told(Founder, a)'
  <2>1. CASE a # Founder
    BY <1>5, <2>1 DEF Chained
  <2> QED
    BY <2>1
<1> QED
  BY <1>2, <1>3, <1>4, <1>5 DEF Chained

\* The first event of a chain, once applied, shortens it.
LEMMA ChainShrinks ==
    ASSUME Chained, NEW m \in net, net' = net \ {m}, FirstFor(m), issued' = issued,
           \A o \in net : o.event.nonce \in Nat /\ o.to \in Agent,
           \A o \in net : o.to = m.to /\ o.event.nonce = m.event.nonce => o = m,
           \A b \in Agent \ {m.to} : Conv(b)' = Conv(b),
           Conv(m.to)' = Outcome(m.event, m.to),
           \A o \in net : Due(o.event)' = Due(o.event)
                          /\ Outcome(o.event, o.to)' = Outcome(o.event, o.to),
           \A a \in Agent : Told(Founder, a)' = Told(Founder, a)
    PROVE  Chained'
<1>1. \A o \in net' : o.to = m.to => m.event.nonce < o.event.nonce
  BY DEF FirstFor
<1>2. ASSUME NEW o \in net', FirstFor(o)' PROVE Conv(o.to)' = Due(o.event)'
  <2>1. CASE o.to = m.to
    <3>1. Succeeds(o, m)
      BY <1>1, <1>2, <2>1 DEF Succeeds, FirstFor
    <3>2. Outcome(m.event, m.to) = Due(o.event)
      BY <3>1 DEF Chained
    <3> QED
      BY <2>1, <3>2
  <2>2. CASE o.to # m.to
    <3>1. FirstFor(o)
      BY <1>2, <2>2 DEF FirstFor
    <3>2. Conv(o.to) = Due(o.event)
      BY <3>1 DEF Chained
    <3> QED
      BY <2>2, <3>2
  <2> QED
    BY <2>1, <2>2
<1>3. ASSUME NEW o \in net', LastFor(o)' PROVE Outcome(o.event, o.to)' = Told(Founder, o.to)'
  <2>1. LastFor(o)
    BY <1>1, <1>3 DEF LastFor
  <2>2. Outcome(o.event, o.to) = Told(Founder, o.to)
    BY <2>1 DEF Chained
  <2> QED
    BY <2>2
<1>4. ASSUME NEW o \in net', NEW p \in net', Succeeds(p, o)'
      PROVE  Outcome(o.event, o.to)' = Due(p.event)'
  <2>1. Succeeds(p, o)
    BY <1>1, <1>4 DEF Succeeds
  <2>2. Outcome(o.event, o.to) = Due(p.event)
    BY <2>1 DEF Chained
  <2> QED
    BY <2>2
<1>5. ASSUME NEW a \in Agent, issued' # 0, \A o \in net' : o.to # a
      PROVE  Conv(a)' = Told(Founder, a)'
  <2>1. CASE a = m.to
    <3>1. LastFor(m)
      BY <1>5, <2>1 DEF LastFor
    <3>2. Outcome(m.event, m.to) = Told(Founder, m.to)
      BY <3>1 DEF Chained
    <3> QED
      BY <2>1, <3>2
  <2>2. CASE a # m.to
    BY <1>5, <2>2 DEF Chained
  <2> QED
    BY <2>1, <2>2
<1> QED
  BY <1>2, <1>3, <1>4, <1>5 DEF Chained

LEMMA NetKinds == TokenInv => \A m \in net : m.event.kind \in Kinds
BY DEF TokenInv, Types, NetTypes, SignedEvent

\* Each action of the founder puts one event more at the ends of the chains.
LEMMA ConveneInTurn ==
    ASSUME TurnInv, Peaceful, NEW members \in SUBSET Agent, Convene(members)
    PROVE  Orderly' /\ Chained'
<1>1. PICK i : i = Invitation(Founder, members)
  OBVIOUS
<1>0. Convened(members, i)
  BY <1>1, ConveneFacts DEF TurnInv, CountInv, MailInv
<1>2. /\ Founder \in Agent /\ Founder \in members /\ refused' = refused
      /\ \A b \in Agent \ {Founder} : Conv(b)' = NoConversation
  BY <1>0 DEF Convened
<1>3. Conv(Founder)' = Held(members, Founder, FALSE) /\ Conv(Founder)'.members = members
  BY <1>0 DEF Convened
<1>4. /\ i.kind = "invitation" /\ i.issuer = Founder /\ i.members = members /\ i.nonce = 1
  BY <1>0 DEF Convened
<1>5. net' = To(members \ {Founder}, i)
  BY <1>0 DEF Convened
<1>6. \A m \in net' : m.event = i /\ m.to \in members \ {Founder}
  BY <1>5, ToElements
<1>7. \A a \in members \ {Founder} : \E m \in net' : m.to = a
  BY <1>5, ToElements
<1>8. Conv(Founder)' # NoConversation
  BY <1>2, <1>3, HeldExists
<1>9. Orderly'
  BY <1>2, <1>4, <1>6, <1>8 DEF Orderly, TurnInv
<1>10. /\ \A a \in members : Told(Founder, a)' = Held(members, Founder, FALSE)
       /\ \A a \in Agent \ members : Told(Founder, a)' = NoConversation
  BY <1>3 DEF Told
<1>11. \A m \in net' : Due(m.event)' = NoConversation
  BY <1>4, <1>6 DEF Due
<1>12. \A m \in net' : Outcome(m.event, m.to)' = Held(members, Founder, FALSE)
  BY <1>4, <1>6 DEF Outcome, Placed
<1>13. \A m, o \in net' : ~ Succeeds(o, m)'
  BY <1>4, <1>6 DEF Succeeds
<1>14. ASSUME NEW a \in Agent, \A m \in net' : m.to # a PROVE Conv(a)' = Told(Founder, a)'
  BY <1>2, <1>3, <1>7, <1>10, <1>14
<1>15. \A m \in net' : Conv(m.to)' = Due(m.event)'
  BY <1>2, <1>6, <1>11
<1>16. \A m \in net' : Outcome(m.event, m.to)' = Told(Founder, m.to)'
  BY <1>6, <1>10, <1>12
<1>17. Chained'
  BY <1>13, <1>14, <1>15, <1>16 DEF Chained
<1> QED
  BY <1>9, <1>17

LEMMA ChangeInTurn ==
    ASSUME TurnInv, Peaceful, NEW c \in Agent, NEW members \in SUBSET Agent,
           ChangeMembers(c, members)
    PROVE  Orderly' /\ Chained'
<1>1. PICK old, e, i : /\ old = Conv(c).members /\ e = Update(c, old, members, c)
                       /\ i = Invitation(c, members)
  OBVIOUS
<1>0. MembersChanged(c, members, old, e, i)
  BY <1>1, ChangeMembersFacts DEF TurnInv, CountInv, MailInv
<1> Orderly /\ Chained
  BY DEF TurnInv
<1>2. c = Founder
  <2>1. IsConvener(c)
    BY <1>0 DEF MembersChanged
  <2> QED
    BY <2>1 DEF TurnInv, CountInv, OneFounder, Peaceful, IsConvener
<1>3. /\ Conv(Founder) = Held(old, Founder, FALSE) /\ Conv(Founder)' = Held(members, Founder, FALSE)
      /\ Conv(Founder)'.members = members
  BY <1>0, <1>2 DEF MembersChanged
<1>4. /\ Founder \in old /\ old \subseteq Agent /\ Founder \in members
      /\ \A b \in Agent \ {Founder} : Conv(b)' = Conv(b)
  BY <1>0, <1>2 DEF MembersChanged
<1>5. /\ e.kind = "update" /\ e.issuer = Founder /\ e.members = members /\ e.nonce = issued + 1
      /\ Old(e) = old
      /\ i.kind = "invitation" /\ i.issuer = Founder /\ i.members = members
      /\ i.nonce = issued + 1
  BY <1>0, <1>2 DEF MembersChanged
<1>6. refused' = refused /\ issued' = issued + 1 /\ issued \in Nat
  BY <1>0 DEF MembersChanged
<1>7. PICK out : out = To(old \ {Founder}, e) \cup To(members \ old, i)
  OBVIOUS
<1>8. net' = net \cup out
  BY <1>0, <1>2, <1>7 DEF MembersChanged
<1>9. \A n \in out : \/ n.to \in old \ {Founder} /\ n.event = e
                     \/ n.to \in members \ old /\ n.event = i
  BY <1>7, ToElements
<1>10. ASSUME NEW a \in old \cup members, a # Founder PROVE \E n \in out : n.to = a
  <2>1. CASE a \in old
    BY <1>7, <1>10, <2>1, ToElements
  <2>2. CASE a \in members \ old
    BY <1>7, <2>2, ToElements
  <2> QED
    BY <1>10, <2>1, <2>2
<1>11. Conv(Founder).completed = FALSE /\ Conv(Founder).members = old
  BY <1>3 DEF Held
<1>12. \A m \in net : m.event.kind # "complete" /\ m.event.kind # "leave"
  BY <1>11 DEF Orderly, TurnInv, CountInv, OneFounder, Peaceful
<1>13. Conv(Founder)' # NoConversation
  BY <1>3, <1>4, HeldExists, GroupAssumption
<1>14. Orderly'
  <2>1. \A m \in net' : m \in net \/ m \in out
    BY <1>8
  <2> QED
    BY <1>4, <1>5, <1>6, <1>9, <1>12, <1>13, <2>1 DEF Orderly
<1>15. /\ \A a \in old : Told(Founder, a) = Held(old, Founder, FALSE)
       /\ \A a : a \notin old => Told(Founder, a) = NoConversation
  BY <1>3, <1>11 DEF Told
<1>16. /\ \A a \in members : Told(Founder, a)' = Held(members, Founder, FALSE)
       /\ \A a : a \notin members => Told(Founder, a)' = NoConversation
  BY <1>3 DEF Told
<1>17. \A m \in net : Due(m.event)' = Due(m.event)
  BY <1>12, NetKinds DEF Due, Kinds, TurnInv, CountInv, MailInv
<1>18. \A m \in net : Outcome(m.event, m.to)' = Outcome(m.event, m.to)
  BY <1>12 DEF Outcome
<1>19. \A n \in out : Due(n.event)' = Told(Founder, n.to)
  BY <1>5, <1>9, <1>15 DEF Due
<1>20. \A n \in out : Outcome(n.event, n.to)' = Told(Founder, n.to)'
  BY <1>5, <1>9, <1>16 DEF Outcome, Placed
<1>21. \A m \in net : m.to \in Agent \ {Founder} /\ m.event.nonce \in 1..issued
  <2>1. \A m \in net : m.to # Founder /\ m.to \in Agent
    BY DEF TurnInv, CountInv, MailInv, TokenInv, Types, NetTypes, Orderly
  <2> QED
    BY <2>1 DEF TurnInv, CountInv, MailInv, Numbered
<1>26. issued # 0
  <2>1. Conv(c) # NoConversation
    BY <1>0 DEF MembersChanged, IsConvener
  <2> QED
    BY <2>1 DEF TurnInv, CountInv, MailInv, TokenInv, Types, NothingYet
<1>22. \A n \in out : n.to \in Agent \ {Founder} /\ n.event.nonce = issued + 1
  BY <1>4, <1>5, <1>9
<1>23. Conv(Founder)' = Told(Founder, Founder)'
  BY <1>3, <1>4 DEF Told
<1>24. ASSUME NEW a \in Agent \ {Founder}, \A n \in out : n.to # a
       PROVE  Told(Founder, a)' = Told(Founder, a)
  <2>1. a \notin old /\ a \notin members
    BY <1>10, <1>24
  <2> QED
    BY <1>15, <1>16, <2>1
<1>25. Chained'
  BY <1>4, <1>6, <1>8, <1>17, <1>18, <1>19, <1>20, <1>21, <1>22, <1>23, <1>24, <1>26, ChainGrows
<1> QED
  BY <1>14, <1>25

LEMMA CompleteInTurn ==
    ASSUME TurnInv, Peaceful, NEW c \in Agent, Complete(c)
    PROVE  Orderly' /\ Chained'
<1>1. PICK old, e : old = Conv(c).members /\ e = Signed("complete", c)
  OBVIOUS
<1>0. Completed(c, old, e)
  BY <1>1, CompleteFacts DEF TurnInv, CountInv, MailInv
<1> Orderly /\ Chained
  BY DEF TurnInv
<1>2. c = Founder
  <2>1. IsConvener(c)
    BY <1>0 DEF Completed
  <2> QED
    BY <2>1 DEF TurnInv, CountInv, OneFounder, Peaceful, IsConvener
<1>3. Conv(Founder) = Held(old, Founder, FALSE) /\ Conv(Founder)'.members = old
  BY <1>0, <1>2 DEF Completed
<1>4. /\ Founder \in old /\ old \subseteq Agent
      /\ \A b \in Agent \ {Founder} : Conv(b)' = Conv(b)
  BY <1>0, <1>2 DEF Completed
<1>5. e.kind = "complete" /\ e.issuer = Founder /\ e.nonce = issued + 1
  BY <1>0, <1>2 DEF Completed
<1>6. refused' = refused /\ issued' = issued + 1 /\ issued \in Nat
  BY <1>0 DEF Completed
<1>7. PICK out : out = To(old \ {Founder}, e)
  OBVIOUS
<1>8. net' = net \cup out
  BY <1>0, <1>2, <1>7 DEF Completed
<1>9. \A n \in out : n.to \in old \ {Founder} /\ n.event = e
  BY <1>7, ToElements
<1>10. \A a \in old \ {Founder} : \E n \in out : n.to = a
  BY <1>7, ToElements
<1>11. Conv(Founder).completed = FALSE /\ Conv(Founder).members = old
  BY <1>3 DEF Held
<1>12. \A m \in net : m.event.kind # "complete" /\ m.event.kind # "leave"
  BY <1>11 DEF Orderly, TurnInv, CountInv, OneFounder, Peaceful
<1>13. Conv(Founder)' # NoConversation /\ Conv(Founder)'.completed
  <2>1. Conv(Founder)' = Held(old, Founder, TRUE) /\ Conv(Founder)'.completed = TRUE
    BY <1>0, <1>2 DEF Completed
  <2> QED
    BY <1>4, <2>1, HeldExists, GroupAssumption
<1>14. Orderly'
  <2>1. \A m \in net' : m \in net \/ m \in out
    BY <1>8
  <2> QED
    BY <1>4, <1>5, <1>6, <1>9, <1>12, <1>13, <2>1 DEF Orderly
<1>15. /\ \A a \in old : Told(Founder, a) = Held(old, Founder, FALSE)
       /\ \A a : a \notin old => Told(Founder, a) = NoConversation
  BY <1>3, <1>11 DEF Told
<1>16. /\ \A a \in old : Told(Founder, a)' = Conv(Founder)'
       /\ \A a : a \notin old => Told(Founder, a)' = NoConversation
  BY <1>3 DEF Told
<1>17. \A m \in net : Due(m.event)' = Due(m.event)
  BY <1>12, NetKinds DEF Due, Kinds, TurnInv, CountInv, MailInv
<1>18. \A m \in net : Outcome(m.event, m.to)' = Outcome(m.event, m.to)
  BY <1>12 DEF Outcome
<1>19. \A n \in out : Due(n.event)' = Told(Founder, n.to)
  BY <1>3, <1>5, <1>9, <1>15 DEF Due
<1>20. \A n \in out : Outcome(n.event, n.to)' = Told(Founder, n.to)'
  BY <1>5, <1>9, <1>16 DEF Outcome
<1>21. \A m \in net : m.to \in Agent \ {Founder} /\ m.event.nonce \in 1..issued
  <2>1. \A m \in net : m.to # Founder /\ m.to \in Agent
    BY DEF TurnInv, CountInv, MailInv, TokenInv, Types, NetTypes, Orderly
  <2> QED
    BY <2>1 DEF TurnInv, CountInv, MailInv, Numbered
<1>26. issued # 0
  <2>1. Conv(c) # NoConversation
    BY <1>0 DEF Completed, IsConvener
  <2> QED
    BY <2>1 DEF TurnInv, CountInv, MailInv, TokenInv, Types, NothingYet
<1>22. \A n \in out : n.to \in Agent \ {Founder} /\ n.event.nonce = issued + 1
  BY <1>4, <1>5, <1>9
<1>23. Conv(Founder)' = Told(Founder, Founder)'
  BY <1>4, <1>16
<1>24. ASSUME NEW a \in Agent \ {Founder}, \A n \in out : n.to # a
       PROVE  Told(Founder, a)' = Told(Founder, a)
  BY <1>10, <1>15, <1>16, <1>24
<1>25. Chained'
  BY <1>4, <1>6, <1>8, <1>17, <1>18, <1>19, <1>20, <1>21, <1>22, <1>23, <1>24, <1>26, ChainGrows
<1> QED
  BY <1>14, <1>25

\* The store accepts an event whose turn it is.
LEMMA AcceptedInTurn ==
    ASSUME TurnInv, Peaceful, NEW m \in net, NEW a, a = m.to, NEW e, e = m.event,
           Conv(a) = Due(e)
    PROVE  Accepts(store[a], a, e, 0) /\ Apply(store[a], a, e).conv = Outcome(e, a)
<1> Orderly /\ TokenInv /\ Types
  BY DEF TurnInv, CountInv, MailInv, TokenInv
<1>1. /\ Proper(e) /\ e.nonce \notin Known(a) /\ e.issuer = Founder /\ SignedEvent(e)
      /\ a \in Agent
  BY DEF TurnInv, CountInv, MailInv, ProperMail, Numbered, Peaceful, Orderly, Types, NetTypes
<1>2. FreshEvent(store[a], e)
  BY <1>1, FreshByNumber
<1>3. e.kind \in {"invitation", "update", "complete"}
  BY <1>1 DEF SignedEvent, Kinds, TurnInv, CountInv, OneFounder, Peaceful
<1>4. e.kind \in {"invitation", "update"} => e.convener = Founder
  BY DEF TurnInv, CountInv, OneFounder, Peaceful
<1>5. CASE e.kind = "invitation"
  <2>1. Conv(a) = NoConversation /\ a \in e.members
    BY <1>5 DEF Due, Orderly
  <2>2. Accepts(store[a], a, e, 0)
    BY <1>1, <1>2, <1>4, <1>5, <2>1 DEF Proper, Accepts, AcceptsInvitation, Conv
  <2>3. Apply(store[a], a, e).conv = Held(e.members, e.convener, FALSE)
    BY <1>5, <2>2, <1>1, ReceivedInvitation
  <2> QED
    BY <1>4, <1>5, <2>1, <2>2, <2>3 DEF Outcome, Placed
<1>6. CASE e.kind = "update"
  <2>1. Conv(a) = Held(Old(e), Founder, FALSE) /\ Old(e) \subseteq Agent
    BY <1>6 DEF Due, Orderly
  <2>2. Conv(a) # NoConversation
    BY <2>1, HeldExists, GroupAssumption
  <2>3. Conv(a).members = Old(e) /\ Conv(a).convener = Founder /\ Conv(a).completed = FALSE
    BY <2>1 DEF Held
  <2>4. AcceptsUpdate(store[a], e)
    BY <1>1, <1>2, <1>4, <1>6, <2>2, <2>3 DEF Proper, AcceptsUpdate, Open, Conv
  <2>5. Accepts(store[a], a, e, 0)
    BY <1>1, <1>6, <2>4 DEF Proper, Accepts
  <2>6. Apply(store[a], a, e).conv = Placed(a, e.members, e.convener)
    BY <1>1, <1>6, <2>5, ReceivedUpdate
  <2> QED
    BY <1>4, <1>6, <2>5, <2>6 DEF Outcome
<1>7. CASE e.kind = "complete"
  <2>1. Conv(a) = Held(Conv(Founder).members, Founder, FALSE) /\ Conv(Founder).completed
    BY <1>7 DEF Due, Orderly
  <2>2. issued # 0
    BY DEF Types, NothingYet
  <2>3. /\ Conv(Founder) # NoConversation /\ Conv(Founder) \in ConversationRecords
        /\ Conv(Founder).convener = Founder
    BY <2>2, GroupAssumption
       DEF Orderly, Types, StoreTypes, TurnInv, CountInv, OneFounder, Peaceful
  <2>4. Conv(Founder).completed = TRUE /\ Conv(Founder).members \subseteq Agent
    BY <2>1, <2>3 DEF ConversationRecords
  <2>5. Conv(a) # NoConversation
    BY <2>1, <2>4, HeldExists, GroupAssumption
  <2>6. /\ Conv(a).members = Conv(Founder).members /\ Conv(a).convener = Founder
        /\ Conv(a).completed = FALSE
    BY <2>1 DEF Held
  <2>7. AcceptsComplete(store[a], e)
    BY <1>1, <1>2, <2>5, <2>6 DEF AcceptsComplete, Open, Conv
  <2>8. Accepts(store[a], a, e, 0)
    BY <1>1, <1>7, <2>7 DEF Proper, Accepts
  <2>9. Apply(store[a], a, e).conv = Held(Conv(a).members, Conv(a).convener, TRUE)
    BY <1>1, <1>7, <2>8, ReceivedComplete
  <2>10. Apply(store[a], a, e).conv = Held(Conv(Founder).members, Founder, TRUE)
    BY <2>6, <2>9
  <2>11. Held(Conv(Founder).members, Founder, TRUE) = Conv(Founder)
    BY <2>3, <2>4 DEF ConversationRecords, Held
  <2> QED
    BY <1>7, <2>8, <2>10, <2>11 DEF Outcome
<1> QED
  BY <1>3, <1>5, <1>6, <1>7

\* An event that arrives is the first of its agent's chain.
LEMMA ArrivalInTurn ==
    ASSUME TurnInv, Peaceful, NEW m \in net, Deliver(m)
    PROVE  Orderly' /\ Chained'
<1> Orderly /\ Chained /\ TokenInv /\ Types
  BY DEF TurnInv, CountInv, MailInv, TokenInv
<1>1. PICK a, e : a = m.to /\ e = m.event
  OBVIOUS
<1>0. Delivered(m, a, e)
  BY <1>1, DeliverFacts
<1>2. /\ a \in Agent /\ e.issuer # a /\ issued' = issued /\ net' = net \ {m}
      /\ \A b \in Agent \ {a} : Conv(b)' = Conv(b)
  BY <1>0 DEF Delivered, Peaceful
<1>3. \A o \in net : o.event.nonce \in Nat /\ o.to \in Agent
  BY DEF Types, NetTypes, NothingYet, TurnInv, CountInv, MailInv, Numbered
<1>4. FirstFor(m)
  <2>1. \A o \in net : o.to = m.to => o.event.nonce >= m.event.nonce
    BY DEF Deliver, Peaceful, Orderly
  <2> QED
    BY <1>3, <2>1 DEF FirstFor
<1>5. Conv(a) = Due(e)
  BY <1>1, <1>4 DEF Chained
<1>6. Accepts(store[a], a, e, 0) /\ Apply(store[a], a, e).conv = Outcome(e, a)
  BY <1>1, <1>5, AcceptedInTurn
<1>7. Conv(a)' = Outcome(e, a) /\ refused' = refused
  BY <1>0, <1>6 DEF Delivered
<1>8. Conv(Founder)' = Conv(Founder)
  BY <1>1, <1>2, GroupAssumption DEF Orderly
<1>9. Orderly'
  BY <1>2, <1>7, <1>8 DEF Orderly
<1>10. \A o \in net : o.to = m.to /\ o.event.nonce = m.event.nonce => o = m
  BY DEF TurnInv, CountInv, MailInv, Numbered, Peaceful
<1>11. \A o \in net : Due(o.event)' = Due(o.event)
                      /\ Outcome(o.event, o.to)' = Outcome(o.event, o.to)
  BY <1>8 DEF Due, Outcome
<1>12. \A b \in Agent : Told(Founder, b)' = Told(Founder, b)
  BY <1>8 DEF Told
<1>13. Conv(m.to)' = Outcome(m.event, m.to) /\ \A b \in Agent \ {m.to} : Conv(b)' = Conv(b)
  BY <1>1, <1>2, <1>7
<1>14. Chained'
  BY <1>2, <1>3, <1>4, <1>10, <1>11, <1>12, <1>13, ChainShrinks
<1> QED
  BY <1>9, <1>14

LEMMA TurnInit == GroupInit => TurnInv
<1> SUFFICES ASSUME GroupInit PROVE TurnInv
  OBVIOUS
<1>1. CountInv
  BY CountInit
<1>2. net = {} /\ issued = 0 /\ refused = {}
  BY DEF GroupInit
<1> QED
  BY <1>1, <1>2 DEF TurnInv, Orderly, Chained

LEMMA TurnNext == TurnInv /\ [GroupNext]_groupVars => TurnInv'
<1> SUFFICES ASSUME TurnInv, [GroupNext]_groupVars PROVE TurnInv'
  OBVIOUS
<1>1. CountInv'
  BY CountNext DEF TurnInv
<1> SUFFICES ASSUME Peaceful' PROVE Orderly' /\ Chained'
  BY <1>1 DEF TurnInv
<1>2. TokenInv
  BY DEF TurnInv, CountInv, MailInv
<1>3. ASSUME NEW members \in SUBSET Agent, Convene(members) PROVE Orderly' /\ Chained'
  <2>1. Peaceful
    BY <1>3 DEF Peaceful, Convene
  <2> QED
    BY <1>3, <2>1, ConveneInTurn
<1>4. ASSUME NEW c \in Agent, NEW members \in SUBSET Agent, ChangeMembers(c, members)
      PROVE  Orderly' /\ Chained'
  <2>1. Peaceful
    BY <1>4 DEF Peaceful, ChangeMembers, AppliesOwn
  <2> QED
    BY <1>4, <2>1, ChangeInTurn
<1>5. ASSUME NEW c \in Agent, NEW members \in SUBSET Agent, NEW to \in Agent,
             HandOff(c, to, members)
      PROVE  FALSE
  BY <1>5 DEF Peaceful, HandOff
<1>6. ASSUME NEW a \in Agent, Leave(a) PROVE FALSE
  BY <1>6 DEF Peaceful, Leave
<1>7. ASSUME NEW a \in Agent, Complete(a) PROVE Orderly' /\ Chained'
  <2>1. Peaceful
    BY <1>7 DEF Peaceful, Complete, AppliesOwn
  <2> QED
    BY <1>7, <2>1, CompleteInTurn
<1>8. ASSUME NEW m \in net, Deliver(m) PROVE Orderly' /\ Chained'
  <2>1. Peaceful
    BY <1>8 DEF Peaceful, Deliver
  <2> QED
    BY <1>8, <2>1, ArrivalInTurn
<1>9. CASE UNCHANGED groupVars
  <2>1. Peaceful /\ Orderly /\ Chained
    BY <1>9 DEF groupVars, Peaceful, TurnInv
  <2>2. \A b : Conv(b)' = Conv(b)
    BY <1>9 DEF groupVars, Conv
  <2>3. net' = net /\ issued' = issued /\ refused' = refused
    BY <1>9 DEF groupVars
  <2>4. Orderly'
    BY <2>1, <2>2, <2>3 DEF Orderly
  <2>5. \A o : Due(o)' = Due(o) /\ \A b : Outcome(o, b)' = Outcome(o, b)
    BY <2>2 DEF Due, Outcome
  <2>6. \A b : Told(Founder, b)' = Told(Founder, b)
    BY <2>2 DEF Told
  <2>7. Chained'
    BY <2>1, <2>2, <2>3, <2>5, <2>6 DEF Chained, FirstFor, LastFor, Succeeds
  <2> QED
    BY <2>4, <2>7
<1> QED
  BY <1>3, <1>4, <1>5, <1>6, <1>7, <1>8, <1>9 DEF GroupNext

\* Where one convener's events arrive in order and nobody has left, every store
\* accepts all of them, and when the last has arrived all members hold what the
\* convener holds and nobody else holds anything: for any number of agents.
THEOREM OrderedGroupsAgree == GroupSpec => []OrderedMembersAgree
<1>1. TurnInv => OrderedMembersAgree
  <2> SUFFICES ASSUME TurnInv, network = "ordered", happened = {}
               PROVE  /\ refused = {}
                      /\ AtRest => \A c, a \in Agent : IsConvener(c) => Conv(a) = Told(c, a)
    BY DEF OrderedMembersAgree
  <2>1. Orderly /\ Chained /\ OneFounder
    BY DEF TurnInv, CountInv, Peaceful
  <2>2. ASSUME AtRest, NEW c \in Agent, NEW a \in Agent, IsConvener(c)
        PROVE  Conv(a) = Told(c, a)
    <3>1. c = Founder
      BY <2>1, <2>2 DEF OneFounder, IsConvener
    <3>2. net = {} /\ issued # 0
      BY <2>2 DEF AtRest, TurnInv, CountInv, MailInv, TokenInv, Types, NothingYet
    <3> QED
      BY <2>1, <3>1, <3>2 DEF Chained
  <2> QED
    BY <2>1, <2>2 DEF Orderly
<1> QED
  BY <1>1, TurnInit, TurnNext, PTL DEF GroupSpec

--------------------------------------------------------------------------------
(***************************************************************************)
(* A group in which nobody has left, on a network that reorders: the       *)
(* events on their way to an agent no longer come in the order of the      *)
(* chain, and an update that is undone makes a cycle in it.  Seen as edges *)
(* between views they are a path, which a count of the edges at each view  *)
(* is enough to say; when no edge is left its two ends are one view.       *)
(***************************************************************************)

\* What an agent holds, whether completed or not.
View(c) == IF c = NoConversation THEN NoConversation ELSE Held(c.members, c.convener, FALSE)

\* The view that an invitation or an update was made for, and the one it makes.
From(m) ==
    IF m.event.kind = "invitation" THEN NoConversation
    ELSE Held(Old(m.event), m.event.issuer, FALSE)

Into(m) == Placed(m.to, m.event.members, m.event.convener)

\* The events in M that are made for a view, and those that make it.
Leaving(M, v) == {m \in M : From(m) = v}

Entering(M, v) == {m \in M : Into(m) = v}

\* As edges between views, the events in M make a path from one view to the
\* other, and maybe cycles: each view is entered as often as it is left.
Balance(M, start, end) ==
    /\ IsFiniteSet(M)
    /\ \A v : Cardinality(Leaving(M, v)) + (IF end = v THEN 1 ELSE 0)
              = Cardinality(Entering(M, v)) + (IF start = v THEN 1 ELSE 0)

LEMMA CountOne ==
    ASSUME NEW S, IsFiniteSet(S), NEW x, x \notin S
    PROVE  /\ IsFiniteSet(S \cup {x}) /\ Cardinality(S) \in Nat
           /\ Cardinality(S \cup {x}) = Cardinality(S) + 1
BY FS_AddElement, FS_CardinalityType

\* What one event more adds to the counts at a view.
LEMMA CountEdges ==
    ASSUME NEW M, IsFiniteSet(M), NEW n, n \notin M, NEW v
    PROVE  /\ Cardinality(Leaving(M, v)) \in Nat /\ Cardinality(Entering(M, v)) \in Nat
           /\ Cardinality(Leaving(M \cup {n}, v)) =
                Cardinality(Leaving(M, v)) + (IF From(n) = v THEN 1 ELSE 0)
           /\ Cardinality(Entering(M \cup {n}, v)) =
                Cardinality(Entering(M, v)) + (IF Into(n) = v THEN 1 ELSE 0)
<1>1. /\ IsFiniteSet(Leaving(M, v)) /\ n \notin Leaving(M, v)
      /\ IsFiniteSet(Entering(M, v)) /\ n \notin Entering(M, v)
  BY FS_Subset DEF Leaving, Entering
<1>2. Leaving(M \cup {n}, v) = IF From(n) = v THEN Leaving(M, v) \cup {n} ELSE Leaving(M, v)
  BY DEF Leaving
<1>3. Entering(M \cup {n}, v) = IF Into(n) = v THEN Entering(M, v) \cup {n} ELSE Entering(M, v)
  BY DEF Entering
<1>4. /\ Cardinality(Leaving(M, v)) \in Nat
      /\ Cardinality(Leaving(M, v) \cup {n}) = Cardinality(Leaving(M, v)) + 1
  BY <1>1, CountOne
<1>5. /\ Cardinality(Entering(M, v)) \in Nat
      /\ Cardinality(Entering(M, v) \cup {n}) = Cardinality(Entering(M, v)) + 1
  BY <1>1, CountOne
<1>6. Cardinality(Leaving(M \cup {n}, v)) =
        Cardinality(Leaving(M, v)) + (IF From(n) = v THEN 1 ELSE 0)
  BY <1>2, <1>4
<1>7. Cardinality(Entering(M \cup {n}, v)) =
        Cardinality(Entering(M, v)) + (IF Into(n) = v THEN 1 ELSE 0)
  BY <1>3, <1>5
<1> QED
  BY <1>4, <1>5, <1>6, <1>7

\* An event sent lengthens the path at its end.
LEMMA BalanceSend ==
    ASSUME NEW M, NEW n, n \notin M, NEW start, NEW end, Balance(M, start, end), From(n) = end
    PROVE  Balance(M \cup {n}, start, Into(n))
<1>1. IsFiniteSet(M) /\ IsFiniteSet(M \cup {n})
  BY FS_AddElement DEF Balance
<1>2. ASSUME NEW v
      PROVE  Cardinality(Leaving(M \cup {n}, v)) + (IF Into(n) = v THEN 1 ELSE 0)
             = Cardinality(Entering(M \cup {n}, v)) + (IF start = v THEN 1 ELSE 0)
  <2>1. Cardinality(Leaving(M, v)) + (IF end = v THEN 1 ELSE 0)
        = Cardinality(Entering(M, v)) + (IF start = v THEN 1 ELSE 0)
    BY DEF Balance
  <2> QED
    BY <1>1, <2>1, CountEdges
<1> QED
  BY <1>1, <1>2 DEF Balance

\* An event that finds the view it was made for, wherever it is on the path,
\* shortens it at its start.
LEMMA BalanceReceive ==
    ASSUME NEW M, NEW n, n \notin M, IsFiniteSet(M), NEW start, NEW end,
           Balance(M \cup {n}, start, end), From(n) = start
    PROVE  Balance(M, Into(n), end)
<1>1. ASSUME NEW v
      PROVE  Cardinality(Leaving(M, v)) + (IF end = v THEN 1 ELSE 0)
             = Cardinality(Entering(M, v)) + (IF Into(n) = v THEN 1 ELSE 0)
  <2>1. Cardinality(Leaving(M \cup {n}, v)) + (IF end = v THEN 1 ELSE 0)
        = Cardinality(Entering(M \cup {n}, v)) + (IF start = v THEN 1 ELSE 0)
    BY DEF Balance
  <2> QED
    BY <2>1, CountEdges
<1> QED
  BY <1>1 DEF Balance

\* Where the path is a cycle, it is one from every view.
LEMMA BalanceTurns ==
    ASSUME NEW M, NEW old, NEW new, Balance(M, old, old)
    PROVE  Balance(M, new, new)
<1>1. IsFiniteSet(M)
  BY DEF Balance
<1>2. ASSUME NEW v PROVE Cardinality(Leaving(M, v)) = Cardinality(Entering(M, v))
  <2>1. Cardinality(Leaving(M, v)) + (IF old = v THEN 1 ELSE 0)
        = Cardinality(Entering(M, v)) + (IF old = v THEN 1 ELSE 0)
    BY DEF Balance
  <2>2. Cardinality(Leaving(M, v)) \in Nat /\ Cardinality(Entering(M, v)) \in Nat
    BY <1>1, FS_Subset, FS_CardinalityType DEF Leaving, Entering
  <2> QED
    BY <2>1, <2>2
<1> QED
  BY <1>1, <1>2 DEF Balance

\* Without events the path is one view.
LEMMA BalanceEnds ==
    ASSUME NEW start, NEW end
    PROVE  /\ Balance({}, start, start)
           /\ Balance({}, start, end) => start = end
<1>1. \A v : Leaving({}, v) = {} /\ Entering({}, v) = {}
  BY DEF Leaving, Entering
<1>2. IsFiniteSet({}) /\ Cardinality({}) = 0
  BY FS_EmptySet
<1>3. Balance({}, start, start)
  BY <1>1, <1>2 DEF Balance
<1>4. ASSUME Balance({}, start, end) PROVE start = end
  <2>1. Cardinality(Leaving({}, end)) + 1
        = Cardinality(Entering({}, end)) + (IF start = end THEN 1 ELSE 0)
    BY <1>4 DEF Balance
  <2> QED
    BY <1>1, <1>2, <2>1
<1> QED
  BY <1>3, <1>4

\* What is on its way to a and changes its view.
Moves(a) == {m \in net : m.to = a /\ m.event.kind # "complete"}

Handover(m) == m.event.kind = "update" /\ m.event.convener = m.to

\* The members and the convener of the group, as the convener has them or as
\* the handover on its way has them.
Current(members, c) ==
    \/ IsConvener(c) /\ Conv(c).members = members
    \/ \E m \in net : Handover(m) /\ m.to = c /\ m.event.members = members

OnPath(a, members, c) == Balance(Moves(a), View(Conv(a)), Placed(a, members, c))

AllOnPath ==
    \A a \in Agent \ refused, members \in SUBSET Agent, c \in Agent :
        Current(members, c) => OnPath(a, members, c)

Closed == \E c \in Agent : IsConvener(c) /\ Conv(c).completed

\* Nobody completes before the convener, and everybody after it.
Completion ==
    /\ \A m \in net : m.event.kind # "leave" /\ (m.event.kind = "complete" => Closed)
    /\ \A a \in Agent : Conv(a) # NoConversation /\ Conv(a).completed => Closed
    /\ \A c \in Agent : IsConvener(c) /\ Conv(c).completed =>
          \A a \in Conv(c).members \ refused :
              \/ Conv(a) # NoConversation /\ Conv(a).completed
              \/ \E m \in net : m.to = a /\ m.event.kind = "complete"

\* The role of the convener is not lost unless a store refused an event.
Somewhere ==
    \/ issued = 0 \/ refused # {}
    \/ \E c \in Agent : IsConvener(c)
    \/ \E m \in net : Handover(m)

Calm == network # "duplicating" /\ "leave" \notin happened

PathInv ==
    /\ MailInv
    /\ Calm => AllOnPath /\ Completion /\ Somewhere
    /\ network = "duplicating" /\ issued # 0 => net # {}

\* The convener, or the one it handed over to.
OneRole ==
    /\ AtMostOneConvener
    /\ \A m \in net : Handover(m) =>
          /\ \A a \in Agent : ~ IsConvener(a)
          /\ \A o \in net : Handover(o) => o.to = m.to /\ o.event = m.event

LEMMA RoleNow == ASSUME MailInv, network # "duplicating" PROVE OneRole
<1>1. \A m \in net : Handover(m) => Pending(m)
  BY DEF MailInv, Numbered, Handover, Pending, FreshEvent, Known
<1> QED
  BY <1>1 DEF MailInv, TokenInv, OneToken, OneRole

LEMMA RoleNext == ASSUME MailInv', network' # "duplicating" PROVE OneRole'
<1>1. \A m \in net' : Handover(m) => Pending(m)'
  BY DEF MailInv, Numbered, Handover, Pending, FreshEvent, Known
<1> QED
  BY <1>1 DEF MailInv, TokenInv, OneToken, OneRole, Handover

LEMMA ViewPlaced ==
    ASSUME NEW a, NEW members \in SUBSET Agent, NEW c \in Agent
    PROVE  View(Placed(a, members, c)) = Placed(a, members, c)
<1>1. Held(members, c, FALSE) # NoConversation
  BY HeldExists
<1>2. Held(members, c, FALSE).members = members /\ Held(members, c, FALSE).convener = c
  BY DEF Held
<1> QED
  BY <1>1, <1>2 DEF View, Placed

\* An event that somebody sends leads a from the place it has to its new one.
LEMMA PathGrows ==
    ASSUME issued \in Nat, \A m \in net : m.event.nonce \in 1..issued,
           NEW out, net' = net \cup out, \A n \in out : n.event.nonce = issued + 1,
           \A n, o \in out : n.to = o.to => n = o,
           NEW a, NEW old, NEW c, NEW new, NEW d, OnPath(a, old, c),
           View(Conv(a))' = View(Conv(a)),
           \/ (\A n \in out : n.to # a) /\ Placed(a, old, c) = Placed(a, new, d)
           \/ \E n \in out : /\ n.to = a /\ n.event.kind # "complete"
                             /\ From(n) = Placed(a, old, c) /\ Into(n) = Placed(a, new, d)
    PROVE  OnPath(a, new, d)'
<1>1. CASE (\A n \in out : n.to # a) /\ Placed(a, old, c) = Placed(a, new, d)
  <2>1. Moves(a)' = Moves(a)
    BY <1>1 DEF Moves
  <2> QED
    BY <1>1, <2>1 DEF OnPath
<1>2. ASSUME NEW n \in out, n.to = a, n.event.kind # "complete",
             From(n) = Placed(a, old, c), Into(n) = Placed(a, new, d)
      PROVE  OnPath(a, new, d)'
  <2>1. Moves(a)' = Moves(a) \cup {n}
    BY <1>2 DEF Moves
  <2>2. n \notin Moves(a)
    BY DEF Moves
  <2>3. Balance(Moves(a) \cup {n}, View(Conv(a)), Into(n))
    BY <1>2, <2>2, BalanceSend DEF OnPath
  <2> QED
    BY <1>2, <2>1, <2>3 DEF OnPath
<1> QED
  BY <1>1, <1>2

\* Each action that signs puts one edge at the end of every path it concerns.
LEMMA ConveneOnPath ==
    ASSUME MailInv, MailInv', network # "duplicating", NEW members \in SUBSET Agent,
           Convene(members)
    PROVE  AllOnPath' /\ Completion' /\ Somewhere'
<1>1. PICK i : i = Invitation(Founder, members)
  OBVIOUS
<1>0. Convened(members, i)
  BY <1>1, ConveneFacts DEF MailInv
<1>2. /\ Founder \in Agent /\ Founder \in members /\ issued = 0 /\ net = {} /\ network' = network
      /\ \A b \in Agent : Conv(b) = NoConversation
      /\ \A b \in Agent \ {Founder} : Conv(b)' = NoConversation
  BY <1>0 DEF Convened
<1>3. Conv(Founder)' = Held(members, Founder, FALSE)
  BY <1>0 DEF Convened
<1>4. /\ Conv(Founder)'.members = members /\ Conv(Founder)'.convener = Founder
      /\ Conv(Founder)'.completed = FALSE
  BY <1>0 DEF Convened
<1>5. /\ i.kind = "invitation" /\ i.issuer = Founder /\ i.members = members
      /\ i.convener = Founder /\ i.nonce = 1
  BY <1>0 DEF Convened
<1>6. PICK out : out = To(members \ {Founder}, i)
  OBVIOUS
<1>7. net' = out
  BY <1>0, <1>6 DEF Convened
<1>8. \A m \in out : m.event = i /\ m.to \in members \ {Founder}
  BY <1>6, ToElements
<1>9. \A a \in members \ {Founder} : \E m \in out : m.to = a
  BY <1>6, ToElements
<1>10. \A m, o \in out : m.to = o.to => m = o
  BY <1>6 DEF To
<1>11. Conv(Founder)' # NoConversation
  BY <1>2, <1>3, HeldExists
<1>12. IsConvener(Founder)'
  BY <1>4, <1>11 DEF IsConvener
<1>13. Somewhere'
  BY <1>2, <1>12 DEF Somewhere
<1>14. Completion'
  <2>1. \A m \in net' : m.event.kind \notin {"leave", "complete"}
    BY <1>5, <1>7, <1>8
  <2>2. \A b \in Agent : Conv(b)' # NoConversation => ~ Conv(b)'.completed
    BY <1>2, <1>4
  <2> QED
    BY <2>1, <2>2 DEF Completion, IsConvener
<1>15. ASSUME NEW S \in SUBSET Agent, NEW d \in Agent, Current(S, d)'
       PROVE  S = members /\ d = Founder
  <2>1. OneRole'
    BY <1>2, RoleNext
  <2>2. IsConvener(d)' /\ Conv(d)'.members = S
    BY <1>2, <1>12, <1>15, <2>1 DEF Current, OneRole
  <2>3. d = Founder
    BY <1>2, <1>12, <2>1, <2>2 DEF OneRole, AtMostOneConvener
  <2> QED
    BY <1>4, <2>2, <2>3
<1>16. ASSUME NEW a \in Agent PROVE OnPath(a, members, Founder)'
  <2>1. Moves(a) = {} /\ View(Conv(a)) = NoConversation /\ Placed(a, {}, Founder) = NoConversation
    BY <1>2 DEF Moves, View, Placed
  <2>2. OnPath(a, {}, Founder)
    BY <2>1, BalanceEnds DEF OnPath
  <2>3. CASE a = Founder
    <3>1. Moves(a)' = {}
      BY <1>7, <1>8, <2>3 DEF Moves
    <3>2. Conv(a)' = Placed(a, members, Founder)
      BY <1>2, <1>3, <2>3 DEF Placed
    <3>4. View(Conv(a))' = Placed(a, members, Founder)
      BY <1>2, <3>2, ViewPlaced
    <3> QED
      BY <3>1, <3>4, BalanceEnds DEF OnPath
  <2>4. CASE a # Founder
    <3>1. View(Conv(a))' = View(Conv(a))
      BY <1>2, <2>4
    <3>2. \A n \in out : n.event.nonce = issued + 1
      BY <1>2, <1>5, <1>8
    <3>3. CASE a \in members
      <4>1. PICK n \in out : n.to = a
        BY <1>9, <2>4, <3>3
      <4>2. n.event = i
        BY <1>8
      <4>3. /\ n.event.kind # "complete"
            /\ From(n) = Placed(a, {}, Founder) /\ Into(n) = Placed(a, members, Founder)
        BY <1>5, <2>1, <4>1, <4>2 DEF From, Into
      <4> QED
        BY <1>2, <1>7, <1>10, <2>2, <3>1, <3>2, <4>1, <4>3, PathGrows
    <3>4. CASE a \notin members
      <4>1. (\A n \in out : n.to # a) /\ Placed(a, {}, Founder) = Placed(a, members, Founder)
        BY <1>8, <2>1, <3>4 DEF Placed
      <4> QED
        BY <1>2, <1>7, <1>10, <2>2, <3>1, <3>2, <4>1, PathGrows
    <3> QED
      BY <3>3, <3>4
  <2> QED
    BY <2>3, <2>4
<1>17. AllOnPath'
  BY <1>15, <1>16 DEF AllOnPath
<1> QED
  BY <1>13, <1>14, <1>17

\* What a convener that signs finds: the role is its own, and nothing is complete.
LEMMA ConvenerSigns ==
    ASSUME MailInv, network # "duplicating", AllOnPath, Completion, NEW c \in Agent, NEW old,
           IsConvener(c), Conv(c) = Held(old, c, FALSE), old \subseteq Agent
    PROVE  /\ ~ Closed
           /\ \A m \in net : m.event.kind \notin {"leave", "complete"}
           /\ \A b \in Agent : Conv(b) # NoConversation => ~ Conv(b).completed
           /\ \A a \in Agent \ refused : OnPath(a, old, c)
           /\ \A b \in Agent : IsConvener(b) => b = c
<1>1. OneRole
  BY RoleNow
<1>2. Conv(c).completed = FALSE /\ Conv(c).members = old
  BY DEF Held
<1>3. ~ Closed
  BY <1>1, <1>2 DEF Closed, OneRole, AtMostOneConvener
<1>4. Current(old, c)
  BY <1>2 DEF Current
<1> QED
  BY <1>1, <1>3, <1>4 DEF Completion, AllOnPath, OneRole, AtMostOneConvener

LEMMA ChangeOnPath ==
    ASSUME MailInv, MailInv', network # "duplicating", AllOnPath, Completion,
           NEW c \in Agent, NEW members \in SUBSET Agent, ChangeMembers(c, members)
    PROVE  AllOnPath' /\ Completion' /\ Somewhere'
<1>1. PICK old, e, i : /\ old = Conv(c).members /\ e = Update(c, old, members, c)
                       /\ i = Invitation(c, members)
  OBVIOUS
<1>0. MembersChanged(c, members, old, e, i)
  BY <1>1, ChangeMembersFacts DEF MailInv
<1>2. /\ IsConvener(c) /\ c \in old /\ old \subseteq Agent /\ c \in members
      /\ \A b \in Agent \ {c} : Conv(b)' = Conv(b)
      /\ network' = network /\ refused' = refused /\ issued \in Nat
  BY <1>0 DEF MembersChanged
<1>3. Conv(c) = Held(old, c, FALSE) /\ Conv(c)' = Held(members, c, FALSE)
  BY <1>0 DEF MembersChanged
<1>4. /\ Conv(c)'.members = members /\ Conv(c)'.convener = c
      /\ Conv(c)'.completed = FALSE
  BY <1>0 DEF MembersChanged
<1>5. /\ e.kind = "update" /\ e.issuer = c /\ e.members = members /\ e.convener = c
      /\ e.nonce = issued + 1 /\ Old(e) = old
      /\ i.kind = "invitation" /\ i.issuer = c /\ i.members = members /\ i.convener = c
      /\ i.nonce = issued + 1
  BY <1>0 DEF MembersChanged
<1>6. PICK out : out = To(old \ {c}, e) \cup To(members \ old, i)
  OBVIOUS
<1>7. net' = net \cup out
  BY <1>0, <1>6 DEF MembersChanged
<1>8. \A n \in out : \/ n.to \in old \ {c} /\ n.event = e
                     \/ n.to \in members \ old /\ n.event = i
  BY <1>6, ToElements
<1>9. /\ \A a \in old \ {c} : \E n \in out : n.to = a /\ n.event = e
      /\ \A a \in members \ old : \E n \in out : n.to = a /\ n.event = i
  BY <1>6, ToElements
<1>10. \A n, o \in out : n.to = o.to => n = o
  BY <1>6 DEF To
<1>11. Conv(c)' # NoConversation
  BY <1>2, <1>3, HeldExists
<1>12. IsConvener(c)'
  BY <1>4, <1>11 DEF IsConvener
<1>13. Somewhere'
  BY <1>12 DEF Somewhere
<1>18. /\ ~ Closed
       /\ \A m \in net : m.event.kind \notin {"leave", "complete"}
       /\ \A b \in Agent : Conv(b) # NoConversation => ~ Conv(b).completed
       /\ \A a \in Agent \ refused : OnPath(a, old, c)
  BY <1>2, <1>3, ConvenerSigns
<1>14. Completion'
  <2>1. \A m \in net' : m.event.kind \notin {"leave", "complete"}
    BY <1>5, <1>7, <1>8, <1>18
  <2>2. \A b \in Agent : Conv(b)' # NoConversation => ~ Conv(b)'.completed
    BY <1>2, <1>4, <1>18
  <2> QED
    BY <2>1, <2>2 DEF Completion, IsConvener
<1>15. ASSUME NEW S \in SUBSET Agent, NEW d \in Agent, Current(S, d)'
       PROVE  S = members /\ d = c
  <2>1. OneRole'
    BY <1>2, RoleNext
  <2>2. IsConvener(d)' /\ Conv(d)'.members = S
    BY <1>12, <1>15, <2>1 DEF Current, OneRole
  <2>3. d = c
    BY <1>12, <2>1, <2>2 DEF OneRole, AtMostOneConvener
  <2> QED
    BY <1>4, <2>2, <2>3
<1>16. ASSUME NEW a \in Agent \ refused PROVE OnPath(a, members, c)'
  <2>1. /\ Placed(a, old, c) = IF a \in old THEN Held(old, c, FALSE) ELSE NoConversation
        /\ Placed(a, members, c) = IF a \in members THEN Held(members, c, FALSE)
                                   ELSE NoConversation
    BY DEF Placed
  <2>2. OnPath(a, old, c)
    BY <1>18
  <2>3. \A m \in net : m.event.nonce \in 1..issued
    BY DEF MailInv, Numbered
  <2>5. \A n \in out : n.event.nonce = issued + 1
    BY <1>5, <1>8
  <2>6. CASE a = c
    <3>1. Moves(a)' = Moves(a)
      BY <1>7, <1>8, <1>2, <2>6 DEF Moves
    <3>2. Conv(a)' = Placed(a, members, c) /\ Conv(a) = Placed(a, old, c)
      BY <1>2, <1>3, <2>1, <2>6
    <3>3. View(Placed(a, members, c)) = Placed(a, members, c)
      BY <1>2, ViewPlaced
    <3>4. View(Placed(a, old, c)) = Placed(a, old, c)
      BY <1>2, ViewPlaced
    <3>5. View(Conv(a))' = Placed(a, members, c) /\ View(Conv(a)) = Placed(a, old, c)
      BY <3>2, <3>3, <3>4
    <3> QED
      BY <2>2, <3>1, <3>5, BalanceTurns DEF OnPath
  <2>7. CASE a # c
    <3>1. View(Conv(a))' = View(Conv(a))
      BY <1>2, <2>7
    <3>2. CASE a \in old
      <4>1. PICK n \in out : n.to = a /\ n.event = e
        BY <1>9, <2>7, <3>2
      <4>2. /\ n.event.kind # "complete"
            /\ From(n) = Placed(a, old, c) /\ Into(n) = Placed(a, members, c)
        BY <1>5, <2>1, <3>2, <4>1 DEF From, Into
      <4> QED
        BY <1>2, <1>7, <1>10, <2>2, <2>3, <2>5, <3>1, <4>1, <4>2, PathGrows
    <3>3. CASE a \in members \ old
      <4>1. PICK n \in out : n.to = a /\ n.event = i
        BY <1>9, <2>7, <3>3
      <4>2. /\ n.event.kind # "complete"
            /\ From(n) = Placed(a, old, c) /\ Into(n) = Placed(a, members, c)
        BY <1>5, <2>1, <3>3, <4>1 DEF From, Into
      <4> QED
        BY <1>2, <1>7, <1>10, <2>2, <2>3, <2>5, <3>1, <4>1, <4>2, PathGrows
    <3>4. CASE a \notin old /\ a \notin members
      <4>1. (\A n \in out : n.to # a) /\ Placed(a, old, c) = Placed(a, members, c)
        BY <1>8, <2>1, <3>4
      <4> QED
        BY <1>2, <1>7, <1>10, <2>2, <2>3, <2>5, <3>1, <4>1, PathGrows
    <3> QED
      BY <3>2, <3>3, <3>4
  <2> QED
    BY <2>6, <2>7
<1>17. AllOnPath'
  BY <1>2, <1>15, <1>16 DEF AllOnPath
<1> QED
  BY <1>13, <1>14, <1>17

LEMMA HandOffOnPath ==
    ASSUME MailInv, MailInv', network # "duplicating", AllOnPath, Completion,
           NEW c \in Agent, NEW to \in Agent, NEW members \in SUBSET Agent,
           HandOff(c, to, members)
    PROVE  AllOnPath' /\ Completion' /\ Somewhere'
<1>1. PICK old, e : old = Conv(c).members /\ e = Update(c, old, members, to)
  OBVIOUS
<1>0. HandedOff(c, to, members, old, e)
  BY <1>1, HandOffFacts DEF MailInv
<1>2. /\ IsConvener(c) /\ c \in old /\ old \subseteq Agent /\ to \in members /\ c # to
      /\ members \subseteq old /\ old \subseteq members \cup {c}
      /\ \A b \in Agent \ {c} : Conv(b)' = Conv(b)
      /\ network' = network /\ refused' = refused /\ issued \in Nat
  BY <1>0 DEF HandedOff
<1>3. Conv(c) = Held(old, c, FALSE) /\ Conv(c)' = Placed(c, members, to)
  BY <1>0 DEF HandedOff
<1>5. /\ e.kind = "update" /\ e.issuer = c /\ e.members = members /\ e.convener = to
      /\ e.nonce = issued + 1 /\ Old(e) = old
  BY <1>0 DEF HandedOff
<1>6. PICK out : out = To(old \ {c}, e)
  OBVIOUS
<1>7. net' = net \cup out
  BY <1>0, <1>6 DEF HandedOff
<1>8. \A n \in out : n.to \in old \ {c} /\ n.event = e
  BY <1>6, ToElements
<1>9. \A a \in old \ {c} : \E n \in out : n.to = a
  BY <1>6, ToElements
<1>10. \A n, o \in out : n.to = o.to => n = o
  BY <1>6 DEF To
<1>11. PICK h \in out : h.to = to
  BY <1>2, <1>9
<1>12. h \in net' /\ Handover(h) /\ h.event = e
  BY <1>5, <1>7, <1>8, <1>11 DEF Handover
<1>13. Somewhere'
  BY <1>12 DEF Somewhere
<1>18. /\ \A m \in net : m.event.kind \notin {"leave", "complete"}
       /\ \A b \in Agent : Conv(b) # NoConversation => ~ Conv(b).completed
       /\ \A a \in Agent \ refused : OnPath(a, old, c)
  BY <1>2, <1>3, ConvenerSigns
<1>14. Completion'
  <2>1. \A m \in net' : m.event.kind \notin {"leave", "complete"}
    BY <1>5, <1>7, <1>8, <1>18
  <2>2. Conv(c)' # NoConversation => ~ Conv(c)'.completed
    BY <1>3 DEF Placed, Held
  <2>3. \A b \in Agent : Conv(b)' # NoConversation => ~ Conv(b)'.completed
    BY <1>2, <1>18, <2>2
  <2> QED
    BY <2>1, <2>3 DEF Completion, IsConvener
<1>15. ASSUME NEW S \in SUBSET Agent, NEW d \in Agent, Current(S, d)'
       PROVE  S = members /\ d = to
  <2>1. OneRole'
    BY <1>2, RoleNext
  <2>2. ~ IsConvener(d)'
    BY <1>12, <2>1 DEF OneRole
  <2>3. PICK m \in net' : Handover(m) /\ m.to = d /\ m.event.members = S
    BY <1>15, <2>2 DEF Current
  <2>4. m.to = h.to /\ m.event = h.event
    BY <1>12, <2>1, <2>3 DEF OneRole
  <2> QED
    BY <1>5, <1>11, <1>12, <2>3, <2>4
<1>16. ASSUME NEW a \in Agent \ refused PROVE OnPath(a, members, to)'
  <2>1. /\ Placed(a, old, c) = IF a \in old THEN Held(old, c, FALSE) ELSE NoConversation
        /\ Placed(a, members, to) = IF a \in members THEN Held(members, to, FALSE)
                                    ELSE NoConversation
    BY DEF Placed
  <2>2. OnPath(a, old, c)
    BY <1>18
  <2>3. \A m \in net : m.event.nonce \in 1..issued
    BY DEF MailInv, Numbered
  <2>5. \A n \in out : n.event.nonce = issued + 1
    BY <1>5, <1>8
  <2>6. CASE a = c
    <3>1. Moves(a)' = Moves(a)
      BY <1>7, <1>8, <2>6 DEF Moves
    <3>2. Conv(a)' = Placed(a, members, to) /\ Conv(a) = Placed(a, old, c)
      BY <1>2, <1>3, <2>1, <2>6
    <3>3. View(Placed(a, members, to)) = Placed(a, members, to)
      BY ViewPlaced
    <3>4. View(Placed(a, old, c)) = Placed(a, old, c)
      BY <1>2, ViewPlaced
    <3>5. View(Conv(a))' = Placed(a, members, to) /\ View(Conv(a)) = Placed(a, old, c)
      BY <3>2, <3>3, <3>4
    <3> QED
      BY <2>2, <3>1, <3>5, BalanceTurns DEF OnPath
  <2>7. CASE a # c
    <3>1. View(Conv(a))' = View(Conv(a))
      BY <1>2, <2>7
    <3>2. CASE a \in old
      <4>1. PICK n \in out : n.to = a /\ n.event = e
        BY <1>8, <1>9, <2>7, <3>2
      <4>2. /\ n.event.kind # "complete"
            /\ From(n) = Placed(a, old, c) /\ Into(n) = Placed(a, members, to)
        BY <1>5, <2>1, <3>2, <4>1 DEF From, Into
      <4> QED
        BY <1>2, <1>7, <1>10, <2>2, <2>3, <2>5, <3>1, <4>1, <4>2, PathGrows
    <3>3. CASE a \notin old
      <4>1. (\A n \in out : n.to # a) /\ Placed(a, old, c) = Placed(a, members, to)
        BY <1>2, <1>8, <2>1, <3>3
      <4> QED
        BY <1>2, <1>7, <1>10, <2>2, <2>3, <2>5, <3>1, <4>1, PathGrows
    <3> QED
      BY <3>2, <3>3
  <2> QED
    BY <2>6, <2>7
<1>17. AllOnPath'
  BY <1>2, <1>15, <1>16 DEF AllOnPath
<1> QED
  BY <1>13, <1>14, <1>17

LEMMA CompleteOnPath ==
    ASSUME MailInv, MailInv', network # "duplicating", AllOnPath, Completion,
           NEW c \in Agent, Complete(c)
    PROVE  AllOnPath' /\ Completion' /\ Somewhere'
<1>1. PICK old, e : old = Conv(c).members /\ e = Signed("complete", c)
  OBVIOUS
<1>0. Completed(c, old, e)
  BY <1>1, CompleteFacts DEF MailInv
<1>2. /\ IsConvener(c) /\ c \in old /\ old \subseteq Agent
      /\ \A b \in Agent \ {c} : Conv(b)' = Conv(b)
      /\ network' = network /\ refused' = refused
  BY <1>0 DEF Completed
<1>3. Conv(c) = Held(old, c, FALSE) /\ Conv(c)' = Held(old, c, TRUE)
  BY <1>0 DEF Completed
<1>4. /\ Conv(c)'.members = old /\ Conv(c)'.convener = c /\ Conv(c)'.completed = TRUE
  BY <1>0 DEF Completed
<1>5. e.kind = "complete"
  BY <1>0 DEF Completed
<1>6. PICK out : out = To(old \ {c}, e)
  OBVIOUS
<1>7. net' = net \cup out
  BY <1>0, <1>6 DEF Completed
<1>8. \A n \in out : n.to \in old \ {c} /\ n.event = e
  BY <1>6, ToElements
<1>9. \A a \in old \ {c} : \E n \in out : n.to = a
  BY <1>6, ToElements
<1>11. Conv(c)' # NoConversation
  BY <1>2, <1>3, HeldExists
<1>12. IsConvener(c)'
  BY <1>4, <1>11 DEF IsConvener
<1>13. Somewhere'
  BY <1>12 DEF Somewhere
<1>18. /\ \A m \in net : m.event.kind \notin {"leave", "complete"}
       /\ \A a \in Agent \ refused : OnPath(a, old, c)
  BY <1>2, <1>3, ConvenerSigns
<1>19. OneRole'
  BY <1>2, RoleNext
<1>14. Completion'
  <2>1. Closed'
    BY <1>4, <1>12 DEF Closed
  <2>2. \A m \in net' : m.event.kind # "leave"
    BY <1>5, <1>7, <1>8, <1>18
  <2>3. ASSUME NEW d \in Agent, IsConvener(d)', NEW a \in Conv(d)'.members, a # c
        PROVE  \E m \in net' : m.to = a /\ m.event.kind = "complete"
    <3>1. d = c
      BY <1>12, <1>19, <2>3 DEF OneRole, AtMostOneConvener
    <3>2. PICK n \in out : n.to = a
      BY <1>4, <1>9, <2>3, <3>1
    <3> QED
      BY <1>5, <1>7, <1>8, <3>2
  <2> QED
    BY <1>4, <1>11, <2>1, <2>2, <2>3 DEF Completion
<1>15. ASSUME NEW S \in SUBSET Agent, NEW d \in Agent, Current(S, d)'
       PROVE  S = old /\ d = c
  <2>2. IsConvener(d)' /\ Conv(d)'.members = S
    BY <1>12, <1>15, <1>19 DEF Current, OneRole
  <2>3. d = c
    BY <1>12, <1>19, <2>2 DEF OneRole, AtMostOneConvener
  <2> QED
    BY <1>4, <2>2, <2>3
<1>16. ASSUME NEW a \in Agent \ refused PROVE OnPath(a, old, c)'
  <2>1. Moves(a)' = Moves(a)
    BY <1>5, <1>7, <1>8 DEF Moves
  <2>2. View(Conv(c)) = Held(old, c, FALSE)
    <3>1. Conv(c) # NoConversation /\ Conv(c).members = old /\ Conv(c).convener = c
      BY <1>2, <1>3 DEF IsConvener, Held
    <3> QED
      BY <3>1 DEF View
  <2>3. View(Conv(c))' = Held(old, c, FALSE)
    BY <1>4, <1>11 DEF View
  <2>4. View(Conv(a))' = View(Conv(a))
    BY <1>2, <2>2, <2>3
  <2> QED
    BY <1>18, <2>1, <2>4 DEF OnPath
<1>17. AllOnPath'
  BY <1>2, <1>15, <1>16 DEF AllOnPath
<1> QED
  BY <1>13, <1>14, <1>17

\* What an event other than a leave makes of the view of an agent that accepts
\* it, none but a handover making that agent the convener.
LEMMA ArrivalMovesView ==
    ASSUME Types, NEW m \in net, NEW a, a = m.to, NEW e, e = m.event, e.kind # "leave",
           Accepts(store[a], a, e, 0), NEW new, new = Apply(store[a], a, e).conv
    PROVE  /\ Conv(a) = NoConversation \/ Conv(a).convener # a
           /\ Conv(a) # NoConversation => ~ Conv(a).completed
           /\ \/ /\ e.kind = "complete" /\ new # NoConversation /\ new.convener # a
                 /\ View(new) = View(Conv(a))
              \/ /\ e.kind # "complete" /\ From(m) = View(Conv(a)) /\ View(new) = Into(m)
                 /\ new # NoConversation =>
                      /\ ~ new.completed /\ new.members = e.members
                      /\ new.convener = a => Handover(m)
                 /\ Handover(m) => new # NoConversation /\ new.convener = a
<1>1. a \in Agent /\ SignedEvent(e) /\ e.issuer # a
  BY DEF Types, NetTypes
<1>2. e.kind \in {"invitation", "update", "complete"}
  BY <1>1 DEF SignedEvent, Kinds
<1>3. CASE e.kind = "invitation"
  <2>1. /\ Conv(a) = NoConversation /\ a \in e.members /\ e.issuer = e.convener
        /\ new = Held(e.members, e.convener, FALSE)
    BY <1>1, <1>3, ReceivedInvitation
  <2>2. e.members \in SUBSET Agent /\ e.convener \in Agent
    BY <1>1, <1>3 DEF SignedEvent
  <2>3. new # NoConversation
    BY <2>1, <2>2, HeldExists
  <2>4. new.members = e.members /\ new.convener = e.convener /\ new.completed = FALSE
    BY <2>1 DEF Held
  <2>5. View(new) = Into(m)
    BY <2>1, <2>3, <2>4 DEF View, Into, Placed
  <2>6. From(m) = View(Conv(a))
    BY <1>3, <2>1 DEF From, View
  <2> QED
    BY <1>1, <1>3, <2>1, <2>3, <2>4, <2>5, <2>6 DEF Handover
<1>4. CASE e.kind = "update"
  <2>1. /\ Conv(a) # NoConversation /\ Conv(a).completed = FALSE
        /\ e.issuer = Conv(a).convener
    BY <1>1, <1>4, ReceivedOther
  <2>2. /\ Conv(a).members = Old(e) /\ e.convener \in e.members
        /\ new = Placed(a, e.members, e.convener)
    BY <1>1, <1>4, ReceivedUpdate
  <2>3. e.members \in SUBSET Agent /\ e.convener \in Agent
    BY <1>1, <1>4 DEF SignedEvent
  <2>4. View(new) = Into(m)
    BY <2>2, <2>3, ViewPlaced DEF Into
  <2>5. From(m) = View(Conv(a))
    BY <1>4, <2>1, <2>2 DEF From, View
  <2>6. Held(e.members, e.convener, FALSE) # NoConversation
    BY <2>3, HeldExists
  <2>7. new = NoConversation \/ (/\ new.members = e.members /\ new.convener = e.convener
                                 /\ new.completed = FALSE)
    BY <2>2 DEF Placed, Held
  <2>8. a \in e.members => new # NoConversation
    BY <2>2, <2>6 DEF Placed
  <2> QED
    BY <1>1, <1>4, <2>1, <2>2, <2>4, <2>5, <2>7, <2>8 DEF Handover
<1>5. CASE e.kind = "complete"
  <2>1. /\ Conv(a) # NoConversation /\ Conv(a) \in ConversationRecords
        /\ Conv(a).completed = FALSE /\ e.issuer = Conv(a).convener
    BY <1>1, <1>5, ReceivedOther
  <2>2. new = Held(Conv(a).members, Conv(a).convener, TRUE)
    BY <1>1, <1>5, ReceivedComplete
  <2>3. new # NoConversation
    BY <2>1, <2>2, HeldExists DEF ConversationRecords
  <2>4. new.members = Conv(a).members /\ new.convener = Conv(a).convener
    BY <2>2 DEF Held
  <2>5. View(new) = View(Conv(a))
    BY <2>1, <2>3, <2>4 DEF View
  <2> QED
    BY <1>1, <1>5, <2>1, <2>3, <2>4, <2>5
<1> QED
  BY <1>2, <1>3, <1>4, <1>5

\* An event that is accepted is an edge that leaves the agent's view: the path
\* from its other end has it no more.  One that is not accepted is noticed.
LEMMA ArrivalOnPath ==
    ASSUME MailInv, MailInv', network # "duplicating", AllOnPath, Completion, Somewhere,
           NEW m \in net, Deliver(m)
    PROVE  AllOnPath' /\ Completion' /\ Somewhere'
<1>1. PICK a, e : a = m.to /\ e = m.event
  OBVIOUS
<1> DEFINE ok == Accepts(store[a], a, e, 0)
<1>0. Delivered(m, a, e)
  BY <1>1, DeliverFacts DEF MailInv
<1>2. /\ a \in Agent /\ e.issuer # a /\ net' = net \ {m} /\ network' = network /\ issued' = issued
      /\ \A b \in Agent \ {a} : Conv(b)' = Conv(b)
  BY <1>0 DEF Delivered
<1>3. /\ ~ ok => Conv(a)' = Conv(a) /\ refused' = refused \cup {a}
      /\ ok => refused' = refused
  BY <1>0, <1>1 DEF Delivered
<1>4. e.kind # "leave"
  BY <1>1 DEF Completion
<1>5. ASSUME ok
      PROVE  /\ ~ IsConvener(a)
             /\ Conv(a) # NoConversation => ~ Conv(a).completed
             /\ \/ /\ e.kind = "complete" /\ ~ IsConvener(a)' /\ View(Conv(a))' = View(Conv(a))
                   /\ Conv(a)' # NoConversation
                \/ /\ e.kind # "complete" /\ From(m) = View(Conv(a)) /\ View(Conv(a))' = Into(m)
                   /\ Conv(a)' # NoConversation => ~ Conv(a)'.completed
                   /\ IsConvener(a)' => Handover(m) /\ Conv(a)'.members = e.members
                   /\ Handover(m) => IsConvener(a)'
  <2>1. Accepts(store[a], a, e, 0) /\ Types
    BY <1>1, <1>5 DEF MailInv, TokenInv
  <2>2. PICK new : new = Apply(store[a], a, e).conv
    OBVIOUS
  <2>3. Conv(a)' = new
    BY <1>0, <2>1, <2>2 DEF Delivered
  <2>4. /\ Conv(a) = NoConversation \/ Conv(a).convener # a
        /\ Conv(a) # NoConversation => ~ Conv(a).completed
        /\ \/ /\ e.kind = "complete" /\ new # NoConversation /\ new.convener # a
              /\ View(new) = View(Conv(a))
           \/ /\ e.kind # "complete" /\ From(m) = View(Conv(a)) /\ View(new) = Into(m)
              /\ new # NoConversation =>
                   /\ ~ new.completed /\ new.members = e.members
                   /\ new.convener = a => Handover(m)
              /\ Handover(m) => new # NoConversation /\ new.convener = a
    BY <1>1, <1>4, <2>1, <2>2, ArrivalMovesView
  <2>5. View(Conv(a))' = View(new)
    BY <2>3
  <2> QED
    BY <2>3, <2>4, <2>5 DEF IsConvener
<1>6. \A b \in Agent : IsConvener(b) => IsConvener(b)' /\ Conv(b)' = Conv(b)
  BY <1>2, <1>3, <1>5 DEF IsConvener
<1>7. ASSUME NEW b \in Agent, IsConvener(b)'
      PROVE  \/ IsConvener(b) /\ Conv(b)' = Conv(b)
             \/ ok /\ b = a /\ Handover(m) /\ Conv(a)'.members = e.members /\ ~ Conv(b)'.completed
  <2>1. CASE b = a /\ ok
    BY <1>5, <1>7, <2>1 DEF IsConvener
  <2>2. CASE ~ (b = a /\ ok)
    <3>1. Conv(b)' = Conv(b)
      BY <1>2, <1>3, <2>2
    <3> QED
      BY <1>7, <3>1 DEF IsConvener
  <2> QED
    BY <2>1, <2>2
<1>8. ASSUME NEW S \in SUBSET Agent, NEW d \in Agent, Current(S, d)' PROVE Current(S, d)
  <2>1. CASE IsConvener(d)' /\ Conv(d)'.members = S
    BY <1>1, <1>7, <2>1 DEF Current
  <2>2. CASE \E o \in net' : Handover(o) /\ o.to = d /\ o.event.members = S
    BY <1>2, <2>2 DEF Current
  <2> QED
    BY <1>8, <2>1, <2>2 DEF Current
<1>9. ASSUME NEW b \in Agent \ refused', NEW S \in SUBSET Agent, NEW d \in Agent, OnPath(b, S, d)
      PROVE  OnPath(b, S, d)'
  <2>1. CASE b # a
    <3>1. Moves(b)' = Moves(b)
      BY <1>1, <1>2, <2>1 DEF Moves
    <3>2. View(Conv(b))' = View(Conv(b))
      BY <1>2, <2>1
    <3> QED
      BY <1>9, <3>1, <3>2 DEF OnPath
  <2>2. CASE b = a
    <3>1. ok
      BY <1>3, <2>2
    <3>2. CASE e.kind = "complete"
      <4>1. Moves(b)' = Moves(b) /\ View(Conv(b))' = View(Conv(b))
        BY <1>1, <1>2, <1>5, <2>2, <3>1, <3>2 DEF Moves
      <4> QED
        BY <1>9, <4>1 DEF OnPath
    <3>3. CASE e.kind # "complete"
      <4>1. From(m) = View(Conv(b)) /\ View(Conv(b))' = Into(m)
        BY <1>5, <2>2, <3>1, <3>3
      <4>2. PICK rest : rest = Moves(b) \ {m}
        OBVIOUS
      <4>3. Moves(b) = rest \cup {m} /\ m \notin rest /\ Moves(b)' = rest
        BY <1>1, <1>2, <2>2, <3>3, <4>2 DEF Moves
      <4>4. IsFiniteSet(rest)
        BY <1>9, <4>2, FS_RemoveElement DEF OnPath, Balance
      <4>5. Balance(rest, Into(m), Placed(b, S, d))
        BY <1>9, <4>1, <4>3, <4>4, BalanceReceive DEF OnPath
      <4> QED
        BY <4>1, <4>3, <4>5 DEF OnPath
    <3> QED
      BY <3>2, <3>3
  <2> QED
    BY <2>1, <2>2
<1>10. AllOnPath'
  <2>1. \A b \in Agent \ refused' : b \in Agent \ refused
    BY <1>3
  <2> QED
    BY <1>8, <1>9, <2>1 DEF AllOnPath
<1>11. Closed => Closed'
  BY <1>6 DEF Closed
<1>12. Completion'
  <2>1. \A o \in net' : o.event.kind # "leave" /\ (o.event.kind = "complete" => Closed')
    BY <1>2, <1>11 DEF Completion
  <2>2. ASSUME NEW b \in Agent, Conv(b)' # NoConversation, Conv(b)'.completed PROVE Closed'
    <3>1. CASE b = a /\ ok
      BY <1>1, <1>5, <1>11, <2>2, <3>1 DEF Completion
    <3>2. CASE ~ (b = a /\ ok)
      <4>1. Conv(b)' = Conv(b)
        BY <1>2, <1>3, <3>2
      <4> QED
        BY <1>11, <2>2, <4>1 DEF Completion
    <3> QED
      BY <3>1, <3>2
  <2>3. ASSUME NEW c \in Agent, IsConvener(c)', Conv(c)'.completed,
               NEW b \in Conv(c)'.members \ refused'
        PROVE  \/ Conv(b)' # NoConversation /\ Conv(b)'.completed
               \/ \E o \in net' : o.to = b /\ o.event.kind = "complete"
    <3>1. IsConvener(c) /\ Conv(c)' = Conv(c)
      BY <1>7, <2>3
    <3>2. b \in Agent /\ b \in Conv(c).members \ refused
      <4>1. Conv(c) \in ConversationRecords
        BY <3>1 DEF IsConvener, MailInv, TokenInv, Types, StoreTypes
      <4> QED
        BY <1>3, <2>3, <3>1, <4>1 DEF ConversationRecords
    <3>3. \/ Conv(b) # NoConversation /\ Conv(b).completed
          \/ \E o \in net : o.to = b /\ o.event.kind = "complete"
      BY <2>3, <3>1, <3>2 DEF Completion
    <3>4. CASE b # a
      BY <1>1, <1>2, <3>2, <3>3, <3>4
    <3>5. CASE b = a
      <4>1. ok
        BY <1>3, <2>3, <3>5
      <4>2. PICK o \in net : o.to = b /\ o.event.kind = "complete"
        BY <1>5, <3>3, <3>5, <4>1
      <4>3. CASE o = m
        <5>1. Conv(a)' # NoConversation /\ Conv(a)'.completed
          <6>1. Conv(a)' = Held(Conv(a).members, Conv(a).convener, TRUE)
            BY <1>0, <1>1, <4>1, <4>2, <4>3, ReceivedComplete DEF Delivered, MailInv, TokenInv
          <6>2. Conv(a)'.completed = TRUE
            BY <6>1 DEF Held
          <6> QED
            BY <1>1, <1>5, <4>1, <4>2, <4>3, <6>2
        <5> QED
          BY <3>5, <5>1
      <4> QED
        BY <1>2, <4>2, <4>3
    <3> QED
      BY <3>4, <3>5
  <2> QED
    BY <2>1, <2>2, <2>3 DEF Completion
<1>13. Somewhere'
  <2>1. CASE \E c \in Agent : IsConvener(c)
    BY <1>6, <2>1 DEF Somewhere
  <2>2. CASE \E o \in net : Handover(o)
    <3>1. PICK o \in net : Handover(o)
      BY <2>2
    <3>2. CASE o = m /\ ok
      <4>1. e.kind # "complete"
        BY <1>1, <3>1, <3>2 DEF Handover
      <4>2. IsConvener(a)'
        BY <1>5, <3>1, <3>2, <4>1
      <4> QED
        BY <1>2, <4>2 DEF Somewhere
    <3>3. CASE o = m /\ ~ ok
      BY <1>3, <3>3 DEF Somewhere
    <3>4. CASE o # m
      BY <1>2, <3>1, <3>4 DEF Somewhere
    <3> QED
      BY <1>1, <3>2, <3>3, <3>4
  <2>3. CASE issued = 0 \/ refused # {}
    BY <1>1, <1>2, <1>3, <2>3 DEF Somewhere
  <2> QED
    BY <2>1, <2>2, <2>3 DEF Somewhere
<1> QED
  BY <1>10, <1>12, <1>13

LEMMA PathInit == GroupInit => PathInv
<1> SUFFICES ASSUME GroupInit PROVE PathInv
  OBVIOUS
<1>1. MailInv
  BY MailInit
<1>2. net = {} /\ issued = 0 /\ \A a \in Agent : Conv(a) = NoConversation
  BY DEF GroupInit, NewStore, Conv
<1>3. AllOnPath /\ Completion /\ Somewhere
  BY <1>2 DEF AllOnPath, Current, Completion, Somewhere, IsConvener
<1> QED
  BY <1>1, <1>2, <1>3 DEF PathInv

\* A network that duplicates keeps what was sent.
LEMMA AlwaysOnItsWay ==
    ASSUME PathInv, GroupNext, network' = "duplicating", issued' # 0
    PROVE  net' # {}
<1>1. CASE \E members \in SUBSET Agent : Convene(members)
  <2>1. PICK members \in SUBSET Agent : Convene(members)
    BY <1>1
  <2>2. PICK i : i = Invitation(Founder, members)
    OBVIOUS
  <2>3. Convened(members, i)
    BY <2>1, <2>2, ConveneFacts DEF PathInv, MailInv
  <2>4. Cardinality(members) \in 2..MaxMembers /\ net' = To(members \ {Founder}, i)
        /\ Founder \in members
    BY <2>3 DEF Convened
  <2>5. members # {Founder}
    BY <2>4, FS_Singleton, PolicyAssumption
  <2>6. PICK a \in members \ {Founder} : TRUE
    BY <2>4, <2>5
  <2>7. \E m \in To(members \ {Founder}, i) : m.to = a
    BY <2>6, ToElements
  <2> QED
    BY <2>4, <2>7
<1>2. CASE ~ \E members \in SUBSET Agent : Convene(members)
  <2>1. net \subseteq net' /\ network = "duplicating"
    BY <1>2 DEF GroupNext, ChangeMembers, HandOff, Leave, Complete, AppliesOwn, Deliver
  <2>2. issued # 0
    <3>1. ASSUME issued = 0 PROVE FALSE
      <4>1. net = {} /\ \A a \in Agent : Conv(a) = NoConversation
        BY <3>1 DEF PathInv, MailInv, TokenInv, Types, NothingYet
      <4> QED
        BY <1>2, <4>1 DEF GroupNext, ChangeMembers, HandOff, Leave, Complete
    <3> QED
      BY <3>1
  <2> QED
    BY <2>1, <2>2 DEF PathInv
<1> QED
  BY <1>1, <1>2

LEMMA PathNext == PathInv /\ [GroupNext]_groupVars => PathInv'
<1> SUFFICES ASSUME PathInv, [GroupNext]_groupVars PROVE PathInv'
  OBVIOUS
<1>1. MailInv /\ MailInv'
  BY MailNext DEF PathInv
<1>2. CASE UNCHANGED groupVars
  <2>1. /\ network' = network /\ net' = net /\ issued' = issued /\ happened' = happened
        /\ refused' = refused /\ \A a : Conv(a)' = Conv(a)
    BY <1>2 DEF groupVars, Conv
  <2>2. Calm' = Calm
    BY <2>1 DEF Calm
  <2>3. \A a : IsConvener(a)' = IsConvener(a)
    BY <2>1 DEF IsConvener
  <2>4. AllOnPath => AllOnPath'
    <3>1. \A S, d : Current(S, d)' => Current(S, d)
      BY <2>1, <2>3 DEF Current
    <3>2. \A a, S, d : OnPath(a, S, d) => OnPath(a, S, d)'
      BY <2>1 DEF OnPath, Moves
    <3> QED
      BY <2>1, <3>1, <3>2 DEF AllOnPath
  <2>5. (Completion => Completion') /\ (Somewhere => Somewhere')
    BY <2>1, <2>3 DEF Completion, Closed, Somewhere
  <2> QED
    BY <1>1, <2>1, <2>2, <2>4, <2>5 DEF PathInv
<1>3. CASE GroupNext
  <2> SUFFICES ASSUME Calm' PROVE AllOnPath' /\ Completion' /\ Somewhere'
    BY <1>1, <1>3, AlwaysOnItsWay DEF PathInv
  <2>1. ASSUME NEW members \in SUBSET Agent, Convene(members)
        PROVE  AllOnPath' /\ Completion' /\ Somewhere'
    <3>1. network # "duplicating"
      BY <2>1 DEF Calm, Convene
    <3> QED
      BY <1>1, <2>1, <3>1, ConveneOnPath
  <2>2. ASSUME NEW c \in Agent, NEW members \in SUBSET Agent, ChangeMembers(c, members)
        PROVE  AllOnPath' /\ Completion' /\ Somewhere'
    <3>1. Calm
      BY <2>2 DEF Calm, ChangeMembers, AppliesOwn
    <3> QED
      BY <1>1, <2>2, <3>1, ChangeOnPath DEF Calm, PathInv
  <2>3. ASSUME NEW c \in Agent, NEW members \in SUBSET Agent, NEW to \in Agent,
               HandOff(c, to, members)
        PROVE  AllOnPath' /\ Completion' /\ Somewhere'
    <3>1. Calm
      BY <2>3 DEF Calm, HandOff, AppliesOwn
    <3> QED
      BY <1>1, <2>3, <3>1, HandOffOnPath DEF Calm, PathInv
  <2>4. ASSUME NEW a \in Agent, Leave(a) PROVE FALSE
    BY <2>4 DEF Calm, Leave
  <2>5. ASSUME NEW a \in Agent, Complete(a) PROVE AllOnPath' /\ Completion' /\ Somewhere'
    <3>1. Calm
      BY <2>5 DEF Calm, Complete, AppliesOwn
    <3> QED
      BY <1>1, <2>5, <3>1, CompleteOnPath DEF Calm, PathInv
  <2>6. ASSUME NEW m \in net, Deliver(m) PROVE AllOnPath' /\ Completion' /\ Somewhere'
    <3>1. Calm
      BY <2>6 DEF Calm, Deliver
    <3> QED
      BY <1>1, <2>6, <3>1, ArrivalOnPath DEF Calm, PathInv
  <2> QED
    BY <1>3, <2>1, <2>2, <2>3, <2>4, <2>5, <2>6 DEF GroupNext
<1> QED
  BY <1>2, <1>3

\* Where nobody has left and every event has arrived, in whatever order, an agent
\* that does not hold what the convener holds has refused an event, and so has
\* somebody if no convener is left: no member goes on with a wrong list unless
\* its host saw a call raise.
THEOREM DivergenceIsNoticed == GroupSpec => []NoSilentDivergence
<1>1. PathInv => NoSilentDivergence
  <2> SUFFICES ASSUME PathInv, AtRest, "leave" \notin happened
               PROVE  /\ \A c \in Agent : IsConvener(c) =>
                            \A a \in Agent : Conv(a) # Told(c, a) => a \in refused
                      /\ (\A c \in Agent : ~ IsConvener(c)) => refused # {}
    BY DEF NoSilentDivergence
  <2>1. /\ net = {} /\ issued # 0 /\ MailInv /\ Types /\ AtMostOneConvener
    BY DEF AtRest, PathInv, MailInv, TokenInv, Types, NothingYet
  <2>2. AllOnPath /\ Completion /\ Somewhere
    BY <2>1 DEF PathInv, Calm
  <2>3. ASSUME NEW c \in Agent, IsConvener(c), NEW a \in Agent, a \notin refused
        PROVE  Conv(a) = Told(c, a)
    <3>1. PICK members : members = Conv(c).members
      OBVIOUS
    <3>2. /\ Conv(c) # NoConversation /\ Conv(c) \in ConversationRecords
          /\ Conv(c).convener = c
      BY <2>1, <2>3 DEF IsConvener, Types, StoreTypes
    <3>3. members \in SUBSET Agent /\ Current(members, c)
      BY <2>3, <3>1, <3>2 DEF Current, ConversationRecords
    <3>4. Balance({}, View(Conv(a)), Placed(a, members, c))
      <4>1. OnPath(a, members, c)
        BY <2>2, <2>3, <3>3 DEF AllOnPath
      <4>2. Moves(a) = {}
        BY <2>1 DEF Moves
      <4> QED
        BY <4>1, <4>2 DEF OnPath
    <3>5. View(Conv(a)) = Placed(a, members, c)
      BY <3>4, BalanceEnds
    <3>6. CASE a \notin members
      BY <3>1, <3>3, <3>5, <3>6, <2>1, HeldExists
         DEF View, Placed, Told, Types, StoreTypes, ConversationRecords
    <3>7. CASE a \in members
      <4>1. Conv(a) # NoConversation /\ Conv(a) \in ConversationRecords
        BY <2>1, <3>3, <3>5, <3>7, HeldExists DEF View, Placed, Types, StoreTypes
      <4>2. Held(Conv(a).members, Conv(a).convener, FALSE) = Held(members, c, FALSE)
        BY <3>5, <3>7, <4>1 DEF View, Placed
      <4>3. Conv(a).members = members /\ Conv(a).convener = c
        BY <4>2 DEF Held
      <4>4. Conv(a).completed = Conv(c).completed
        <5>1. Conv(a).completed \in BOOLEAN /\ Conv(c).completed \in BOOLEAN
          BY <3>2, <4>1 DEF ConversationRecords
        <5>2. Conv(c).completed => Conv(a).completed
          BY <2>1, <2>2, <2>3, <3>1, <3>7 DEF Completion
        <5>3. Conv(a).completed => Conv(c).completed
          BY <2>1, <2>2, <2>3, <4>1 DEF Completion, Closed, AtMostOneConvener
        <5> QED
          BY <5>1, <5>2, <5>3
      <4>5. Conv(a) = Conv(c)
        <5>1. Conv(a) = Held(Conv(a).members, Conv(a).convener, Conv(a).completed)
          BY <4>1, RecordIsHeld
        <5>2. Conv(c) = Held(Conv(c).members, Conv(c).convener, Conv(c).completed)
          BY <3>2, RecordIsHeld
        <5> QED
          BY <3>1, <3>2, <4>3, <4>4, <5>1, <5>2
      <4> QED
        BY <3>1, <3>7, <4>5 DEF Told
    <3> QED
      BY <3>6, <3>7
  <2> QED
    BY <2>1, <2>2, <2>3 DEF Somewhere
<1> QED
  BY <1>1, PathInit, PathNext, PTL DEF GroupSpec
================================================================================
