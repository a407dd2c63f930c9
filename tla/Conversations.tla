---------------------------- MODULE Conversations ----------------------------
(***************************************************************************)
(* One agent's ConversationStore: memory, the file behind it, saves that   *)
(* fail, restarts, the local edits that need no signature, and the signed  *)
(* events of one conversation, which reach it in any order, any number of  *)
(* times, at any moment of a bounded clock.                                *)
(***************************************************************************)
EXTENDS ConversationStore

CONSTANTS
    Self,          \* self_address
    Event,         \* the signed events that exist
    LocalRoster,   \* the conversations [members, convener, completed] it records
    MaxEdits,      \* bound: local edits
    MaxTime        \* bound: the clock stops here

ASSUME ConversationAssumption ==
    /\ \A e \in Event : /\ e.iat \in Nat /\ e.authentic \in BOOLEAN
                        /\ e.kind \in {"invitation", "update", "leave", "complete"}
    /\ {MaxEdits, MaxTime} \subseteq Nat

VARIABLES
    now,
    edits,    \* history: the number of local edits
    mem,      \* the store object
    file      \* the store in aap-conversations.json

vars == <<now, edits, mem, file>>

Rosters ==
    {Conversation(e.members, e.convener) : e \in {d \in Event : d.kind \in {"invitation", "update"}}}
      \cup LocalRoster

People == UNION {c.members : c \in Rosters}

Init ==
    /\ now = 0
    /\ edits = 0
    /\ mem = NewStore
    /\ file = NewStore

--------------------------------------------------------------------------------
\* accept_invitation, apply_membership_update, apply_leave or apply_complete,
\* up to the return.
Receive(e) ==
    /\ Accepts(mem, Self, e, now)
    /\ mem' = Apply(mem, Self, e)
    /\ file' = mem'
    /\ UNCHANGED <<now, edits>>

\* The same call when the save raises: memory has changed already.
ReceiveSaveFails(e) ==
    /\ Accepts(mem, Self, e, now)
    /\ mem' = Apply(mem, Self, e)
    /\ UNCHANGED <<now, edits, file>>

\* Mutant: only the conversations are read back.
LoadWithoutEvents ==
    /\ mem' = [file EXCEPT !.events = <<>>]
    /\ UNCHANGED <<now, edits, file>>

Load ==
    /\ mem' = file
    /\ UNCHANGED <<now, edits, file>>

\* A local edit changes the conversation without an event, and saves, or
\* raises because the save does.
Edit(conv) ==
    /\ edits < MaxEdits
    /\ edits' = edits + 1
    /\ mem' = [mem EXCEPT !.conv = conv]
    /\ file' \in {mem', file}
    /\ UNCHANGED now

Record == \E conv \in LocalRoster : Edit(conv)

\* update_members saves also when it finds no conversation.
UpdateMembers ==
    \E conv \in LocalRoster :
        Edit(IF mem.conv = NoConversation THEN NoConversation
             ELSE [mem.conv EXCEPT !.members = conv.members])

RemoveMember(a) ==
    Edit(IF mem.conv = NoConversation THEN NoConversation
         ELSE [mem.conv EXCEPT !.members = @ \ {a}])

Dissolve ==
    /\ mem.conv # NoConversation
    /\ Edit(NoConversation)

Tick ==
    /\ now < MaxTime
    /\ now' = now + 1
    /\ UNCHANGED <<edits, mem, file>>

Next ==
    \/ \E e \in Event : Receive(e) \/ ReceiveSaveFails(e)
    \/ Record \/ UpdateMembers \/ Dissolve
    \/ \E a \in People : RemoveMember(a)
    \/ Load
    \/ Tick

Spec == Init /\ [][Next]_vars

--------------------------------------------------------------------------------
(***************************************************************************)
(* The conversation as its log of signed events tells it, read backwards   *)
(* and not by applying them: the last event with a roster names convener   *)
(* and members, those who left since are gone, and it is over if a         *)
(* completion followed.                                                    *)
(***************************************************************************)
ToldBy(log) ==
    LET rosters == {i \in DOMAIN log : log[i].kind \in {"invitation", "update"}}
        last == CHOOSE i \in rosters : \A j \in rosters : j <= i
        since == {log[i] : i \in {j \in DOMAIN log : j > last}}
        members == log[last].members \ {e.issuer : e \in {d \in since : d.kind = "leave"}}
    IN  IF rosters = {} \/ Self \notin members \/ Cardinality(members) < 2
        THEN NoConversation
        ELSE [members |-> members, convener |-> log[last].convener,
              completed |-> \E e \in since : e.kind = "complete"]

\* Without local edits, the conversation in memory and in the file is what the
\* proofs kept with it say it is, through failed saves and restarts: no event
\* changes the members without being in the log, or is in it without effect.
LogExplainsConversation ==
    edits = 0 => \A store \in {mem, file} : store.conv = ToldBy(store.events)

\* Without local edits, every event in the log had authority when it was
\* applied, by the log alone: an update or a completion was signed by the
\* convener of that moment, to whom a chain of handoffs leads, and a leave by a
\* member other than the convener.
LogIsAuthorized ==
    edits = 0 => \A store \in {mem, file} : \A i \in DOMAIN store.events :
        LET e == store.events[i]
            before == ToldBy(SubSeq(store.events, 1, i - 1))
        IN  IF e.kind = "invitation"
            THEN before = NoConversation /\ e.issuer = e.convener
            ELSE /\ before # NoConversation /\ ~ before.completed
                 /\ IF e.kind = "leave"
                    THEN e.issuer \in before.members \ {before.convener}
                    ELSE e.issuer = before.convener
================================================================================
