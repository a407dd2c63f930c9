-------------------------- MODULE ConversationStore --------------------------
(***************************************************************************)
(* What aap.conversations.ConversationStore does with the signed events of *)
(* one conversation, as functions of a store value.  Every check and every *)
(* change concerns one conversation_id, so one conversation is enough; its *)
(* members form a set, because the order of the list decides nothing.      *)
(* A store is a record                                                     *)
(*    conv    NoConversation, or [members, convener, completed]            *)
(*    events  the events it has applied, oldest first                      *)
(* A signed event is a record [kind, issuer, nonce, iat, authentic] with,  *)
(* for an invitation and an update, members and convener, and for an       *)
(* update, added, removed and from (convener_changed_from).                *)
(***************************************************************************)
EXTENDS EnvelopePolicy, FiniteSets, Sequences

CONSTANTS
    NoConversation,   \* ConversationStore.get finds nothing
    NoChange,         \* convener_changed_from is None
    MaxMembers        \* the member cap, 10 in the code

ASSUME MaxMembers \in Nat

NewStore == [conv |-> NoConversation, events |-> <<>>]

Conversation(members, convener) ==
    [members |-> members, convener |-> convener, completed |-> FALSE]

\* from_dict of an invitation and of an update: _validate_members_list and the
\* convener among the members.
WellFormed(e) ==
    e.kind \in {"invitation", "update"} =>
        /\ Cardinality(e.members) \in 2..MaxMembers
        /\ e.convener \in e.members

\* Mutant: nothing is remembered of the events.
FreshAlways(store, e) == TRUE

\* _require_fresh_event: the log has no event of this type with this nonce.
FreshEvent(store, e) ==
    \A i \in DOMAIN store.events :
        ~ (store.events[i].kind = e.kind /\ store.events[i].nonce = e.nonce)

Open(store) == store.conv # NoConversation /\ ~ store.conv.completed

AcceptsInvitation(store, self, e) ==
    /\ e.issuer = e.convener
    /\ self \in e.members
    /\ FreshEvent(store, e)
    /\ store.conv = NoConversation

\* Mutant: a handoff is believed when its signer is the new convener.
AcceptsUpdateOfNewConvener(store, e) ==
    /\ Open(store)
    /\ FreshEvent(store, e)
    /\ e.issuer \in {store.conv.convener, e.convener}
    /\ e.added = e.members \ store.conv.members
    /\ e.removed = store.conv.members \ e.members
    /\ e.from \in {NoChange, store.conv.convener}

\* Mutant: the declared changes are not compared with the local members.
AcceptsUndeclaredUpdate(store, e) ==
    /\ Open(store)
    /\ FreshEvent(store, e)
    /\ e.issuer = store.conv.convener
    /\ e.from = IF e.convener = store.conv.convener THEN NoChange ELSE store.conv.convener

\* The signer is the current convener, the declared changes are the difference
\* to the local members, and the convener changes exactly when the event says
\* from whom.
AcceptsUpdate(store, e) ==
    /\ Open(store)
    /\ FreshEvent(store, e)
    /\ e.issuer = store.conv.convener
    /\ e.added = e.members \ store.conv.members
    /\ e.removed = store.conv.members \ e.members
    /\ e.from = IF e.convener = store.conv.convener THEN NoChange ELSE store.conv.convener

AcceptsLeave(store, e) ==
    /\ Open(store)
    /\ FreshEvent(store, e)
    /\ e.issuer \in store.conv.members
    /\ e.issuer # store.conv.convener

AcceptsComplete(store, e) ==
    /\ Open(store)
    /\ FreshEvent(store, e)
    /\ e.issuer = store.conv.convener

\* Whether the store applies the event; if not, the call raises and changes
\* nothing.
Accepts(store, self, e, now) ==
    /\ e.authentic /\ FreshIat(e.iat, now)
    /\ WellFormed(e)
    /\ CASE e.kind = "invitation" -> AcceptsInvitation(store, self, e)
         [] e.kind = "update"     -> AcceptsUpdate(store, e)
         [] e.kind = "leave"      -> AcceptsLeave(store, e)
         [] e.kind = "complete"   -> AcceptsComplete(store, e)

\* Mutant: a member that was removed keeps the conversation.
AfterUpdateKept(conv, self, e) ==
    [conv EXCEPT !.members = e.members, !.convener = e.convener]

\* The conversation after an update: gone for a member it removed.
AfterUpdate(conv, self, e) ==
    IF self \in e.members
    THEN [conv EXCEPT !.members = e.members, !.convener = e.convener]
    ELSE NoConversation

\* Mutant: only the one who leaves takes note.
AfterLeaveUnheard(conv, self, e) ==
    IF self = e.issuer THEN NoConversation ELSE conv

\* After a leave: gone for the one who left, and when fewer than two remain.
AfterLeave(conv, self, e) ==
    LET left == conv.members \ {e.issuer} IN
    IF self = e.issuer \/ Cardinality(left) < 2
    THEN NoConversation
    ELSE [conv EXCEPT !.members = left]

Apply(store, self, e) ==
    [conv   |-> CASE e.kind = "invitation" -> Conversation(e.members, e.convener)
                  [] e.kind = "update"     -> AfterUpdate(store.conv, self, e)
                  [] e.kind = "leave"      -> AfterLeave(store.conv, self, e)
                  [] e.kind = "complete"   -> [store.conv EXCEPT !.completed = TRUE],
     events |-> Append(store.events, e)]
================================================================================
