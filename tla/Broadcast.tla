------------------------------- MODULE Broadcast -------------------------------
(***************************************************************************)
(* broadcast_to_conversation while the agent goes on applying the signed   *)
(* events of that conversation, and editing it: every send is awaited, and *)
(* other tasks of the event loop run meanwhile.  The recipients are fixed  *)
(* when the call starts; what each message says of the members is read    *)
(* from the Conversation object when its send starts.  An update, a leave  *)
(* and most local edits change that object in place, a deletion takes it   *)
(* out of the store, and an invitation or a recorded one is a new object.  *)
(***************************************************************************)
EXTENDS Conversations

CONSTANT None

VARIABLES
    conv,       \* the call's Conversation object, None before the call
    held,       \* conv is still the object in the store
    asked,      \* history: the recipients, fixed when the call starts
    todo,       \* the recipients that are left
    sending,    \* the recipient of the send that is awaited, or None
    results     \* what the call returns: [to, ok] per send that has ended

call == <<conv, held, asked, todo, sending, results>>

NoCall ==
    /\ conv' = None
    /\ held' = FALSE
    /\ asked' = {}
    /\ todo' = {}
    /\ sending' = None
    /\ results' = {}

BroadcastInit ==
    /\ Init
    /\ conv = None
    /\ held = FALSE
    /\ asked = {}
    /\ todo = {}
    /\ sending = None
    /\ results = {}

--------------------------------------------------------------------------------
Called == conv # None

Done == Called /\ todo = {} /\ sending = None

\* No await comes between the end of a send, or the begin of the call, and the
\* start of the next send.
SendNext(left) ==
    IF left = {}
    THEN sending' = None /\ todo' = {}
    ELSE \E r \in left : sending' = r /\ todo' = left \ {r}

\* The call finds the conversation; if there is none it raises.
Call ==
    /\ ~ Called
    /\ mem.conv # NoConversation
    /\ conv' = mem.conv
    /\ held' = TRUE
    /\ asked' = conv'.members \ {Self}
    /\ SendNext(asked')
    /\ UNCHANGED <<vars, results>>

\* Mutant: an error ends the call.
AnswerOrRaise(ok) ==
    /\ sending # None
    /\ results' = results \cup {[to |-> sending, ok |-> ok]}
    /\ IF ok THEN SendNext(todo) ELSE SendNext({})
    /\ UNCHANGED <<vars, conv, held, asked>>

\* The send returns an id or raises; either becomes a result.
Answer(ok) ==
    /\ sending # None
    /\ results' = results \cup {[to |-> sending, ok |-> ok]}
    /\ SendNext(todo)
    /\ UNCHANGED <<vars, conv, held, asked>>

\* The object of the call changed in place with the store's conversation.
Follows ==
    /\ held' = (held /\ mem'.conv # NoConversation)
    /\ conv' = IF held' THEN mem'.conv ELSE conv
    /\ UNCHANGED <<asked, todo, sending, results>>

\* Another task applies an event.  The leave that dissolves a conversation
\* changes the object's members before the object is dropped.
Applied(e) ==
    IF held /\ mem'.conv = NoConversation /\ e.kind = "leave" /\ e.issuer # Self
    THEN /\ held' = FALSE
         /\ conv' = [conv EXCEPT !.members = @ \ {e.issuer}]
         /\ UNCHANGED <<asked, todo, sending, results>>
    ELSE Follows

\* record() puts another object into the store.
Replaced ==
    /\ held' = FALSE
    /\ UNCHANGED <<conv, asked, todo, sending, results>>

Task ==
    \/ \E e \in Event : (Receive(e) \/ ReceiveSaveFails(e)) /\ Applied(e)
    \/ Record /\ Replaced
    \/ (UpdateMembers \/ Dissolve \/ \E a \in People : RemoveMember(a)) /\ Follows
    \/ Tick /\ UNCHANGED call

\* The process restarts, and the call is gone.
Restart == Load /\ NoCall

BroadcastNext ==
    \/ Call
    \/ \E ok \in BOOLEAN : Answer(ok)
    \/ Task
    \/ Restart

\* A call that was made runs on: the HTTP client answers or times out.
BroadcastSpec ==
    /\ BroadcastInit /\ [][BroadcastNext]_<<vars, call>>
    /\ WF_<<vars, call>>(\E ok \in BOOLEAN : Answer(ok))

--------------------------------------------------------------------------------
\* Unless the process restarts, the call ends, and everyone who was a member
\* when it was made has exactly one result, whatever fails and whatever happens
\* to the conversation meanwhile.
EveryoneIsReported ==
    Called ~> \/ ~ Called
              \/ Done /\ \A r \in asked : \E ok \in BOOLEAN :
                           results \cap [to: {r}, ok: BOOLEAN] = {[to |-> r, ok |-> ok]}
================================================================================
