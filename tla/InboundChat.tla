----------------------------- MODULE InboundChat -----------------------------
(***************************************************************************)
(* validate_inbound_chat: the envelope gate of ReplayCache followed by the *)
(* chat payload check and the relationship gate, all in one call.  The     *)
(* three run in that order, so an envelope is remembered as a replay       *)
(* before anybody has asked whether its sender may chat.                   *)
(*                                                                         *)
(* An envelope has one more field here, chat: its payload is a well-formed *)
(* chat message.  What arrives is a delivery: an envelope and its wrapping.*)
(***************************************************************************)
EXTENDS ReplayCache

CONSTANTS
    Delivery,        \* records [env, form, to]: form is "sealed" or "plain"
    Self,            \* recipient_address
    AllowPlaintext,  \* allow_plaintext
    AllowedTypes,    \* allowed_relationship_types, as a set
    Row,             \* relationship rows [peer, type, resource] that can exist
    NoResource       \* None

ASSUME ChatAssumption ==
    /\ \A d \in Delivery : d.env \in Envelope /\ d.env.chat \in BOOLEAN
    /\ AllowPlaintext \in BOOLEAN

VARIABLES
    rows,        \* RelationshipStore.rows, changed by handshakes and revokes
    verdicts     \* history: per key, the verdicts the chat gate has returned

chatVars == <<vars, rows, verdicts>>

ChatInit ==
    /\ Init
    /\ rows = {}
    /\ verdicts = [k \in Key |-> {}]

--------------------------------------------------------------------------------
\* _decrypt_or_parse_inbound: a sealed envelope opens for its recipient only.
Opens(d) ==
    \/ d.form = "sealed" /\ d.to = Self
    \/ d.form = "plain" /\ AllowPlaintext

\* RelationshipStore.find as the gate calls it, without a resource: a team row
\* always has one, so it never matches.
Find(peer, type) ==
    {r \in rows : /\ r.peer = peer
                  /\ r.type = type
                  /\ type = "team" => r.resource = NoResource}

\* _authorized_relationship
Authorized(peer) == \E type \in AllowedTypes : Find(peer, type) # {}

\* What validate_inbound_chat answers about an envelope that passed the gate.
Verdict(e) ==
    CASE ~ e.chat          -> "not a chat"
      [] Authorized(e.iss) -> "chat"
      [] OTHER             -> "stranger"

\* Mutant: the relationship gate runs first, and a stranger's envelope is
\* turned away without being remembered.
ReceiveChatGateFirst(d) ==
    /\ Opens(d)
    /\ Verifies(d.env, now) /\ Unseen(d.env)
    /\ verdicts' = [verdicts EXCEPT ![ReplayKey(d.env)] = @ \cup {Verdict(d.env)}]
    /\ IF Verdict(d.env) = "stranger" THEN UNCHANGED vars ELSE Pass(d.env)
    /\ UNCHANGED rows

\* The whole call for a delivery the envelope gate lets through.
ReceiveChat(d) ==
    /\ Opens(d)
    /\ Pass(d.env)
    /\ verdicts' = [verdicts EXCEPT ![ReplayKey(d.env)] = @ \cup {Verdict(d.env)}]
    /\ UNCHANGED rows

\* The calls that end inside the envelope gate.
GateStops(d) ==
    /\ Opens(d)
    /\ RefuseReplay(d.env) \/ SaveFails(d.env) \/ DieAfterSave(d.env)
    /\ UNCHANGED <<rows, verdicts>>

\* The store is shared with the handshake handlers, which add and remove rows.
RelationshipChange ==
    /\ \E r \in Row : rows' = rows \cup {r} \/ rows' = rows \ {r}
    /\ rows' # rows
    /\ UNCHANGED <<vars, verdicts>>

ChatNext ==
    \/ \E d \in Delivery : ReceiveChat(d) \/ GateStops(d)
    \/ RelationshipChange
    \/ (Restart \/ Tick) /\ UNCHANGED <<rows, verdicts>>

ChatSpec == ChatInit /\ [][ChatNext]_chatVars

--------------------------------------------------------------------------------
\* A message gets one verdict for good: one that was turned away as a
\* stranger's is not let in when the sender becomes a friend and the relay
\* delivers it again, and one that was let in is not turned away.
OneVerdict ==
    \A k \in Key : \A v, w \in verdicts[k] : v = w
================================================================================
