--------------------------------- MODULE Group ---------------------------------
(***************************************************************************)
(* One group conversation as its members keep it: every agent has a        *)
(* ConversationStore of its own, and the signed events travel between them *)
(* one by one.  The library has no group send of events: a host applies    *)
(* the event it signs to its own store and sends it to each agent that it  *)
(* concerns.  A store saves before its operation returns, so a restart     *)
(* between two events changes nothing and is left out; nonces are counted  *)
(* here, and an event and an invitation made together share theirs.  All   *)
(* envelopes are young enough throughout.                                  *)
(***************************************************************************)
EXTENDS ConversationStore

CONSTANTS
    Agent,
    Founder,      \* the agent that convenes the conversation
    Networks,     \* the kinds of network to look at
    MaxEvents     \* bound: the events signed after the invitation

ASSUME GroupAssumption ==
    /\ Founder \in Agent
    /\ Networks \subseteq {"ordered", "reordering", "duplicating"}
    /\ MaxEvents \in Nat
    /\ IsFiniteSet(Agent)
    /\ NoConversation \notin [members : SUBSET Agent, convener : Agent, completed : BOOLEAN]

VARIABLES
    network,   \* "ordered": one agent's events reach another as it sent them;
               \* "duplicating": in any order and any number of times
    store,     \* per agent, its ConversationStore
    net,       \* the events on their way, each to one agent
    issued,    \* the number of events signed
    refused,   \* history: the agents whose store did not accept some event
    happened   \* history: whether somebody handed over, and whether one left

groupVars == <<network, store, net, issued, refused, happened>>

Conv(a) == store[a].conv

GroupInit ==
    /\ network \in Networks
    /\ happened = {}
    /\ store = [a \in Agent |-> NewStore]
    /\ net = {}
    /\ issued = 0
    /\ refused = {}

--------------------------------------------------------------------------------
Signed(kind, issuer) ==
    [kind |-> kind, issuer |-> issuer, nonce |-> issued + 1, iat |-> 0, authentic |-> TRUE]

Invitation(issuer, members) ==
    [kind |-> "invitation", issuer |-> issuer, nonce |-> issued + 1, iat |-> 0,
     authentic |-> TRUE, members |-> members, convener |-> issuer]

Update(issuer, old, new, convener) ==
    [kind |-> "update", issuer |-> issuer, nonce |-> issued + 1, iat |-> 0,
     authentic |-> TRUE, members |-> new, convener |-> convener,
     added |-> new \ old, removed |-> old \ new,
     from |-> IF convener = issuer THEN NoChange ELSE issuer]

To(agents, e) == [to: agents, event: {e}]

\* The issuer's own store accepts e.
AppliesOwn(a, e) ==
    /\ issued <= MaxEvents
    /\ Accepts(store[a], a, e, 0)
    /\ store' = [store EXCEPT ![a] = Apply(@, a, e)]
    /\ issued' = issued + 1
    /\ UNCHANGED <<network, refused>>

\* The founder records the conversation and invites its members.
Convene(members) ==
    /\ issued = 0
    /\ LET e == Invitation(Founder, members) IN
       /\ WellFormed(e)
       /\ store' = [store EXCEPT ![Founder].conv = Conversation(members, Founder)]
       /\ net' = To(members \ {Founder}, e)
    /\ issued' = issued + 1
    /\ UNCHANGED <<network, refused, happened>>

\* The convener changes the members: the old ones are told, new ones invited.
ChangeMembers(c, members) ==
    LET old == Conv(c).members
        e == Update(c, old, members, c)
    IN  /\ Conv(c) # NoConversation
        /\ members # old
        /\ AppliesOwn(c, e)
        /\ net' = net \cup To(old \ {c}, e) \cup To(members \ old, Invitation(c, members))
        /\ UNCHANGED happened

\* The convener hands its role over, and goes or stays.
HandOff(c, to, members) ==
    /\ Conv(c) # NoConversation
    /\ c # to
    /\ members \in {Conv(c).members, Conv(c).members \ {c}}
    /\ AppliesOwn(c, Update(c, Conv(c).members, members, to))
    /\ net' = net \cup To(Conv(c).members \ {c}, Update(c, Conv(c).members, members, to))
    /\ happened' = happened \cup {"handoff"}

Leave(a) ==
    /\ Conv(a) # NoConversation
    /\ AppliesOwn(a, Signed("leave", a))
    /\ net' = net \cup To(Conv(a).members \ {a}, Signed("leave", a))
    /\ happened' = happened \cup {"leave"}

Complete(c) ==
    /\ Conv(c) # NoConversation
    /\ AppliesOwn(c, Signed("complete", c))
    /\ net' = net \cup To(Conv(c).members \ {c}, Signed("complete", c))
    /\ UNCHANGED happened

\* An event arrives: the store applies it, or the operation raises.  One that
\* is lost is one that stays on its way.
Deliver(m) ==
    /\ network = "ordered" => \A o \in net :
          o.to = m.to /\ o.event.issuer = m.event.issuer => o.event.nonce >= m.event.nonce
    /\ net' = IF network = "duplicating" THEN net ELSE net \ {m}
    /\ IF Accepts(store[m.to], m.to, m.event, 0)
       THEN /\ store' = [store EXCEPT ![m.to] = Apply(@, m.to, m.event)]
            /\ UNCHANGED refused
       ELSE /\ refused' = refused \cup {m.to}
            /\ UNCHANGED store
    /\ UNCHANGED <<network, issued, happened>>

GroupNext ==
    \/ \E members \in SUBSET Agent : Convene(members)
    \/ \E c \in Agent, members \in SUBSET Agent :
          \/ ChangeMembers(c, members)
          \/ \E to \in Agent : HandOff(c, to, members)
    \/ \E a \in Agent : Leave(a) \/ Complete(a)
    \/ \E m \in net : Deliver(m)

GroupSpec == GroupInit /\ [][GroupNext]_groupVars

--------------------------------------------------------------------------------
IsConvener(a) == Conv(a) # NoConversation /\ Conv(a).convener = a

\* Never do two agents hold themselves for the convener, whatever is lost,
\* duplicated or reordered: the one who hands over has stepped down before the
\* other hears of it, and a handover works once.
AtMostOneConvener ==
    \A a, b \in Agent : IsConvener(a) /\ IsConvener(b) => a = b

AtRest == net = {} /\ issued > 0

\* What a would have to hold to agree with the convener c.
Told(c, a) == IF a \in Conv(c).members THEN Conv(c) ELSE NoConversation

\* Where nobody has left and nothing is lost no disagreement is silent: when every event has
\* arrived, in any order, an agent that does not hold what the convener holds
\* has refused an event, and so has somebody if there is no convener any more.
NoSilentDivergence ==
    AtRest /\ "leave" \notin happened =>
        /\ \A c \in Agent : IsConvener(c) =>
              \A a \in Agent : Conv(a) # Told(c, a) => a \in refused
        /\ (\A c \in Agent : ~ IsConvener(c)) => refused # {}

\* When one convener's events arrive in order and nobody left, no store has
\* refused any of them, for each change finds the members it was made for, and
\* in the end all agree.
OrderedMembersAgree ==
    network = "ordered" /\ happened = {} =>
        /\ refused = {}
        /\ AtRest => \A c, a \in Agent : IsConvener(c) => Conv(a) = Told(c, a)

\* With leaves the members' lists can stay different for good, but on an ordered
\* network with one convener whoever that convener counts as a member is in the
\* conversation, or has refused an event.
ConvenerCountsOnlyMembers ==
    network = "ordered" /\ "handoff" \notin happened /\ AtRest => \A c \in Agent : IsConvener(c) =>
        \A a \in Conv(c).members : Conv(a) = NoConversation => a \in refused
================================================================================
