------------------------------ MODULE Handshake ------------------------------
(***************************************************************************)
(* Two agents become friends, and stop being friends: their relationship   *)
(* stores, their pending proposals, their users and the messages between   *)
(* them.                                                                   *)
(*                                                                         *)
(* The host program between the stores is not part of the library; its     *)
(* steps follow the protocol that PendingProposalStore describes.  It      *)
(* handles one message at a time.  A proposal that is answered is popped   *)
(* from one file before the relationship is written to another, so a       *)
(* handler has a middle, where the process can die.                        *)
(*                                                                         *)
(* Everything happens within the age limit of the envelopes involved: the  *)
(* clock stands at 0, when all of them were issued.                        *)
(***************************************************************************)
EXTENDS RelationshipStore, SequencesExt

CONSTANTS
    Agent,        \* the two addresses
    Nonce,        \* the proposals that can be made
    Proposer,     \* who makes each of them
    RevokeNonce,  \* the revokes that can be made
    Networks,     \* the kinds of network to look at
    MaxCopies,    \* bound: messages that arrive again
    MaxInFlight,  \* bound: messages on their way to one agent
    None

ASSUME HandshakeAssumption ==
    /\ \E a, b \in Agent : a # b /\ Agent = {a, b}
    /\ Proposer \in [Nonce -> Agent]
    /\ Networks \subseteq {"ordered", "duplicating"}
    /\ {MaxInFlight, MaxCopies} \subseteq Nat
    /\ None \notin Nonce

Other(a) == CHOOSE b \in Agent : b # a

VARIABLES
    network,    \* "ordered": messages arrive as they were sent, each once;
                \* "duplicating": in any order and some of them repeatedly
    copies,     \* the number of messages that arrived and will come again
    store,      \* per agent, its RelationshipStore
    outbound,   \* per agent, the nonces in PendingProposalStore.outbound
    inbound,    \* per agent, the nonces in PendingProposalStore.inbound
    handling,   \* per agent, the accepted proposal it has popped and not stored
    chan,       \* per agent, the messages on their way to it
    made,       \* history: the proposals and revokes that were sent
    answers,    \* history: per proposal, what the user answered
    covers,     \* history: per revoke, the relationship it was meant to end
    lost        \* history: proposals whose handler died

handshakeVars ==
    <<network, copies, store, outbound, inbound, handling, chan, made, answers, covers, lost>>

HandshakeInit ==
    /\ network \in Networks
    /\ copies = 0
    /\ store = [a \in Agent |-> EmptyStore]
    /\ outbound = [a \in Agent |-> {}]
    /\ inbound = [a \in Agent |-> {}]
    /\ handling = [a \in Agent |-> None]
    /\ chan = [a \in Agent |-> <<>>]
    /\ made = {}
    /\ answers = [n \in Nonce |-> {}]
    /\ covers = [x \in RevokeNonce |-> {}]
    /\ lost = {}

--------------------------------------------------------------------------------
Msg(kind, nonce) == [kind |-> kind, nonce |-> nonce]

Sends(to, m) ==
    /\ Len(chan[to]) < MaxInFlight
    /\ chan' = [chan EXCEPT ![to] = Append(@, m)]

\* a receives m: the relay hands over the first message, or any, or a copy.
Gets(a, m) ==
    /\ handling[a] = None
    /\ \E i \in 1..Len(chan[a]) :
          /\ chan[a][i] = m
          /\ network = "ordered" => i = 1
          /\ \/ chan' = [chan EXCEPT ![a] = RemoveAt(@, i)] /\ UNCHANGED copies
             \/ /\ network = "duplicating" /\ copies < MaxCopies
                /\ copies' = copies + 1
                /\ UNCHANGED chan

\* The signed pair a host assembles for a proposal and its accept.  The inbound
\* checks have verified both envelopes and the host finds the proposal by the
\* nonce the accept names, so of what establish() checks only the look-up of the
\* nonce can fail here; a pair that is damaged, mismatched or stale raises and
\* changes nothing (stale ones are among the handshakes of Relationships).
Pair(n) ==
    [proposer |-> Proposer[n], accepter |-> Other(Proposer[n]),
     type |-> "friend", resource |-> NoResource, nonce |-> n, answers |-> n,
     iats |-> {0}, authentic |-> TRUE]

Establishes(a, n) ==
    /\ ProvesConsent(Pair(n), a, Other(a), 0)
    /\ ~ SeenProposal(store[a], n)

\* establish(), which raises and changes nothing when a check fails.
Established(a, n) ==
    IF Establishes(a, n)
    THEN [store EXCEPT ![a] = AddRow(@, RowOf(Pair(n), Other(a)))]
    ELSE store

HasFriend(a) == Has(store[a], Other(a), "friend", NoResource)

\* record_outbound, and the proposal goes out.
Propose(n) ==
    LET a == Proposer[n] IN
    /\ n \notin made
    /\ made' = made \cup {n}
    /\ outbound' = [outbound EXCEPT ![a] = @ \cup {n}]
    /\ Sends(Other(a), Msg("proposal", n))
    /\ UNCHANGED <<network, copies, store, inbound, handling, answers, covers, lost>>

\* record_inbound parks the proposal for the user, again if it comes again.
ReceiveProposal(a, n) ==
    /\ Gets(a, Msg("proposal", n))
    /\ inbound' = [inbound EXCEPT ![a] = @ \cup {n}]
    /\ UNCHANGED <<network, store, outbound, handling, made, answers, covers, lost>>

\* Mutant: the accept is not sent.
AcceptUnsent(a, n) ==
    /\ n \in inbound[a]
    /\ inbound' = [inbound EXCEPT ![a] = @ \ {n}]
    /\ store' = Established(a, n)
    /\ answers' = [answers EXCEPT ![n] = @ \cup {"accept"}]
    /\ UNCHANGED <<network, copies, outbound, handling, chan, made, covers, lost>>

\* The user accepts: take_inbound, establish(), and the accept goes out.  If
\* establish() raises, the parked proposal is gone and nothing is sent.
Accept(a, n) ==
    /\ n \in inbound[a]
    /\ inbound' = [inbound EXCEPT ![a] = @ \ {n}]
    /\ store' = Established(a, n)
    /\ IF Establishes(a, n) THEN Sends(Other(a), Msg("accept", n)) ELSE UNCHANGED chan
    /\ answers' = [answers EXCEPT ![n] = @ \cup {"accept"}]
    /\ UNCHANGED <<network, copies, outbound, handling, made, covers, lost>>

\* The process dies after take_inbound, before or after establish().
DieAccepting(a, n) ==
    /\ n \in inbound[a]
    /\ inbound' = [inbound EXCEPT ![a] = @ \ {n}]
    /\ store' \in {store, Established(a, n)}
    /\ answers' = [answers EXCEPT ![n] = @ \cup {"accept"}]
    /\ lost' = lost \cup {n}
    /\ UNCHANGED <<network, copies, outbound, handling, chan, made, covers>>

Decline(a, n) ==
    /\ n \in inbound[a]
    /\ inbound' = [inbound EXCEPT ![a] = @ \ {n}]
    /\ Sends(Other(a), Msg("decline", n))
    /\ answers' = [answers EXCEPT ![n] = @ \cup {"decline"}]
    /\ UNCHANGED <<network, copies, store, outbound, handling, made, covers, lost>>

\* Mutant: the pending row is read and not popped.
ReceiveAcceptKeeps(a, n) ==
    /\ Gets(a, Msg("accept", n))
    /\ handling' = [handling EXCEPT ![a] = IF n \in outbound[a] THEN n ELSE None]
    /\ UNCHANGED <<network, store, outbound, inbound, made, answers, covers, lost>>

\* take_outbound: the pending row is popped and its file saved.  An accept that
\* matches no pending proposal is ignored.
ReceiveAccept(a, n) ==
    /\ Gets(a, Msg("accept", n))
    /\ outbound' = [outbound EXCEPT ![a] = @ \ {n}]
    /\ handling' = [handling EXCEPT ![a] = IF n \in outbound[a] THEN n ELSE None]
    /\ UNCHANGED <<network, store, inbound, made, answers, covers, lost>>

\* The second half of the handler: establish().
FinishAccept(a) ==
    /\ handling[a] # None
    /\ store' = Established(a, handling[a])
    /\ handling' = [handling EXCEPT ![a] = None]
    /\ UNCHANGED <<network, copies, outbound, inbound, chan, made, answers, covers, lost>>

\* The process dies between take_outbound and establish().
DieHandling(a) ==
    /\ handling[a] # None
    /\ lost' = lost \cup {handling[a]}
    /\ handling' = [handling EXCEPT ![a] = None]
    /\ UNCHANGED <<network, copies, store, outbound, inbound, chan, made, answers, covers>>

ReceiveDecline(a, n) ==
    /\ Gets(a, Msg("decline", n))
    /\ outbound' = [outbound EXCEPT ![a] = @ \ {n}]
    /\ UNCHANGED <<network, store, inbound, handling, made, answers, covers, lost>>

Revocation(issuer, x) ==
    [issuer |-> issuer, type |-> "friend", resource |-> NoResource,
     nonce |-> x, iat |-> 0, authentic |-> TRUE]

\* Mutant: the proof is kept and the row is not removed.
RevokedProofOnly(a, issuer, x) ==
    LET v == Revocation(issuer, x) IN
    IF ProvesRevocation(v, a, Other(a), 0)
    THEN [store EXCEPT ![a].revocations = @ \cup {RevocationOf(v, Other(a))}]
    ELSE store

Revoked(a, issuer, x) ==
    LET v == Revocation(issuer, x) IN
    IF ProvesRevocation(v, a, Other(a), 0) /\ ~ SeenRevocation(store[a], x)
    THEN [store EXCEPT ![a] = DropRow(@, RevocationOf(v, Other(a)))]
    ELSE store

\* The user ends the friendship: revoke() locally, and the revoke goes out.
RevokeFriend(a, x) ==
    /\ x \notin made
    /\ HasFriend(a)
    /\ made' = made \cup {x}
    /\ covers' = [covers EXCEPT ![x] = {r.nonce : r \in store[a].rows}]
    /\ store' = Revoked(a, a, x)
    /\ Sends(Other(a), Msg("revoke", x))
    /\ UNCHANGED <<network, copies, outbound, inbound, handling, answers, lost>>

ReceiveRevoke(a, x) ==
    /\ Gets(a, Msg("revoke", x))
    /\ store' = Revoked(a, Other(a), x)
    /\ UNCHANGED <<network, outbound, inbound, handling, made, answers, covers, lost>>

Receive(a) ==
    \/ \E n \in Nonce : \/ ReceiveProposal(a, n)
                        \/ ReceiveAccept(a, n)
                        \/ ReceiveDecline(a, n)
    \/ \E x \in RevokeNonce : ReceiveRevoke(a, x)

User(a) ==
    \/ \E n \in Nonce : Accept(a, n) \/ DieAccepting(a, n) \/ Decline(a, n)
    \/ \E x \in RevokeNonce : RevokeFriend(a, x)

HandshakeNext ==
    \/ \E n \in Nonce : Propose(n)
    \/ \E a \in Agent : User(a) \/ Receive(a) \/ FinishAccept(a) \/ DieHandling(a)

HandshakeSpec == HandshakeInit /\ [][HandshakeNext]_handshakeVars

\* The relay keeps delivering and a handler that is not killed runs to its end;
\* users need not do anything.
Fairness == \A a \in Agent : WF_handshakeVars(Receive(a)) /\ WF_handshakeVars(FinishAccept(a))

FairSpec == HandshakeSpec /\ Fairness

--------------------------------------------------------------------------------
Holds(a, n) == \E r \in store[a].rows : r.nonce = n

\* The proposer's own row of a proposal.
Kept(n) == Holds(Proposer[n], n)

Travelling(a, m) == m \in Range(chan[a])

\* A proposal makes its proposer a friend once.  A row that rests on it and is
\* gone, revoked or replaced, does not come back with a late copy of the accept,
\* on either network.  establish() would take the pair again, since it looks for
\* the nonce in the active rows only: that take_outbound pops the pending
\* proposal is all that stands in the way.
AcceptWorksOnce ==
    \A n \in Nonce : [](Kept(n) => [](~ Kept(n) => []~ Kept(n)))

\* As long as nobody revokes, no handler dies and no user answers a proposal
\* both ways, one side has a friend that does not have it only while an accept
\* is travelling to the other side or is being handled there.
FriendshipIsMutual ==
    (/\ made \cap RevokeNonce = {}
     /\ lost = {}
     /\ \A n \in Nonce : answers[n] # {"accept", "decline"}) =>
        \A a \in Agent :
            HasFriend(a) /\ ~ HasFriend(Other(a)) =>
                \E n \in Nonce : \/ Travelling(Other(a), Msg("accept", n))
                                 \/ handling[Other(a)] = n

\* "The receiver deletes its local record; future messages from the revoker
\* fall back to the stranger gate": on an ordered network, once a revoke has
\* arrived, the relationship it was meant to end is not there.
RevokerIsStranger ==
    network = "ordered" => \A a \in Agent, x \in RevokeNonce :
        SeenRevocation(store[a], x) => \A n \in covers[x] : ~ Holds(a, n)

\* When no message is lost and no process dies, an accepted proposal makes both
\* sides friends, also when proposals cross and messages come again, unless the
\* user declines it as well or somebody revokes.
AcceptedBecomesMutual ==
    \A n \in Nonce :
        "accept" \in answers[n] ~>
            \/ \A a \in Agent : HasFriend(a)
            \/ "decline" \in answers[n]
            \/ lost # {}
            \/ made \cap RevokeNonce # {}
================================================================================
