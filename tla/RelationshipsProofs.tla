------------------------- MODULE RelationshipsProofs -------------------------
(***************************************************************************)
(* What RelationshipStore guarantees for every set of handshakes, revokes  *)
(* and peers, through restarts and failed saves; and what two agents that  *)
(* keep such stores can rely on, for every number of proposals, revokes    *)
(* and messages on their way.                                              *)
(***************************************************************************)
EXTENDS Relationships, Handshake, SequenceTheorems, TLAPS

\* A step changes the store by adding one row, by adding one revocation, or by
\* reading the file again; the file is left alone or takes the store.
LEMMA Steps ==
    ASSUME [Next]_vars
    PROVE  \/ \E h \in Handshake, p \in Peer : Establish(h, p) \/ EstablishSaveFails(h, p)
           \/ \E v \in Revoke, p \in Peer : RevokeRow(v, p) \/ RevokeSaveFails(v, p)
           \/ mem' \in {mem, file} /\ UNCHANGED <<file, answer, torn, acks>>
BY DEF Next, vars, Load, Tick

--------------------------------------------------------------------------------
\* The shape of a store, all that the arguments below need of its type.
Shape(st) ==
    /\ st = [rows |-> st.rows, revocations |-> st.revocations]
    /\ \A r \in st.rows : r = [peer |-> r.peer, type |-> r.type,
                                  resource |-> r.resource, nonce |-> r.nonce]

Shapes == Shape(mem) /\ Shape(file)

\* What _add_verified does to a store.
LEMMA AddRowFacts ==
    ASSUME NEW st, Shape(st), NEW h, NEW p
    PROVE  LET row == RowOf(h, p)
               new == AddRow(st, row)
           IN  /\ Shape(new)
               /\ new.revocations = st.revocations
               /\ new.rows = {r \in st.rows : ~ SameKey(r, row)} \cup {row}
BY DEF Shape, AddRow, RowOf

\* What the second half of revoke() does to a store.
LEMMA DropRowFacts ==
    ASSUME NEW st, Shape(st), NEW x
    PROVE  /\ Shape(DropRow(st, x))
           /\ DropRow(st, x).revocations = st.revocations \cup {x}
           /\ DropRow(st, x).rows = {r \in st.rows : ~ SameKey(r, x)}
BY DEF Shape, DropRow

LEMMA ShapesInvariant == Spec => []Shapes
<1>1. Init => Shapes
  BY DEF Init, Shapes, Shape, EmptyStore
<1>2. Shapes /\ [Next]_vars => Shapes'
  <2> SUFFICES ASSUME Shapes, [Next]_vars PROVE Shapes'
    OBVIOUS
  <2>1. ASSUME NEW h \in Handshake, NEW p \in Peer,
               Establish(h, p) \/ EstablishSaveFails(h, p)
        PROVE  Shapes'
    BY <2>1, AddRowFacts DEF Establish, EstablishSaveFails, Returns, Raises, Shapes, Shape
  <2>2. ASSUME NEW v \in Revoke, NEW p \in Peer, RevokeRow(v, p) \/ RevokeSaveFails(v, p)
        PROVE  Shapes'
    BY <2>2, DropRowFacts DEF RevokeRow, RevokeSaveFails, Returns, Raises, Shapes, Shape
  <2> QED
    BY <2>1, <2>2, Steps DEF Shapes, Shape
<1> QED
  BY <1>1, <1>2, PTL DEF Spec

--------------------------------------------------------------------------------
\* The history variables keep their types, which needs nothing of the stores.
HistoryOK ==
    /\ answer \in [Keys -> {"none", "established", "revoked"}]
    /\ acks \in [Revoke -> Nat]

LEMMA HistoryInvariant == Spec => []HistoryOK
<1>1. Init => HistoryOK
  BY DEF Init, HistoryOK
<1>2. HistoryOK /\ [Next]_vars => HistoryOK'
  BY Steps DEF HistoryOK, Establish, EstablishSaveFails, RevokeRow, RevokeSaveFails,
               Returns, Raises
<1> QED
  BY <1>1, <1>2, PTL DEF Spec

(***************************************************************************)
(* RevokeOnce is not inductive: the store must be seen to keep the proof   *)
(* of every revoke it has acknowledged, in memory and in the file, so that *)
(* neither a call nor a restart can make it forget one.                    *)
(***************************************************************************)
AckedIsKept ==
    \A v \in Revoke : acks[v] > 0 =>
        SeenRevocation(mem, v.nonce) /\ SeenRevocation(file, v.nonce)

RevokeInv == AckedIsKept /\ RevokeOnce

\* An acknowledged revoke is never acknowledged again: a late copy of it is
\* refused for as long as the file lives, whatever happened in between.
THEOREM RevokesApplyOnce == Spec => []RevokeOnce
<1>1. Init => RevokeInv
  BY DEF Init, RevokeInv, AckedIsKept, RevokeOnce
<1>2. Shapes /\ HistoryOK /\ RevokeInv /\ [Next]_vars => RevokeInv'
  <2> SUFFICES ASSUME Shapes, HistoryOK, RevokeInv, [Next]_vars PROVE RevokeInv'
    OBVIOUS
  <2> USE DEF RevokeInv, AckedIsKept, RevokeOnce, SeenRevocation
  <2>1. ASSUME NEW h \in Handshake, NEW p \in Peer,
               Establish(h, p) \/ EstablishSaveFails(h, p)
        PROVE  RevokeInv'
    <3>1. mem'.revocations = mem.revocations /\ file' \in {file, mem'} /\ acks' = acks
      BY <2>1, AddRowFacts DEF Establish, EstablishSaveFails, Returns, Raises, Shapes
    <3> QED
      BY <3>1
  <2>2. ASSUME NEW v \in Revoke, NEW p \in Peer, RevokeRow(v, p)
        PROVE  RevokeInv'
    <3>1. mem'.revocations = mem.revocations \cup {RevocationOf(v, p)} /\ file' = mem'
      BY <2>2, DropRowFacts DEF RevokeRow, Returns, Shapes
    <3>2. RevocationOf(v, p).nonce = v.nonce
      BY DEF RevocationOf
    <3>3. acks' = [acks EXCEPT ![v] = @ + 1] /\ ~ SeenRevocation(mem, v.nonce)
      BY <2>2 DEF RevokeRow, CanRevoke
    <3>4. acks[v] = 0
      BY <3>3 DEF HistoryOK
    <3> QED
      BY <3>1, <3>2, <3>3, <3>4 DEF HistoryOK
  <2>3. ASSUME NEW v \in Revoke, NEW p \in Peer, RevokeSaveFails(v, p)
        PROVE  RevokeInv'
    <3>1. /\ mem'.revocations = mem.revocations \cup {RevocationOf(v, p)}
          /\ UNCHANGED <<file, acks>>
      BY <2>3, DropRowFacts DEF RevokeSaveFails, Raises, Shapes
    <3> QED
      BY <3>1
  <2>4. CASE mem' \in {mem, file} /\ UNCHANGED <<file, acks>>
    BY <2>4
  <2> QED
    BY <2>1, <2>2, <2>3, <2>4, Steps
<1>3. RevokeInv => RevokeOnce
  BY DEF RevokeInv
<1> QED
  BY <1>1, <1>2, <1>3, ShapesInvariant, HistoryInvariant, PTL DEF Spec

--------------------------------------------------------------------------------
\* Of one signed consent at most one row is active, in memory and on file.
THEOREM ConsentGivesOneRow == Spec => []OneRowPerConsent
<1>1. Init => OneRowPerConsent
  BY DEF Init, OneRowPerConsent, EmptyStore
<1>2. Shapes /\ OneRowPerConsent /\ [Next]_vars => OneRowPerConsent'
  <2> SUFFICES ASSUME Shapes, OneRowPerConsent, [Next]_vars PROVE OneRowPerConsent'
    OBVIOUS
  <2>1. ASSUME NEW h \in Handshake, NEW p \in Peer,
               Establish(h, p) \/ EstablishSaveFails(h, p)
        PROVE  OneRowPerConsent'
    <3>1. /\ mem'.rows = {r \in mem.rows : ~ SameKey(r, RowOf(h, p))} \cup {RowOf(h, p)}
          /\ file' \in {file, mem'}
      BY <2>1, AddRowFacts DEF Establish, EstablishSaveFails, Returns, Raises, Shapes
    <3>2. \A r \in mem.rows : r.nonce # RowOf(h, p).nonce
      BY <2>1 DEF Establish, EstablishSaveFails, CanEstablish, SeenProposal, RowOf
    <3> QED
      BY <3>1, <3>2 DEF OneRowPerConsent
  <2>2. ASSUME NEW v \in Revoke, NEW p \in Peer, RevokeRow(v, p) \/ RevokeSaveFails(v, p)
        PROVE  OneRowPerConsent'
    <3>1. mem'.rows \subseteq mem.rows /\ file' \in {file, mem'}
      BY <2>2, DropRowFacts DEF RevokeRow, RevokeSaveFails, Returns, Raises, Shapes
    <3> QED
      BY <3>1 DEF OneRowPerConsent
  <2> QED
    BY <2>1, <2>2, Steps DEF OneRowPerConsent
<1> QED
  BY <1>1, <1>2, ShapesInvariant, PTL DEF Spec

--------------------------------------------------------------------------------
\* Two rows have the same RowKey exactly when _add_verified and revoke() take
\* them for the same relationship.
LEMMA KeyIsIdentity ==
    ASSUME NEW r, NEW s
    PROVE  SameKey(r, s) <=> RowKey(r) = RowKey(s)
BY DEF SameKey, RowKey

\* Unless its save raised, what the last call said of a relationship is what
\* memory and file hold, whatever calls and restarts followed.
THEOREM AnswersHold == Spec => []AnswersAreDurable
<1>1. Init => AnswersAreDurable
  BY DEF Init, AnswersAreDurable, EmptyStore, RowsUnder
<1>2. Shapes /\ HistoryOK /\ AnswersAreDurable /\ [Next]_vars => AnswersAreDurable'
  <2> SUFFICES ASSUME Shapes, HistoryOK, AnswersAreDurable, [Next]_vars
               PROVE  AnswersAreDurable'
    OBVIOUS
  <2>1. ASSUME NEW h \in Handshake, NEW p \in Peer,
               Establish(h, p) \/ EstablishSaveFails(h, p)
        PROVE  AnswersAreDurable'
    <3> DEFINE row == RowOf(h, p)
    <3>1. mem'.rows = {r \in mem.rows : RowKey(r) # RowKey(row)} \cup {row}
      BY <2>1, AddRowFacts, KeyIsIdentity
         DEF Establish, EstablishSaveFails, Shapes
    <3>2. RowsUnder(mem', RowKey(row)) = {row}
      BY <3>1 DEF RowsUnder
    <3>3. \A k \in Keys \ {RowKey(row)} : RowsUnder(mem', k) = RowsUnder(mem, k)
      BY <3>1 DEF RowsUnder
    <3> HIDE DEF row
    <3>4. CASE Returns(RowKey(row), "established")
      BY <3>1, <3>2, <3>3, <3>4 DEF Returns, AnswersAreDurable, HistoryOK, RowsUnder
    <3>5. CASE Raises(RowKey(row))
      BY <3>1, <3>3, <3>5 DEF Raises, AnswersAreDurable, RowsUnder
    <3> QED
      BY <2>1, <3>4, <3>5 DEF Establish, EstablishSaveFails, row
  <2>2. ASSUME NEW v \in Revoke, NEW p \in Peer, RevokeRow(v, p) \/ RevokeSaveFails(v, p)
        PROVE  AnswersAreDurable'
    <3> DEFINE x == RevocationOf(v, p)
    <3>1. mem'.rows = {r \in mem.rows : RowKey(r) # RowKey(x)}
      BY <2>2, DropRowFacts, KeyIsIdentity DEF RevokeRow, RevokeSaveFails, Shapes
    <3>2. RowsUnder(mem', RowKey(x)) = {}
      BY <3>1 DEF RowsUnder
    <3>3. \A k \in Keys \ {RowKey(x)} : RowsUnder(mem', k) = RowsUnder(mem, k)
      BY <3>1 DEF RowsUnder
    <3> HIDE DEF x
    <3>4. CASE Returns(RowKey(x), "revoked")
      BY <3>1, <3>2, <3>3, <3>4 DEF Returns, AnswersAreDurable, HistoryOK, RowsUnder
    <3>5. CASE Raises(RowKey(x))
      BY <3>1, <3>3, <3>5 DEF Raises, AnswersAreDurable, RowsUnder
    <3> QED
      BY <2>2, <3>4, <3>5 DEF RevokeRow, RevokeSaveFails, x
  <2> QED
    BY <2>1, <2>2, Steps DEF AnswersAreDurable, RowsUnder
<1> QED
  BY <1>1, <1>2, ShapesInvariant, HistoryInvariant, PTL DEF Spec

--------------------------------------------------------------------------------
(***************************************************************************)
(* The two agents of Handshake.                                            *)
(*                                                                         *)
(* AcceptsCountOnce rests on an order nothing goes back in: the proposer's *)
(* entry of a proposal is pending, then its accept is with a handler or    *)
(* has given its row, and no step puts a popped entry back.  Where the     *)
(* messages of a proposal can be is the invariant Placed.                  *)
(*                                                                         *)
(* BothOrAcceptUnderway needs to know, besides, what became of a proposal  *)
(* that is not pending any more: an accept that finds nothing pending is   *)
(* dropped, and that is harmless only because the friend is there already. *)
(*                                                                         *)
(* RevokesAreFinal needs the proposal and its accept to be one token that  *)
(* moves, and the accept of what a revoke ends not to be behind the        *)
(* revoke: otherwise the row would come back after the revoke.             *)
(***************************************************************************)

\* The messages the two agents exchange.
Messages == [kind : {"proposal", "accept", "decline", "revoke"}, nonce : Nonce \cup RevokeNonce]

\* All rows of an agent are about the one other agent.
FriendRow(a, r) ==
    /\ r = [peer |-> Other(a), type |-> "friend", resource |-> NoResource, nonce |-> r.nonce]
    /\ r.nonce \in Nonce

FriendStores ==
    /\ DOMAIN store = Agent
    /\ \A a \in Agent :
          /\ store[a] = [rows |-> store[a].rows, revocations |-> store[a].revocations]
          /\ \A r \in store[a].rows : FriendRow(a, r)

\* What the two agents, their users and the network may hold.
HandshakeTypes ==
    /\ FriendStores
    /\ chan \in [Agent -> Seq(Messages)]
    /\ outbound \in [Agent -> SUBSET Nonce]
    /\ inbound \in [Agent -> SUBSET Nonce]
    /\ handling \in [Agent -> Nonce \cup {None}]
    /\ answers \in [Nonce -> SUBSET {"accept", "decline"}]
    /\ covers \in [RevokeNonce -> SUBSET Nonce]

\* A proposal, its answers and what they leave behind were made and answered so.
AllIsAnswered ==
    \A a \in Agent, n \in Nonce :
        /\ Travelling(a, Msg("proposal", n)) \/ n \in inbound[a] => n \in made
        /\ Travelling(a, Msg("accept", n)) \/ handling[a] = n \/ Holds(a, n) =>
              n \in made /\ "accept" \in answers[n]

\* A proposal travels to one side, its accept to the other; a decline and a
\* revoke that travel, and a revoke that was seen, were sent.
AllInPlace ==
    \A a \in Agent :
        /\ \A n \in Nonce :
              /\ Travelling(a, Msg("proposal", n)) \/ n \in inbound[a] => a # Proposer[n]
              /\ Travelling(a, Msg("accept", n)) \/ handling[a] = n => a = Proposer[n]
              /\ Travelling(a, Msg("decline", n)) => "decline" \in answers[n]
        /\ \A x \in RevokeNonce :
              Travelling(a, Msg("revoke", x)) \/ SeenRevocation(store[a], x) => x \in made

\* The hypothesis of FriendshipIsMutual.
Undisturbed ==
    /\ made \cap RevokeNonce = {}
    /\ lost = {}
    /\ \A n \in Nonce : answers[n] # {"accept", "decline"}

\* What an accept has led to, and what became of a proposal that is no longer
\* pending.
AcceptsLead ==
    \A n \in Nonce : LET p == Proposer[n] IN
        /\ "accept" \in answers[n] => HasFriend(Other(p))
        /\ Holds(Other(p), n) =>
              Travelling(p, Msg("accept", n)) \/ handling[p] = n \/ HasFriend(p)
        /\ n \in made /\ n \notin outbound[p] =>
              HasFriend(p) \/ handling[p] = n \/ "decline" \in answers[n]

\* The proposal waits for an answer; the answer waits to be handled.
Asked(n) ==
    LET q == Other(Proposer[n]) IN Travelling(q, Msg("proposal", n)) \/ n \in inbound[q]

Answered(n) ==
    LET p == Proposer[n] IN Travelling(p, Msg("accept", n)) \/ handling[p] = n

\* Each proposal and each accept is one token that moves: it is in one place,
\* and where it has arrived it is not under way.
NoCopies ==
    \A a \in Agent : \A i, j \in 1..Len(chan[a]) :
        chan[a][i] = chan[a][j] /\ chan[a][i].kind \in {"proposal", "accept"} => i = j

Token(n) == LET p == Proposer[n]  q == Other(p) IN
    /\ ~ (Travelling(q, Msg("proposal", n)) /\ n \in inbound[q])
    /\ ~ (Travelling(p, Msg("accept", n)) /\ handling[p] = n)
    /\ Asked(n) => ~ Answered(n) /\ ~ Holds(q, n)
    /\ Holds(p, n) => ~ Asked(n) /\ ~ Answered(n)

OneToken == NoCopies /\ \A n \in Nonce : Token(n)

\* On the way to a, the accept of n is not behind revoke x.
NotBehind(a, x, n) ==
    \A i, j \in 1..Len(chan[a]) :
        i < j /\ chan[a][i] = Msg("revoke", x) => chan[a][j] # Msg("accept", n)

\* What revoke x is meant to end cannot come back to a side that knows x: it is
\* not there, and no accept that would bring it is still to come.
Ended(x, n) ==
    /\ n \in made /\ ~ Asked(n)
    /\ \A a \in Agent :
          /\ SeenRevocation(store[a], x) =>
                ~ Holds(a, n) /\ (a = Proposer[n] => ~ Answered(n))
          /\ NotBehind(a, x, n)

RevokesEnd == \A x \in RevokeNonce : \A n \in covers[x] : Ended(x, n)

--------------------------------------------------------------------------------
LEMMA TwoAgents ==
    ASSUME NEW a \in Agent
    PROVE  /\ Other(a) \in Agent /\ Other(a) # a /\ Other(Other(a)) = a
           /\ Agent = {a, Other(a)}
<1>1. PICK b \in Agent : b # a /\ Agent = {a, b}
  BY HandshakeAssumption
<1>2. Other(a) = b /\ Other(b) = a
  BY <1>1 DEF Other
<1> QED
  BY <1>1, <1>2

LEMMA RemoveAtFacts ==
    ASSUME NEW S, NEW s \in Seq(S), NEW i \in 1..Len(s)
    PROVE  /\ RemoveAt(s, i) \in Seq(S)
           /\ Len(RemoveAt(s, i)) = Len(s) - 1
           /\ \A j \in 1..(Len(s) - 1) : RemoveAt(s, i)[j] = IF j < i THEN s[j] ELSE s[j + 1]
<1> DEFINE u == SubSeq(s, 1, i - 1)
           v == SubSeq(s, i + 1, Len(s))
<1>1. /\ Len(s) \in Nat /\ i \in Int /\ 1 <= i /\ i <= Len(s)
      /\ \A j \in 1..Len(s) : s[j] \in S
  OBVIOUS
<1>2. u \in Seq(S) /\ Len(u) = i - 1 /\ \A j \in 1..(i - 1) : u[j] = s[j]
  <2>1. /\ u \in Seq(S) /\ Len(u) = IF 1 <= i - 1 THEN i - 1 - 1 + 1 ELSE 0
        /\ \A j \in 1..(i - 1 - 1 + 1) : u[j] = s[1 + j - 1]
    BY <1>1, SubSeqProperties
  <2> QED
    BY <1>1, <2>1
<1>3. v \in Seq(S) /\ Len(v) = Len(s) - i /\ \A j \in 1..(Len(s) - i) : v[j] = s[i + j]
  <2>1. /\ v \in Seq(S) /\ Len(v) = IF i + 1 <= Len(s) THEN Len(s) - (i + 1) + 1 ELSE 0
        /\ \A j \in 1..(Len(s) - (i + 1) + 1) : v[j] = s[i + 1 + j - 1]
    BY <1>1, SubSeqProperties
  <2> QED
    BY <1>1, <2>1
<1>4. RemoveAt(s, i) = u \o v
  BY DEF RemoveAt
<1> HIDE DEF u, v
<1>5. /\ u \o v \in Seq(S)
      /\ Len(u \o v) = Len(u) + Len(v)
      /\ \A j \in 1..(Len(u) + Len(v)) :
            (u \o v)[j] = IF j <= Len(u) THEN u[j] ELSE v[j - Len(u)]
  BY <1>2, <1>3, ConcatProperties
<1> QED
  BY <1>1, <1>2, <1>3, <1>4, <1>5

\* What a delivery does to the messages on their way.
LEMMA GetsFacts ==
    ASSUME HandshakeTypes, NEW a \in Agent, NEW m, Gets(a, m)
    PROVE  /\ handling[a] = None /\ Travelling(a, m)
           /\ chan' \in [Agent -> Seq(Messages)]
           /\ \A b \in Agent \ {a} : chan'[b] = chan[b]
           /\ \A o : Travelling(a, o)' => Travelling(a, o)
           /\ \A o : o # m /\ Travelling(a, o) => Travelling(a, o)'
           /\ network = "ordered" =>
                 /\ chan[a][1] = m
                 /\ Len(chan[a]) >= 1 /\ Len(chan'[a]) = Len(chan[a]) - 1
                 /\ \A j \in 1..Len(chan'[a]) : chan'[a][j] = chan[a][j + 1]
<1> DEFINE s == chan[a]
           t == chan'[a]
<1>1. s \in Seq(Messages)
  BY DEF HandshakeTypes
<1>2. PICK i \in 1..Len(s) :
        /\ s[i] = m
        /\ network = "ordered" => i = 1
        /\ \/ chan' = [chan EXCEPT ![a] = RemoveAt(@, i)]
           \/ network = "duplicating" /\ chan' = chan
  BY DEF Gets
<1>3. handling[a] = None /\ Travelling(a, m)
  BY <1>1, <1>2 DEF Gets, Travelling, Range
<1>4. CASE chan' = [chan EXCEPT ![a] = RemoveAt(@, i)]
  <2>1. /\ t = RemoveAt(s, i)
        /\ chan' \in [Agent -> Seq(Messages)]
        /\ \A b \in Agent \ {a} : chan'[b] = chan[b]
    BY <1>1, <1>2, <1>4, RemoveAtFacts DEF HandshakeTypes
  <2>2. /\ t \in Seq(Messages) /\ Len(t) = Len(s) - 1
        /\ \A j \in 1..(Len(s) - 1) : t[j] = IF j < i THEN s[j] ELSE s[j + 1]
    BY <1>1, <1>2, <2>1, RemoveAtFacts
  <2> HIDE DEF s, t
  <2>3. \A j \in 1..Len(t) : \E k \in 1..Len(s) : t[j] = s[k]
    BY <1>1, <1>2, <2>2
  <2>4. \A k \in 1..Len(s) \ {i} : \E j \in 1..Len(t) : t[j] = s[k]
    <3> SUFFICES ASSUME NEW k \in 1..Len(s) \ {i} PROVE \E j \in 1..Len(t) : t[j] = s[k]
      OBVIOUS
    <3>1. CASE k < i
      BY <1>1, <1>2, <2>2, <3>1
    <3>2. CASE k > i
      <4>1. k - 1 \in 1..Len(t) /\ t[k - 1] = s[k]
        BY <1>1, <1>2, <2>2, <3>2
      <4> QED
        BY <4>1
    <3> QED
      BY <1>1, <3>1, <3>2
  <2>5. /\ \A o : o \in Range(t) => o \in Range(s)
        /\ \A o : o # m /\ o \in Range(s) => o \in Range(t)
    <3>1. DOMAIN t = 1..Len(t) /\ DOMAIN s = 1..Len(s)
      BY <1>1, <2>2
    <3>2. \A o : o \in Range(t) => o \in Range(s)
      BY <3>1, <2>3 DEF Range
    <3>3. \A o : o # m /\ o \in Range(s) => o \in Range(t)
      BY <3>1, <1>2, <2>4 DEF Range
    <3> QED
      BY <3>2, <3>3
  <2> QED
    BY <1>1, <1>2, <1>3, <2>1, <2>2, <2>5 DEF Travelling, s, t
<1>5. CASE network = "duplicating" /\ chan' = chan
  BY <1>3, <1>5 DEF HandshakeTypes, Travelling
<1> QED
  BY <1>2, <1>4, <1>5

LEMMA SendsFacts ==
    ASSUME HandshakeTypes, NEW to \in Agent, NEW m \in Messages, Sends(to, m)
    PROVE  /\ chan' \in [Agent -> Seq(Messages)]
           /\ \A b \in Agent \ {to} : chan'[b] = chan[b]
           /\ \A o : Travelling(to, o)' <=> Travelling(to, o) \/ o = m
           /\ Len(chan'[to]) = Len(chan[to]) + 1
           /\ chan'[to][Len(chan[to]) + 1] = m
           /\ \A j \in 1..Len(chan[to]) : chan'[to][j] = chan[to][j]
<1> DEFINE s == chan[to]
           t == chan'[to]
<1>1. s \in Seq(Messages) /\ chan' = [chan EXCEPT ![to] = Append(s, m)]
  BY DEF HandshakeTypes, Sends
<1>2. /\ chan' \in [Agent -> Seq(Messages)]
      /\ \A b \in Agent \ {to} : chan'[b] = chan[b]
      /\ t = Append(s, m)
  BY <1>1 DEF HandshakeTypes
<1>3. /\ Len(t) = Len(s) + 1 /\ t[Len(s) + 1] = m
      /\ DOMAIN t = 1..(Len(s) + 1) /\ DOMAIN s = 1..Len(s)
      /\ \A j \in 1..Len(s) : t[j] = s[j]
  BY <1>1, <1>2
<1>4. \A o : o \in Range(t) <=> o \in Range(s) \/ o = m
  <2> HIDE DEF s, t
  <2>1. Len(s) \in Nat
    BY <1>1
  <2> QED
    BY <1>3, <2>1 DEF Range
<1> QED
  BY <1>2, <1>3, <1>4 DEF Travelling

--------------------------------------------------------------------------------
\* A row is the friendship: whoever holds a proposal has the friend.
LEMMA HasFriendFacts ==
    ASSUME FriendStores, NEW a \in Agent
    PROVE  /\ HasFriend(a) <=> \E n \in Nonce : Holds(a, n)
           /\ \A r \in store[a].rows : \A s \in store[a].rows : SameKey(r, s)
<1>1. \A r \in store[a].rows : r.peer = Other(a) /\ r.type = "friend" /\ r.nonce \in Nonce
                                 /\ r.resource = NoResource
  BY DEF FriendStores, FriendRow
<1> QED
  BY <1>1 DEF HasFriend, Has, Holds, SameKey

\* The pair of a proposal and its accept always proves consent within the age
\* limit, so establish() only looks for the proposal among the rows; the row it
\* stores takes the place of any other.
LEMMA EstablishedFacts ==
    ASSUME FriendStores, NEW a \in Agent, NEW n \in Nonce, store' = Established(a, n)
    PROVE  /\ FriendStores'
           /\ \A b \in Agent \ {a} : store'[b] = store[b]
           /\ Establishes(a, n) <=> ~ Holds(a, n)
           /\ \A k \in Nonce : Holds(a, k)' <=> IF Holds(a, n) THEN Holds(a, k) ELSE k = n
           /\ HasFriend(a)'
           /\ \A x \in RevokeNonce : SeenRevocation(store[a], x)' <=> SeenRevocation(store[a], x)
<1> DEFINE row == RowOf(Pair(n), Other(a))
<1>1. row = [peer |-> Other(a), type |-> "friend", resource |-> NoResource, nonce |-> n]
  BY DEF RowOf, Pair
<1>2. ProvesConsent(Pair(n), a, Other(a), 0)
  <2>1. Proposer[n] \in Agent
    BY HandshakeAssumption
  <2>2. {Proposer[n], Other(Proposer[n])} = {a, Other(a)} /\ a # Other(a)
    BY <2>1, TwoAgents
  <2>3. FreshIat(0, 0)
    BY PolicyAssumption DEF FreshIat
  <2> QED
    BY <2>2, <2>3 DEF ProvesConsent, Pair
<1>3. Establishes(a, n) <=> ~ Holds(a, n)
  BY <1>2 DEF Establishes, SeenProposal, Holds
<1>4. CASE Holds(a, n)
  <2>1. store' = store
    BY <1>3, <1>4 DEF Established
  <2>2. HasFriend(a)
    BY <1>4, HasFriendFacts
  <2> QED
    BY <1>3, <1>4, <2>1, <2>2 DEF FriendStores, Holds, HasFriend
<1>5. CASE ~ Holds(a, n)
  <2>1. store' = [store EXCEPT ![a] = AddRow(@, row)]
    BY <1>3, <1>5 DEF Established
  <2>2. AddRow(store[a], row) = [rows |-> {row}, revocations |-> store[a].revocations]
    <3>1. \A r \in store[a].rows : SameKey(r, row)
      BY <1>1 DEF FriendStores, FriendRow, SameKey
    <3>2. {r \in store[a].rows : ~ SameKey(r, row)} \cup {row} = {row}
      BY <3>1
    <3> QED
      BY <3>2 DEF AddRow, FriendStores
  <2>3. /\ DOMAIN store' = Agent
        /\ store'[a] = [rows |-> {row}, revocations |-> store[a].revocations]
        /\ \A b \in Agent \ {a} : store'[b] = store[b]
    BY <2>1, <2>2 DEF FriendStores
  <2>4. store'[a].rows = {row} /\ store'[a].revocations = store[a].revocations
    BY <2>3
  <2>5. row.nonce = n /\ row.peer = Other(a) /\ row.type = "friend" /\ row.resource = NoResource
    BY <1>1
  <2>6. FriendRow(a, row)
    BY <1>1, <2>5 DEF FriendRow
  <2> HIDE DEF row
  <2>7. FriendStores'
    BY <2>3, <2>4, <2>6 DEF FriendStores, FriendRow
  <2>8. HasFriend(a)'
    BY <2>4, <2>5 DEF HasFriend, Has
  <2> QED
    BY <1>3, <1>5, <2>3, <2>4, <2>5, <2>7, <2>8 DEF Holds, SeenRevocation
<1> QED
  BY <1>4, <1>5

\* A revoke that was not seen ends the friendship whatever it rests on.
LEMMA RevokedFacts ==
    ASSUME FriendStores, NEW a \in Agent, NEW i \in Agent, NEW x \in RevokeNonce,
           store' = Revoked(a, i, x)
    PROVE  /\ FriendStores'
           /\ \A b \in Agent \ {a} : store'[b] = store[b]
           /\ \A k \in Nonce : Holds(a, k)' <=> Holds(a, k) /\ SeenRevocation(store[a], x)
           /\ \A y \in RevokeNonce :
                 SeenRevocation(store[a], y)' <=> SeenRevocation(store[a], y) \/ y = x
<1> DEFINE v == RevocationOf(Revocation(i, x), Other(a))
<1>1. /\ v.peer = Other(a) /\ v.type = "friend" /\ v.resource = NoResource /\ v.nonce = x
  BY DEF RevocationOf, Revocation
<1>2. ProvesRevocation(Revocation(i, x), a, Other(a), 0)
  <2>1. i \in {a, Other(a)} /\ a # Other(a)
    BY TwoAgents
  <2>2. FreshIat(0, 0)
    BY PolicyAssumption DEF FreshIat
  <2> QED
    BY <2>1, <2>2 DEF ProvesRevocation, Revocation
<1>3. CASE SeenRevocation(store[a], x)
  <2>1. store' = store
    BY <1>2, <1>3 DEF Revoked
  <2> QED
    BY <1>3, <2>1 DEF FriendStores, Holds, SeenRevocation
<1>4. CASE ~ SeenRevocation(store[a], x)
  <2>1. store' = [store EXCEPT ![a] = DropRow(@, v)]
    BY <1>2, <1>4 DEF Revoked
  <2> HIDE DEF v
  <2>2. DropRow(store[a], v) = [rows |-> {}, revocations |-> store[a].revocations \cup {v}]
    <3>1. \A r \in store[a].rows : SameKey(r, v)
      BY <1>1 DEF FriendStores, FriendRow, SameKey
    <3> QED
      BY <3>1 DEF DropRow
  <2>3. /\ DOMAIN store' = Agent
        /\ store'[a] = [rows |-> {}, revocations |-> store[a].revocations \cup {v}]
        /\ \A b \in Agent \ {a} : store'[b] = store[b]
    BY <2>1, <2>2 DEF FriendStores
  <2>4. store'[a].rows = {} /\ store'[a].revocations = store[a].revocations \cup {v}
    BY <2>3
  <2>5. FriendStores'
    BY <2>3, <2>4 DEF FriendStores, FriendRow
  <2> QED
    BY <1>1, <1>4, <2>3, <2>4, <2>5 DEF Holds, SeenRevocation
<1> QED
  BY <1>3, <1>4

LEMMA MsgFacts ==
    /\ \A n \in Nonce : Msg("proposal", n) \in Messages /\ Msg("accept", n) \in Messages
                          /\ Msg("decline", n) \in Messages
    /\ \A x \in RevokeNonce : Msg("revoke", x) \in Messages
    /\ \A k, n, j, m : Msg(k, n) = Msg(j, m) <=> k = j /\ n = m
    /\ \A k, n : Msg(k, n).kind = k
BY DEF Msg, Messages

\* The steps of the two agents, one by one.
LEMMA HandshakeSteps ==
    ASSUME [HandshakeNext]_handshakeVars
    PROVE  \/ UNCHANGED handshakeVars
           \/ \E n \in Nonce : Propose(n)
           \/ \E a \in Agent, n \in Nonce :
                 \/ Accept(a, n) \/ DieAccepting(a, n) \/ Decline(a, n)
                 \/ ReceiveProposal(a, n) \/ ReceiveAccept(a, n) \/ ReceiveDecline(a, n)
           \/ \E a \in Agent, x \in RevokeNonce : RevokeFriend(a, x) \/ ReceiveRevoke(a, x)
           \/ \E a \in Agent : FinishAccept(a) \/ DieHandling(a)
BY DEF HandshakeNext, User, Receive

LEMMA HandshakeTypesKept ==
    ASSUME HandshakeTypes, [HandshakeNext]_handshakeVars
    PROVE  HandshakeTypes'
<1>1. CASE UNCHANGED handshakeVars
  BY <1>1 DEF HandshakeTypes, FriendStores, handshakeVars
<1>2. ASSUME NEW n \in Nonce, Propose(n) PROVE HandshakeTypes'
  <2>1. Proposer[n] \in Agent /\ Other(Proposer[n]) \in Agent
    BY HandshakeAssumption, TwoAgents
  <2>2. chan' \in [Agent -> Seq(Messages)]
    BY <1>2, <2>1, MsgFacts, SendsFacts DEF Propose
  <2> QED
    BY <1>2, <2>2 DEF Propose, HandshakeTypes, FriendStores
<1>3. ASSUME NEW a \in Agent, NEW n \in Nonce,
             Accept(a, n) \/ DieAccepting(a, n) \/ Decline(a, n)
      PROVE  HandshakeTypes'
  <2>1. Other(a) \in Agent
    BY TwoAgents
  <2>2. chan' \in [Agent -> Seq(Messages)]
    BY <1>3, <2>1, MsgFacts, SendsFacts DEF Accept, DieAccepting, Decline, HandshakeTypes
  <2>3. FriendStores'
    <3>1. store' = store \/ store' = Established(a, n)
      BY <1>3 DEF Accept, DieAccepting, Decline
    <3> QED
      BY <3>1, EstablishedFacts DEF HandshakeTypes, FriendStores
  <2>4. inbound' \in [Agent -> SUBSET Nonce]
    <3>1. inbound[a] \ {n} \in SUBSET Nonce
      BY DEF HandshakeTypes
    <3>2. inbound' = [inbound EXCEPT ![a] = inbound[a] \ {n}]
      BY <1>3 DEF Accept, DieAccepting, Decline
    <3> QED
      BY <3>1, <3>2 DEF HandshakeTypes
  <2>5. answers' \in [Nonce -> SUBSET {"accept", "decline"}]
    <3>1. /\ answers[n] \cup {"accept"} \in SUBSET {"accept", "decline"}
          /\ answers[n] \cup {"decline"} \in SUBSET {"accept", "decline"}
      BY DEF HandshakeTypes
    <3>2. \/ answers' = [answers EXCEPT ![n] = answers[n] \cup {"accept"}]
          \/ answers' = [answers EXCEPT ![n] = answers[n] \cup {"decline"}]
      BY <1>3 DEF Accept, DieAccepting, Decline
    <3> QED
      BY <3>1, <3>2 DEF HandshakeTypes
  <2>6. UNCHANGED <<outbound, handling, covers>>
    BY <1>3 DEF Accept, DieAccepting, Decline
  <2> QED
    BY <2>2, <2>3, <2>4, <2>5, <2>6 DEF HandshakeTypes
<1>4. ASSUME NEW a \in Agent, NEW n \in Nonce,
             ReceiveProposal(a, n) \/ ReceiveAccept(a, n) \/ ReceiveDecline(a, n)
      PROVE  HandshakeTypes'
  <2>1. chan' \in [Agent -> Seq(Messages)]
    BY <1>4, GetsFacts DEF ReceiveProposal, ReceiveAccept, ReceiveDecline
  <2>2. FriendStores' /\ UNCHANGED <<answers, covers>>
    BY <1>4 DEF ReceiveProposal, ReceiveAccept, ReceiveDecline, HandshakeTypes, FriendStores
  <2>3. inbound' \in [Agent -> SUBSET Nonce] /\ outbound' \in [Agent -> SUBSET Nonce]
    <3>1. inbound[a] \cup {n} \in SUBSET Nonce /\ outbound[a] \ {n} \in SUBSET Nonce
      BY DEF HandshakeTypes
    <3>2. /\ inbound' \in {inbound, [inbound EXCEPT ![a] = inbound[a] \cup {n}]}
          /\ outbound' \in {outbound, [outbound EXCEPT ![a] = outbound[a] \ {n}]}
      BY <1>4 DEF ReceiveProposal, ReceiveAccept, ReceiveDecline
    <3> QED
      BY <3>1, <3>2 DEF HandshakeTypes
  <2>4. handling' \in [Agent -> Nonce \cup {None}]
    BY <1>4 DEF ReceiveProposal, ReceiveAccept, ReceiveDecline, HandshakeTypes
  <2> QED
    BY <2>1, <2>2, <2>3, <2>4 DEF HandshakeTypes
<1>5. ASSUME NEW a \in Agent, NEW x \in RevokeNonce, RevokeFriend(a, x) \/ ReceiveRevoke(a, x)
      PROVE  HandshakeTypes'
  <2>1. Other(a) \in Agent
    BY TwoAgents
  <2>2. chan' \in [Agent -> Seq(Messages)]
    BY <1>5, <2>1, MsgFacts, SendsFacts, GetsFacts DEF RevokeFriend, ReceiveRevoke
  <2>3. FriendStores'
    BY <1>5, <2>1, RevokedFacts DEF RevokeFriend, ReceiveRevoke, HandshakeTypes
  <2>4. {r.nonce : r \in store[a].rows} \in SUBSET Nonce
    BY DEF HandshakeTypes, FriendStores, FriendRow
  <2> QED
    BY <1>5, <2>2, <2>3, <2>4 DEF RevokeFriend, ReceiveRevoke, HandshakeTypes
<1>6. ASSUME NEW a \in Agent, FinishAccept(a) \/ DieHandling(a) PROVE HandshakeTypes'
  <2>1. handling[a] \in Nonce
    BY <1>6 DEF FinishAccept, DieHandling, HandshakeTypes
  <2>2. FriendStores'
    BY <1>6, <2>1, EstablishedFacts DEF FinishAccept, DieHandling, HandshakeTypes, FriendStores
  <2> QED
    BY <1>6, <2>2 DEF FinishAccept, DieHandling, HandshakeTypes
<1> QED
  BY <1>1, <1>2, <1>3, <1>4, <1>5, <1>6, HandshakeSteps

--------------------------------------------------------------------------------
\* What a step does to the messages on their way, and to the friends.
Sent(to, m) ==
    \A b \in Agent : \A o : Travelling(b, o)' <=> Travelling(b, o) \/ (b = to /\ o = m)

Taken(a, m) ==
    /\ Travelling(a, m)
    /\ \A b \in Agent : \A o :
          /\ Travelling(b, o)' => Travelling(b, o)
          /\ Travelling(b, o) /\ ~ (b = a /\ o = m) => Travelling(b, o)'

NoneMoves == \A b \in Agent : \A o : Travelling(b, o)' <=> Travelling(b, o)

KeepsFriend(b) ==
    /\ HasFriend(b)' <=> HasFriend(b)
    /\ \A k \in Nonce : Holds(b, k)' <=> Holds(b, k)
    /\ \A y \in RevokeNonce : SeenRevocation(store[b], y)' <=> SeenRevocation(store[b], y)

\* establish() of proposal n at a.
Gains(a, n) ==
    /\ HasFriend(a)'
    /\ \A k \in Nonce : Holds(a, k)' <=> IF Holds(a, n) THEN Holds(a, k) ELSE k = n
    /\ \A y \in RevokeNonce : SeenRevocation(store[a], y)' <=> SeenRevocation(store[a], y)
    /\ \A b \in Agent \ {a} : KeepsFriend(b)

\* revoke() with revoke x at a.
Loses(a, x) ==
    /\ \A k \in Nonce : Holds(a, k)' <=> Holds(a, k) /\ SeenRevocation(store[a], x)
    /\ \A y \in RevokeNonce :
          SeenRevocation(store[a], y)' <=> SeenRevocation(store[a], y) \/ y = x
    /\ \A b \in Agent \ {a} : KeepsFriend(b)

LEMMA MessageFacts ==
    ASSUME HandshakeTypes, NEW a \in Agent, NEW m \in Messages
    PROVE  /\ Sends(a, m) => Sent(a, m)
           /\ Gets(a, m) => Taken(a, m) /\ handling[a] = None
           /\ UNCHANGED chan => NoneMoves
<1>1. Sends(a, m) => Sent(a, m)
  <2> SUFFICES ASSUME Sends(a, m) PROVE Sent(a, m)
    OBVIOUS
  <2>1. \A b \in Agent \ {a} : chan'[b] = chan[b]
    BY SendsFacts
  <2>2. \A o : Travelling(a, o)' <=> Travelling(a, o) \/ o = m
    BY SendsFacts
  <2>3. \A b \in Agent \ {a} : \A o : Travelling(b, o)' <=> Travelling(b, o)
    BY <2>1 DEF Travelling
  <2> QED
    BY <2>2, <2>3 DEF Sent
<1>2. Gets(a, m) => Taken(a, m) /\ handling[a] = None
  <2> SUFFICES ASSUME Gets(a, m) PROVE Taken(a, m) /\ handling[a] = None
    OBVIOUS
  <2>1. /\ Travelling(a, m) /\ handling[a] = None
        /\ \A b \in Agent \ {a} : chan'[b] = chan[b]
        /\ \A o : Travelling(a, o)' => Travelling(a, o)
        /\ \A o : o # m /\ Travelling(a, o) => Travelling(a, o)'
    BY GetsFacts
  <2>2. \A b \in Agent \ {a} : \A o : Travelling(b, o)' <=> Travelling(b, o)
    BY <2>1 DEF Travelling
  <2> QED
    BY <2>1, <2>2 DEF Taken
<1>3. UNCHANGED chan => NoneMoves
  BY DEF NoneMoves, Travelling
<1> QED
  BY <1>1, <1>2, <1>3

LEMMA FriendFacts ==
    ASSUME HandshakeTypes, NEW a \in Agent
    PROVE  /\ UNCHANGED store => \A b \in Agent : KeepsFriend(b)
           /\ \A n \in Nonce : store' = Established(a, n) =>
                 Gains(a, n) /\ (Establishes(a, n) <=> ~ Holds(a, n))
           /\ \A i \in Agent, x \in RevokeNonce : store' = Revoked(a, i, x) => Loses(a, x)
<1>1. ASSUME NEW b \in Agent, store'[b] = store[b] PROVE KeepsFriend(b)
  BY <1>1 DEF KeepsFriend, HasFriend, Holds, SeenRevocation
<1>2. ASSUME NEW n \in Nonce, store' = Established(a, n)
      PROVE  Gains(a, n) /\ (Establishes(a, n) <=> ~ Holds(a, n))
  BY <1>1, <1>2, EstablishedFacts DEF Gains, HandshakeTypes
<1>3. ASSUME NEW i \in Agent, NEW x \in RevokeNonce, store' = Revoked(a, i, x) PROVE Loses(a, x)
  BY <1>1, <1>3, RevokedFacts DEF Loses, HandshakeTypes
<1> QED
  BY <1>1, <1>2, <1>3

--------------------------------------------------------------------------------
Placed == AllIsAnswered /\ AllInPlace

LEMMA PlacedKept ==
    ASSUME HandshakeTypes, Placed, [HandshakeNext]_handshakeVars
    PROVE  Placed'
<1> USE DEF Placed, AllIsAnswered, AllInPlace
<1>1. CASE UNCHANGED handshakeVars
  BY <1>1, FriendFacts, MessageFacts DEF handshakeVars, KeepsFriend, Travelling
<1>2. ASSUME NEW n \in Nonce, Propose(n) PROVE Placed'
  <2> DEFINE p == Proposer[n]
             q == Other(Proposer[n])
  <2>1. p \in Agent /\ q \in Agent /\ q # p
    BY HandshakeAssumption, TwoAgents
  <2>2. Sent(q, Msg("proposal", n)) /\ \A b \in Agent : KeepsFriend(b)
    BY <1>2, <2>1, MsgFacts, MessageFacts, FriendFacts DEF Propose
  <2>3. made' = made \cup {n} /\ UNCHANGED <<inbound, handling, answers>>
    BY <1>2 DEF Propose
  <2> QED
    BY <2>1, <2>2, <2>3, MsgFacts DEF Sent, KeepsFriend
<1>3. ASSUME NEW a \in Agent, NEW n \in Nonce, Accept(a, n) \/ DieAccepting(a, n)
      PROVE  Placed'
  <2>1. Other(a) \in Agent /\ Other(a) = Proposer[n] /\ n \in made
    BY <1>3, TwoAgents, HandshakeAssumption DEF Accept, DieAccepting
  <2>2. /\ NoneMoves \/ Sent(Other(a), Msg("accept", n))
        /\ (\A b \in Agent : KeepsFriend(b)) \/ Gains(a, n)
    BY <1>3, <2>1, MsgFacts, MessageFacts, FriendFacts DEF Accept, DieAccepting
  <2>3. /\ \A b \in Agent, k \in Nonce : k \in inbound'[b] => k \in inbound[b]
        /\ \A k \in Nonce : answers[k] \subseteq answers'[k]
        /\ "accept" \in answers'[n]
        /\ UNCHANGED <<made, handling>>
    <3>1. /\ inbound' = [inbound EXCEPT ![a] = inbound[a] \ {n}]
          /\ answers' = [answers EXCEPT ![n] = answers[n] \cup {"accept"}]
          /\ UNCHANGED <<made, handling>>
      BY <1>3 DEF Accept, DieAccepting
    <3> QED
      BY <3>1 DEF HandshakeTypes
  <2> QED
    BY <2>1, <2>2, <2>3, MsgFacts DEF NoneMoves, Sent, KeepsFriend, Gains
<1>7. ASSUME NEW a \in Agent, NEW n \in Nonce, Decline(a, n) PROVE Placed'
  <2>1. Other(a) \in Agent
    BY TwoAgents
  <2>2. Sent(Other(a), Msg("decline", n)) /\ \A b \in Agent : KeepsFriend(b)
    BY <1>7, <2>1, MsgFacts, MessageFacts, FriendFacts DEF Decline
  <2>3. /\ \A b \in Agent, k \in Nonce : k \in inbound'[b] => k \in inbound[b]
        /\ \A k \in Nonce : answers[k] \subseteq answers'[k]
        /\ "decline" \in answers'[n]
        /\ UNCHANGED <<made, handling>>
    BY <1>7 DEF Decline, HandshakeTypes
  <2> QED
    BY <2>1, <2>2, <2>3, MsgFacts DEF Sent, KeepsFriend
<1>4. ASSUME NEW a \in Agent, NEW n \in Nonce,
             ReceiveProposal(a, n) \/ ReceiveAccept(a, n) \/ ReceiveDecline(a, n)
      PROVE  Placed'
  <2>1. /\ \A b \in Agent : KeepsFriend(b)
        /\ \/ ReceiveProposal(a, n) /\ Taken(a, Msg("proposal", n))
           \/ ReceiveAccept(a, n) /\ Taken(a, Msg("accept", n))
           \/ ReceiveDecline(a, n) /\ Taken(a, Msg("decline", n))
    BY <1>4, MsgFacts, MessageFacts, FriendFacts
       DEF ReceiveProposal, ReceiveAccept, ReceiveDecline
  <2> QED
    BY <2>1, MsgFacts, HandshakeAssumption
       DEF ReceiveProposal, ReceiveAccept, ReceiveDecline, Taken, KeepsFriend, HandshakeTypes
<1>5. ASSUME NEW a \in Agent, NEW x \in RevokeNonce, RevokeFriend(a, x) \/ ReceiveRevoke(a, x)
      PROVE  Placed'
  <2>1. Other(a) \in Agent
    BY TwoAgents
  <2>2. /\ Loses(a, x)
        /\ \/ Sent(Other(a), Msg("revoke", x)) /\ made' = made \cup {x}
           \/ Taken(a, Msg("revoke", x)) /\ made' = made
        /\ UNCHANGED <<inbound, handling, answers>>
    BY <1>5, <2>1, MsgFacts, MessageFacts, FriendFacts DEF RevokeFriend, ReceiveRevoke
  <2> QED
    BY <2>1, <2>2, MsgFacts DEF Sent, Taken, Loses, KeepsFriend
<1>6. ASSUME NEW a \in Agent, FinishAccept(a) \/ DieHandling(a) PROVE Placed'
  <2>1. handling[a] \in Nonce
    BY <1>6 DEF FinishAccept, DieHandling, HandshakeTypes
  <2>2. /\ NoneMoves
        /\ (\A b \in Agent : KeepsFriend(b)) \/ Gains(a, handling[a])
        /\ UNCHANGED <<inbound, made, answers>>
    BY <1>6, <2>1, MsgFacts, MessageFacts, FriendFacts DEF FinishAccept, DieHandling
  <2>3. \A b \in Agent, k \in Nonce : handling'[b] = k => handling[b] = k
    BY <1>6, HandshakeAssumption DEF FinishAccept, DieHandling, HandshakeTypes
  <2>4. handling[a] \in made /\ "accept" \in answers[handling[a]]
    BY <2>1
  <2> QED
    BY <2>1, <2>2, <2>3, <2>4 DEF NoneMoves, Gains, KeepsFriend
<1> HIDE DEF Placed, AllIsAnswered, AllInPlace
<1> QED
  BY <1>1, <1>2, <1>3, <1>4, <1>5, <1>6, <1>7, HandshakeSteps

LEMMA AllStayPlaced == HandshakeSpec => [](HandshakeTypes /\ Placed)
<1>1. HandshakeInit => HandshakeTypes
  <2> SUFFICES ASSUME HandshakeInit PROVE HandshakeTypes
    OBVIOUS
  <2>1. \A a \in Agent : chan[a] \in Seq(Messages) /\ store[a] = [rows |-> {}, revocations |-> {}]
    BY DEF HandshakeInit, EmptyStore
  <2> QED
    BY <2>1 DEF HandshakeInit, HandshakeTypes, FriendStores
<1>2. HandshakeInit => Placed
  <2> SUFFICES ASSUME HandshakeInit PROVE Placed
    OBVIOUS
  <2>1. \A a \in Agent : chan[a] = <<>> /\ store[a] = [rows |-> {}, revocations |-> {}]
                           /\ handling[a] = None /\ inbound[a] = {}
    BY DEF HandshakeInit, EmptyStore
  <2>2. \A a \in Agent : \A o : ~ Travelling(a, o)
    BY <2>1 DEF Travelling, Range
  <2> QED
    BY <2>1, <2>2, HandshakeAssumption
       DEF Placed, AllIsAnswered, AllInPlace, Holds, SeenRevocation
<1>3. HandshakeTypes /\ Placed /\ [HandshakeNext]_handshakeVars => (HandshakeTypes /\ Placed)'
  BY HandshakeTypesKept, PlacedKept
<1> QED
  BY <1>1, <1>2, <1>3, PTL DEF HandshakeSpec

--------------------------------------------------------------------------------
\* A proposal is out and not answered, or its accept is being handled, or what it
\* had to give is given; and only then is there a row of it.
OneUse ==
    \A n \in Nonce : LET p == Proposer[n] IN
        /\ n \in outbound[p] => n \in made /\ handling[p] # n
        /\ n \in outbound[p] \/ handling[p] = n => ~ Kept(n)

UsedUp(n) == LET p == Proposer[n] IN n \in made /\ n \notin outbound[p] /\ handling[p] # n

\* What a step does to the pending proposals and to the proposer's row of one.
OneUseKept(n) ==
    LET p == Proposer[n] IN
    /\ n \in made => n \in made'
    /\ n \in outbound'[p] => n \in outbound[p] \/ n \in made' \ made
    /\ handling'[p] = n => handling[p] = n \/ n \in outbound[p] \ outbound'[p]
    /\ Kept(n)' => Kept(n) \/ (handling[p] = n /\ handling'[p] # n)

LEMMA OneUseSteps ==
    ASSUME HandshakeTypes, Placed, [HandshakeNext]_handshakeVars, NEW n \in Nonce
    PROVE  OneUseKept(n)
<1> DEFINE p == Proposer[n]
<1> USE DEF OneUseKept, Kept
<1>1. p \in Agent
  BY HandshakeAssumption
<1>2. CASE UNCHANGED handshakeVars
  BY <1>1, <1>2, FriendFacts DEF handshakeVars, KeepsFriend
<1>3. ASSUME NEW k \in Nonce, Propose(k) PROVE OneUseKept(n)
  <2>1. \A b \in Agent : KeepsFriend(b)
    BY <1>1, <1>3, FriendFacts DEF Propose
  <2>2. /\ made' = made \cup {k} /\ k \notin made /\ UNCHANGED handling
        /\ outbound' = [outbound EXCEPT ![Proposer[k]] = @ \cup {k}]
    BY <1>3 DEF Propose
  <2> QED
    BY <1>1, <2>1, <2>2, HandshakeAssumption DEF HandshakeTypes, KeepsFriend
<1>4. ASSUME NEW a \in Agent, NEW k \in Nonce,
             Accept(a, k) \/ DieAccepting(a, k) \/ Decline(a, k)
      PROVE  OneUseKept(n)
  <2>1. UNCHANGED <<made, outbound, handling>>
    BY <1>4 DEF Accept, DieAccepting, Decline
  <2>2. a # Proposer[k]
    BY <1>4 DEF Accept, DieAccepting, Decline, Placed, AllInPlace
  <2>3. (\A b \in Agent : KeepsFriend(b)) \/ Gains(a, k)
    BY <1>4, FriendFacts DEF Accept, DieAccepting, Decline
  <2>4. Holds(p, n)' => Holds(p, n)
    BY <1>1, <2>2, <2>3 DEF Gains, KeepsFriend
  <2> QED
    BY <2>1, <2>4
<1>5. ASSUME NEW a \in Agent, NEW k \in Nonce,
             ReceiveProposal(a, k) \/ ReceiveAccept(a, k) \/ ReceiveDecline(a, k)
      PROVE  OneUseKept(n)
  <2>1. \A b \in Agent : KeepsFriend(b)
    BY <1>1, <1>5, FriendFacts DEF ReceiveProposal, ReceiveAccept, ReceiveDecline
  <2>2. /\ UNCHANGED made
        /\ \/ UNCHANGED <<outbound, handling>>
           \/ /\ outbound' = [outbound EXCEPT ![a] = @ \ {k}]
              /\ handling' \in {handling,
                       [handling EXCEPT ![a] = IF k \in outbound[a] THEN k ELSE None]}
    BY <1>5 DEF ReceiveProposal, ReceiveAccept, ReceiveDecline
  <2> QED
    BY <1>1, <2>1, <2>2, HandshakeAssumption DEF HandshakeTypes, KeepsFriend
<1>6. ASSUME NEW a \in Agent, NEW x \in RevokeNonce, RevokeFriend(a, x) \/ ReceiveRevoke(a, x)
      PROVE  OneUseKept(n)
  <2>1. Loses(a, x)
    BY <1>6, FriendFacts, TwoAgents DEF RevokeFriend, ReceiveRevoke
  <2>2. made \subseteq made' /\ UNCHANGED <<outbound, handling>>
    BY <1>6 DEF RevokeFriend, ReceiveRevoke
  <2> QED
    BY <1>1, <2>1, <2>2 DEF Loses, KeepsFriend
<1>7. ASSUME NEW a \in Agent, FinishAccept(a) \/ DieHandling(a) PROVE OneUseKept(n)
  <2>1. /\ handling[a] \in Nonce /\ UNCHANGED <<made, outbound>>
        /\ handling' = [handling EXCEPT ![a] = None]
    BY <1>7 DEF FinishAccept, DieHandling, HandshakeTypes
  <2>2. (\A b \in Agent : KeepsFriend(b)) \/ Gains(a, handling[a])
    BY <1>7, <2>1, FriendFacts DEF FinishAccept, DieHandling
  <2>3. a = Proposer[handling[a]]
    BY <2>1 DEF Placed, AllInPlace
  <2> QED
    BY <1>1, <2>1, <2>2, <2>3, HandshakeAssumption DEF HandshakeTypes, Gains, KeepsFriend
<1> QED
  BY <1>2, <1>3, <1>4, <1>5, <1>6, <1>7, HandshakeSteps

\* What a proposal gave its proposer is given once: a row that is gone stays
\* gone, on either kind of network and with any number of copies.
THEOREM AcceptsCountOnce == HandshakeSpec => AcceptWorksOnce
<1> SUFFICES ASSUME NEW n \in Nonce
             PROVE  HandshakeSpec => [](Kept(n) => [](~ Kept(n) => []~ Kept(n)))
  BY DEF AcceptWorksOnce
<1>1. HandshakeInit => OneUse
  BY HandshakeAssumption DEF HandshakeInit, OneUse, Kept, Holds, EmptyStore
<1>2. HandshakeTypes /\ Placed /\ OneUse /\ [HandshakeNext]_handshakeVars => OneUse'
  <2> SUFFICES ASSUME HandshakeTypes, Placed, OneUse, [HandshakeNext]_handshakeVars,
                      NEW k \in Nonce
               PROVE  LET p == Proposer[k] IN
                      /\ k \in outbound'[p] => k \in made' /\ handling'[p] # k
                      /\ k \in outbound'[p] \/ handling'[p] = k => ~ Kept(k)'
    BY DEF OneUse
  <2>1. OneUseKept(k)
    BY OneUseSteps
  <2>2. Kept(k) \/ handling[Proposer[k]] = k => k \in made
    BY HandshakeAssumption DEF Placed, AllIsAnswered, Kept
  <2> QED
    BY <2>1, <2>2 DEF OneUseKept, OneUse
<1>3. HandshakeTypes /\ Placed /\ OneUse /\ [HandshakeNext]_handshakeVars =>
         /\ Kept(n) => UsedUp(n)
         /\ UsedUp(n) => UsedUp(n)'
         /\ UsedUp(n) /\ ~ Kept(n) => ~ Kept(n)'
  <2> SUFFICES ASSUME HandshakeTypes, Placed, OneUse, [HandshakeNext]_handshakeVars
               PROVE  /\ Kept(n) => UsedUp(n)
                      /\ UsedUp(n) => UsedUp(n)'
                      /\ UsedUp(n) /\ ~ Kept(n) => ~ Kept(n)'
    OBVIOUS
  <2>1. OneUseKept(n)
    BY OneUseSteps
  <2>2. Kept(n) => n \in made
    BY HandshakeAssumption DEF Placed, AllIsAnswered, Kept
  <2> QED
    BY <2>1, <2>2 DEF OneUseKept, OneUse, UsedUp
<1> QED
  BY <1>1, <1>2, <1>3, AllStayPlaced, PTL DEF HandshakeSpec

--------------------------------------------------------------------------------
LEMMA AcceptsLeadKept ==
    ASSUME HandshakeTypes, Placed, Undisturbed => AcceptsLead,
           [HandshakeNext]_handshakeVars, Undisturbed'
    PROVE  AcceptsLead'
<1> DEFINE Leads(n) ==
      /\ "accept" \in answers[n] => HasFriend(Other(Proposer[n]))
      /\ Holds(Other(Proposer[n]), n) =>
            \/ Travelling(Proposer[n], Msg("accept", n)) \/ handling[Proposer[n]] = n
            \/ HasFriend(Proposer[n])
      /\ n \in made /\ n \notin outbound[Proposer[n]] =>
            \/ HasFriend(Proposer[n]) \/ handling[Proposer[n]] = n
            \/ "decline" \in answers[n]
<1>1. AcceptsLead <=> \A n \in Nonce : Leads(n)
  BY DEF AcceptsLead
<1>2. AcceptsLead' <=> \A n \in Nonce : Leads(n)'
  BY DEF AcceptsLead
<1>3. \A n \in Nonce : /\ Proposer[n] \in Agent /\ Other(Proposer[n]) \in Agent
                       /\ Other(Proposer[n]) # Proposer[n]
  BY HandshakeAssumption, TwoAgents
<1>4. /\ made \subseteq made' /\ lost \subseteq lost'
      /\ \A n \in Nonce : answers[n] \subseteq answers'[n]
      /\ \A n \in Nonce : answers[n] \subseteq {"accept", "decline"}
      /\ \A n \in Nonce : answers'[n] \subseteq {"accept", "decline"}
  <2>1. made \subseteq made' /\ lost \subseteq lost'
    BY HandshakeSteps
       DEF Propose, Accept, DieAccepting, Decline, ReceiveProposal, ReceiveAccept, ReceiveDecline,
           RevokeFriend, ReceiveRevoke, FinishAccept, DieHandling, handshakeVars
  <2>2. \A n \in Nonce : answers[n] \subseteq answers'[n]
    BY HandshakeSteps
       DEF Propose, Accept, DieAccepting, Decline, ReceiveProposal, ReceiveAccept, ReceiveDecline,
           RevokeFriend, ReceiveRevoke, FinishAccept, DieHandling, handshakeVars, HandshakeTypes
  <2> QED
    BY <2>1, <2>2, HandshakeTypesKept DEF HandshakeTypes
<1>5. Undisturbed
  BY <1>4 DEF Undisturbed
<1>6. /\ made' \cap RevokeNonce = {} /\ lost' = {}
      /\ \A n \in Nonce : ~ ("accept" \in answers'[n] /\ "decline" \in answers'[n])
  BY <1>4 DEF Undisturbed
<1>7. AcceptsLead
  BY <1>5
<1>10. CASE UNCHANGED handshakeVars
  BY <1>7, <1>10, FriendFacts, MessageFacts
     DEF handshakeVars, AcceptsLead, HasFriend, Holds, Travelling
<1>11. ASSUME NEW n \in Nonce, Propose(n) PROVE AcceptsLead'
  <2>1. Sent(Other(Proposer[n]), Msg("proposal", n)) /\ \A b \in Agent : KeepsFriend(b)
    BY <1>3, <1>11, MsgFacts, MessageFacts, FriendFacts DEF Propose
  <2>2. /\ \A k \in Nonce : k \in made' => k \in made \/ k = n
        /\ \A k \in Nonce : k \in outbound[Proposer[k]] => k \in outbound'[Proposer[k]]
        /\ n \in outbound'[Proposer[n]]
        /\ UNCHANGED <<handling, answers>>
    BY <1>3, <1>11 DEF Propose, HandshakeTypes
  <2>3. ASSUME NEW k \in Nonce PROVE Leads(k)'
    BY <1>1, <1>3, <1>7, <2>1, <2>2 DEF Sent, KeepsFriend
  <2> QED
    BY <1>2, <2>3
<1>12. ASSUME NEW a \in Agent, NEW n \in Nonce, Accept(a, n) PROVE AcceptsLead'
  <2>1. Other(a) = Proposer[n] /\ a = Other(Proposer[n])
    BY <1>12, TwoAgents, HandshakeAssumption DEF Accept, Placed, AllInPlace
  <2>2. /\ Gains(a, n)
        /\ IF Holds(a, n) THEN NoneMoves ELSE Sent(Proposer[n], Msg("accept", n))
    BY <1>3, <1>12, <2>1, MsgFacts, MessageFacts, FriendFacts DEF Accept
  <2>3. /\ answers' = [answers EXCEPT ![n] = answers[n] \cup {"accept"}]
        /\ UNCHANGED <<made, outbound, handling>>
    BY <1>12 DEF Accept
  <2>4. \A k \in Nonce : k # n => answers'[k] = answers[k]
    BY <2>3 DEF HandshakeTypes
  <2>5. ASSUME NEW k \in Nonce PROVE Leads(k)'
    BY <1>1, <1>3, <1>4, <1>7, <2>1, <2>2, <2>3, <2>4 DEF NoneMoves, Sent, Gains, KeepsFriend
  <2> QED
    BY <1>2, <2>5
<1>13. ASSUME NEW a \in Agent, NEW n \in Nonce, Decline(a, n) PROVE AcceptsLead'
  <2>1. Other(a) \in Agent
    BY TwoAgents
  <2>2. Sent(Other(a), Msg("decline", n)) /\ \A b \in Agent : KeepsFriend(b)
    BY <1>13, <2>1, MsgFacts, MessageFacts, FriendFacts DEF Decline
  <2>3. /\ \A k \in Nonce : "accept" \in answers'[k] => "accept" \in answers[k]
        /\ UNCHANGED <<made, outbound, handling>>
    BY <1>13 DEF Decline, HandshakeTypes
  <2>4. ASSUME NEW k \in Nonce PROVE Leads(k)'
    BY <1>1, <1>3, <1>4, <1>7, <2>2, <2>3 DEF Sent, KeepsFriend
  <2> QED
    BY <1>2, <2>4
<1>14. ASSUME NEW a \in Agent, NEW n \in Nonce, ReceiveProposal(a, n) PROVE AcceptsLead'
  <2>1. Taken(a, Msg("proposal", n)) /\ \A b \in Agent : KeepsFriend(b)
    BY <1>14, MsgFacts, MessageFacts, FriendFacts DEF ReceiveProposal
  <2>2. \A k \in Nonce : Msg("accept", k) # Msg("proposal", n)
    BY MsgFacts
  <2>3. ASSUME NEW k \in Nonce PROVE Leads(k)'
    BY <1>1, <1>3, <1>7, <1>14, <2>1, <2>2 DEF ReceiveProposal, Taken, KeepsFriend
  <2> QED
    BY <1>2, <2>3
<1>15. ASSUME NEW a \in Agent, NEW n \in Nonce, ReceiveAccept(a, n) PROVE AcceptsLead'
  <2>1. /\ Taken(a, Msg("accept", n)) /\ handling[a] = None
        /\ \A b \in Agent : KeepsFriend(b)
    BY <1>15, MsgFacts, MessageFacts, FriendFacts DEF ReceiveAccept
  <2>2. a = Proposer[n] /\ n \in made /\ "accept" \in answers[n]
    BY <2>1 DEF Taken, Placed, AllInPlace, AllIsAnswered
  <2>3. /\ \A k \in Nonce : k # n /\ k \in outbound[Proposer[k]] => k \in outbound'[Proposer[k]]
        /\ n \in outbound[a] => handling'[a] = n
        /\ \A b \in Agent \ {a} : handling'[b] = handling[b]
        /\ UNCHANGED <<made, answers>>
    BY <1>3, <1>15 DEF ReceiveAccept, HandshakeTypes
  <2>4. \A k \in Nonce : k # n => Msg("accept", k) # Msg("accept", n)
    BY MsgFacts
  <2>5. \A k \in Nonce : handling[a] # k
    BY <2>1, HandshakeAssumption
  <2>6. Leads(n)'
    BY <1>1, <1>3, <1>6, <1>7, <2>1, <2>2, <2>3, <2>5 DEF Taken, KeepsFriend
  <2>7. ASSUME NEW k \in Nonce, k # n PROVE Leads(k)'
    BY <1>1, <1>3, <1>7, <2>1, <2>3, <2>4, <2>5, <2>7 DEF Taken, KeepsFriend
  <2> QED
    BY <1>2, <2>6, <2>7
<1>16. ASSUME NEW a \in Agent, NEW n \in Nonce, ReceiveDecline(a, n) PROVE AcceptsLead'
  <2>1. Taken(a, Msg("decline", n)) /\ \A b \in Agent : KeepsFriend(b)
    BY <1>16, MsgFacts, MessageFacts, FriendFacts DEF ReceiveDecline
  <2>2. "decline" \in answers[n] /\ \A k \in Nonce : Msg("accept", k) # Msg("decline", n)
    BY <2>1, MsgFacts DEF Taken, Placed, AllInPlace
  <2>3. /\ \A k \in Nonce : k # n /\ k \in outbound[Proposer[k]] => k \in outbound'[Proposer[k]]
        /\ UNCHANGED <<made, answers, handling>>
    BY <1>3, <1>16 DEF ReceiveDecline, HandshakeTypes
  <2>4. ASSUME NEW k \in Nonce PROVE Leads(k)'
    BY <1>1, <1>3, <1>7, <2>1, <2>2, <2>3 DEF Taken, KeepsFriend
  <2> QED
    BY <1>2, <2>4
<1>17. ASSUME NEW a \in Agent, FinishAccept(a) PROVE AcceptsLead'
  <2>1. handling[a] \in Nonce
    BY <1>17 DEF FinishAccept, HandshakeTypes
  <2>2. NoneMoves /\ Gains(a, handling[a]) /\ a = Proposer[handling[a]]
    BY <1>17, <2>1, MsgFacts, MessageFacts, FriendFacts DEF FinishAccept, Placed, AllInPlace
  <2>3. /\ \A b \in Agent \ {a} : handling'[b] = handling[b]
        /\ UNCHANGED <<made, answers, outbound>>
    BY <1>17 DEF FinishAccept, HandshakeTypes
  <2>4. ASSUME NEW k \in Nonce PROVE Leads(k)'
    BY <1>1, <1>3, <1>7, <2>1, <2>2, <2>3 DEF NoneMoves, Gains, KeepsFriend
  <2> QED
    BY <1>2, <2>4
<1>18. ASSUME NEW a \in Agent, NEW n \in Nonce, DieAccepting(a, n) PROVE FALSE
  BY <1>6, <1>18 DEF DieAccepting
<1>19. ASSUME NEW a \in Agent, NEW x \in RevokeNonce, RevokeFriend(a, x) \/ ReceiveRevoke(a, x)
       PROVE  FALSE
  <2>1. RevokeFriend(a, x) => x \in made'
    BY DEF RevokeFriend
  <2>2. ReceiveRevoke(a, x) => x \in made
    BY MsgFacts, MessageFacts DEF ReceiveRevoke, Taken, Placed, AllInPlace
  <2> QED
    BY <1>4, <1>6, <1>19, <2>1, <2>2
<1>20. ASSUME NEW a \in Agent, DieHandling(a) PROVE FALSE
  BY <1>6, <1>20 DEF DieHandling
<1> QED
  BY <1>10, <1>11, <1>12, <1>13, <1>14, <1>15, <1>16, <1>17, <1>18, <1>19, <1>20, HandshakeSteps

\* As long as nobody revokes, no handler dies and no user answers a proposal
\* both ways, a friendship is on both sides, or its accept is on its way to the
\* side that lacks it or being handled there.
THEOREM BothOrAcceptUnderway == HandshakeSpec => []FriendshipIsMutual
<1> DEFINE Inv == Undisturbed => AcceptsLead
<1>1. HandshakeInit => Inv
  <2> SUFFICES ASSUME HandshakeInit, NEW n \in Nonce
               PROVE  "accept" \notin answers[n] /\ n \notin made /\ ~ Holds(Other(Proposer[n]), n)
    BY DEF AcceptsLead
  <2>1. Other(Proposer[n]) \in Agent
    BY HandshakeAssumption, TwoAgents
  <2> QED
    BY <2>1 DEF HandshakeInit, EmptyStore, Holds
<1>2. HandshakeTypes /\ Placed /\ Inv /\ [HandshakeNext]_handshakeVars => Inv'
  BY AcceptsLeadKept
<1>3. HandshakeTypes /\ Placed /\ Inv => FriendshipIsMutual
  <2> SUFFICES ASSUME HandshakeTypes, Placed, Undisturbed, AcceptsLead, NEW a \in Agent,
                      HasFriend(a), ~ HasFriend(Other(a))
               PROVE  \E n \in Nonce : \/ Travelling(Other(a), Msg("accept", n))
                                       \/ handling[Other(a)] = n
    BY DEF FriendshipIsMutual, Undisturbed
  <2>1. PICK n \in Nonce : Holds(a, n)
    BY HasFriendFacts DEF HandshakeTypes
  <2>2. "accept" \in answers[n]
    BY <2>1 DEF Placed, AllIsAnswered
  <2>3. a = Other(Proposer[n]) /\ Other(a) = Proposer[n]
    <3>1. Proposer[n] \in Agent
      BY HandshakeAssumption
    <3>2. HasFriend(Other(Proposer[n]))
      BY <2>2 DEF AcceptsLead
    <3> QED
      BY <3>1, <3>2, TwoAgents
  <2> QED
    BY <2>1, <2>3 DEF AcceptsLead
<1> HIDE DEF Inv
<1> QED
  BY <1>1, <1>2, <1>3, AllStayPlaced, PTL DEF HandshakeSpec

--------------------------------------------------------------------------------
\* On an ordered network the order of the messages, and that there is one of
\* each, survives sending and delivery.
LEMMA OrderedSend ==
    ASSUME HandshakeTypes, NoCopies, NEW a \in Agent, NEW m \in Messages, Sends(a, m),
           m.kind \in {"proposal", "accept"} => ~ Travelling(a, m)
    PROVE  /\ NoCopies'
           /\ \A b \in Agent : \A x \in RevokeNonce : \A n \in Nonce :
                 /\ NotBehind(b, x, n)
                 /\ (b = a /\ m = Msg("accept", n)) => ~ Travelling(b, Msg("revoke", x))
                 => NotBehind(b, x, n)'
<1> DEFINE s == chan[a]
           t == chan'[a]
<1>1. /\ \A b \in Agent \ {a} : chan'[b] = chan[b]
      /\ Len(t) = Len(s) + 1 /\ t[Len(s) + 1] = m
      /\ \A j \in 1..Len(s) : t[j] = s[j]
  BY SendsFacts
<1>2. Len(s) \in Nat /\ DOMAIN s = 1..Len(s)
  BY DEF HandshakeTypes
<1>3. \A o : Travelling(a, o) <=> \E i \in 1..Len(s) : s[i] = o
  BY <1>2 DEF Travelling, Range
<1> HIDE DEF s, t
<1>4. \A i, j \in 1..Len(t) : t[i] = t[j] /\ t[i].kind \in {"proposal", "accept"} => i = j
  <2>1. \A i, j \in 1..Len(s) : s[i] = s[j] /\ s[i].kind \in {"proposal", "accept"} => i = j
    BY DEF NoCopies, s
  <2>2. \A i \in 1..Len(t) : i \in 1..Len(s) \/ i = Len(s) + 1
    BY <1>1, <1>2
  <2> QED
    BY <1>1, <1>2, <1>3, <2>1, <2>2
<1>5. ASSUME NEW x \in RevokeNonce, NEW n \in Nonce, NotBehind(a, x, n),
             m = Msg("accept", n) => ~ Travelling(a, Msg("revoke", x))
      PROVE  NotBehind(a, x, n)'
  <2>1. \A i, j \in 1..Len(s) : i < j /\ s[i] = Msg("revoke", x) => s[j] # Msg("accept", n)
    BY <1>5 DEF NotBehind, s
  <2>2. \A i, j \in 1..Len(t) : i < j => i \in 1..Len(s) /\ (j \in 1..Len(s) \/ j = Len(s) + 1)
    BY <1>1, <1>2
  <2>3. \A i, j \in 1..Len(t) : i < j /\ t[i] = Msg("revoke", x) => t[j] # Msg("accept", n)
    BY <1>1, <1>3, <1>5, <2>1, <2>2
  <2> QED
    BY <2>3 DEF NotBehind, t
<1>6. NoCopies'
  <2>1. ASSUME NEW b \in Agent, b # a
        PROVE  \A i, j \in 1..Len(chan'[b]) :
                  chan'[b][i] = chan'[b][j] /\ chan'[b][i].kind \in {"proposal", "accept"} => i = j
    BY <1>1, <2>1 DEF NoCopies
  <2> QED
    BY <1>4, <2>1 DEF NoCopies, t
<1>7. \A b \in Agent \ {a} : \A x \in RevokeNonce : \A n \in Nonce :
         NotBehind(b, x, n) => NotBehind(b, x, n)'
  BY <1>1 DEF NotBehind
<1> QED
  BY <1>5, <1>6, <1>7

LEMMA OrderedGet ==
    ASSUME HandshakeTypes, NoCopies, network = "ordered",
           NEW a \in Agent, NEW m \in Messages, Gets(a, m)
    PROVE  /\ NoCopies'
           /\ m.kind \in {"proposal", "accept"} => ~ Travelling(a, m)'
           /\ \A b \in Agent : \A x \in RevokeNonce : \A n \in Nonce :
                 NotBehind(b, x, n) => NotBehind(b, x, n)'
           /\ \A x \in RevokeNonce : \A n \in Nonce :
                 m = Msg("revoke", x) /\ NotBehind(a, x, n) => ~ Travelling(a, Msg("accept", n))'
<1> DEFINE s == chan[a]
           t == chan'[a]
<1>1. /\ \A b \in Agent \ {a} : chan'[b] = chan[b]
      /\ t \in Seq(Messages) /\ s[1] = m
      /\ Len(s) >= 1 /\ Len(t) = Len(s) - 1
      /\ \A j \in 1..Len(t) : t[j] = s[j + 1]
  BY GetsFacts
<1>2. Len(s) \in Nat /\ Len(t) \in Nat /\ DOMAIN t = 1..Len(t)
  BY <1>1 DEF HandshakeTypes
<1>3. \A o : Travelling(a, o)' <=> \E i \in 1..Len(t) : t[i] = o
  BY <1>2 DEF Travelling, Range
<1>4. /\ \A i, j \in 1..Len(s) : s[i] = s[j] /\ s[i].kind \in {"proposal", "accept"} => i = j
      /\ \A x, n : NotBehind(a, x, n) <=>
            \A i, j \in 1..Len(s) : i < j /\ s[i] = Msg("revoke", x) => s[j] # Msg("accept", n)
      /\ \A x, n : NotBehind(a, x, n)' <=>
            \A i, j \in 1..Len(t) : i < j /\ t[i] = Msg("revoke", x) => t[j] # Msg("accept", n)
  BY DEF NoCopies, NotBehind
<1> HIDE DEF s, t
<1>5. /\ 1 \in 1..Len(s)
      /\ \A i \in 1..Len(t) : i + 1 \in 1..Len(s) /\ i + 1 # 1 /\ 1 < i + 1
      /\ \A i, j \in 1..Len(t) : (i + 1 = j + 1 => i = j) /\ (i < j => i + 1 < j + 1)
  BY <1>1, <1>2
<1>6. \A i, j \in 1..Len(t) : t[i] = t[j] /\ t[i].kind \in {"proposal", "accept"} => i = j
  BY <1>1, <1>4, <1>5
<1>7. m.kind \in {"proposal", "accept"} => ~ Travelling(a, m)'
  BY <1>1, <1>3, <1>4, <1>5
<1>8. ASSUME NEW x \in RevokeNonce, NEW n \in Nonce, NotBehind(a, x, n)
      PROVE  /\ NotBehind(a, x, n)'
             /\ m = Msg("revoke", x) => ~ Travelling(a, Msg("accept", n))'
  BY <1>1, <1>3, <1>4, <1>5, <1>8
<1>9. NoCopies'
  <2>1. ASSUME NEW b \in Agent, b # a
        PROVE  \A i, j \in 1..Len(chan'[b]) :
                  chan'[b][i] = chan'[b][j] /\ chan'[b][i].kind \in {"proposal", "accept"} => i = j
    BY <1>1, <2>1 DEF NoCopies
  <2> QED
    BY <1>6, <2>1 DEF NoCopies, t
<1>10. \A b \in Agent \ {a} : \A x \in RevokeNonce : \A n \in Nonce :
         NotBehind(b, x, n) => NotBehind(b, x, n)'
  BY <1>1 DEF NotBehind
<1> QED
  BY <1>7, <1>8, <1>9, <1>10

LEMMA OneTokenKept ==
    ASSUME HandshakeTypes, Placed, network = "ordered", OneToken,
           [HandshakeNext]_handshakeVars
    PROVE  OneToken'
<1>1. \A n \in Nonce : /\ Proposer[n] \in Agent /\ Other(Proposer[n]) \in Agent
                       /\ Other(Proposer[n]) # Proposer[n]
                       /\ Other(Other(Proposer[n])) = Proposer[n]
  BY HandshakeAssumption, TwoAgents
<1>2. NoCopies /\ \A n \in Nonce : Token(n)
  BY DEF OneToken
<1>3. SUFFICES NoCopies' /\ \A n \in Nonce : Token(n)'
  BY DEF OneToken
<1>4. CASE UNCHANGED handshakeVars
  <2>1. /\ NoneMoves /\ \A b \in Agent : KeepsFriend(b)
        /\ UNCHANGED <<chan, inbound, handling>>
    BY <1>4, FriendFacts, MessageFacts, MsgFacts, HandshakeAssumption
       DEF handshakeVars, NoneMoves, Travelling
  <2> QED
    BY <1>1, <1>2, <2>1 DEF Token, Asked, Answered, NoneMoves, KeepsFriend, NoCopies
<1>5. ASSUME NEW n \in Nonce, Propose(n) PROVE NoCopies' /\ \A k \in Nonce : Token(k)'
  <2>1. /\ n \notin made /\ Sends(Other(Proposer[n]), Msg("proposal", n))
        /\ UNCHANGED <<inbound, handling>>
    BY <1>5 DEF Propose
  <2>2. Sent(Other(Proposer[n]), Msg("proposal", n)) /\ \A b \in Agent : KeepsFriend(b)
    BY <1>1, <1>5, <2>1, MsgFacts, MessageFacts, FriendFacts DEF Propose
  <2>3. \A b \in Agent : /\ ~ Travelling(b, Msg("proposal", n)) /\ n \notin inbound[b]
                         /\ ~ Travelling(b, Msg("accept", n)) /\ handling[b] # n /\ ~ Holds(b, n)
    BY <2>1 DEF Placed, AllIsAnswered
  <2>4. NoCopies'
    BY <1>1, <1>2, <2>1, <2>3, MsgFacts, OrderedSend
  <2>5. ASSUME NEW k \in Nonce PROVE Token(k)'
    BY <1>1, <1>2, <2>1, <2>2, <2>3, MsgFacts DEF Token, Asked, Answered, Sent, KeepsFriend
  <2> QED
    BY <2>4, <2>5
<1>6. ASSUME NEW a \in Agent, NEW n \in Nonce, Accept(a, n) \/ DieAccepting(a, n) \/ Decline(a, n)
      PROVE  NoCopies' /\ \A k \in Nonce : Token(k)'
  <2>1. /\ a = Other(Proposer[n]) /\ Other(a) = Proposer[n]
        /\ n \in inbound[a]
    BY <1>1, <1>6, TwoAgents DEF Accept, DieAccepting, Decline, Placed, AllInPlace
  <2>2. Asked(n) /\ ~ Travelling(a, Msg("proposal", n)) /\ ~ Answered(n)
        /\ ~ Holds(a, n) /\ ~ Holds(Other(a), n)
    BY <1>2, <2>1 DEF Token, Asked
  <2>3. ~ Travelling(Other(a), Msg("accept", n)) /\ handling[Other(a)] # n
    BY <2>1, <2>2 DEF Answered
  <2>4. \/ chan' = chan /\ NoneMoves
        \/ ~ Decline(a, n) /\ Sends(Other(a), Msg("accept", n)) /\ Sent(Other(a), Msg("accept", n))
        \/ Sends(Other(a), Msg("decline", n)) /\ Sent(Other(a), Msg("decline", n))
    BY <1>1, <1>6, <2>1, MsgFacts, MessageFacts DEF Accept, DieAccepting, Decline
  <2>5. (\A b \in Agent : KeepsFriend(b)) \/ Gains(a, n)
    BY <1>6, FriendFacts DEF Accept, DieAccepting, Decline
  <2>6. NoCopies'
    BY <1>1, <1>2, <2>1, <2>3, <2>4, MsgFacts, OrderedSend DEF NoCopies
  <2>7. handling' = handling /\ inbound' = [inbound EXCEPT ![a] = inbound[a] \ {n}]
    BY <1>6 DEF Accept, DieAccepting, Decline
  <2>8. /\ n \notin inbound'[a]
        /\ \A b \in Agent, k \in Nonce : k \in inbound'[b] => k \in inbound[b]
    BY <2>7 DEF HandshakeTypes
  <2>9. ASSUME NEW k \in Nonce, k # n PROVE Token(k)'
    BY <1>1, <1>2, <2>2, <2>4, <2>5, <2>7, <2>8, <2>9, MsgFacts
       DEF Token, Asked, Answered, NoneMoves, Sent, Gains, KeepsFriend
  <2>10. Token(n)'
    BY <1>1, <2>1, <2>2, <2>3, <2>4, <2>5, <2>7, <2>8, MsgFacts
       DEF Token, Asked, Answered, NoneMoves, Sent, Gains, KeepsFriend
  <2> QED
    BY <2>6, <2>9, <2>10
<1>7. ASSUME NEW a \in Agent, NEW n \in Nonce, ReceiveProposal(a, n)
      PROVE  NoCopies' /\ \A k \in Nonce : Token(k)'
  <2>1. /\ NoCopies' /\ ~ Travelling(a, Msg("proposal", n))'
        /\ Taken(a, Msg("proposal", n)) /\ \A b \in Agent : KeepsFriend(b)
    BY <1>2, <1>7, MsgFacts, MessageFacts, FriendFacts, OrderedGet DEF ReceiveProposal
  <2>2. a = Other(Proposer[n])
    BY <1>1, <2>1, TwoAgents DEF Taken, Placed, AllInPlace
  <2>3. /\ \A b \in Agent, k \in Nonce : k \in inbound'[b] => k \in inbound[b] \/ (b = a /\ k = n)
        /\ handling' = handling
    BY <1>7 DEF ReceiveProposal, HandshakeTypes
  <2>4. ASSUME NEW k \in Nonce, k # n PROVE Token(k)'
    BY <1>1, <1>2, <2>1, <2>3, <2>4 DEF Token, Asked, Answered, Taken, KeepsFriend
  <2>5. Token(n)'
    BY <1>1, <1>2, <2>1, <2>2, <2>3 DEF Token, Asked, Answered, Taken, KeepsFriend
  <2> QED
    BY <2>1, <2>4, <2>5
<1>8. ASSUME NEW a \in Agent, NEW n \in Nonce, ReceiveAccept(a, n)
      PROVE  NoCopies' /\ \A k \in Nonce : Token(k)'
  <2>1. /\ NoCopies' /\ ~ Travelling(a, Msg("accept", n))'
        /\ Taken(a, Msg("accept", n)) /\ \A b \in Agent : KeepsFriend(b)
    BY <1>2, <1>8, MsgFacts, MessageFacts, FriendFacts, OrderedGet DEF ReceiveAccept
  <2>2. a = Proposer[n]
    BY <1>1, <2>1, TwoAgents DEF Taken, Placed, AllInPlace
  <2>3. /\ \A b \in Agent, k \in Nonce : handling'[b] = k => handling[b] = k \/ (b = a /\ k = n)
        /\ inbound' = inbound
    BY <1>8, HandshakeAssumption DEF ReceiveAccept, HandshakeTypes
  <2>4. ASSUME NEW k \in Nonce, k # n PROVE Token(k)'
    BY <1>1, <1>2, <2>1, <2>3, <2>4 DEF Token, Asked, Answered, Taken, KeepsFriend
  <2>5. Token(n)'
    BY <1>1, <1>2, <2>1, <2>2, <2>3 DEF Token, Asked, Answered, Taken, KeepsFriend
  <2> QED
    BY <2>1, <2>4, <2>5
<1>9. ASSUME NEW a \in Agent, NEW n \in Nonce, ReceiveDecline(a, n)
      PROVE  NoCopies' /\ \A k \in Nonce : Token(k)'
  <2>1. /\ NoCopies' /\ Taken(a, Msg("decline", n)) /\ \A b \in Agent : KeepsFriend(b)
        /\ UNCHANGED <<inbound, handling>>
    BY <1>2, <1>9, MsgFacts, MessageFacts, FriendFacts, OrderedGet DEF ReceiveDecline
  <2>2. ASSUME NEW k \in Nonce PROVE Token(k)'
    BY <1>1, <1>2, <2>1 DEF Token, Asked, Answered, Taken, KeepsFriend
  <2> QED
    BY <2>1, <2>2
<1>10. ASSUME NEW a \in Agent, NEW x \in RevokeNonce, RevokeFriend(a, x) \/ ReceiveRevoke(a, x)
       PROVE  NoCopies' /\ \A k \in Nonce : Token(k)'
  <2>1. Other(a) \in Agent
    BY TwoAgents
  <2>2. NoCopies'
    BY <1>2, <1>10, <2>1, MsgFacts, OrderedSend, OrderedGet DEF RevokeFriend, ReceiveRevoke
  <2>3. /\ Loses(a, x)
        /\ Sent(Other(a), Msg("revoke", x)) \/ Taken(a, Msg("revoke", x))
        /\ UNCHANGED <<inbound, handling>>
    BY <1>10, <2>1, MsgFacts, MessageFacts, FriendFacts DEF RevokeFriend, ReceiveRevoke
  <2>4. ASSUME NEW k \in Nonce PROVE Token(k)'
    BY <1>1, <1>2, <2>3, MsgFacts DEF Token, Asked, Answered, Taken, Sent, Loses, KeepsFriend
  <2> QED
    BY <2>2, <2>4
<1>11. ASSUME NEW a \in Agent, FinishAccept(a) \/ DieHandling(a)
       PROVE  NoCopies' /\ \A k \in Nonce : Token(k)'
  <2>0. PICK n \in Nonce : handling[a] = n
    BY <1>11 DEF FinishAccept, DieHandling, HandshakeTypes
  <2>1. handling[a] = n /\ chan' = chan /\ inbound' = inbound
    BY <1>11, <2>0 DEF FinishAccept, DieHandling
  <2>2. NoneMoves /\ ((\A b \in Agent : KeepsFriend(b)) \/ Gains(a, n))
    BY <1>11, <2>1, MsgFacts, MessageFacts, FriendFacts DEF FinishAccept, DieHandling
  <2>3. a = Proposer[n]
    BY <2>1 DEF Placed, AllInPlace
  <2>4. Answered(n) /\ ~ Asked(n) /\ ~ Travelling(a, Msg("accept", n))
    BY <1>2, <2>1, <2>3 DEF Token, Answered
  <2>5. /\ \A b \in Agent, k \in Nonce : handling'[b] = k => handling[b] = k
        /\ handling'[a] \notin Nonce
    BY <1>11, HandshakeAssumption DEF FinishAccept, DieHandling, HandshakeTypes
  <2>6. NoCopies'
    BY <1>2, <2>1 DEF NoCopies
  <2>7. ASSUME NEW k \in Nonce, k # n PROVE Token(k)'
    BY <1>1, <1>2, <2>1, <2>2, <2>5, <2>7
       DEF Token, Asked, Answered, NoneMoves, Gains, KeepsFriend
  <2>8. Token(n)'
    BY <1>1, <1>2, <2>1, <2>2, <2>3, <2>4, <2>5
       DEF Token, Asked, Answered, NoneMoves, Gains, KeepsFriend
  <2> QED
    BY <2>1, <2>6, <2>7, <2>8
<1> QED
  BY <1>4, <1>5, <1>6, <1>7, <1>8, <1>9, <1>10, <1>11, HandshakeSteps

LEMMA RevokesEndKept ==
    ASSUME HandshakeTypes, Placed, network = "ordered", OneToken, RevokesEnd,
           [HandshakeNext]_handshakeVars
    PROVE  RevokesEnd'
<1>1. \A n \in Nonce : /\ Proposer[n] \in Agent /\ Other(Proposer[n]) \in Agent
                       /\ Other(Proposer[n]) # Proposer[n]
                       /\ \A b \in Agent : b = Proposer[n] \/ b = Other(Proposer[n])
  BY HandshakeAssumption, TwoAgents
<1>2. NoCopies /\ \A n \in Nonce : Token(n)
  BY DEF OneToken
<1>3. \A x \in RevokeNonce : covers[x] \subseteq Nonce
  BY DEF HandshakeTypes
<1> SUFFICES ASSUME NEW y \in RevokeNonce, NEW k \in Nonce, k \in covers'[y] PROVE Ended(y, k)'
  <2>1. \A x \in RevokeNonce : covers'[x] \subseteq Nonce
    BY HandshakeTypesKept DEF HandshakeTypes
  <2> QED
    BY <2>1 DEF RevokesEnd
<1>4. k \in covers[y] => Ended(y, k)
  BY DEF RevokesEnd
<1>5. CASE UNCHANGED handshakeVars
  <2>1. (\A b \in Agent : KeepsFriend(b)) /\ NoneMoves
        /\ UNCHANGED <<chan, inbound, handling, made, covers>>
    BY <1>5, FriendFacts, MessageFacts, HandshakeAssumption DEF handshakeVars, NoneMoves, Travelling
  <2> QED
    BY <1>1, <1>4, <2>1 DEF Ended, Asked, Answered, NoneMoves, KeepsFriend, NotBehind
<1>6. ASSUME NEW n \in Nonce, Propose(n) PROVE Ended(y, k)'
  <2>1. /\ n \notin made /\ Sends(Other(Proposer[n]), Msg("proposal", n))
        /\ made \subseteq made' /\ UNCHANGED <<inbound, handling, covers>>
    BY <1>6 DEF Propose
  <2>2. Sent(Other(Proposer[n]), Msg("proposal", n)) /\ \A b \in Agent : KeepsFriend(b)
    BY <1>1, <1>6, <2>1, MsgFacts, MessageFacts, FriendFacts DEF Propose
  <2>3. \A b \in Agent : ~ Travelling(b, Msg("proposal", n))
    BY <2>1 DEF Placed, AllIsAnswered
  <2>4. Ended(y, k) /\ k # n
    BY <1>4, <2>1 DEF Ended
  <2>5. \A b \in Agent : NotBehind(b, y, k)'
    BY <1>1, <1>2, <2>1, <2>3, <2>4, MsgFacts, OrderedSend DEF Ended
  <2> QED
    BY <1>1, <2>1, <2>2, <2>4, <2>5, MsgFacts DEF Ended, Asked, Answered, Sent, KeepsFriend
<1>7. ASSUME NEW a \in Agent, NEW n \in Nonce, Accept(a, n) \/ DieAccepting(a, n) \/ Decline(a, n)
      PROVE  Ended(y, k)'
  <2>1. /\ a = Other(Proposer[n]) /\ Other(a) = Proposer[n] /\ n \in inbound[a]
    BY <1>1, <1>7, TwoAgents DEF Accept, DieAccepting, Decline, Placed, AllInPlace
  <2>2. Asked(n) /\ ~ Answered(n) /\ ~ Holds(a, n)
    BY <1>2, <2>1 DEF Token, Asked
  <2>3. /\ UNCHANGED <<made, covers, handling>>
        /\ inbound' = [inbound EXCEPT ![a] = inbound[a] \ {n}]
    BY <1>7 DEF Accept, DieAccepting, Decline
  <2>4. \A b \in Agent, j \in Nonce : j \in inbound'[b] => j \in inbound[b]
    BY <2>3 DEF HandshakeTypes
  <2>5. Ended(y, k) /\ k # n
    BY <1>4, <2>2, <2>3 DEF Ended
  <2>6. \/ chan' = chan /\ NoneMoves
        \/ Sends(Other(a), Msg("accept", n)) /\ Sent(Other(a), Msg("accept", n))
        \/ Sends(Other(a), Msg("decline", n)) /\ Sent(Other(a), Msg("decline", n))
    BY <1>1, <1>7, <2>1, MsgFacts, MessageFacts DEF Accept, DieAccepting, Decline
  <2>7. (\A b \in Agent : KeepsFriend(b)) \/ Gains(a, n)
    BY <1>7, FriendFacts DEF Accept, DieAccepting, Decline
  <2>8. \A b \in Agent : NotBehind(b, y, k)'
    <3>1. ~ Travelling(Other(a), Msg("accept", n))
      BY <2>1, <2>2 DEF Answered
    <3>2. ASSUME NEW b \in Agent, Sends(Other(a), Msg("accept", n)) PROVE NotBehind(b, y, k)'
      <4>1. NotBehind(b, y, k) /\ Msg("accept", n) # Msg("accept", k) /\ Other(a) \in Agent
        BY <1>1, <2>1, <2>5, MsgFacts DEF Ended
      <4> QED
        BY <1>2, <3>1, <3>2, <4>1, MsgFacts, OrderedSend
    <3>3. ASSUME NEW b \in Agent, Sends(Other(a), Msg("decline", n)) PROVE NotBehind(b, y, k)'
      <4>1. NotBehind(b, y, k) /\ Msg("decline", n) # Msg("accept", k) /\ Other(a) \in Agent
        BY <1>1, <2>1, <2>5, MsgFacts DEF Ended
      <4> QED
        BY <1>2, <3>3, <4>1, MsgFacts, OrderedSend
    <3>4. ASSUME chan' = chan, NEW b \in Agent PROVE NotBehind(b, y, k)'
      BY <2>5, <3>4 DEF Ended, NotBehind
    <3> QED
      BY <2>6, <3>2, <3>3, <3>4
  <2>9. ~ Asked(k)' /\ (Answered(k)' => Answered(k))
    BY <1>1, <2>3, <2>4, <2>5, <2>6, MsgFacts DEF Ended, Asked, Answered, NoneMoves, Sent
  <2>10. \A b \in Agent : /\ Holds(b, k)' => Holds(b, k)
                          /\ SeenRevocation(store[b], y)' <=> SeenRevocation(store[b], y)
    BY <2>2, <2>5, <2>7 DEF Gains, KeepsFriend
  <2> QED
    BY <2>3, <2>5, <2>8, <2>9, <2>10 DEF Ended
<1>8. ASSUME NEW a \in Agent, NEW n \in Nonce,
             ReceiveProposal(a, n) \/ ReceiveAccept(a, n) \/ ReceiveDecline(a, n)
      PROVE  Ended(y, k)'
  <2>1. UNCHANGED <<store, made, covers>> /\ \A b \in Agent : KeepsFriend(b)
    BY <1>8, FriendFacts DEF ReceiveProposal, ReceiveAccept, ReceiveDecline
  <2>2. Ended(y, k)
    BY <1>4, <2>1
  <2>3. PICK m \in Messages : Gets(a, m) /\ Taken(a, m) /\ handling[a] = None
    BY <1>8, MsgFacts, MessageFacts DEF ReceiveProposal, ReceiveAccept, ReceiveDecline
  <2>4. \A b \in Agent : NotBehind(b, y, k)'
    BY <1>2, <2>2, <2>3, OrderedGet DEF Ended
  <2>5. Taken(a, Msg("proposal", n)) => Asked(n)
    BY <1>1 DEF Taken, Asked, Placed, AllInPlace
  <2>6. \/ /\ \A b \in Agent, j \in Nonce : j \in inbound'[b] => j \in inbound[b] \/ j = n
           /\ handling' = handling /\ Asked(n)
        \/ /\ \A b \in Agent, j \in Nonce : handling'[b] = j => handling[b] = j \/ (b = a /\ j = n)
           /\ inbound' = inbound /\ Taken(a, Msg("accept", n))
        \/ UNCHANGED <<inbound, handling>>
    <3>1. ReceiveProposal(a, n) => Asked(n)
      BY <2>5, MsgFacts, MessageFacts DEF ReceiveProposal
    <3>2. ReceiveAccept(a, n) => Taken(a, Msg("accept", n))
      BY MsgFacts, MessageFacts DEF ReceiveAccept
    <3> QED
      BY <1>8, <3>1, <3>2, HandshakeAssumption
         DEF ReceiveProposal, ReceiveAccept, ReceiveDecline, HandshakeTypes
  <2>7. ~ Asked(k)'
    BY <1>1, <2>2, <2>3, <2>6 DEF Ended, Asked, Taken
  <2>8. Answered(k)' => Answered(k)
    BY <1>1, <2>3, <2>6 DEF Answered, Taken
  <2> QED
    BY <2>1, <2>2, <2>4, <2>7, <2>8 DEF Ended, KeepsFriend
<1>9. ASSUME NEW a \in Agent, FinishAccept(a) \/ DieHandling(a) PROVE Ended(y, k)'
  <2>1. PICK n \in Nonce : handling[a] = n
    BY <1>9 DEF FinishAccept, DieHandling, HandshakeTypes
  <2>2. UNCHANGED <<chan, inbound, made, covers>>
    BY <1>9 DEF FinishAccept, DieHandling
  <2>3. NoneMoves /\ ((\A b \in Agent : KeepsFriend(b)) \/ Gains(a, n))
    BY <1>9, <2>1, MsgFacts, MessageFacts, FriendFacts DEF FinishAccept, DieHandling
  <2>4. a = Proposer[n] /\ Answered(n)
    BY <2>1 DEF Placed, AllInPlace, Answered
  <2>5. \A b \in Agent, j \in Nonce : handling'[b] = j => handling[b] = j
    BY <1>9, HandshakeAssumption DEF FinishAccept, DieHandling, HandshakeTypes
  <2>6. Ended(y, k)
    BY <1>4, <2>2
  <2>7. ~ Asked(k)' /\ (Answered(k)' => Answered(k))
    BY <1>1, <2>2, <2>3, <2>5, <2>6 DEF Ended, Asked, Answered, NoneMoves
  <2>8. \A b \in Agent : NotBehind(b, y, k)'
    BY <2>2, <2>6 DEF Ended, NotBehind
  <2>9. ASSUME NEW b \in Agent
        PROVE  /\ SeenRevocation(store[b], y)' <=> SeenRevocation(store[b], y)
               /\ SeenRevocation(store[b], y) => ~ Holds(b, k)'
    BY <2>3, <2>4, <2>6 DEF Ended, Gains, KeepsFriend
  <2> QED
    BY <2>2, <2>6, <2>7, <2>8, <2>9 DEF Ended
<1>10. ASSUME NEW a \in Agent, NEW x \in RevokeNonce, ReceiveRevoke(a, x) PROVE Ended(y, k)'
  <2>1. /\ Gets(a, Msg("revoke", x)) /\ Taken(a, Msg("revoke", x)) /\ handling[a] = None
        /\ UNCHANGED <<made, covers, inbound, handling>>
    BY <1>10, MsgFacts, MessageFacts DEF ReceiveRevoke
  <2>2. Loses(a, x)
    BY <1>10, FriendFacts, TwoAgents DEF ReceiveRevoke
  <2>3. Ended(y, k)
    BY <1>4, <2>1
  <2>4. /\ \A b \in Agent : NotBehind(b, y, k)'
        /\ x = y => ~ Travelling(a, Msg("accept", k))'
    BY <1>2, <2>1, <2>3, MsgFacts, OrderedGet DEF Ended
  <2>5. ~ Asked(k)' /\ (Answered(k)' => Answered(k))
    BY <1>1, <2>1, <2>3 DEF Ended, Asked, Answered, Taken
  <2>6. x = y /\ a = Proposer[k] => ~ Answered(k)'
    BY <2>1, <2>4, HandshakeAssumption DEF Answered
  <2>7. ASSUME NEW b \in Agent, SeenRevocation(store[b], y)'
        PROVE  ~ Holds(b, k)' /\ (b = Proposer[k] => ~ Answered(k)')
    BY <2>2, <2>3, <2>5, <2>6, <2>7 DEF Ended, Loses, KeepsFriend
  <2> QED
    BY <2>1, <2>3, <2>4, <2>5, <2>7 DEF Ended
<1>11. ASSUME NEW a \in Agent, NEW x \in RevokeNonce, RevokeFriend(a, x) PROVE Ended(y, k)'
  <2>1. Other(a) \in Agent
    BY TwoAgents
  <2>2. /\ x \notin made /\ made \subseteq made'
        /\ Sends(Other(a), Msg("revoke", x)) /\ Sent(Other(a), Msg("revoke", x))
        /\ Loses(a, x) /\ UNCHANGED <<inbound, handling>>
        /\ covers' = [covers EXCEPT ![x] = {r.nonce : r \in store[a].rows}]
    BY <1>11, <2>1, MsgFacts, MessageFacts, FriendFacts DEF RevokeFriend
  <2>3. \A b \in Agent : ~ Travelling(b, Msg("revoke", x)) /\ ~ SeenRevocation(store[b], x)
    BY <2>2 DEF Placed, AllInPlace
  <2>4. \A b \in Agent : NotBehind(b, y, k) => NotBehind(b, y, k)'
    <3>1. Msg("revoke", x) # Msg("accept", k)
      BY MsgFacts
    <3> QED
      BY <1>2, <2>1, <2>2, <3>1, MsgFacts, OrderedSend
  <2>5. (Asked(k)' <=> Asked(k)) /\ (Answered(k)' <=> Answered(k))
    BY <1>1, <2>2, MsgFacts DEF Asked, Answered, Sent
  <2>6. CASE x = y
    <3>1. Holds(a, k)
      BY <2>2, <2>6 DEF Holds, HandshakeTypes
    <3>2. k \in made /\ ~ Asked(k) /\ (a = Proposer[k] => ~ Answered(k))
      BY <1>1, <1>2, <3>1 DEF Token, Placed, AllIsAnswered
    <3>3. \A b \in Agent : NotBehind(b, y, k)
      <4>1. \A b \in Agent : \A i \in 1..Len(chan[b]) : chan[b][i] # Msg("revoke", y)
        <5>1. \A b \in Agent : DOMAIN chan[b] = 1..Len(chan[b])
          BY DEF HandshakeTypes
        <5> QED
          BY <2>3, <2>6, <5>1 DEF Travelling, Range
      <4> QED
        BY <4>1 DEF NotBehind
    <3>4. ASSUME NEW b \in Agent, SeenRevocation(store[b], y)'
          PROVE  b = a /\ ~ Holds(b, k)'
      BY <2>2, <2>3, <2>6, <3>4 DEF Loses, KeepsFriend
    <3> QED
      BY <2>2, <2>4, <2>5, <3>2, <3>3, <3>4 DEF Ended
  <2>7. CASE x # y
    <3>1. Ended(y, k)
      BY <1>4, <2>2, <2>7 DEF HandshakeTypes
    <3>2. \A b \in Agent : /\ Holds(b, k)' => Holds(b, k)
                           /\ SeenRevocation(store[b], y)' <=> SeenRevocation(store[b], y)
      BY <2>2, <2>7 DEF Loses, KeepsFriend
    <3> QED
      BY <2>2, <2>4, <2>5, <3>1, <3>2 DEF Ended
  <2> QED
    BY <2>6, <2>7
<1> QED
  BY <1>5, <1>6, <1>7, <1>8, <1>9, <1>10, <1>11, HandshakeSteps

\* On an ordered network a relationship is not there once a revoke that was
\* meant to end it has arrived, whatever was proposed or revoked since.
THEOREM RevokesAreFinal == HandshakeSpec => []RevokerIsStranger
<1> DEFINE Inv == network = "ordered" => OneToken /\ RevokesEnd
<1>1. HandshakeInit => Inv
  <2> SUFFICES ASSUME HandshakeInit PROVE OneToken /\ RevokesEnd
    OBVIOUS
  <2>1. \A a \in Agent : chan[a] = <<>> /\ store[a] = [rows |-> {}, revocations |-> {}]
                           /\ handling[a] = None /\ inbound[a] = {}
    BY DEF HandshakeInit, EmptyStore
  <2>2. \A a \in Agent : /\ \A o : ~ Travelling(a, o)
                         /\ \A n : n \notin inbound[a] /\ ~ Holds(a, n)
                         /\ \A n \in Nonce : handling[a] # n
    BY <2>1, HandshakeAssumption DEF Travelling, Range, Holds
  <2>3. NoCopies
    BY <2>1 DEF NoCopies
  <2>4. \A n \in Nonce : Proposer[n] \in Agent /\ Other(Proposer[n]) \in Agent
    BY HandshakeAssumption, TwoAgents
  <2>5. \A n \in Nonce : Token(n)
    BY <2>2, <2>4 DEF Token, Asked, Answered
  <2> QED
    BY <2>3, <2>5 DEF OneToken, RevokesEnd, HandshakeInit
<1>2. HandshakeTypes /\ Placed /\ Inv /\ [HandshakeNext]_handshakeVars => Inv'
  <2> SUFFICES ASSUME HandshakeTypes, Placed, Inv, [HandshakeNext]_handshakeVars,
                      network' = "ordered"
               PROVE  (OneToken /\ RevokesEnd)'
    OBVIOUS
  <2>1. network' = network
    BY HandshakeSteps
       DEF Propose, Accept, DieAccepting, Decline, ReceiveProposal, ReceiveAccept, ReceiveDecline,
           RevokeFriend, ReceiveRevoke, FinishAccept, DieHandling, handshakeVars
  <2> QED
    BY <2>1, OneTokenKept, RevokesEndKept
<1>3. Inv => RevokerIsStranger
  BY DEF RevokerIsStranger, RevokesEnd, Ended
<1> HIDE DEF Inv
<1> QED
  BY <1>1, <1>2, <1>3, AllStayPlaced, PTL DEF HandshakeSpec
================================================================================
