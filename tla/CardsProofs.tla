------------------------------- MODULE CardsProofs -------------------------------
(***************************************************************************)
(* Why an agent can read the mail that is sealed to its cards, whatever    *)
(* the settings of its starts, and which keys it accepts from a peer: for  *)
(* all addresses and environment values, and any number of keys.           *)
(***************************************************************************)
EXTENDS AgentCards, Identity, TLAPS

(***************************************************************************)
(* An agent's own cards.                                                   *)
(***************************************************************************)

\* None is no key and no record.
AbsentIsApart ==
    /\ \A k : Absent # Generated(k)
    /\ \A s, k, a : Absent # [seed |-> s, key |-> k, address |-> a]
    /\ \A s, k, t : Absent # [seed |-> s, key |-> k, setting |-> t]
    /\ \A c, a : Absent # [card |-> c, to |-> a]

\* A start with setting s yields this seed and this key, now and later: they
\* come from the environment, or from a file that will not lose them.
Backed(s, seed, k) ==
    IF s.seed # Absent
    THEN seed = s.seed /\ k = IF s.key # Absent THEN s.key ELSE Derived(s.seed)
    ELSE idFile # Absent /\ idFile.key # Absent /\ seed = idFile.seed /\ k = idFile.key

BackedCard(card, a) == card.setting.address = a /\ Backed(card.setting, card.seed, card.key)

Types ==
    /\ setting \in Setting
    /\ relayCards = [a \in Address |-> relayCards[a]]

IdentityInv ==
    /\ Types
    /\ id # Absent => id.address = setting.address /\ Backed(setting, id.seed, id.key)
    /\ \A a \in Address : relayCards[a] # Absent => BackedCard(relayCards[a], a)
    /\ resolved # Absent => BackedCard(resolved.card, resolved.to)
    /\ \A m \in mail : m.setting.address = m.to /\ \E seed : Backed(m.setting, seed, m.key)

--------------------------------------------------------------------------------
\* What the file holds is not lost: an old file is completed, a new one written
\* only when there is none.
LEMMA BackingStays ==
    ASSUME AbsentIsApart,
           \/ idFile' = idFile
           \/ idFile # Absent /\ idFile' = Migrated
           \/ idFile = Absent,
           NEW s, NEW seed, NEW k, Backed(s, seed, k)
    PROVE  Backed(s, seed, k)'
<1>1. CASE idFile' = idFile
  BY <1>1 DEF Backed
<1>2. CASE idFile # Absent /\ idFile' = Migrated
  BY <1>2 DEF Backed, Migrated, AbsentIsApart
<1>3. CASE idFile = Absent
  BY <1>3 DEF Backed
<1> QED
  BY <1>1, <1>2, <1>3

\* A step that starts the process, or does not, and touches nothing outside.
LEMMA StartFacts ==
    ASSUME AbsentIsApart, IdentityInv, UNCHANGED <<setting, relayCards, resolved, mail>>,
           \/ idFile' = idFile
           \/ idFile # Absent /\ idFile' = Migrated
           \/ idFile = Absent,
           id' # Absent => id'.address = setting.address /\ Backed(setting, id.seed, id.key)'
    PROVE  IdentityInv'
<1>1. \A s, seed, k : Backed(s, seed, k) => Backed(s, seed, k)'
  BY BackingStays
<1>2. Types'
  BY DEF IdentityInv, Types
<1>3. \A card, a : BackedCard(card, a) => BackedCard(card, a)'
  BY <1>1 DEF BackedCard
<1> QED
  BY <1>1, <1>2, <1>3 DEF IdentityInv

LEMMA IdentityStep ==
    ASSUME AbsentIsApart, IdentityInv, [IdentityNext]_identityVars
    PROVE  IdentityInv'
<1>1. CASE LoadFromEnv
  <2>1. id'.address = setting.address /\ Backed(setting, id.seed, id.key)'
    BY <1>1 DEF LoadFromEnv, Backed
  <2> QED
    BY <1>1, <2>1, StartFacts DEF LoadFromEnv
<1>2. CASE LoadFromFile
  <2>1. Migrated # Absent /\ Migrated.key # Absent /\ Migrated.address = setting.address
    BY <1>2 DEF LoadFromFile, Migrated, AbsentIsApart
  <2>2. Backed(setting, id.seed, id.key)'
    BY <1>2, <2>1 DEF LoadFromFile, Backed
  <2> QED
    BY <1>2, <2>1, <2>2, StartFacts DEF LoadFromFile
<1>3. CASE Generate
  <2>1. Fresh # Absent /\ Fresh.key # Absent /\ Fresh.address = setting.address
    BY DEF Fresh, AbsentIsApart
  <2>2. Backed(setting, id.seed, id.key)'
    BY <1>3, <2>1 DEF Generate, Backed
  <2> QED
    BY <1>3, <2>1, <2>2, StartFacts DEF Generate
<1>4. CASE StartFails
  BY <1>4, StartFacts DEF StartFails, IdentityInv, Backed
<1>5. CASE Stop
  BY <1>5, StartFacts DEF Stop
<1>6. ASSUME NEW s \in Setting, Reconfigure(s) PROVE IdentityInv'
  BY <1>6 DEF Reconfigure, Down, IdentityInv, Types, BackedCard, Backed
<1>7. CASE RegisterCard
  <2> DEFINE card == [seed |-> id.seed, key |-> id.key, setting |-> setting]
  <2>1. id # Absent /\ relayCards' = [relayCards EXCEPT ![id.address] = card]
        /\ UNCHANGED <<setting, idFile, id, resolved, mail>>
    BY <1>7 DEF RegisterCard, Down
  <2>2. BackedCard(card, id.address) /\ id.address \in Address
    BY <2>1 DEF IdentityInv, Types, Setting, BackedCard, Backed
  <2>3. \A a \in Address : relayCards'[a] = IF a = id.address THEN card ELSE relayCards[a]
    BY <2>1 DEF IdentityInv, Types
  <2> HIDE DEF card
  <2>4. (\A a \in Address : relayCards[a] # Absent => BackedCard(relayCards[a], a))'
    BY <2>1, <2>2, <2>3 DEF IdentityInv, BackedCard, Backed
  <2>5. Types'
    BY <2>1 DEF IdentityInv, Types
  <2> QED
    BY <2>1, <2>4, <2>5 DEF IdentityInv, BackedCard, Backed
<1>8. CASE Send
  <2>1. /\ resolved # Absent /\ UNCHANGED <<setting, idFile, id, relayCards, resolved>>
        /\ mail' = mail \cup {[to |-> resolved.to, key |-> resolved.card.key,
                               setting |-> resolved.card.setting]}
    BY <1>8 DEF Send
  <2>2. BackedCard(resolved.card, resolved.to)
    BY <2>1 DEF IdentityInv
  <2>3. ASSUME NEW m \in mail'
        PROVE  m.setting.address = m.to /\ \E seed : Backed(m.setting, seed, m.key)
    <3>1. CASE m \in mail
      BY <3>1 DEF IdentityInv
    <3>2. CASE m \notin mail
      <4>1. /\ m.to = resolved.to /\ m.key = resolved.card.key
            /\ m.setting = resolved.card.setting
        BY <2>1, <3>2
      <4>2. Backed(m.setting, resolved.card.seed, m.key)
        BY <2>2, <4>1 DEF BackedCard
      <4> QED
        BY <2>2, <4>1, <4>2 DEF BackedCard
    <3> QED
      BY <3>1, <3>2
  <2>4. \A s, seed, k : Backed(s, seed, k) => Backed(s, seed, k)'
    BY <2>1, BackingStays
  <2> QED
    BY <2>1, <2>3, <2>4 DEF IdentityInv, Types, BackedCard
<1>9. ASSUME NEW a \in Address, Resolve(a) PROVE IdentityInv'
  BY <1>9 DEF Resolve, IdentityInv, Types, BackedCard, Backed
<1>10. CASE UNCHANGED identityVars
  BY <1>10 DEF identityVars, IdentityInv, Types, BackedCard, Backed
<1> QED
  BY <1>1, <1>2, <1>3, <1>4, <1>5, <1>6, <1>7, <1>8, <1>9, <1>10 DEF IdentityNext

--------------------------------------------------------------------------------
LEMMA IdentityHolds == ASSUME AbsentIsApart PROVE IdentitySpec => []IdentityInv
<1>1. IdentityInit => IdentityInv
  BY DEF IdentityInit, IdentityInv, Types
<1>2. IdentityInv /\ [IdentityNext]_identityVars => IdentityInv'
  BY IdentityStep
<1> QED
  BY <1>1, <1>2, PTL DEF IdentitySpec

\* Mail that was sealed to a card opens in every later process with the settings
\* of that card.
THEOREM MailStaysReadable == ASSUME AbsentIsApart PROVE IdentitySpec => []MailOpens
<1>1. IdentityInv => MailOpens
  BY DEF IdentityInv, MailOpens, Opens, Backed, Down
<1> QED
  BY <1>1, IdentityHolds, PTL

\* The relay rejects no key of an agent whose card was made under the settings
\* that the agent runs with.
THEOREM OwnAddressStaysOpen == ASSUME AbsentIsApart PROVE IdentitySpec => []NotShutOut
<1>1. IdentityInv => NotShutOut
  BY DEF IdentityInv, Types, Setting, NotShutOut, BackedCard, Backed, Down
<1> QED
  BY <1>1, IdentityHolds, PTL

--------------------------------------------------------------------------------
(***************************************************************************)
(* The cards of a peer.                                                    *)
(***************************************************************************)

\* The cards of a peer name keys it has used, each while it used it.
CardTypes ==
    /\ now \in Nat /\ key \in 1..LastKey
    /\ DOMAIN retired = 1..(key - 1)
    /\ \A k \in 1..(key - 1) : retired[k] \in Nat /\ retired[k] <= now
    /\ \A c \in cards :
          /\ c.key \in 1..key /\ c.iat \in Nat
          /\ c.iat <= now
          /\ c.key < key => c.iat <= retired[c.key]

\* What a resolve accepted was young when it did.
FadesInv ==
    /\ CardTypes
    /\ accepted # None =>
          /\ accepted.card.key \in 1..key
          /\ accepted.at \in Nat /\ accepted.at <= now
    /\ RetiredKeyFades

\* The pin in memory is the one in the file, and the key that was accepted,
\* unless a save failed.
PinInv ==
    /\ CardTypes
    /\ pin \in 1..LastKey \cup {None} /\ trusted \in 1..LastKey \cup {None}
    /\ file \in 1..LastKey \cup {None}
    /\ ~ unsaved => pin = file /\ (trusted # None => pin = trusted)

--------------------------------------------------------------------------------
\* A card that verifies is one that the peer registered.
LEMMA OnlyRegistered ==
    ASSUME NEW card \in Served, VerifiedCard(card)
    PROVE  card \in cards /\ card.iat >= now - MaxAge
BY DEF Served, VerifiedCard, Verifies, FreshIat

LEMMA CardTypesStep == CardTypes /\ [CardsNext]_cardsVars => CardTypes'
<1> SUFFICES ASSUME CardTypes, [CardsNext]_cardsVars PROVE CardTypes'
  OBVIOUS
<1> USE CardsAssumption DEF CardTypes, peer
<1>1. CASE Register
  BY <1>1 DEF Register
<1>2. CASE Rotate
  BY <1>2 DEF Rotate
<1>3. CASE Tick
  BY <1>3 DEF Tick
<1>4. CASE UNCHANGED peer
  BY <1>4
<1> QED
  BY <1>1, <1>2, <1>3, <1>4 DEF CardsNext, cardsVars, ResolvePinned, ResolveFirst,
     ResolveFirstSaveFails, ResolveChanged, ResolveRefused, Forget, ForgetSaveFails, Restart

LEMMA FadesStep == FadesInv /\ [CardsNext]_cardsVars => FadesInv'
<1> SUFFICES ASSUME FadesInv, [CardsNext]_cardsVars PROVE FadesInv'
  OBVIOUS
<1>1. CardTypes /\ CardTypes'
  BY CardTypesStep DEF FadesInv
<1> USE PolicyAssumption, CardsAssumption DEF FadesInv, RetiredKeyFades, peer, history
<1>2. ASSUME NEW card \in Served, VerifiedCard(card), Accept(card), UNCHANGED peer PROVE FadesInv'
  <2>1. /\ card.key \in 1..key /\ card.iat \in Nat
        /\ card.key < key => card.iat <= retired[card.key]
        /\ card.iat >= now - MaxAge
    BY <1>1, <1>2, OnlyRegistered DEF CardTypes
  <2>2. accepted' = [card |-> card, at |-> now]
    BY <1>2 DEF Accept
  <2>3. card.key # key => retired[card.key] >= now - MaxAge
    BY <1>1, <2>1 DEF CardTypes
  <2> QED
    BY <1>1, <1>2, <2>1, <2>2, <2>3 DEF CardTypes
<1>3. ASSUME NEW card \in Served, ResolvePinned(card) \/ ResolveFirst(card) PROVE FadesInv'
  BY <1>2, <1>3 DEF ResolvePinned, ResolveFirst
<1>4. CASE accepted' = None
  BY <1>1, <1>4
<1>5. CASE Rotate
  BY <1>1, <1>5 DEF Rotate, CardTypes
<1>6. CASE Tick
  BY <1>1, <1>6 DEF Tick, CardTypes
<1>7. CASE UNCHANGED <<now, key, retired, accepted>>
  BY <1>1, <1>7
<1> QED
  BY <1>3, <1>4, <1>5, <1>6, <1>7 DEF CardsNext, cardsVars, Register, 
     ResolveFirstSaveFails, ResolveChanged, ResolveRefused, Forget, ForgetSaveFails, Restart

LEMMA PinStep ==
    ASSUME PinInv, [CardsNext]_cardsVars
    PROVE  PinInv' /\ (trusted # None /\ trusted' # None /\ ~ unsaved => trusted' = trusted)
<1> DEFINE Goal ==
      PinInv' /\ (trusted # None /\ trusted' # None /\ ~ unsaved => trusted' = trusted)
<1>1. CardTypes'
  BY CardTypesStep DEF PinInv
<1> USE CardsAssumption DEF PinInv
<1>2. ASSUME NEW card \in Served, VerifiedCard(card)
      PROVE  card.key \in 1..LastKey /\ card.key # None
  BY <1>2, OnlyRegistered DEF CardTypes
<1>3. ASSUME NEW card \in Served, ResolvePinned(card) PROVE Goal
  BY <1>1, <1>2, <1>3 DEF ResolvePinned, Accept
<1>4. ASSUME NEW card \in Served, ResolveFirst(card) PROVE Goal
  BY <1>1, <1>2, <1>4 DEF ResolveFirst, Accept
<1>5. ASSUME NEW card \in Served, ResolveFirstSaveFails(card) PROVE Goal
  BY <1>1, <1>2, <1>5 DEF ResolveFirstSaveFails
<1>6. CASE Forget \/ ForgetSaveFails \/ Restart
  BY <1>1, <1>6 DEF Forget, ForgetSaveFails, Restart
<1>7. CASE UNCHANGED <<pin, file, trusted, unsaved>>
  BY <1>1, <1>7
<1> QED
  BY <1>3, <1>4, <1>5, <1>6, <1>7
  DEF CardsNext, cardsVars, history, Register, Rotate, Tick, ResolveChanged, ResolveRefused

\* A client that has no pin cannot be given a key that the peer gave up longer
\* ago than a card may be old, whatever the host serves.
THEOREM OldKeysFade == CardsSpec => []RetiredKeyFades
<1>1. CardsInit => FadesInv
  BY CardsAssumption DEF CardsInit, FadesInv, CardTypes, RetiredKeyFades
<1>2. FadesInv => RetiredKeyFades
  BY DEF FadesInv
<1> QED
  BY <1>1, <1>2, FadesStep, PTL DEF CardsSpec

\* A pinned key stays the one that is accepted until the pin is forgotten, over
\* restarts, for any number of keys and cards.
THEOREM PinsFailClosed == CardsSpec => ChangedKeyFailsClosed
<1>1. CardsInit => PinInv
  BY CardsAssumption DEF CardsInit, PinInv, CardTypes
<1>2. PinInv /\ [CardsNext]_cardsVars => PinInv'
  BY PinStep
<1>3. PinInv /\ [CardsNext]_cardsVars =>
        [trusted # None /\ trusted' # None /\ ~ unsaved => trusted' = trusted]_cardsVars
  BY PinStep
<1> QED
  BY <1>1, <1>2, <1>3, PTL DEF CardsSpec, ChangedKeyFailsClosed
================================================================================
