-------------------------- MODULE ReplayCacheProofs --------------------------
(***************************************************************************)
(* What the replay cache gives for every set of envelopes, every time-to-  *)
(* live, age limit and clock skew, proved from three assumptions: the      *)
(* constants are of their types, a signature verifies over one content     *)
(* only, and the cache has a file behind it; and what follows from it for  *)
(* the chat gate that uses the cache.                                      *)
(***************************************************************************)
EXTENDS InboundChat, TLAPS

\* A timestamp in whole seconds is an integer, at most a second behind.
LEMMA WholeSecondsBounds ==
    ASSUME NEW t \in Int
    PROVE  /\ WholeSeconds(t) \in Int
           /\ WholeSeconds(t) <= t
           /\ t < WholeSeconds(t) + Second
BY PolicyAssumption DEF WholeSeconds

\* Pruning keeps a dict from keys to instants one, and only removes entries.
LEMMA PruneType ==
    ASSUME NEW d, DOMAIN d \subseteq Key, d \in [DOMAIN d -> Int], NEW t \in Int
    PROVE  /\ DOMAIN Prune(d, t) \subseteq Key
           /\ Prune(d, t) \in [DOMAIN Prune(d, t) -> Int]
           /\ DOMAIN Prune(d, t) \subseteq DOMAIN d
           /\ \A k \in DOMAIN Prune(d, t) : Prune(d, t)[k] = d[k]
           /\ \A k \in DOMAIN d : d[k] > t - Ttl => k \in DOMAIN Prune(d, t)
BY CacheAssumption DEF Prune

\* Storing a key keeps every other entry and adds one for the key itself.
LEMMA RememberType ==
    ASSUME NEW d, DOMAIN d \subseteq Key, d \in [DOMAIN d -> Int],
           NEW k \in Key, NEW t \in Int
    PROVE  /\ DOMAIN Remember(d, k, t) = DOMAIN d \cup {k}
           /\ Remember(d, k, t) \in [DOMAIN Remember(d, k, t) -> Int]
           /\ Remember(d, k, t)[k] = WholeSeconds(t)
           /\ \A j \in DOMAIN d : j # k => Remember(d, k, t)[j] = d[j]
BY WholeSecondsBounds DEF Remember

\* What check_and_store leaves in memory for an envelope it accepts.
LEMMA StoredType ==
    ASSUME TypeOK, NEW e \in Envelope
    PROVE  /\ ReplayKey(e) \in Key
           /\ DOMAIN Stored(e) \subseteq Key
           /\ Stored(e) \in [DOMAIN Stored(e) -> Int]
           /\ DOMAIN Stored(e) = DOMAIN Prune(seen, now) \cup {ReplayKey(e)}
           /\ Stored(e)[ReplayKey(e)] = WholeSeconds(now)
           /\ \A j \in DOMAIN Prune(seen, now) :
                 j # ReplayKey(e) => Stored(e)[j] = Prune(seen, now)[j]
<1> DEFINE p == Prune(seen, now)
           k == ReplayKey(e)
<1>1. k \in Key /\ now \in Int
  BY DEF Key, TypeOK
<1>2. DOMAIN p \subseteq Key /\ p \in [DOMAIN p -> Int]
  BY <1>1, PruneType DEF TypeOK
<1> HIDE DEF p, k
<1>3. /\ DOMAIN Remember(p, k, now) = DOMAIN p \cup {k}
      /\ Remember(p, k, now) \in [DOMAIN Remember(p, k, now) -> Int]
      /\ Remember(p, k, now)[k] = WholeSeconds(now)
      /\ \A j \in DOMAIN p : j # k => Remember(p, k, now)[j] = p[j]
  BY <1>1, <1>2, RememberType
<1>4. Stored(e) = Remember(p, k, now)
  BY DEF Stored, p, k
<1> QED
  BY <1>1, <1>2, <1>3, <1>4 DEF p, k

\* Every variable keeps its type: in particular the dict, whatever is pruned,
\* stored, saved or read back, maps replay keys to instants.
THEOREM TypeCorrect == Spec => []TypeOK
<1>1. Init => TypeOK
  BY CacheAssumption DEF Init, TypeOK, EmptyDict
<1>2. TypeOK /\ [Next]_vars => TypeOK'
  <2> SUFFICES ASSUME TypeOK, [Next]_vars PROVE TypeOK'
    OBVIOUS
  <2> now \in Int
    BY DEF TypeOK
  <2>2. ASSUME NEW e \in Envelope, Pass(e) \/ SaveFails(e) \/ DieAfterSave(e)
        PROVE  TypeOK'
    <3>1. /\ seen' = Stored(e)
          /\ file' \in {file, Stored(e)}
          /\ interrupted' \in {interrupted, interrupted \cup {ReplayKey(e)}}
          /\ now' = now
      BY <2>2 DEF Pass, SaveFails, DieAfterSave
    <3>2. passes' \in [Key -> Nat] /\ lastPass' \in [Key -> Nat]
      BY <2>2, StoredType, CacheAssumption DEF TypeOK, Pass, SaveFails, DieAfterSave
    <3> QED
      BY <3>1, <3>2, StoredType DEF TypeOK
  <2>3. CASE \E e \in Envelope : RefuseReplay(e)
    BY <2>3, PruneType DEF TypeOK, RefuseReplay
  <2>4. CASE Restart
    BY <2>4 DEF TypeOK, Restart, EmptyDict
  <2>5. CASE Tick
    BY <2>5, CacheAssumption DEF TypeOK, Tick
  <2>6. CASE UNCHANGED vars
    BY <2>6 DEF TypeOK, vars
  <2> QED
    BY <2>2, <2>3, <2>4, <2>5, <2>6 DEF Next
<1> QED
  BY <1>1, <1>2, PTL DEF Spec

--------------------------------------------------------------------------------
(***************************************************************************)
(* AtMostOnce is not inductive: it says nothing of what the cache holds.   *)
(* Two facts carry it.  PassedIsRemembered keeps a key from passing again  *)
(* before its entry is ttl_seconds old; PassedInWindow says that the one   *)
(* envelope that can pass under a key was inside its window when it did,   *)
(* so that past the time-to-live, when that covers the window, it is stale.*)
(***************************************************************************)
PassedInWindow ==
    \A k \in Key : passes[k] > 0 =>
        \E e \in Envelope :
            /\ e.authentic /\ ReplayKey(e) = k
            /\ e.iat <= lastPass[k] + FutureSkew

CacheInv == TypeOK /\ PassedIsRemembered /\ PassedInWindow

LEMMA InitCacheInv == Init => CacheInv
BY CacheAssumption
   DEF Init, CacheInv, TypeOK, EmptyDict, PassedIsRemembered, PassedInWindow

\* What a dict must hold for a set of recorded passes.
Holds(d, k) == k \in DOMAIN d /\ d[k] >= WholeSeconds(lastPass[k])

Young(k) == passes[k] > 0 /\ now - WholeSeconds(lastPass[k]) < Ttl

\* A young key is held by the pruned cache, and so by the stored one.
LEMMA YoungIsHeld ==
    ASSUME CacheInv, NEW k \in Key, Young(k)
    PROVE  /\ Holds(Prune(seen, now), k)
           /\ \A e \in Envelope : Unseen(e) => ReplayKey(e) # k /\ Holds(Stored(e), k)
<1> USE DEF CacheInv
<1>1. now \in Int /\ lastPass[k] \in Int /\ Ttl \in Int
  BY CacheAssumption DEF TypeOK
<1>2. WholeSeconds(lastPass[k]) \in Int
  BY <1>1, WholeSecondsBounds
<1>3. k \in DOMAIN seen /\ seen[k] >= WholeSeconds(lastPass[k]) /\ seen[k] \in Int
  BY DEF PassedIsRemembered, Young, TypeOK
<1>4. seen[k] > now - Ttl
  BY <1>1, <1>2, <1>3 DEF Young
<1>5. Holds(Prune(seen, now), k)
  BY <1>1, <1>3, <1>4, PruneType DEF Holds, TypeOK
<1>6. ASSUME NEW e \in Envelope, Unseen(e)
      PROVE  ReplayKey(e) # k /\ Holds(Stored(e), k)
  <2>1. ReplayKey(e) # k
    BY <1>5, <1>6 DEF Unseen, Holds
  <2> QED
    BY <1>5, <2>1, StoredType DEF Holds
<1> QED
  BY <1>5, <1>6

\* Every step keeps CacheInv.  Only Pass records a pass; the other actions can
\* only disturb what memory and file hold, or age it.
LEMMA NextCacheInv ==
    ASSUME Backed, CacheInv, [Next]_vars, TypeOK'
    PROVE  CacheInv'
<1> USE DEF CacheInv
<1>0. now \in Int /\ Ttl \in Int /\ \A k \in Key : WholeSeconds(lastPass[k]) \in Int
  BY CacheAssumption, WholeSecondsBounds DEF TypeOK
<1>1. ASSUME NEW e \in Envelope, Pass(e)
      PROVE  PassedIsRemembered' /\ PassedInWindow'
  <2>1. ReplayKey(e) \in Key
    BY StoredType
  <2>2. /\ seen' = Stored(e) /\ file' = Stored(e) /\ now' = now
        /\ passes' = [passes EXCEPT ![ReplayKey(e)] = @ + 1]
        /\ lastPass' = [lastPass EXCEPT ![ReplayKey(e)] = now]
    BY <1>1 DEF Pass
  <2>3. PassedIsRemembered'
    <3> SUFFICES ASSUME NEW k \in Key,
                        passes'[k] > 0, now' - WholeSeconds(lastPass'[k]) < Ttl
                 PROVE  k \in DOMAIN Stored(e) /\ Stored(e)[k] >= WholeSeconds(lastPass'[k])
      BY <2>2 DEF PassedIsRemembered
    <3>1. CASE k = ReplayKey(e)
      <4>1. lastPass'[k] = now
        BY <2>1, <2>2, <3>1 DEF TypeOK
      <4>2. k \in DOMAIN Stored(e) /\ Stored(e)[k] = WholeSeconds(now)
        BY <3>1, StoredType
      <4> QED
        BY <1>0, <4>1, <4>2, WholeSecondsBounds
    <3>2. CASE k # ReplayKey(e)
      <4>1. lastPass'[k] = lastPass[k] /\ passes'[k] = passes[k]
        BY <2>1, <2>2, <3>2 DEF TypeOK
      <4>2. Young(k)
        BY <2>2, <4>1 DEF Young
      <4>3. Holds(Stored(e), k)
        BY <1>1, <4>2, YoungIsHeld DEF Pass
      <4> QED
        BY <4>1, <4>3 DEF Holds
    <3> QED
      BY <3>1, <3>2
  <2>4. PassedInWindow'
    <3> SUFFICES ASSUME NEW k \in Key, passes'[k] > 0
                 PROVE  \E d \in Envelope :
                           /\ d.authentic /\ ReplayKey(d) = k
                           /\ d.iat <= lastPass'[k] + FutureSkew
      BY DEF PassedInWindow
    <3>1. CASE k = ReplayKey(e)
      BY <1>1, <2>1, <2>2, <3>1 DEF TypeOK, Pass, Verifies, FreshIat
    <3>2. CASE k # ReplayKey(e)
      BY <2>1, <2>2, <3>2 DEF TypeOK, PassedInWindow
    <3> QED
      BY <3>1, <3>2
  <2> QED
    BY <2>3, <2>4
<1>2. ASSUME UNCHANGED <<passes, lastPass>>
      PROVE  PassedInWindow'
  BY <1>2 DEF PassedInWindow
<1>3. ASSUME NEW e \in Envelope, SaveFails(e) \/ DieAfterSave(e)
      PROVE  PassedIsRemembered'
  <2>1. /\ seen' = Stored(e) /\ file' \in {file, Stored(e)}
        /\ UNCHANGED <<now, passes, lastPass>> /\ Unseen(e)
    BY <1>3 DEF SaveFails, DieAfterSave
  <2> SUFFICES ASSUME NEW k \in Key, Young(k)
               PROVE  Holds(Stored(e), k) /\ Holds(file, k)
    BY <2>1 DEF PassedIsRemembered, Young, Holds
  <2> QED
    BY <2>1, YoungIsHeld DEF PassedIsRemembered, Young, Holds
<1>4. ASSUME NEW e \in Envelope, RefuseReplay(e)
      PROVE  PassedIsRemembered'
  <2>1. seen' = Prune(seen, now) /\ UNCHANGED <<now, file, passes, lastPass>>
    BY <1>4 DEF RefuseReplay
  <2> SUFFICES ASSUME NEW k \in Key, Young(k)
               PROVE  Holds(Prune(seen, now), k) /\ Holds(file, k)
    BY <2>1 DEF PassedIsRemembered, Young, Holds
  <2> QED
    BY YoungIsHeld DEF PassedIsRemembered, Young, Holds
<1>5. CASE Restart
  BY <1>5, <1>2 DEF Restart, PassedIsRemembered
<1>6. CASE Tick
  BY <1>6, <1>2, <1>0 DEF Tick, PassedIsRemembered
<1>7. CASE UNCHANGED vars
  BY <1>7, <1>2 DEF vars, PassedIsRemembered
<1>8. ASSUME NEW e \in Envelope, SaveFails(e) \/ DieAfterSave(e) \/ RefuseReplay(e)
      PROVE  PassedInWindow'
  BY <1>2, <1>8 DEF SaveFails, DieAfterSave, RefuseReplay
<1> QED
  BY <1>1, <1>3, <1>4, <1>5, <1>6, <1>7, <1>8 DEF Next

\* The invariant that carries the results below holds in every reachable state.
THEOREM Invariant == ASSUME Backed PROVE Spec => []CacheInv
<1>1. CacheInv /\ [Next]_vars /\ TypeOK' => CacheInv'
  BY NextCacheInv
<1> QED
  BY <1>1, InitCacheInv, TypeCorrect, PTL DEF Spec

\* An envelope that got through stays known, in memory and in the file, for
\* ttl_seconds: for every set of envelopes and every clock.
THEOREM PassedStaysRemembered == ASSUME Backed PROVE Spec => []PassedIsRemembered
<1>1. CacheInv => PassedIsRemembered
  BY DEF CacheInv
<1> QED
  BY <1>1, Invariant, PTL

\* Two passes under one key are ttl_seconds apart, whatever the age limit: this
\* holds of the default cache too.
THEOREM SpacedPasses == ASSUME Backed PROVE Spec => PassesAreSpaced
<1>1. ASSUME CacheInv, [Next]_vars, NEW k \in Key, passes[k] > 0, passes'[k] # passes[k]
      PROVE  now - WholeSeconds(lastPass[k]) >= Ttl
  <2>1. PICK e \in Envelope : Pass(e) /\ ReplayKey(e) = k
    <3>1. PICK e \in Envelope : Pass(e)
      BY <1>1 DEF Next, RefuseReplay, SaveFails, DieAfterSave, Restart, Tick, vars
    <3> QED
      BY <1>1, <3>1 DEF Pass, CacheInv, TypeOK
  <2>2. ~ Young(k)
    BY <1>1, <2>1, YoungIsHeld DEF Pass
  <2>3. now \in Int /\ lastPass[k] \in Int /\ Ttl \in Int
    BY <1>1, CacheAssumption DEF CacheInv, TypeOK
  <2> QED
    BY <1>1, <2>2, <2>3, WholeSecondsBounds DEF Young
<1>2. CacheInv /\ [Next]_vars =>
        [\A k \in Key : passes[k] > 0 /\ passes'[k] # passes[k]
            => now - WholeSeconds(lastPass[k]) >= Ttl]_vars
  BY <1>1
<1> QED
  BY <1>2, Invariant, PTL DEF Spec, PassesAreSpaced

\* A key that has passed is not passed again when the ttl covers the window: by
\* the time its entry is gone, the only envelope that verifies is too old.
LEMMA PassOnlyFirst ==
    ASSUME Backed, TtlCoversWindow, CacheInv, NEW e \in Envelope, Pass(e)
    PROVE  passes[ReplayKey(e)] = 0
<1> DEFINE k == ReplayKey(e)
<1>1. k \in Key /\ passes[k] \in Nat /\ lastPass[k] \in Int /\ now \in Int
  <2>1. ReplayKey(e) \in Key
    BY DEF Key
  <2> QED
    BY <2>1 DEF CacheInv, TypeOK
<1> SUFFICES ASSUME passes[k] > 0 PROVE FALSE
  BY <1>1
<1>2. ~ Young(k)
  BY <1>1, YoungIsHeld DEF Pass
<1>3. PICK d \in Envelope : d.authentic /\ ReplayKey(d) = k /\ d.iat <= lastPass[k] + FutureSkew
  BY <1>1 DEF CacheInv, PassedInWindow
<1>4. d = e
  BY <1>3, SignatureBinds DEF Pass, Verifies
<1>5. e.iat >= now - MaxAge /\ e.iat \in Int
  BY CacheAssumption DEF Pass, Verifies, FreshIat
<1>6. WholeSeconds(lastPass[k]) \in Int /\ lastPass[k] < WholeSeconds(lastPass[k]) + Second
  BY <1>1, WholeSecondsBounds
<1> HIDE DEF k
<1> QED
  BY <1>1, <1>2, <1>3, <1>4, <1>5, <1>6, PolicyAssumption, CacheAssumption
     DEF Young, TtlCoversWindow

\* No envelope gets through twice, across restarts and failed saves, when the
\* cache's ttl covers the acceptance window of an envelope.
THEOREM NeverTwice == ASSUME Backed, TtlCoversWindow PROVE Spec => []AtMostOnce
<1>1. Init => AtMostOnce
  BY DEF Init, AtMostOnce
<1>2. CacheInv /\ AtMostOnce /\ [Next]_vars => AtMostOnce'
  <2> SUFFICES ASSUME CacheInv, AtMostOnce, [Next]_vars PROVE AtMostOnce'
    OBVIOUS
  <2>1. ASSUME NEW e \in Envelope, Pass(e) PROVE AtMostOnce'
    <3>1. passes[ReplayKey(e)] = 0
      BY <2>1, PassOnlyFirst
    <3>2. passes' = [passes EXCEPT ![ReplayKey(e)] = @ + 1]
      BY <2>1 DEF Pass
    <3>3. passes \in [Key -> Nat]
      BY DEF CacheInv, TypeOK
    <3> QED
      BY <3>1, <3>2, <3>3 DEF AtMostOnce
  <2>2. CASE UNCHANGED passes
    BY <2>2 DEF AtMostOnce
  <2> QED
    BY <2>1, <2>2 DEF Next, RefuseReplay, SaveFails, DieAfterSave, Restart, Tick, vars
<1> QED
  BY <1>1, <1>2, Invariant, PTL DEF Spec

\* The detailed cache implements the abstract promise: a Pass is an abstract
\* Pass, every other step stutters.
THEOREM Refinement == ASSUME Backed, TtlCoversWindow PROVE Spec => ImplementsOnceOnly
<1>1. Init => Once!Init
  BY DEF Init, Once!Init
<1>2. CacheInv /\ [Next]_vars => [Once!Next]_passes
  <2> SUFFICES ASSUME CacheInv, [Next]_vars PROVE [Once!Next]_passes
    OBVIOUS
  <2>1. ASSUME NEW e \in Envelope, Pass(e) PROVE Once!Next
    <3>1. ReplayKey(e) \in Key /\ passes[ReplayKey(e)] = 0
      BY <2>1, PassOnlyFirst, StoredType DEF CacheInv
    <3>2. Once!Pass(ReplayKey(e))
      BY <2>1, <3>1 DEF Pass, Once!Pass
    <3> QED
      BY <3>1, <3>2 DEF Once!Next
  <2> QED
    BY <2>1 DEF Next, RefuseReplay, SaveFails, DieAfterSave, Restart, Tick, vars
<1> QED
  BY <1>1, <1>2, Invariant, PTL DEF Spec, ImplementsOnceOnly, Once!Spec

--------------------------------------------------------------------------------
\* A key is remembered, in memory or on file, only because its envelope passed
\* or its handler was interrupted: what fails the signature or the timestamp
\* uses up nothing, with a file or without one.
THEOREM NothingElseBurns == Spec => []OnlyInterruptionsBurn
<1>1. Init => OnlyInterruptionsBurn
  BY DEF Init, OnlyInterruptionsBurn, EmptyDict
<1>2. TypeOK /\ OnlyInterruptionsBurn /\ [Next]_vars => OnlyInterruptionsBurn'
  <2> SUFFICES ASSUME TypeOK, OnlyInterruptionsBurn, [Next]_vars PROVE OnlyInterruptionsBurn'
    OBVIOUS
  <2>1. now \in Int
    BY DEF TypeOK
  <2>2. ASSUME NEW e \in Envelope, Pass(e) \/ SaveFails(e) \/ DieAfterSave(e)
        PROVE  OnlyInterruptionsBurn'
    <3> DEFINE k == ReplayKey(e)
    <3>1. k \in Key /\ DOMAIN Stored(e) \subseteq DOMAIN seen \cup {k}
      <4>1. DOMAIN Prune(seen, now) \subseteq DOMAIN seen
        BY DEF Prune
      <4> QED
        BY <4>1, StoredType
    <3>2. /\ DOMAIN seen' \subseteq DOMAIN seen \cup {k}
          /\ DOMAIN file' \subseteq DOMAIN seen \cup DOMAIN file \cup {k}
      BY <2>2, <3>1 DEF Pass, SaveFails, DieAfterSave
    <3>3. /\ passes'[k] > 0 \/ k \in interrupted'
          /\ \A j \in Key : passes[j] > 0 => passes'[j] > 0
          /\ interrupted \subseteq interrupted'
      BY <2>2, <3>1 DEF Pass, SaveFails, DieAfterSave, TypeOK
    <3>4. DOMAIN seen \subseteq Key /\ DOMAIN file \subseteq Key
      BY DEF TypeOK
    <3> HIDE DEF k
    <3> QED
      BY <3>2, <3>3, <3>4 DEF OnlyInterruptionsBurn
  <2>3. CASE \E e \in Envelope : RefuseReplay(e)
    BY <2>1, <2>3, PruneType DEF RefuseReplay, OnlyInterruptionsBurn, TypeOK
  <2>4. CASE Restart
    BY <2>4 DEF Restart, EmptyDict, OnlyInterruptionsBurn
  <2>5. CASE Tick \/ UNCHANGED vars
    BY <2>5 DEF Tick, vars, OnlyInterruptionsBurn
  <2> QED
    BY <2>2, <2>3, <2>4, <2>5 DEF Next
<1> QED
  BY <1>1, <1>2, TypeCorrect, PTL DEF Spec

--------------------------------------------------------------------------------
\* To the cache, the chat gate is one more caller of validate_inbound_envelope:
\* whatever holds of the receiver holds of it.
LEMMA ChatUsesTheCache == ChatSpec => Spec
<1>1. ChatInit => Init
  BY DEF ChatInit
<1>2. [ChatNext]_chatVars => [Next]_vars
  BY ChatAssumption DEF ChatNext, chatVars, ReceiveChat, GateStops, RelationshipChange, Next
<1> QED
  BY <1>1, <1>2, PTL DEF ChatSpec, Spec

\* OneVerdict is not inductive: what is missing is that an envelope that has not
\* passed has no verdict, so that its only pass brings the only one.
VerdictNeedsPass ==
    /\ DOMAIN verdicts = Key
    /\ \A k \in Key : passes[k] = 0 => verdicts[k] = {}

\* A message gets one verdict for good, whatever handshakes and revokes change
\* between its deliveries, when the cache's ttl covers the acceptance window.
THEOREM VerdictsAreFinal == ASSUME Backed, TtlCoversWindow PROVE ChatSpec => []OneVerdict
<1> DEFINE Inv == VerdictNeedsPass /\ OneVerdict
<1>1. ChatInit => Inv
  BY DEF ChatInit, VerdictNeedsPass, OneVerdict
<1>2. CacheInv /\ Inv /\ [ChatNext]_chatVars => Inv'
  <2> SUFFICES ASSUME CacheInv, VerdictNeedsPass, OneVerdict, [ChatNext]_chatVars PROVE Inv'
    OBVIOUS
  <2>1. ASSUME NEW d \in Delivery, ReceiveChat(d) PROVE Inv'
    <3> DEFINE k == ReplayKey(d.env)
    <3>1. d.env \in Envelope /\ Pass(d.env)
      BY <2>1, ChatAssumption DEF ReceiveChat
    <3>2. k \in Key /\ passes[k] = 0
      BY <3>1, PassOnlyFirst DEF Key
    <3>3. /\ passes' = [passes EXCEPT ![k] = @ + 1] /\ passes \in [Key -> Nat]
          /\ verdicts' = [verdicts EXCEPT ![k] = @ \cup {Verdict(d.env)}]
      BY <2>1, <3>1 DEF ReceiveChat, Pass, CacheInv, TypeOK
    <3> DEFINE v == Verdict(d.env)
    <3> HIDE DEF k, v
    <3>4. verdicts' = [verdicts EXCEPT ![k] = {v}]
      BY <3>2, <3>3 DEF VerdictNeedsPass, v
    <3>5. \A j \in Key : j # k => passes'[j] = passes[j] /\ verdicts'[j] = verdicts[j]
      BY <3>3, <3>4 DEF VerdictNeedsPass
    <3>6. passes'[k] = 1 /\ verdicts'[k] = {v} /\ DOMAIN verdicts' = Key
      BY <3>2, <3>3, <3>4 DEF VerdictNeedsPass
    <3> QED
      BY <3>5, <3>6 DEF VerdictNeedsPass, OneVerdict
  <2>2. CASE UNCHANGED <<passes, verdicts>>
    BY <2>2 DEF VerdictNeedsPass, OneVerdict
  <2> QED
    BY <2>1, <2>2
       DEF ChatNext, chatVars, GateStops, RelationshipChange, RefuseReplay, SaveFails,
           DieAfterSave, Restart, Tick, vars
<1>3. ChatSpec => []CacheInv
  BY ChatUsesTheCache, Invariant, PTL
<1> QED
  BY <1>1, <1>2, <1>3, PTL DEF ChatSpec
==============================================================================
