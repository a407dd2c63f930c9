------------------------ MODULE ServiceCatalogProofs ------------------------
(***************************************************************************)
(* How old a catalog from the cache can be, and why overlapping fetches do *)
(* not turn the cache back, for every set of tasks and catalogs, every     *)
(* lifetime and every bound on the key resolver's delay.                   *)
(***************************************************************************)
EXTENDS ServiceCatalog, TLAPS

Copies == [catalog : Catalog, at : Nat, served : Nat]

NoneIsNoCopy == None \notin Copies

\* A copy was on the server when it counts as fetched, or no longer before than
\* its verification took.
Timed(copy) ==
    /\ copy \in Copies
    /\ copy.served <= copy.at /\ copy.at <= copy.served + MaxDelay
    /\ copy.at <= now

\* What the cache and the tasks may hold.
Types ==
    /\ now \in Nat /\ remote \in Catalog
    /\ mem # None => Timed(mem)
    /\ disk # None => Timed(disk)
    /\ DOMAIN phase = Task /\ DOMAIN body = Task
    /\ \A t \in Task :
          /\ phase[t] \in {"loading", "verifying", "storing"} => Timed(body[t])
          /\ phase[t] = "verifying" => now <= body[t].served + MaxDelay

AgeInv == Types /\ StalenessBounded

\* One task loads the file at a time, and memory is empty meanwhile.
OneLoads ==
    \A t \in Task : phase[t] = "loading" =>
        /\ mem = None /\ body[t] = disk
        /\ \A u \in Task : phase[u] = "loading" => u = t

\* Nothing that is to be stored is older than what is there.
StoresNewer ==
    \A t \in Task : phase[t] = "storing" =>
        /\ mem # None => mem.at <= body[t].at
        /\ disk # None => disk.at <= body[t].at

GrowInv == Types /\ OneLoads /\ StoresNewer

--------------------------------------------------------------------------------
LEMMA TypesStep == Types /\ [Next]_vars => Types'
<1> SUFFICES ASSUME Types, [Next]_vars PROVE Types'
  OBVIOUS
<1> USE CatalogAssumption DEF Types, Timed, Copies, Goes, FromCache
<1>1. ASSUME NEW t \in Task, Get(t) \/ Refresh(t) PROVE Types'
  BY <1>1 DEF Get, Refresh
<1>2. ASSUME NEW t \in Task, GetHits(t) \/ GetLoads(t) \/ GetFetches(t) PROVE Types'
  BY <1>2 DEF GetHits, GetLoads, GetFetches
<1>3. ASSUME NEW t \in Task, LoadHits(t) \/ LoadMisses(t) PROVE Types'
  BY <1>3 DEF LoadHits, LoadMisses
<1>4. ASSUME NEW t \in Task, Arrives(t) PROVE Types'
  BY <1>4 DEF Arrives
<1>5. ASSUME NEW t \in Task, RefreshFails(t) PROVE Types'
  BY <1>5 DEF RefreshFails
<1>6. ASSUME NEW t \in Task, Verified(t) PROVE Types'
  BY <1>6 DEF Verified
<1>7. ASSUME NEW t \in Task, Store(t) \/ StoreUnsaved(t) PROVE Types'
  BY <1>7 DEF Store, StoreUnsaved, FirstToStore
<1>8. CASE Restart
  BY <1>8 DEF Restart
<1>9. CASE RemoteChanges
  BY <1>9 DEF RemoteChanges, tasks
<1>10. CASE Tick
  BY <1>10 DEF Tick, tasks
<1>11. CASE UNCHANGED vars
  BY <1>11 DEF vars, tasks
<1> HIDE DEF Types
<1> QED
  BY <1>1, <1>2, <1>3, <1>4, <1>5, <1>6, <1>7, <1>8, <1>9, <1>10, <1>11 DEF Next, Step

\* Only a copy that is young for its time of fetch comes from the cache.
LEMMA AgeStep == AgeInv /\ [Next]_vars => AgeInv'
<1> SUFFICES ASSUME AgeInv, [Next]_vars PROVE StalenessBounded'
  BY TypesStep DEF AgeInv
<1>1. ASSUME NEW copy, Timed(copy), IsFresh(copy), hit' = now - copy.served
      PROVE  StalenessBounded'
  BY <1>1, CatalogAssumption DEF AgeInv, Types, Timed, Copies, IsFresh, StalenessBounded
<1>2. ASSUME NEW t \in Task, GetHits(t) PROVE StalenessBounded'
  BY <1>1, <1>2 DEF GetHits, FromCache, IsFresh, AgeInv, Types
<1>3. ASSUME NEW t \in Task, LoadHits(t) PROVE StalenessBounded'
  BY <1>1, <1>3 DEF LoadHits, FromCache, AgeInv, Types
<1>4. CASE UNCHANGED hit
  BY <1>4 DEF AgeInv, StalenessBounded
<1>5. CASE Restart
  BY <1>5 DEF Restart, StalenessBounded
<1> QED
  BY <1>2, <1>3, <1>4, <1>5
  DEF Next, Step, Get, Refresh, GetLoads, GetFetches, LoadMisses, Arrives, RefreshFails,
      Verified, Store, StoreUnsaved, RemoteChanges, Tick, vars

\* A step keeps the times in order, and so turns neither copy back.
LEMMA GrowStep ==
    ASSUME NoneIsNoCopy, GrowInv, [Next]_vars
    PROVE  /\ GrowInv'
           /\ mem # None /\ mem' # None => mem'.at >= mem.at
           /\ disk # None => disk' # None /\ disk'.at >= disk.at
<1> DEFINE Goal == /\ OneLoads' /\ StoresNewer'
                   /\ mem # None /\ mem' # None => mem'.at >= mem.at
                   /\ disk # None => disk' # None /\ disk'.at >= disk.at
<1>1. Types'
  BY TypesStep DEF GrowInv
<1> USE CatalogAssumption
    DEF NoneIsNoCopy, GrowInv, Types, Timed, Copies, OneLoads, StoresNewer, Goes, FromCache
<1>2. ASSUME NEW t \in Task, Get(t) \/ Refresh(t) PROVE Goal
  BY <1>2 DEF Get, Refresh
<1>3. ASSUME NEW t \in Task, GetHits(t) \/ GetLoads(t) \/ GetFetches(t) PROVE Goal
  BY <1>3 DEF GetHits, GetLoads, GetFetches, Locked
<1>4. ASSUME NEW t \in Task, LoadHits(t) \/ LoadMisses(t) PROVE Goal
  BY <1>4 DEF LoadHits, LoadMisses
<1>5. ASSUME NEW t \in Task, Arrives(t) PROVE Goal
  BY <1>5 DEF Arrives
<1>6. ASSUME NEW t \in Task, RefreshFails(t) PROVE Goal
  BY <1>6 DEF RefreshFails
<1>7. ASSUME NEW t \in Task, Verified(t) PROVE Goal
  BY <1>7 DEF Verified
<1>8. ASSUME NEW t \in Task, Store(t) \/ StoreUnsaved(t) PROVE Goal
  BY <1>8 DEF Store, StoreUnsaved, FirstToStore, Locked
<1>9. ASSUME Restart PROVE Goal
  BY <1>9 DEF Restart
<1>10. ASSUME RemoteChanges \/ Tick PROVE Goal
  BY <1>10 DEF RemoteChanges, Tick, tasks
<1>11. ASSUME UNCHANGED vars PROVE Goal
  BY <1>11 DEF vars, tasks
<1> HIDE DEF NoneIsNoCopy, GrowInv, Types, OneLoads, StoresNewer, Goal
<1>12. Goal
  BY <1>2, <1>3, <1>4, <1>5, <1>6, <1>7, <1>8, <1>9, <1>10, <1>11 DEF Next, Step
<1> QED
  BY <1>1, <1>12 DEF GrowInv, Goal

--------------------------------------------------------------------------------
LEMMA TypesInit == Init => Types
BY DEF Init, Types

\* What get() takes from the cache was on the server less than ttl_seconds and
\* one verification ago, for every overlap of fetches, loads and restarts.
THEOREM CatalogIsYoung == Spec => []StalenessBounded
<1>1. Init => AgeInv
  BY TypesInit DEF Init, AgeInv, StalenessBounded
<1>2. AgeInv => StalenessBounded
  BY DEF AgeInv
<1> QED
  BY <1>1, <1>2, AgeStep, PTL DEF Spec

\* No overlap of fetches puts an older fetch in the place of a younger one, in
\* memory or in the file.
THEOREM CacheNeverTurnsBack == ASSUME NoneIsNoCopy PROVE Spec => FetchTimesGrow
<1>1. Init => GrowInv
  BY TypesInit DEF Init, GrowInv, OneLoads, StoresNewer
<1>2. GrowInv /\ [Next]_vars => GrowInv'
  BY GrowStep
<1>3. GrowInv /\ [Next]_vars =>
        [ /\ mem # None /\ mem' # None => mem'.at >= mem.at
          /\ disk # None => disk' # None /\ disk'.at >= disk.at ]_vars
  BY GrowStep
<1> QED
  BY <1>1, <1>2, <1>3, PTL DEF Spec, FetchTimesGrow
================================================================================
