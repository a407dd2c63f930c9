------------------------- MODULE VerifierKeysProofs -------------------------
(***************************************************************************)
(* How fresh the trusted verifiers are, and whose word counts about them,  *)
(* for every number of concurrent calls, every set of published lists and  *)
(* of overrides, and every lifetime of a copy.                             *)
(***************************************************************************)
EXTENDS VerifierKeys, TLAPS

\* None is no time and no copy of the list.
NoneIsApart ==
    /\ None \notin Nat
    /\ None \notin [list : SignedList, at : Nat, served : Nat]

\* A copy says no later time than the one at which its list was on the server.
Honest(copy) ==
    /\ copy \in [list : SignedList, at : Nat, served : Nat]
    /\ copy.at <= copy.served
    /\ copy.served <= now

\* What the clock, the caches and the calls may hold.
Types ==
    /\ now \in Nat
    /\ remote \in SignedList \cup {Down}
    /\ mem # None => Honest(mem)
    /\ disk # None => Honest(disk)
    /\ DOMAIN phase = Call
    /\ DOMAIN start = Call
    /\ DOMAIN spare = Call
    /\ DOMAIN answer = Call
    /\ \A c \in Call :
          /\ start[c] \in Nat /\ start[c] <= now
          /\ spare[c] # None => Honest(spare[c])

\* A copy as old as lastOk is in memory until its time is over, ...
SpacedWhenCached ==
    lastOk # None =>
        /\ lastOk \in Nat /\ lastOk <= now
        /\ (mem # None /\ mem.at = lastOk) \/ now - lastOk >= Ttl

\* ... and a fetch that goes on, the only one, began after that.
OneFetch ==
    \A c \in Call : phase[c] = "fetching" =>
        /\ lastOk # None => start[c] - lastOk >= Ttl
        /\ \A d \in Call : phase[d] = "fetching" => d = c

ListInv == Types /\ FreshOrOffline

SpacedInv == Types /\ SpacedWhenCached /\ OneFetch

--------------------------------------------------------------------------------
LEMMA ListStep == Ttl > 0 /\ ListInv /\ [Next]_vars => ListInv'
<1> SUFFICES ASSUME Ttl > 0, ListInv, [Next]_vars PROVE ListInv'
  OBVIOUS
<1> USE TrustListAssumption DEF ListInv, Types, Honest, FreshOrOffline
<1>1. ASSUME NEW c \in Call, Ask(c) PROVE ListInv'
  BY <1>1 DEF Ask, world, cache
<1>2. ASSUME NEW c \in Call, FromMemory(c) PROVE ListInv'
  BY <1>2 DEF FromMemory, Returns, Ends, Current, world, cache
<1>3. ASSUME NEW c \in Call, FromDisk(c) PROVE ListInv'
  BY <1>3 DEF FromDisk, DiskCopy, Returns, Ends, Current, world
<1>4. ASSUME NEW c \in Call, StartFetch(c) PROVE ListInv'
  BY <1>4 DEF StartFetch, DiskCopy, world, cache
<1>5. ASSUME NEW c \in Call, FetchSucceeds(c) PROVE ListInv'
  BY <1>5 DEF FetchSucceeds, Fetched, ListArrives, Returns, Ends, world
<1>6. ASSUME NEW c \in Call, FetchedSaveFails(c) PROVE ListInv'
  BY <1>6 DEF FetchedSaveFails, Fetched, ListArrives, Ends, world
<1>7. ASSUME NEW c \in Call, FetchFails(c) PROVE ListInv'
  BY <1>7 DEF FetchFails, Returns, Ends, world
<1>8. CASE Restart
  BY <1>8 DEF Restart, world
<1>9. CASE RemoteChanges
  BY <1>9 DEF RemoteChanges, cache, calls
<1>10. CASE Tick
  BY <1>10 DEF Tick, cache, calls
<1>11. CASE UNCHANGED vars
  BY <1>11 DEF vars, world, cache, calls
<1> QED
  BY <1>1, <1>2, <1>3, <1>4, <1>5, <1>6, <1>7, <1>8, <1>9, <1>10, <1>11 DEF Next

\* One step keeps the fetches apart, and moves lastOk only to the start of the
\* fetch that went on.
LEMMA SpacedStep ==
    ASSUME NoneIsApart, SpacedInv, [Next]_vars
    PROVE  /\ SpacedInv'
           /\ lastOk # None /\ lastOk' \notin {None, lastOk} => lastOk' - lastOk >= Ttl
<1> USE TrustListAssumption, NoneIsApart
    DEF NoneIsApart, SpacedInv, Types, Honest, SpacedWhenCached, OneFetch
<1> DEFINE Goal == /\ SpacedInv'
                   /\ lastOk # None /\ lastOk' \notin {None, lastOk} => lastOk' - lastOk >= Ttl
<1>1. ASSUME NEW c \in Call, Ask(c) PROVE Goal
  BY <1>1 DEF Ask, world, cache
<1>2. ASSUME NEW c \in Call, FromMemory(c) PROVE Goal
  BY <1>2 DEF FromMemory, Returns, Ends, Current, world, cache
<1>3. ASSUME NEW c \in Call, FromDisk(c) PROVE Goal
  BY <1>3 DEF FromDisk, DiskCopy, Returns, Ends, Current, world
<1>4. ASSUME NEW c \in Call, StartFetch(c) PROVE Goal
  BY <1>4 DEF StartFetch, DiskCopy, LockFree, Current, world, cache
<1>5. ASSUME NEW c \in Call, FetchSucceeds(c) PROVE Goal
  BY <1>5 DEF FetchSucceeds, Fetched, ListArrives, Returns, Ends, world
<1>6. ASSUME NEW c \in Call, FetchedSaveFails(c) PROVE Goal
  BY <1>6 DEF FetchedSaveFails, Fetched, ListArrives, Ends, world
<1>7. ASSUME NEW c \in Call, FetchFails(c) PROVE Goal
  BY <1>7 DEF FetchFails, Returns, Ends, world
<1>8. CASE Restart
  BY <1>8 DEF Restart, world
<1>9. CASE RemoteChanges
  BY <1>9 DEF RemoteChanges, cache, calls
<1>10. CASE Tick
  BY <1>10 DEF Tick, cache, calls
<1>11. CASE UNCHANGED vars
  BY <1>11 DEF vars, world, cache, calls
<1> QED
  BY <1>1, <1>2, <1>3, <1>4, <1>5, <1>6, <1>7, <1>8, <1>9, <1>10, <1>11 DEF Next

--------------------------------------------------------------------------------
\* A list that get() returned was on the server less than ttl_seconds before,
\* unless the fetch of that call failed, for every lifetime that is not zero.
THEOREM ListsAreFresh == ASSUME Ttl > 0 PROVE Spec => []FreshOrOffline
<1>1. Init => ListInv
  BY DEF Init, ListInv, Types, FreshOrOffline
<1>2. ListInv /\ [Next]_vars => ListInv'
  BY ListStep
<1>3. ListInv => FreshOrOffline
  BY DEF ListInv
<1> QED
  BY <1>1, <1>2, <1>3, PTL DEF Spec

\* Calls that overlap fetch the list once: the fetches of one process that
\* bring a list start a lifetime apart, however many calls there are.
THEOREM FetchesAreSpaced == ASSUME NoneIsApart PROVE Spec => GoodFetchesAreSpaced
<1>1. Init => SpacedInv
  BY DEF Init, SpacedInv, Types, SpacedWhenCached, OneFetch
<1>2. SpacedInv /\ [Next]_vars => SpacedInv'
  BY SpacedStep
<1>3. SpacedInv /\ [Next]_vars =>
        [lastOk # None /\ lastOk' \notin {None, lastOk} => lastOk' - lastOk >= Ttl]_vars
  BY SpacedStep
<1> QED
  BY <1>1, <1>2, <1>3, PTL DEF Spec, GoodFetchesAreSpaced

\* With the overrides and the key cache around it the list behaves as it does
\* alone, so both theorems hold of what an agent uses as a verifier's key.
THEOREM KeysKeepTheList == KeysSpec => Spec
<1>1. KeysInit => Init
  BY DEF KeysInit
<1>2. [KeysNext]_keysVars => [Next]_vars
  BY DEF KeysNext, keysVars, Get, LookUp, KeysRestart, UserEdits, ListSteps, Next
<1> QED
  BY <1>1, <1>2, PTL DEF KeysSpec, Spec

--------------------------------------------------------------------------------
\* The contents of the overrides file and of the two caches of keys.
KeyTypes ==
    /\ overrides \in Override
    /\ DOMAIN entries = Call /\ DOMAIN pubkeys = Domain

\* What get() merges follows the overrides.
LEMMA MergedFollows ==
    ASSUME KeyTypes, NEW copy, NEW d \in Domain
    PROVE  /\ overrides.add[d] # NoKey => Merged(copy)[d] = overrides.add[d]
           /\ overrides.add[d] = NoKey /\ d \in overrides.remove => Merged(copy)[d] = NoKey
BY DEF Merged

LEMMA LastWordStep ==
    KeyTypes /\ UserHasTheLastWord /\ [KeysNext]_keysVars => KeyTypes' /\ UserHasTheLastWord'
<1> SUFFICES ASSUME KeyTypes, UserHasTheLastWord, [KeysNext]_keysVars
             PROVE  KeyTypes' /\ UserHasTheLastWord'
  OBVIOUS
<1> USE DEF KeyTypes, UserHasTheLastWord
<1>1. ASSUME NEW c \in Call, Get(c) PROVE KeyTypes' /\ UserHasTheLastWord'
  <2> DEFINE new == Merged(answer'[c].copy)
  <2>1. entries' = [entries EXCEPT ![c] = new] /\ UNCHANGED <<overrides, pubkeys, edited>>
    BY <1>1 DEF Get
  <2>2. \A d \in Domain :
           /\ overrides.add[d] # NoKey => new[d] = overrides.add[d]
           /\ overrides.add[d] = NoKey /\ d \in overrides.remove => new[d] = NoKey
    BY MergedFollows
  <2> HIDE DEF new
  <2> QED
    BY <2>1, <2>2
<1>2. ASSUME NEW c \in Call, NEW d \in Domain, LookUp(c, d)
      PROVE  KeyTypes' /\ UserHasTheLastWord'
  BY <1>2 DEF LookUp, Found
<1>3. CASE KeysRestart
  BY <1>3 DEF KeysRestart
<1>4. CASE UserEdits
  BY <1>4 DEF UserEdits
<1>5. CASE ListSteps
  BY <1>5 DEF ListSteps, keyVars
<1>6. CASE UNCHANGED keysVars
  BY <1>6 DEF keysVars, keyVars
<1> HIDE DEF KeyTypes, UserHasTheLastWord
<1> QED
  BY <1>1, <1>2, <1>3, <1>4, <1>5, <1>6 DEF KeysNext

\* The keys an agent uses for verifiers are the user's wherever the user said
\* something, for every published list, cache and order of calls.
THEOREM OverridesWin == KeysSpec => []UserHasTheLastWord
<1>1. KeysInit => KeyTypes /\ UserHasTheLastWord
  BY DEF KeysInit, KeyTypes, UserHasTheLastWord
<1>2. KeyTypes /\ UserHasTheLastWord /\ [KeysNext]_keysVars => (KeyTypes /\ UserHasTheLastWord)'
  BY LastWordStep
<1> QED
  BY <1>1, <1>2, PTL DEF KeysSpec
================================================================================
