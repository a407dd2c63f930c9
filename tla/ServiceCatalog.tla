----------------------------- MODULE ServiceCatalog -----------------------------
(***************************************************************************)
(* ServiceCatalogCache, for one business address: the signed catalog of    *)
(* the business, fetched, verified and kept in memory and in a file.       *)
(*                                                                         *)
(* Tasks call get() and refresh() concurrently.  The lock is held while    *)
(* get() looks at memory and reads the file back, which awaits the key     *)
(* resolver, and again while a fetched catalog is put in memory.  A fetch  *)
(* holds no lock, so fetches overlap.                                      *)
(*                                                                         *)
(* A catalog is a record [iat, authentic], authentic saying that its       *)
(* payload, issuer, domain and signature hold.  A copy of it in the cache  *)
(* is a record [catalog, at, served]: fetched_at and, as history, when the *)
(* catalog was on the server.  A cache file without an envelope, which     *)
(* earlier releases wrote, counts as no file.                              *)
(***************************************************************************)
EXTENDS EnvelopePolicy

CONSTANTS
    Task,
    Catalog,      \* the catalogs the business may publish
    Ttl,          \* ttl_seconds
    MaxDelay,     \* bound: the key resolver takes no longer
    MaxTime,      \* bound: the clock stops here
    None

ASSUME CatalogAssumption ==
    /\ \A k \in Catalog : k.iat \in Nat /\ k.authentic \in BOOLEAN
    /\ {Ttl, MaxDelay, MaxTime} \subseteq Nat

VARIABLES
    now,
    remote,     \* the catalog the business publishes
    mem,        \* _mem[business_address]
    disk,       \* the cache file
    phase,      \* per task: idle, waiting, loading, fetching, verifying, storing
    body,       \* per task, the copy it is loading, verifying or storing
    hit         \* history: how old the copy was that get() last took from the cache

tasks == <<phase, body>>
vars == <<now, remote, mem, disk, tasks, hit>>

Init ==
    /\ now = 0
    /\ remote \in {k \in Catalog : k.iat = 0}
    /\ mem = None /\ disk = None
    /\ phase = [t \in Task |-> "idle"]
    /\ body = [t \in Task |-> None]
    /\ hit = None

--------------------------------------------------------------------------------
\* _is_fresh
IsFresh(copy) == copy # None /\ now - copy.at < Ttl

\* Mutant: get() calls refresh() while it holds the lock.
LockedWhileRefreshing == \E t \in Task : phase[t] \notin {"idle", "waiting"}

\* The lock is held across an await only by a get() that loads the file.
Locked == \E t \in Task : phase[t] = "loading"

Goes(t, to, copy) ==
    /\ phase' = [phase EXCEPT ![t] = to]
    /\ body' = [body EXCEPT ![t] = copy]

FromCache(t, copy) ==
    /\ Goes(t, "idle", None)
    /\ hit' = now - copy.served

Get(t) ==
    /\ phase[t] = "idle"
    /\ Goes(t, "waiting", None)
    /\ UNCHANGED <<now, remote, mem, disk, hit>>

Refresh(t) ==
    /\ phase[t] = "idle"
    /\ Goes(t, "fetching", None)
    /\ UNCHANGED <<now, remote, mem, disk, hit>>

GetHits(t) ==
    /\ phase[t] = "waiting" /\ ~ Locked
    /\ IsFresh(mem)
    /\ FromCache(t, mem)
    /\ UNCHANGED <<now, remote, mem, disk>>

GetLoads(t) ==
    /\ phase[t] = "waiting" /\ ~ Locked
    /\ mem = None /\ disk # None
    /\ Goes(t, "loading", disk)
    /\ UNCHANGED <<now, remote, mem, disk, hit>>

\* A stale copy in memory is not looked up on disk.
GetFetches(t) ==
    /\ phase[t] = "waiting" /\ ~ Locked
    /\ ~ IsFresh(mem)
    /\ mem # None \/ disk = None
    /\ Goes(t, "fetching", None)
    /\ UNCHANGED <<now, remote, mem, disk, hit>>

\* Mutant: the copy counts as fetched when it is loaded.
LoadHitsRenewed(t) ==
    /\ phase[t] = "loading"
    /\ Verifies(body[t].catalog, now)
    /\ IsFresh(body[t])
    /\ mem' = [body[t] EXCEPT !.at = now]
    /\ FromCache(t, mem')
    /\ UNCHANGED <<now, remote, disk>>

LoadHits(t) ==
    /\ phase[t] = "loading"
    /\ Verifies(body[t].catalog, now)
    /\ IsFresh(body[t])
    /\ mem' = body[t]
    /\ FromCache(t, body[t])
    /\ UNCHANGED <<now, remote, disk>>

\* The resolver may always fail.
LoadMisses(t) ==
    /\ phase[t] = "loading"
    /\ Goes(t, "fetching", None)
    /\ UNCHANGED <<now, remote, mem, disk, hit>>

Arrives(t) ==
    /\ phase[t] = "fetching"
    /\ Goes(t, "verifying", [catalog |-> remote, at |-> now, served |-> now])
    /\ UNCHANGED <<now, remote, mem, disk, hit>>

\* No answer, an HTTP error, or a catalog that does not verify: refresh() returns
\* None, and the cache stays as it is.
RefreshFails(t) ==
    /\ phase[t] \in {"fetching", "verifying"}
    /\ Goes(t, "idle", None)
    /\ UNCHANGED <<now, remote, mem, disk, hit>>

\* Mutant: fetched_at is the time the answer arrived at.
VerifiedAtArrival(t) ==
    /\ phase[t] = "verifying"
    /\ Verifies(body[t].catalog, now)
    /\ Goes(t, "storing", body[t])
    /\ UNCHANGED <<now, remote, mem, disk, hit>>

\* fetched_at is set when the catalog has verified.
Verified(t) ==
    /\ phase[t] = "verifying"
    /\ Verifies(body[t].catalog, now)
    /\ Goes(t, "storing", [body[t] EXCEPT !.at = now])
    /\ UNCHANGED <<now, remote, mem, disk, hit>>

\* The lock is taken in the order it was asked for.
FirstToStore(t) ==
    /\ phase[t] = "storing"
    /\ \A u \in Task : phase[u] = "storing" => body[t].at <= body[u].at

\* Memory, then the file: no await comes between.
Store(t) ==
    /\ FirstToStore(t) /\ ~ Locked
    /\ mem' = body[t]
    /\ disk' = body[t]
    /\ Goes(t, "idle", None)
    /\ UNCHANGED <<now, remote, hit>>

\* The file cannot be written: refresh() raises, and memory has the copy.
StoreUnsaved(t) ==
    /\ FirstToStore(t) /\ ~ Locked
    /\ mem' = body[t]
    /\ Goes(t, "idle", None)
    /\ UNCHANGED <<now, remote, disk, hit>>

Restart ==
    /\ mem' = None
    /\ phase' = [t \in Task |-> "idle"]
    /\ body' = [t \in Task |-> None]
    /\ hit' = None
    /\ UNCHANGED <<now, remote, disk>>

\* The business publishes another catalog, or an older one again.
RemoteChanges ==
    /\ remote' \in {k \in Catalog \ {remote} : k.iat <= now}
    /\ UNCHANGED <<now, mem, disk, tasks, hit>>

Tick ==
    /\ now < MaxTime
    /\ \A t \in Task : phase[t] = "verifying" => now < body[t].served + MaxDelay
    /\ now' = now + 1
    /\ UNCHANGED <<remote, mem, disk, tasks, hit>>

Step(t) ==
    \/ Get(t) \/ Refresh(t)
    \/ GetHits(t) \/ GetLoads(t) \/ GetFetches(t)
    \/ LoadHits(t) \/ LoadMisses(t)
    \/ Arrives(t) \/ RefreshFails(t) \/ Verified(t)
    \/ Store(t) \/ StoreUnsaved(t)

Next == (\E t \in Task : Step(t)) \/ Restart \/ RemoteChanges \/ Tick

Spec == Init /\ [][Next]_vars

\* The event loop runs on, HTTP requests and the resolver end or time out, and
\* the lock goes round.
FairSpec ==
    /\ Spec
    /\ \A t \in Task :
        /\ WF_vars(LoadHits(t) \/ LoadMisses(t))
        /\ WF_vars(Arrives(t) \/ RefreshFails(t))
        /\ WF_vars(Verified(t) \/ RefreshFails(t))
        /\ SF_vars(GetHits(t) \/ GetLoads(t) \/ GetFetches(t))
        /\ SF_vars(Store(t) \/ StoreUnsaved(t))

--------------------------------------------------------------------------------
\* A catalog that get() takes from the cache was on the server less than
\* ttl_seconds and the time of one verification ago, however many fetches
\* overlapped and restarts came between.
StalenessBounded == hit # None => hit < Ttl + MaxDelay

\* Overlapping fetches do not turn the cache back: what it takes for the time of
\* the fetch only grows, in memory until a restart and in the file always.
FetchTimesGrow ==
    [][ /\ mem # None /\ mem' # None => mem'.at >= mem.at
        /\ disk # None => disk' # None /\ disk'.at >= disk.at ]_vars

\* Every call returns.
CallsReturn == \A t \in Task : phase[t] # "idle" ~> phase[t] = "idle"
================================================================================
