------------------------------- MODULE TrustList -------------------------------
(***************************************************************************)
(* The list of verifiers an agent trusts: TrustListCache, which fetches    *)
(* the signed list and keeps it in memory and in a file.                   *)
(*                                                                         *)
(* Calls of get() run concurrently and take turns by a lock, which a call  *)
(* gives up only when it returns; the one await under the lock is the      *)
(* fetch.  A signed list is a record [iat, authentic, keys], keys giving a *)
(* key to each domain it lists; authentic says that its issuer, payload    *)
(* type, signature and entries hold.  A copy in the cache is a record      *)
(* [list, at], at being what the cache takes for the time of the fetch;    *)
(* its field served is history: when the list really was on the server.    *)
(***************************************************************************)
EXTENDS EnvelopePolicy

CONSTANTS
    Call,         \* the tasks that call get(), again and again
    Domain,       \* verifier domains
    Key,          \* verifier keys
    NoKey,        \* the domain is not listed
    SignedList,   \* the lists the URL may serve
    Ttl,          \* ttl_seconds
    MaxDelay,     \* bound: a fetch takes no longer, the HTTP timeout
    MaxTime,      \* bound: the clock stops here
    Down,         \* the URL answers with an error, or not at all
    None

ASSUME TrustListAssumption ==
    /\ \A l \in SignedList : l.iat \in Nat /\ l.keys \in [Domain -> Key \cup {NoKey}]
    /\ {Ttl, MaxDelay, MaxTime} \subseteq Nat /\ NoKey \notin Key

VARIABLES
    now,
    remote,      \* what the URL serves
    mem,         \* _cached_body and _cached_at
    disk,        \* the cache file
    phase,       \* per call: idle, waiting (for the lock), fetching
    start,       \* per call, its now, captured under the lock before the fetch
    spare,       \* per call, the disk copy it read before the fetch
    answer,      \* per call, what get() last returned
    lastOk       \* history: the start of this process's last good fetch

cache == <<mem, disk>>
calls == <<phase, start, spare, answer>>
world == <<now, remote>>
vars == <<world, cache, calls, lastOk>>

Init ==
    /\ now = 0
    /\ remote \in {l \in SignedList : l.iat = 0} \cup {Down}
    /\ mem = None /\ disk = None
    /\ phase = [c \in Call |-> "idle"]
    /\ start = [c \in Call |-> 0]
    /\ spare = [c \in Call |-> None]
    /\ answer = [c \in Call |-> None]
    /\ lastOk = None

--------------------------------------------------------------------------------
\* _read_disk_cache: the envelope in the file is verified again.
DiskCopy == IF disk # None /\ Verifies(disk.list, now) THEN disk ELSE None

Current(copy) == copy # None /\ now - copy.at < Ttl

\* Mutant: calls do not wait for each other.
LockFreeAlways == TRUE

LockFree == \A c \in Call : phase[c] # "fetching"

Ends(c) ==
    /\ phase' = [phase EXCEPT ![c] = "idle"]
    /\ start' = [start EXCEPT ![c] = 0]
    /\ spare' = [spare EXCEPT ![c] = None]

Returns(c, copy, offline) ==
    /\ Ends(c)
    /\ answer' = [answer EXCEPT ![c] =
                    [copy |-> copy, at |-> now, offline |-> offline]]

Ask(c) ==
    /\ phase[c] = "idle"
    /\ phase' = [phase EXCEPT ![c] = "waiting"]
    /\ UNCHANGED <<world, cache, start, spare, answer, lastOk>>

FromMemory(c) ==
    /\ phase[c] = "waiting" /\ LockFree
    /\ Current(mem)
    /\ Returns(c, mem, FALSE)
    /\ UNCHANGED <<world, cache, lastOk>>

FromDisk(c) ==
    /\ phase[c] = "waiting" /\ LockFree
    /\ ~ Current(mem) /\ Current(DiskCopy)
    /\ mem' = DiskCopy
    /\ Returns(c, DiskCopy, FALSE)
    /\ UNCHANGED <<world, disk, lastOk>>

StartFetch(c) ==
    /\ phase[c] = "waiting" /\ LockFree
    /\ ~ Current(mem) /\ ~ Current(DiskCopy)
    /\ phase' = [phase EXCEPT ![c] = "fetching"]
    /\ start' = [start EXCEPT ![c] = now]
    /\ spare' = [spare EXCEPT ![c] = DiskCopy]
    /\ UNCHANGED <<world, cache, answer, lastOk>>

\* _fetch_remote: the answer is a list that verifies.
ListArrives == remote # Down /\ Verifies(remote, now)

Fetched(c) == [list |-> remote, at |-> start[c], served |-> now]

FetchSucceeds(c) ==
    /\ phase[c] = "fetching"
    /\ ListArrives
    /\ mem' = Fetched(c)
    /\ disk' = Fetched(c)
    /\ lastOk' = start[c]
    /\ Returns(c, Fetched(c), FALSE)
    /\ UNCHANGED <<world>>

\* The file cannot be written: get() raises, and memory has the new list.
FetchedSaveFails(c) ==
    /\ phase[c] = "fetching"
    /\ ListArrives
    /\ mem' = Fetched(c)
    /\ lastOk' = start[c]
    /\ Ends(c)
    /\ UNCHANGED <<world, disk, answer>>

\* Mutant: the fallback counts as a new fetch.
FetchFailsRenewed(c) ==
    /\ phase[c] = "fetching"
    /\ ~ ListArrives
    /\ mem' = IF spare[c] = None THEN mem ELSE [spare[c] EXCEPT !.at = now]
    /\ Returns(c, spare[c], TRUE)
    /\ UNCHANGED <<world, disk, lastOk>>

\* No list that verifies: the copy on disk, stale or not, else the empty list.
FetchFails(c) ==
    /\ phase[c] = "fetching"
    /\ ~ ListArrives
    /\ mem' = IF spare[c] = None THEN mem ELSE spare[c]
    /\ Returns(c, spare[c], TRUE)
    /\ UNCHANGED <<world, disk, lastOk>>

Restart ==
    /\ mem' = None
    /\ phase' = [c \in Call |-> "idle"]
    /\ start' = [c \in Call |-> 0]
    /\ spare' = [c \in Call |-> None]
    /\ answer' = [c \in Call |-> None]
    /\ lastOk' = None
    /\ UNCHANGED <<world, disk>>

\* The server publishes another list, an older one again, or nothing.
RemoteChanges ==
    /\ remote' \in {l \in SignedList : l.iat <= now} \cup {Down}
    /\ remote' # remote
    /\ UNCHANGED <<now, cache, calls, lastOk>>

Tick ==
    /\ now < MaxTime
    /\ \A c \in Call : phase[c] = "fetching" => now < start[c] + MaxDelay
    /\ now' = now + 1
    /\ UNCHANGED <<remote, cache, calls, lastOk>>

Next ==
    \/ \E c \in Call :
          \/ Ask(c) \/ FromMemory(c) \/ FromDisk(c) \/ StartFetch(c)
          \/ FetchSucceeds(c) \/ FetchedSaveFails(c) \/ FetchFails(c)
    \/ Restart \/ RemoteChanges \/ Tick

Spec == Init /\ [][Next]_vars

--------------------------------------------------------------------------------
\* "How long to consider the cached response fresh": a list that get() returned
\* was on the server less than ttl_seconds before, unless the fetch of that very
\* call failed; the list that one call fell back to never passes for fresh in
\* another call, whether the calls overlap or a restart comes between.
FreshOrOffline ==
    \A c \in Call :
        answer[c] # None /\ ~ answer[c].offline =>
            answer[c].at - answer[c].copy.served < Ttl

\* "Concurrent get() calls coalesce so multiple flows starting at once do not
\* hammer the trust-list endpoint": one process's good fetches start a ttl apart.
GoodFetchesAreSpaced ==
    [][lastOk # None /\ lastOk' \notin {None, lastOk} => lastOk' - lastOk >= Ttl]_vars
================================================================================
