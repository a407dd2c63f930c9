----------------------------- MODULE ReplayCache -----------------------------
(***************************************************************************)
(* One receiver that passes every inbound envelope through                 *)
(* validate_inbound_envelope with an EnvelopeReplayCache, the file behind  *)
(* that cache, a clock, and the ways the process can be interrupted.       *)
(*                                                                         *)
(* An envelope that fails decryption, its signature or its timestamp is    *)
(* refused before the cache is touched: no variable changes, so the        *)
(* refusal is a stuttering step and needs no action.                       *)
(***************************************************************************)
EXTENDS EnvelopePolicy

CONSTANTS
    Envelope,    \* every envelope that can arrive, any number of times
    Ttl,         \* EnvelopeReplayCache.ttl_seconds, in ticks
    Backed,      \* the cache was given a path
    MaxTime      \* bound: the clock stops here

ASSUME CacheAssumption ==
    /\ \A e \in Envelope : e.iat \in Nat /\ e.authentic \in BOOLEAN
    /\ Ttl \in Nat
    /\ Backed \in BOOLEAN
    /\ MaxTime \in Nat

\* A signature covers the whole content: it verifies over one content only.
ASSUME SignatureBinds ==
    \A d, e \in Envelope :
        d.authentic /\ e.authentic /\ ReplayKey(d) = ReplayKey(e) => d = e

Key == {ReplayKey(e) : e \in Envelope}

VARIABLES
    now,         \* the receiver's clock
    seen,        \* EnvelopeReplayCache._seen, a dict from key to instant
    file,        \* the dict in the cache's file
    passes,      \* history: how often each key has been let through
    lastPass,    \* history: the clock when it last was
    interrupted  \* history: keys whose handler did not run to its end

vars == <<now, seen, file, passes, lastPass, interrupted>>

TypeOK ==
    /\ now \in 0..MaxTime
    /\ DOMAIN seen \subseteq Key /\ seen \in [DOMAIN seen -> Int]
    /\ DOMAIN file \subseteq Key /\ file \in [DOMAIN file -> Int]
    /\ passes \in [Key -> Nat]
    /\ lastPass \in [Key -> Nat]
    /\ interrupted \subseteq Key

EmptyDict == [k \in {} |-> 0]

--------------------------------------------------------------------------------
\* Mutant: entries expire with the age limit of envelopes instead of the ttl.
PruneAtMaxAge(dict, t) == [k \in {j \in DOMAIN dict : dict[j] > t - MaxAge} |-> dict[k]]

\* Entries at the cutoff are dropped: only younger ones are kept.
Prune(dict, t) == [k \in {j \in DOMAIN dict : dict[j] > t - Ttl} |-> dict[k]]

Remember(dict, k, t) ==
    [j \in DOMAIN dict \cup {k} |-> IF j = k THEN WholeSeconds(t) ELSE dict[j]]

\* check_and_store raises "envelope replay detected" exactly when this fails.
Unseen(e) == ReplayKey(e) \notin DOMAIN Prune(seen, now)

Stored(e) == Remember(Prune(seen, now), ReplayKey(e), now)

Init ==
    /\ now = 0
    /\ seen = EmptyDict
    /\ file = EmptyDict
    /\ passes = [k \in Key |-> 0]
    /\ lastPass = [k \in Key |-> 0]
    /\ interrupted = {}

\* Mutant: the cache is updated and the file is not.
PassUnsaved(e) ==
    /\ Verifies(e, now)
    /\ Unseen(e)
    /\ seen' = Stored(e)
    /\ passes' = [passes EXCEPT ![ReplayKey(e)] = @ + 1]
    /\ lastPass' = [lastPass EXCEPT ![ReplayKey(e)] = now]
    /\ UNCHANGED <<now, file, interrupted>>

\* verify_envelope returns: the key is in memory and, if there is a file, in it.
Pass(e) ==
    /\ Verifies(e, now)
    /\ Unseen(e)
    /\ seen' = Stored(e)
    /\ file' = IF Backed THEN Stored(e) ELSE file
    /\ passes' = [passes EXCEPT ![ReplayKey(e)] = @ + 1]
    /\ lastPass' = [lastPass EXCEPT ![ReplayKey(e)] = now]
    /\ UNCHANGED <<now, interrupted>>

\* Mutant: check_and_store is called before the signature is verified.
RememberUnverified(e) ==
    /\ FreshIat(e.iat, now)
    /\ seen' = IF Unseen(e) THEN Stored(e) ELSE Prune(seen, now)
    /\ UNCHANGED <<now, file, passes, lastPass, interrupted>>

\* The replay is refused; the pruning that preceded the check stays.
RefuseReplay(e) ==
    /\ Verifies(e, now)
    /\ ~ Unseen(e)
    /\ seen' = Prune(seen, now)
    /\ UNCHANGED <<now, file, passes, lastPass, interrupted>>

\* write_json_private raises after _seen was updated: the caller gets the
\* error and not the envelope, and the key stays in memory.
SaveFails(e) ==
    /\ Backed
    /\ Verifies(e, now)
    /\ Unseen(e)
    /\ seen' = Stored(e)
    /\ interrupted' = interrupted \cup {ReplayKey(e)}
    /\ UNCHANGED <<now, file, passes, lastPass>>

\* The process dies between the save and the return, and is started again.
DieAfterSave(e) ==
    /\ Backed
    /\ Verifies(e, now)
    /\ Unseen(e)
    /\ file' = Stored(e)
    /\ seen' = Stored(e)
    /\ interrupted' = interrupted \cup {ReplayKey(e)}
    /\ UNCHANGED <<now, passes, lastPass>>

\* A new process: __post_init__ reads the file, if there is one.
Restart ==
    /\ seen' = IF Backed THEN file ELSE EmptyDict
    /\ UNCHANGED <<now, file, passes, lastPass, interrupted>>

Tick ==
    /\ now < MaxTime
    /\ now' = now + 1
    /\ UNCHANGED <<seen, file, passes, lastPass, interrupted>>

Next ==
    \/ \E e \in Envelope :
          \/ Pass(e)
          \/ RefuseReplay(e)
          \/ SaveFails(e)
          \/ DieAfterSave(e)
    \/ Restart
    \/ Tick

Spec == Init /\ [][Next]_vars

--------------------------------------------------------------------------------
\* The cache outlives every envelope it remembers.  Not so for the default
\* ttl_seconds, which equals the default max_age_seconds.
TtlCoversWindow == Ttl >= MaxAge + FutureSkew + Second

\* "envelope replay detected" is the only outcome of a second delivery: no
\* envelope gets through validate_inbound_envelope twice, whatever the
\* restarts, failed saves and prunings in between.
AtMostOnce == \A k \in Key : passes[k] <= 1

\* The same promise as an abstract specification, implemented step by step by
\* EnvelopeReplayCache.
Once == INSTANCE OnceOnly WITH Key <- Key, passes <- passes

ImplementsOnceOnly == Once!Spec

\* What the cache gives for any ttl_seconds: an envelope that gets through a
\* second time does so only when its first entry, cut down to a whole second,
\* is at least ttl_seconds old.
PassesAreSpaced ==
    [][\A k \in Key :
          passes[k] > 0 /\ passes'[k] # passes[k]
              => now - WholeSeconds(lastPass[k]) >= Ttl]_vars

\* An envelope that got through is known to the process and to the file until
\* its entry is ttl_seconds old: neither a restart nor a failed save of another
\* envelope makes the receiver forget it before that.
PassedIsRemembered ==
    \A k \in Key :
        passes[k] > 0 /\ now - WholeSeconds(lastPass[k]) < Ttl =>
            /\ k \in DOMAIN seen /\ seen[k] >= WholeSeconds(lastPass[k])
            /\ k \in DOMAIN file /\ file[k] >= WholeSeconds(lastPass[k])

\* check_and_store runs after the signature and the timestamp were checked, so
\* a damaged or stale copy never uses up the genuine envelope's one pass: what
\* is remembered was let through, or its handler was interrupted.
OnlyInterruptionsBurn ==
    \A k \in DOMAIN seen \cup DOMAIN file : passes[k] > 0 \/ k \in interrupted
================================================================================
