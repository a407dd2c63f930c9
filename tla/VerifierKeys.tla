------------------------------ MODULE VerifierKeys ------------------------------
(***************************************************************************)
(* The key an agent uses for a verifier: the user's overrides, merged with *)
(* the signed list by TrustListCache.get(), and VerifierPubkeyCache, which *)
(* looks keys up in the merged lists and keeps what it found.              *)
(***************************************************************************)
EXTENDS TrustList

CONSTANT
    Override      \* contents of the overrides file: records [remove, add]

ASSUME OverrideAssumption ==
    \A o \in Override : o.remove \subseteq Domain /\ o.add \in [Domain -> Key \cup {NoKey}]

VARIABLES
    overrides,   \* what the overrides file holds
    entries,     \* per call, the merged list that get() last returned
    pubkeys,     \* VerifierPubkeyCache._cache
    edited       \* history: the file has been edited since this process began

keyVars == <<overrides, entries, pubkeys, edited>>
keysVars == <<vars, keyVars>>

KeysInit ==
    /\ Init
    /\ overrides \in Override
    /\ entries = [c \in Call |-> None]
    /\ pubkeys = [d \in Domain |-> NoKey]
    /\ edited = FALSE

--------------------------------------------------------------------------------
\* Mutant: an added entry does not replace a published one.
MergedPublishedFirst(copy) ==
    [d \in Domain |->
        IF copy # None /\ d \notin overrides.remove /\ copy.list.keys[d] # NoKey
        THEN copy.list.keys[d]
        ELSE overrides.add[d]]

\* _apply_overrides: remove first, then add.
Merged(copy) ==
    [d \in Domain |->
        IF overrides.add[d] # NoKey THEN overrides.add[d]
        ELSE IF copy = None \/ d \in overrides.remove THEN NoKey
        ELSE copy.list.keys[d]]

\* get(): the published list, merged with what the overrides file holds now.
Get(c) ==
    /\ FromMemory(c) \/ FromDisk(c) \/ FetchSucceeds(c) \/ FetchFails(c)
    /\ entries' = [entries EXCEPT ![c] = Merged(answer'[c].copy)]
    /\ UNCHANGED <<overrides, pubkeys, edited>>

\* What VerifierPubkeyCache.get returns for the list that call c returned: from
\* the cache first, then from the list.
Found(c, d) == IF pubkeys[d] # NoKey THEN pubkeys[d] ELSE entries[c][d]

LookUp(c, d) ==
    /\ entries[c] # None
    /\ pubkeys' = [pubkeys EXCEPT ![d] = Found(c, d)]
    /\ UNCHANGED <<vars, overrides, entries, edited>>

KeysRestart ==
    /\ Restart
    /\ entries' = [c \in Call |-> None]
    /\ pubkeys' = [d \in Domain |-> NoKey]
    /\ edited' = FALSE
    /\ UNCHANGED overrides

UserEdits ==
    /\ overrides' \in Override \ {overrides}
    /\ edited' = TRUE
    /\ UNCHANGED <<vars, entries, pubkeys>>

\* The steps of the list that return nothing to the caller.
ListSteps ==
    /\ \/ \E c \in Call : Ask(c) \/ StartFetch(c) \/ FetchedSaveFails(c)
       \/ RemoteChanges \/ Tick
    /\ UNCHANGED keyVars

KeysNext ==
    \/ \E c \in Call :
          \/ Get(c)
          \/ \E d \in Domain : LookUp(c, d)
    \/ KeysRestart \/ UserEdits \/ ListSteps

KeysSpec == KeysInit /\ [][KeysNext]_keysVars

--------------------------------------------------------------------------------
\* The user has the last word about a verifier, whatever the published list says
\* and however old the copy in use: while the overrides file stays as it was when
\* the process began, the lists that get() returns and the keys that were looked
\* up have the user's key for an added verifier and none for a removed one.
UserHasTheLastWord ==
    ~ edited => \A c \in Call, d \in Domain :
        LET added == overrides.add[d]
            used == ({pubkeys[d]} \ {NoKey})
              \cup IF entries[c] = None THEN {} ELSE {entries[c][d]}
        IN  /\ added # NoKey => used \subseteq {added}
            /\ added = NoKey /\ d \in overrides.remove => used \subseteq {NoKey}
================================================================================
