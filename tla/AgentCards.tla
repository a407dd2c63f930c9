------------------------------- MODULE AgentCards -------------------------------
(***************************************************************************)
(* The signing key a client accepts for one peer: the peer registers cards *)
(* (AAPClient.register), the peer's host serves them, and the client       *)
(* resolves them (resolve_agent_card) and pins the key (KeyPins).          *)
(*                                                                         *)
(* A card is a record [key, iat, authentic], the signed envelope and its   *)
(* payload in one; authentic says that the address, the issuer and the DID *)
(* are the peer's and that the signature verifies with the card's own key. *)
(* The host may serve any card that was ever registered, so an answer that *)
(* arrives late is one that is served late.                                *)
(***************************************************************************)
EXTENDS EnvelopePolicy

CONSTANTS
    LastKey,     \* bound: the peer's keys are 1..LastKey, used in turn
    MaxTime,     \* bound: the clock stops here
    None

ASSUME CardsAssumption == LastKey \in Nat \ {0} /\ MaxTime \in Nat /\ None \notin 1..LastKey

VARIABLES
    now,
    key,         \* the key the peer uses
    retired,     \* when the peer gave up each earlier key
    cards,       \* the cards the peer has registered
    pin,         \* KeyPins._pins[address]
    file,        \* the same in the pins file
    accepted,    \* what the last resolve returned: [card, at], or None for an error
    trusted,     \* history: the key last accepted, until it is forgotten
    unsaved      \* history: the file misses the last change of the pin

peer == <<now, key, retired, cards>>
history == <<accepted, trusted, unsaved>>
cardsVars == <<peer, pin, file, history>>

Key == 1..LastKey
Card == [key: Key, iat: 0..MaxTime, authentic: BOOLEAN]

CardsInit ==
    /\ now = 0
    /\ key = 1 /\ retired = [k \in 1..0 |-> 0]
    /\ cards = {}
    /\ pin = None /\ file = None
    /\ accepted = None /\ trusted = None
    /\ unsaved = FALSE

--------------------------------------------------------------------------------
Register ==
    /\ cards' = cards \cup {[key |-> key, iat |-> now, authentic |-> TRUE]}
    /\ cards' # cards
    /\ UNCHANGED <<now, key, retired, pin, file, history>>

Rotate ==
    /\ key < LastKey
    /\ key' = key + 1
    /\ retired' = [k \in 1..key |-> IF k = key THEN now ELSE retired[k]]
    /\ UNCHANGED <<now, cards, pin, file, history>>

\* What the host may serve: a registered card, or one that does not verify.
Served == cards \cup {[key |-> c.key, iat |-> now, authentic |-> FALSE] : c \in cards}

\* Mutant: the age of the card is not looked at.
VerifiedUndated(card) == card.authentic

\* resolve_agent_card up to the pins.
VerifiedCard(card) == Verifies(card, now)

Accept(card) ==
    /\ accepted' = [card |-> card, at |-> now]
    /\ trusted' = card.key

\* check_or_pin finds the key it has pinned.
ResolvePinned(card) ==
    /\ VerifiedCard(card)
    /\ pin = card.key
    /\ Accept(card)
    /\ UNCHANGED <<peer, pin, file, unsaved>>

\* Mutant: the pin is not written to the file.
ResolveFirstUnsaved(card) ==
    /\ VerifiedCard(card)
    /\ pin = None
    /\ pin' = card.key
    /\ Accept(card)
    /\ UNCHANGED <<peer, file, unsaved>>

\* check_or_pin, on first use.
ResolveFirst(card) ==
    /\ VerifiedCard(card)
    /\ pin = None
    /\ pin' = card.key /\ file' = card.key
    /\ Accept(card)
    /\ unsaved' = FALSE
    /\ UNCHANGED peer

\* The file cannot be written: the resolve raises, and memory has the pin.
ResolveFirstSaveFails(card) ==
    /\ VerifiedCard(card)
    /\ pin = None
    /\ pin' = card.key
    /\ accepted' = None
    /\ unsaved' = TRUE
    /\ UNCHANGED <<peer, file, trusted>>

\* KeyPinChanged
ResolveChanged(card) ==
    /\ VerifiedCard(card)
    /\ pin \notin {None, card.key}
    /\ accepted' = None
    /\ UNCHANGED <<peer, pin, file, trusted, unsaved>>

ResolveRefused(card) ==
    /\ ~ VerifiedCard(card)
    /\ accepted' = None
    /\ UNCHANGED <<peer, pin, file, trusted, unsaved>>

\* forget_agent_card_key_pin
Forget ==
    /\ pin # None
    /\ pin' = None /\ file' = None
    /\ trusted' = None /\ unsaved' = FALSE
    /\ UNCHANGED <<peer, accepted>>

\* The pin is gone from memory, and comes back after a restart.
ForgetSaveFails ==
    /\ pin # None
    /\ pin' = None
    /\ trusted' = None
    /\ unsaved' = TRUE
    /\ UNCHANGED <<peer, file, accepted>>

\* KeyPins.__init__ reads the file.
Restart ==
    /\ pin' = file
    /\ accepted' = None
    /\ UNCHANGED <<peer, file, trusted, unsaved>>

Tick ==
    /\ now < MaxTime
    /\ now' = now + 1
    /\ UNCHANGED <<key, retired, cards, pin, file, history>>

CardsNext ==
    \/ \E card \in Served :
          \/ ResolvePinned(card) \/ ResolveFirst(card) \/ ResolveFirstSaveFails(card)
          \/ ResolveChanged(card) \/ ResolveRefused(card)
    \/ Register \/ Rotate
    \/ Forget \/ ForgetSaveFails
    \/ Restart \/ Tick

CardsSpec == CardsInit /\ [][CardsNext]_cardsVars

--------------------------------------------------------------------------------
\* "A changed key fails closed; call forget_agent_card_key_pin() only after
\* independently confirming an intentional key rotation": of the keys that a
\* resolve accepts, a next one is another only if the pin was forgotten between
\* them, restarts or not, unless writing the pins file failed and was not made
\* up for.
ChangedKeyFailsClosed ==
    [][trusted # None /\ trusted' # None /\ ~ unsaved => trusted' = trusted]_cardsVars

\* A client that has forgotten a key, or never had one, cannot be given a key
\* the peer gave up longer ago than a card may be old.
RetiredKeyFades ==
    accepted # None =>
        \/ accepted.card.key = key
        \/ retired[accepted.card.key] >= accepted.at - MaxAge
================================================================================
