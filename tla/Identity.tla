------------------------------- MODULE Identity -------------------------------
(***************************************************************************)
(* load_or_generate at every start of an agent, registration of its card,  *)
(* and the mail that peers seal to the encryption key on a card they have  *)
(* resolved.  Starts come with different settings; files may be of an      *)
(* older version, without an encryption key; saves fail.                   *)
(*                                                                         *)
(* A key is a value of its own: the seed or private key and what is public *)
(* of it are one thing here, and what is sealed to a key and an address    *)
(* opens with that key, at that address, and no other.                     *)
(***************************************************************************)
EXTENDS Naturals

CONSTANTS
    Address,
    EnvSeed,      \* values of AAP_PRIVATE_SEED_B64
    EnvKey,       \* values for the environment's encryption key
    MaxFresh,     \* bound: keys that are generated
    Absent

Setting == [seed : EnvSeed \cup {Absent}, key : EnvKey \cup {Absent}, address : Address]

VARIABLES
    setting,      \* what the process is started with
    idFile,       \* the identity file: seed, key, address
    id,           \* the identity of the running process, or Absent
    fresh,        \* how many keys have been generated
    relayCards,   \* at the relay, per address: seed, key, and under which setting
    resolved,     \* a card that a peer resolved, perhaps a while ago
    mail          \* sealed envelopes: to, key, and the setting of the card

identityVars == <<setting, idFile, id, fresh, relayCards, resolved, mail>>

Generated(k) == <<"generated", k>>

\* derive_encryption_keypair
Derived(seed) == <<"derived", seed>>

IdentityInit ==
    /\ setting \in Setting
    /\ idFile \in {Absent} \cup [seed : {Generated(0)}, key : {Absent}, address : Address]
    /\ id = Absent /\ fresh = 0
    /\ relayCards = [a \in Address |-> Absent]
    /\ resolved = Absent /\ mail = {}

--------------------------------------------------------------------------------
Down == id = Absent

\* 1. The environment decides, and nothing is read or written.
LoadFromEnv ==
    /\ Down /\ setting.seed # Absent
    /\ id' = [seed |-> setting.seed, address |-> setting.address,
              key |-> IF setting.key # Absent THEN setting.key ELSE Derived(setting.seed)]
    /\ UNCHANGED <<setting, idFile, fresh, relayCards, resolved, mail>>

\* What an existing file becomes: an old one gets a generated encryption key,
\* and the address is the one the process was started with.
Migrated ==
    [seed |-> idFile.seed, address |-> setting.address,
     key |-> IF idFile.key # Absent THEN idFile.key ELSE Generated(fresh + 1)]

\* Mutant: only an address that changed makes the file be written.
MigrateUnsaved ==
    /\ Down /\ setting.seed = Absent /\ idFile # Absent
    /\ fresh' = IF idFile.key = Absent THEN fresh + 1 ELSE fresh
    /\ fresh' <= MaxFresh
    /\ id' = Migrated
    /\ idFile' = IF idFile.address # setting.address THEN Migrated ELSE idFile
    /\ UNCHANGED <<setting, relayCards, resolved, mail>>

\* 2. The file is there; it is written again when something is new.
LoadFromFile ==
    /\ Down /\ setting.seed = Absent /\ idFile # Absent
    /\ fresh' = IF idFile.key = Absent THEN fresh + 1 ELSE fresh
    /\ fresh' <= MaxFresh
    /\ id' = Migrated
    /\ idFile' = Migrated
    /\ UNCHANGED <<setting, relayCards, resolved, mail>>

Fresh == [seed |-> Generated(fresh + 1), key |-> Generated(fresh + 2), address |-> setting.address]

\* Mutant: the address is compared before the file is used.
GenerateForAddress ==
    /\ Down /\ setting.seed = Absent
    /\ idFile # Absent => idFile.address # setting.address
    /\ fresh + 2 <= MaxFresh
    /\ fresh' = fresh + 2 /\ id' = Fresh /\ idFile' = Fresh
    /\ UNCHANGED <<setting, relayCards, resolved, mail>>

\* 3. A new identity.
Generate ==
    /\ Down /\ setting.seed = Absent /\ idFile = Absent
    /\ fresh + 2 <= MaxFresh
    /\ fresh' = fresh + 2 /\ id' = Fresh /\ idFile' = Fresh
    /\ UNCHANGED <<setting, relayCards, resolved, mail>>

\* In 2 and 3 the save may raise, and the process does not start: the keys it
\* generated are gone.
StartFails ==
    /\ Down /\ setting.seed = Absent /\ fresh < MaxFresh
    /\ idFile # Absent => idFile # Migrated
    /\ fresh' = fresh + 1
    /\ UNCHANGED <<setting, idFile, id, relayCards, resolved, mail>>

Stop == ~ Down /\ id' = Absent /\ UNCHANGED <<setting, idFile, fresh, relayCards, resolved, mail>>

Reconfigure(s) ==
    /\ Down /\ setting' = s
    /\ UNCHANGED <<idFile, id, fresh, relayCards, resolved, mail>>

--------------------------------------------------------------------------------
\* The relay takes the first card of an address, and later ones with its seed;
\* register() raises KeyChangeRejected otherwise.
RegisterCard ==
    /\ ~ Down
    /\ LET card == relayCards[id.address]
       IN  card # Absent => card.seed = id.seed
    /\ relayCards' = [relayCards EXCEPT ![id.address] =
                    [seed |-> id.seed, key |-> id.key, setting |-> setting]]
    /\ UNCHANGED <<setting, idFile, id, fresh, resolved, mail>>

\* resolve_encryption_key of a peer, and ...
Resolve(a) ==
    /\ relayCards[a] # Absent
    /\ resolved' = [card |-> relayCards[a], to |-> a]
    /\ UNCHANGED <<setting, idFile, id, fresh, relayCards, mail>>

\* ... encrypt_envelope with what it returned: the key identifier and the
\* recipient's address are bound into the ciphertext.
Send ==
    /\ resolved # Absent
    /\ mail' = mail \cup {[to |-> resolved.to, key |-> resolved.card.key,
                           setting |-> resolved.card.setting]}
    /\ UNCHANGED <<setting, idFile, id, fresh, relayCards, resolved>>

IdentityNext ==
    \/ LoadFromEnv \/ LoadFromFile \/ Generate \/ StartFails \/ Stop
    \/ \E s \in Setting : Reconfigure(s)
    \/ RegisterCard \/ Send
    \/ \E a \in Address : Resolve(a)

IdentitySpec == IdentityInit /\ [][IdentityNext]_identityVars

--------------------------------------------------------------------------------
\* decrypt_envelope: the key identifier and the associated data match.
Opens(m) == m.key = id.key /\ m.to = id.address

\* Mail that was sealed to a card opens in every later process with the settings
\* under which that card was made, also when other settings were tried between,
\* saves failed, or the file was migrated.
MailOpens == \A m \in mail : ~ Down /\ m.setting = setting => Opens(m)

\* An agent is not shut out of its own address: only a card made under other
\* settings can make the relay reject its key.
NotShutOut ==
    ~ Down /\ relayCards[id.address] # Absent /\ relayCards[id.address].setting = setting
        => relayCards[id.address].seed = id.seed
================================================================================
