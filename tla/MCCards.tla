-------------------------------- MODULE MCCards --------------------------------
(***************************************************************************)
(* Cards from both ends: what an agent does with the cards of one peer,    *)
(* whose key changes once, and what becomes of its own cards over its      *)
(* starts.  The two share no state, so a behaviour is about one of them.   *)
(***************************************************************************)
EXTENDS AgentCards, Identity

CONSTANTS a1, a2, seed1, key1

VARIABLE part

BothInit ==
    /\ part \in {"peer", "own"}
    /\ CardsInit /\ IdentityInit

BothNext ==
    \/ part = "peer" /\ CardsNext /\ UNCHANGED <<part, identityVars>>
    \/ part = "own" /\ IdentityNext /\ UNCHANGED <<part, cardsVars>>

BothSpec == BothInit /\ [][BothNext]_<<part, cardsVars, identityVars>>
================================================================================
