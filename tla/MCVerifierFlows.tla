---------------------------- MODULE MCVerifierFlows ----------------------------
(***************************************************************************)
(* What an agent asks of verifiers: that they attest its own identities    *)
(* and that they find other agents.  The two flows share no state, so a    *)
(* behaviour is about one of them.                                         *)
(*                                                                         *)
(* alice has a phone, bob a mail address; alice may also mistype and start *)
(* a verification of bob's.  One or two verifiers support a search.        *)
(***************************************************************************)
EXTENDS Verification, Discovery, TLC

CONSTANTS alice, bob, phone, mail, v1, v2

MCOwner == (phone :> alice) @@ (mail :> bob)

MCCandidates == {<<v1>>, <<v1, v2>>}

VARIABLE part

FlowsInit ==
    /\ part \in {"verify", "discover"}
    /\ VerificationInit /\ DiscoveryInit

FlowsNext ==
    \/ part = "verify" /\ VerificationNext /\ UNCHANGED <<part, discoveryVars>>
    \/ part = "discover" /\ DiscoveryNext /\ UNCHANGED <<part, verificationVars>>

FlowsSpec ==
    /\ FlowsInit /\ [][FlowsNext]_<<part, verificationVars, discoveryVars>>
    /\ WF_discoveryVars(NoAnswer)
================================================================================
