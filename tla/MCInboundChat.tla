---------------------------- MODULE MCInboundChat ----------------------------
(***************************************************************************)
(* A chat of alice's and a copy of it damaged in transit, both sealed for  *)
(* this agent; a second chat of hers that arrives only in the clear and    *)
(* sealed for somebody else; a signed envelope of bob's that is no chat.   *)
(* alice can become a friend and a team mate.                              *)
(***************************************************************************)
EXTENDS InboundChat

CONSTANTS alice, bob, carol, sigA, sigB, sigC, repo

Chat == [iss |-> alice, sig |-> sigA, iat |-> 2, authentic |-> TRUE, chat |-> TRUE]
Damaged == [Chat EXCEPT !.iat = 3, !.authentic = FALSE]
Other == [iss |-> bob, sig |-> sigB, iat |-> 2, authentic |-> TRUE, chat |-> FALSE]

Stray == [Chat EXCEPT !.sig = sigC]

MCEnvelope == {Chat, Damaged, Other, Stray}

MCDelivery ==
    { [env |-> e, form |-> "sealed", to |-> Self] : e \in {Chat, Damaged, Other} }
    \cup { [env |-> Stray, form |-> "plain", to |-> Self],
           [env |-> Stray, form |-> "sealed", to |-> bob] }

MCRow ==
    { [peer |-> alice, type |-> "friend", resource |-> NoResource],
      [peer |-> alice, type |-> "team", resource |-> repo] }

MCAllowedTypes == {"friend", "admin", "team"}
==============================================================================
