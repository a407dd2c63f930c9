--------------------------- MODULE MCConversations ---------------------------
(***************************************************************************)
(* bob's store of a conversation that alice convenes.  The events are      *)
(* everything that was ever signed for it: two invitations, updates that   *)
(* add dave, remove bob and hand the conversation to bob and back, carol's *)
(* and alice's leaves and a completion by each convener.                   *)
(***************************************************************************)
EXTENDS Broadcast

CONSTANTS alice, bob, carol, dave

Signed(kind, issuer, nonce, iat) ==
    [kind |-> kind, issuer |-> issuer, nonce |-> nonce, iat |-> iat, authentic |-> TRUE]

Invites(issuer, nonce, iat, members) ==
    [kind |-> "invitation", issuer |-> issuer, nonce |-> nonce, iat |-> iat,
     authentic |-> TRUE, members |-> members, convener |-> issuer]

Updates(issuer, nonce, iat, old, new, convener) ==
    [kind |-> "update", issuer |-> issuer, nonce |-> nonce, iat |-> iat,
     authentic |-> TRUE, members |-> new, convener |-> convener,
     added |-> new \ old, removed |-> old \ new,
     from |-> IF convener = issuer THEN NoChange ELSE issuer]

Three == {alice, bob, carol}

MCEvent ==
    { Invites(alice, 1, 0, Three),
      Invites(alice, 2, 1, {alice, bob}),
      Updates(alice, 3, 0, Three, Three \cup {dave}, alice),
      Updates(alice, 4, 1, Three, {alice, carol}, alice),
      Updates(alice, 5, 0, Three, Three, bob),
      Updates(bob, 6, 1, Three, Three, alice),
      Updates(alice, 11, 0, Three, {alice, bob}, alice),
      Signed("leave", carol, 7, 0),
      Signed("leave", alice, 8, 1),
      Signed("complete", alice, 9, 1),
      Signed("complete", bob, 10, 1) }

OwnRoster == { Conversation({bob, carol}, bob) }
==============================================================================
