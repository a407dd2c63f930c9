---------------------------- MODULE MCReplayCache ----------------------------
(***************************************************************************)
(* Two envelopes of one issuer, one of them issued ahead of the receiver's *)
(* clock, and a copy of the second that was damaged in transit: it keeps   *)
(* the signature, claims a later timestamp and does not verify.            *)
(***************************************************************************)
EXTENDS ReplayCache

CONSTANTS alice, sigA, sigB

MCEnvelope ==
    { [iss |-> alice, sig |-> sigA, iat |-> 2, authentic |-> TRUE],
      [iss |-> alice, sig |-> sigB, iat |-> 4, authentic |-> TRUE],
      [iss |-> alice, sig |-> sigB, iat |-> 6, authentic |-> FALSE] }
==============================================================================
