---------------------------- MODULE EnvelopePolicy ----------------------------
(***************************************************************************)
(* The pure part of aap.envelope_policy: what makes a signed envelope      *)
(* acceptable at an instant, and the key under which it is remembered.     *)
(*                                                                         *)
(* Time is counted in ticks, Second of them to a second, because the code  *)
(* compares instants of sub-second precision with timestamps it has cut    *)
(* down to whole seconds.  An envelope is a record                         *)
(*    iss        the issuer's address                                      *)
(*    sig        the signature string                                      *)
(*    iat        the instant it says it was issued                         *)
(*    authentic  the signature verifies over this content (and iat parses) *)
(* A copy damaged in transit keeps iss and sig and is not authentic.       *)
(***************************************************************************)
EXTENDS Integers

CONSTANTS
    Second,      \* ticks in one second
    MaxAge,      \* max_age_seconds, in ticks
    FutureSkew   \* future_skew_seconds, in ticks

ASSUME PolicyAssumption ==
    /\ Second \in Nat \ {0}
    /\ MaxAge \in Nat
    /\ FutureSkew \in Nat

\* strftime("%Y-%m-%dT%H:%M:%SZ") drops the fraction of a second.
WholeSeconds(t) == t - (t % Second)

\* validate_envelope_iat: both ends of the window are inclusive.
FreshIat(iat, now) ==
    /\ iat <= now + FutureSkew
    /\ iat >= now - MaxAge

\* verify_envelope up to the replay cache: the signature, then the timestamp.
Verifies(e, now) ==
    /\ e.authentic
    /\ FreshIat(e.iat, now)

ReplayKey(e) == <<e.iss, e.sig>>
================================================================================
