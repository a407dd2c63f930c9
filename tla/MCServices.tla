------------------------------ MODULE MCServices ------------------------------
(***************************************************************************)
(* The three stores of a service relationship: the calls of a customer,    *)
(* the index of the groups they were made for, and follow-up grants.  They *)
(* share no state, so a behaviour is about one of them, and the others     *)
(* stay as they began.                                                     *)
(*                                                                         *)
(* There are two requests.  The restaurant answers the first one twice;    *)
(* the second one is answered for the wrong service, by the wrong          *)
(* business, under a nonce that was used before, and as it should.         *)
(***************************************************************************)
EXTENDS MCFollowupGrants, MCGroupIndex, ServiceCalls

CONSTANTS frankies, harbour

MCBusiness == [r \in Request |-> IF r = "r1" THEN frankies ELSE harbour]
MCService == [r \in Request |-> "book-table"]

Answers(nonce, request, iss, service) ==
    [nonce |-> nonce, request |-> request, iss |-> iss, service |-> service, fresh |-> TRUE]

MCResponse ==
    { Answers("p1", "r1", frankies, "book-table"),
      Answers("p2", "r1", frankies, "book-table"),
      Answers("p2", "r2", harbour, "book-table"),
      Answers("p3", "r2", harbour, "order-wine"),
      Answers("p4", "r2", frankies, "book-table"),
      Answers("p5", "r2", harbour, "book-table") }

VARIABLE part

ServicesInit ==
    /\ part \in {"calls", "index", "grants"}
    /\ CallsInit /\ IndexInit /\ GrantsInit

ServicesNext ==
    \/ part = "calls" /\ CallsNext /\ UNCHANGED <<part, indexVars, grantsVars>>
    \/ part = "index" /\ IndexNext /\ UNCHANGED <<part, callsVars, grantsVars>>
    \/ part = "grants" /\ GrantsNext /\ UNCHANGED <<part, callsVars, indexVars>>

ServicesSpec == ServicesInit /\ [][ServicesNext]_<<part, callsVars, indexVars, grantsVars>>
================================================================================
