---------------------------- MODULE MCServiceCatalog ----------------------------
(***************************************************************************)
(* A catalog, and a later document that does not verify.                   *)
(***************************************************************************)
EXTENDS ServiceCatalog

CONSTANTS t1, t2

MCCatalog ==
    { [iat |-> 0, authentic |-> TRUE], [iat |-> 1, authentic |-> FALSE] }
===============================================================================
