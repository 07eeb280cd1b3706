-------------------------- MODULE MCRequestServing --------------------------
(***************************************************************************)
(* RequestServing for TLC.  The ids of the client are alike, so TLC only   *)
(* follows the behaviours in which the first request has a given one.      *)
(***************************************************************************)
EXTENDS RequestServing

FirstIdIsGiven == calls' >= 1 => id'[1] = CHOOSE i \in Id : TRUE

=============================================================================
