------------------------------ MODULE MCManager ------------------------------
(***************************************************************************)
(* Manager for TLC.  The arguments of the compiler are alike, so TLC only  *)
(* follows the behaviours in which the first analysis has given ones.  And *)
(* a bound: only documents are analysed in several versions.               *)
(***************************************************************************)
EXTENDS Manager

FirstArgumentsAreGiven ==
  calls' = 1 =>
    \A r \in Root : asked'[r] # NoJob =>
      asked'[r].arguments = CHOOSE arguments \in Arguments : TRUE

StagesHaveOneVersion ==
  \A r \in Stage : asked'[r] # NoJob =>
    \A version \in Version : asked'[r].version <= version

=============================================================================
