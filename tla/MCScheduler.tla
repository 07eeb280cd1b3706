---------------------------- MODULE MCScheduler ----------------------------
(* Small instances of the scheduler for TLC.                               *)
EXTENDS SchedulerRefinement, TLC

CONSTANTS a, b

Submission(r, p, v, s) ==
  [root |-> r, priority |-> p, version |-> v, supersede |-> s]

\* Two roots that hash to one worker.
OneOwner == [r \in Root |-> 0]
QueueRequests ==
  { Submission(a, "background", 1, TRUE), Submission(a, "interactive", 1, TRUE),
    Submission(a, "barrier", 1, TRUE), Submission(b, "background", 1, TRUE),
    Submission(a, "background", 2, FALSE) }

\* A worker for each of two roots.
TwoOwners == (a :> 0) @@ (b :> 1)
SplitRequests ==
  { Submission(a, "background", 1, TRUE), Submission(a, "interactive", 1, TRUE),
    Submission(b, "background", 1, FALSE) }

=============================================================================
