------------------------ MODULE SchedulerRefinement ------------------------
(* The scheduler keeps the contract of WorkContract: its queues, threads   *)
(* and capacities implement the abstract life of each submission.          *)
EXTENDS Scheduler

Phase(t) == CASE state[t] = "new" -> "new"
              [] state[t] = "queued" -> "pending"
              [] state[t] = "running" -> "running"
              [] t \in Dropped -> "dropped"
              [] OTHER -> "ended"

Contract == INSTANCE WorkContract WITH phase <- [t \in Task |-> Phase(t)]

\* Every behaviour of the scheduler is one the contract allows: no root's work
\* overlaps, barriers and queries never overtake, an older analysis never takes the
\* place of a newer one, nothing is dropped silently.
KeepsContract == Contract!Spec

=============================================================================
