------------------------------ MODULE IdleWait ------------------------------
(***************************************************************************)
(* Scheduler::wait_idle of src/src/analysis/scheduler.cpp against the      *)
(* threads that change outstanding_, at the grain of single atomic         *)
(* operations.  The waiter tests outstanding_ under idle_mutex_ and parks  *)
(* on the condition variable idle_; nobody else takes that mutex.  Module  *)
(* Scheduler has the queues in full; here a queue is the set of its tasks. *)
(***************************************************************************)
EXTENDS Integers, FiniteSets

CONSTANTS
  Worker,      \* the worker threads
  Waiter,      \* the callers of wait_idle
  Capacity,    \* the share of queue_capacity of each worker
  MaxTasks     \* bound: how many submissions are made

Task == 1 .. MaxTasks

ASSUME IdleAssumption ==
  /\ Worker # {} /\ IsFiniteSet(Worker)
  /\ Capacity \in Nat \ {0}
  /\ MaxTasks \in Nat

NoTask == 0

VARIABLES
  calls,        \* how many submissions have been made
  queue,        \* the queued tasks of each worker
  entering,     \* the task a submission that evicted another is inserting
  thread,       \* the step of worker_loop each thread is about to take
  current,      \* the task each thread last took
  canceller,    \* the step of a caller of cancel_root or shutdown
  outstanding,  \* outstanding_
  waiter,       \* the step of wait_idle each waiter is about to take
  idle,         \* the holders of idle_mutex_, at most one
  owed          \* the work that was unfinished when each waiter called

vars == <<calls, queue, entering, thread, current, canceller, outstanding,
          waiter, idle, owed>>
waitVars == <<waiter, idle, owed>>

Unfinished == {t \in Task : \E w \in Worker :
                 t \in queue[w] \/ (thread[w] = "working" /\ current[w] = t)}

\* The mutex of a worker is free unless a submission is between its eviction
\* and its insertion.
Unlocked(w) == entering[w] = NoTask

-----------------------------------------------------------------------------
(* submit()                                                                *)

SubmitWithRoom(w) ==
  /\ Unlocked(w)
  /\ calls < MaxTasks
  /\ Cardinality(queue[w]) < Capacity
  /\ calls' = calls + 1
  /\ queue' = [queue EXCEPT ![w] = @ \cup {calls + 1}]
  /\ outstanding' = outstanding + 1
  /\ UNCHANGED <<entering, thread, current, canceller, waitVars>>

\* A pending analysis is replaced in place; outstanding_ is left alone.
SubmitReplacing(w) ==
  /\ Unlocked(w)
  /\ calls < MaxTasks
  /\ calls' = calls + 1
  /\ \E old \in queue[w] :
       queue' = [queue EXCEPT ![w] = (@ \ {old}) \cup {calls + 1}]
  /\ UNCHANGED <<entering, thread, current, canceller, outstanding, waitVars>>

\* The eviction counts the old task out before the new one is counted in.
SubmitEvict(w) ==
  /\ Unlocked(w)
  /\ calls < MaxTasks
  /\ Cardinality(queue[w]) >= Capacity
  /\ calls' = calls + 1
  /\ entering' = [entering EXCEPT ![w] = calls + 1]
  /\ \E old \in queue[w] : queue' = [queue EXCEPT ![w] = @ \ {old}]
  /\ outstanding' = outstanding - 1
  /\ UNCHANGED <<thread, current, canceller, waitVars>>

SubmitInsert(w) ==
  /\ ~Unlocked(w)
  /\ queue' = [queue EXCEPT ![w] = @ \cup {entering[w]}]
  /\ entering' = [entering EXCEPT ![w] = NoTask]
  /\ outstanding' = outstanding + 1
  /\ UNCHANGED <<calls, thread, current, canceller, waitVars>>

-----------------------------------------------------------------------------
(* The worker threads, cancel_root() and shutdown().                       *)

\* notify_all wakes the waiters that are parked.  Fault: notify_one.
WakeOne == LET parked == {x \in Waiter : waiter[x] = "parked"} IN
  [x \in Waiter |-> IF parked # {} /\ x = CHOOSE y \in parked : TRUE
                    THEN "locking" ELSE waiter[x]]
WakeAll == [x \in Waiter |-> IF waiter[x] = "parked" THEN "locking"
                             ELSE waiter[x]]
NotifyAll == waiter' = WakeAll /\ UNCHANGED <<idle, owed>>

\* Faults: a task is counted out when it is taken; or then and at its end.
CountedOutEarly(step) == IF step = "take" THEN 1 ELSE 0
CountedOutTwice(step) == 1
CountedOut(step) == IF step = "settle" THEN 1 ELSE 0

Take(w) ==
  /\ Unlocked(w)
  /\ thread[w] = "waiting"
  /\ \E t \in queue[w] :
       /\ queue' = [queue EXCEPT ![w] = @ \ {t}]
       /\ current' = [current EXCEPT ![w] = t]
  /\ thread' = [thread EXCEPT ![w] = "working"]
  /\ outstanding' = outstanding - CountedOut("take")
  /\ UNCHANGED <<calls, entering, canceller, waitVars>>

\* The work has returned: it is counted out, then the waiters are notified.
Settle(w) ==
  /\ thread[w] = "working"
  /\ thread' = [thread EXCEPT ![w] = "settled"]
  /\ outstanding' = outstanding - CountedOut("settle")
  /\ UNCHANGED <<calls, queue, entering, current, canceller, waitVars>>

NotifySettled(w) ==
  /\ thread[w] = "settled"
  /\ thread' = [thread EXCEPT ![w] = "waiting"]
  /\ NotifyAll
  /\ UNCHANGED <<calls, queue, entering, current, canceller, outstanding>>

\* cancel_root drops the queued tasks of a root, shutdown those of a worker.
Discard(w) ==
  /\ Unlocked(w)
  /\ canceller = "outside"
  /\ \E S \in SUBSET queue[w] :
       /\ queue' = [queue EXCEPT ![w] = @ \ S]
       /\ outstanding' = outstanding - Cardinality(S)
  /\ canceller' = "discarded"
  /\ UNCHANGED <<calls, entering, thread, current, waitVars>>

NotifyDiscarded ==
  /\ canceller = "discarded"
  /\ canceller' = "outside"
  /\ NotifyAll
  /\ UNCHANGED <<calls, queue, entering, thread, current, outstanding>>

-----------------------------------------------------------------------------
(* wait_idle()                                                             *)

work == <<calls, queue, entering, thread, current, canceller, outstanding>>

CallWait(x) ==
  /\ waiter[x] = "outside"
  /\ waiter' = [waiter EXCEPT ![x] = "locking"]
  /\ owed' = [owed EXCEPT ![x] = Unfinished]
  /\ UNCHANGED <<work, idle>>

Lock(x) ==
  /\ waiter[x] = "locking"
  /\ idle = {}
  /\ idle' = {x}
  /\ waiter' = [waiter EXCEPT ![x] = "testing"]
  /\ UNCHANGED <<work, owed>>

\* The predicate is read once; the mutex is held until the waiter parks.
Test(x) ==
  /\ waiter[x] = "testing"
  /\ waiter' = [waiter EXCEPT ![x] =
                  IF outstanding = 0 THEN "returned" ELSE "parking"]
  /\ idle' = IF outstanding = 0 THEN {} ELSE idle
  /\ UNCHANGED <<work, owed>>

\* The mutex is released and the waiter parked in one step.
Park(x) ==
  /\ waiter[x] = "parking"
  /\ waiter' = [waiter EXCEPT ![x] = "parked"]
  /\ idle' = {}
  /\ UNCHANGED <<work, owed>>

\* A condition variable may wake a waiter for no reason.
WakeSpuriously(x) ==
  /\ waiter[x] = "parked"
  /\ waiter' = [waiter EXCEPT ![x] = "locking"]
  /\ UNCHANGED <<work, idle, owed>>

-----------------------------------------------------------------------------
Init ==
  /\ calls = 0
  /\ queue = [w \in Worker |-> {}]
  /\ entering = [w \in Worker |-> NoTask]
  /\ thread = [w \in Worker |-> "waiting"]
  /\ current = [w \in Worker |-> NoTask]
  /\ canceller = "outside"
  /\ outstanding = 0
  /\ waiter = [x \in Waiter |-> "outside"]
  /\ idle = {}
  /\ owed = [x \in Waiter |-> {}]

Submit(w) == \/ SubmitWithRoom(w) \/ SubmitReplacing(w) \/ SubmitEvict(w)
             \/ SubmitInsert(w)
WorkerStep(w) == Take(w) \/ Settle(w) \/ NotifySettled(w)
WaitStep(x) == Lock(x) \/ Test(x) \/ Park(x)

Next ==
  \/ \E w \in Worker : Submit(w) \/ WorkerStep(w) \/ Discard(w)
  \/ NotifyDiscarded
  \/ \E x \in Waiter : CallWait(x) \/ WaitStep(x) \/ WakeSpuriously(x)

Spec == Init /\ [][Next]_vars

\* Threads that can go on do, and work returns; nothing more is submitted of
\* necessity, and no waiter is owed a spurious wakeup.  A mutex that is free
\* again and again is granted.
FairSpec ==
  /\ Spec
  /\ \A w \in Worker : WF_vars(WorkerStep(w)) /\ WF_vars(SubmitInsert(w))
  /\ WF_vars(NotifyDiscarded)
  /\ \A x \in Waiter : WF_vars(Test(x) \/ Park(x)) /\ SF_vars(Lock(x))

-----------------------------------------------------------------------------
TypeOK ==
  /\ calls \in 0 .. MaxTasks
  /\ queue \in [Worker -> SUBSET Task]
  /\ entering \in [Worker -> Task \cup {NoTask}]
  /\ thread \in [Worker -> {"waiting", "working", "settled"}]
  /\ current \in [Worker -> Task \cup {NoTask}]
  /\ canceller \in {"outside", "discarded"}
  /\ outstanding \in Nat
  /\ waiter \in [Waiter -> {"outside", "locking", "testing", "parking",
                            "parked", "returned"}]
  /\ idle \in SUBSET Waiter
  /\ owed \in [Waiter -> SUBSET Task]

\* wait_idle returns only when all the work that was unfinished at its call is
\* over.  An eviction lets outstanding_ touch zero while its own task is on
\* its way in; that task came after the call.
WaitCoversEarlierWork ==
  \A x \in Waiter : waiter[x] = "returned" => owed[x] \cap Unfinished = {}

\* A waiter that has parked before the last piece of work notifies returns, or
\* finds new work.
ParkedWaitersReturn ==
  \A x \in Waiter :
    (/\ waiter[x] = "parked"
     /\ outstanding = 0
     /\ canceller = "discarded" \/ \E w \in Worker : thread[w] = "settled")
      ~> (waiter[x] = "returned" \/ outstanding # 0)

\* Every call of wait_idle returns once the work has ended, as its callers
\* (the tests and Server::wait_for_analysis) expect.
WaitReturns ==
  \A x \in Waiter : waiter[x] = "locking" ~> waiter[x] = "returned"

\* What holds of wait_idle in every state, beside the types: it covers the work
\* that came before it.
Safety == TypeOK /\ WaitCoversEarlierWork

=============================================================================
