----------------------------- MODULE Scheduler -----------------------------
(***************************************************************************)
(* The per-root work scheduler of the language server, translated from     *)
(* src/src/analysis/scheduler.cpp.  A fixed set of worker threads each own *)
(* a bounded queue; a root document is owned by one worker, so its work is *)
(* serial.  Callers submit background analyses (at most one pending per    *)
(* root, the newest version wins), interactive queries and barriers; they  *)
(* may cancel a root, cancel one token, or shut the scheduler down.        *)
(*                                                                         *)
(* A std::deque is modelled by the order it keeps: ahead[t] is the set of  *)
(* queued tasks in front of t, so an insertion is named by the tasks that  *)
(* stay in front.  Each action is one critical section of the worker mutex *)
(* or one atomic update between two of them.  The counters started_,       *)
(* active_, queued_, peak_queued_ and rejected_ are read by metrics() only *)
(* and are left out.                                                       *)
(***************************************************************************)
EXTENDS Integers, FiniteSets

CONSTANTS
  WorkerCount,      \* SchedulerOptions::worker_count
  QueueCapacity,    \* SchedulerOptions::queue_capacity
  Root,             \* the root documents
  Owner,            \* owner_for: the worker a root hashes to
  Requests,         \* the submissions callers may make
  MaxTasks          \* bound: how many times submit() is called

Worker == 0 .. WorkerCount - 1
Task == 1 .. MaxTasks     \* a task is named by the order of its submit() call
Request == [root : Root, version : Int, supersede : BOOLEAN,
            priority : {"background", "interactive", "barrier"}]

ASSUME SchedulerOptions ==
  /\ WorkerCount \in Nat \ {0}
  /\ QueueCapacity \in Nat
  /\ QueueCapacity >= WorkerCount

ASSUME SubmissionAssumption ==
  /\ Owner \in [Root -> Worker]
  /\ Requests \subseteq Request
  /\ Requests # {}
  /\ MaxTasks \in Nat

VARIABLES
  calls,        \* how many submit() calls have been made
  task,         \* what each call asked for; unread until the call is made
  state,        \* where each task is
  ahead,        \* the queued tasks in front of a queued task
  cancelled,    \* the tasks whose cancellation token has been cancelled
  thread,       \* the step of worker_loop each thread is about to take
  current,      \* the task each thread last took from its queue
  outstanding,  \* outstanding_
  metrics,      \* submitted_, completed_, cancelled_, failed_, coalesced_
  accepting,    \* accepting_
  closing,      \* the step of shutdown() its first caller is at
  drained,      \* how many workers shutdown() has drained
  stopping      \* the threads whose stop was requested

vars == <<calls, task, state, ahead, cancelled, thread, current, outstanding,
          metrics, accepting, closing, drained, stopping>>

queueVars == <<calls, task, ahead, outstanding>>
workerVars == <<thread, current>>
shutdownVars == <<accepting, closing, drained, stopping>>

-----------------------------------------------------------------------------
(* The queues.                                                             *)

Capacity(w) == (QueueCapacity \div WorkerCount)
               + (IF w < QueueCapacity % WorkerCount THEN 1 ELSE 0)

Queue(w) == {t \in Task : state[t] = "queued" /\ Owner[task[t].root] = w}
Of(r, S) == {t \in S : task[t].root = r}
With(p, S) == {t \in S : task[t].priority = p}
Analyses(r) == With("background", Of(r, Queue(Owner[r])))

\* The first of some queued tasks, in the order of their queue.
First(S) == CHOOSE t \in S : ahead[t] \cap S = {}

\* The tasks of the queue Q in front of all of S, which is all of Q if S is {}.
Before(S, Q) == {x \in Q : \A s \in S : x \in ahead[s]}
\* The tasks of the queue Q up to and including the last of S.
Through(S, Q) == S \cup {x \in Q : \E s \in S : x \in ahead[s]}

\* Fault: the root of the work in front is not looked at.
FrontOfAnyRoot(same, Q) == Before(With("background", Q), Q)
\* Behind the pending analysis of the root, or in front of every analysis.
QueryFront(same, Q) ==
  IF With("background", same) = {}
  THEN Before(With("background", Q), Q)
  ELSE Through({First(With("background", same))}, Q)
\* Behind all the work of the root, or in front of every analysis.
BarrierFront(same, Q) ==
  IF same = {} THEN Before(With("background", Q), Q) ELSE Through(same, Q)

\* Where submit() inserts in the queue Q: the tasks that stay in front.
Front(q, Q) ==
  LET same == Of(q.root, Q) IN
  CASE q.priority = "background" -> Before(With("barrier", same), Q)
    [] q.priority = "interactive" -> QueryFront(same, Q)
    [] q.priority = "barrier" -> BarrierFront(same, Q)

\* The order once the tasks S have left their queues.
Erased(S) == [x \in Task |-> IF x \in S THEN {} ELSE ahead[x] \ S]
\* The order once t has entered the queue Q behind the tasks front.
Inserted(order, t, front, Q) ==
  [x \in Task |-> IF x = t THEN front
                  ELSE IF x \in Q \ front THEN order[x] \cup {t}
                  ELSE order[x]]
\* The order once t has taken the place of old.
Replaced(old, t) ==
  [x \in Task |-> IF x = t THEN ahead[old]
                  ELSE IF x = old THEN {}
                  ELSE IF old \in ahead[x] THEN (ahead[x] \ {old}) \cup {t}
                  ELSE ahead[x]]

-----------------------------------------------------------------------------
(* The worker threads.  A task is in worker.running from the critical      *)
(* section that pops it to the one that erases it.                         *)

Registered(w) == thread[w] \in {"taken", "working", "returned", "settled"}
Running(r) == {current[w] : w \in {x \in {Owner[r]} :
                 Registered(x) /\ task[current[x]].root = r}}

\* The front task is popped and registered in one critical section.
Take(w) ==
  /\ thread[w] = "waiting"
  /\ Queue(w) # {}
  /\ LET t == First(Queue(w)) IN
       /\ state' = [state EXCEPT ![t] = "running"]
       /\ ahead' = Erased({t})
       /\ current' = [current EXCEPT ![w] = t]
  /\ thread' = [thread EXCEPT ![w] = "taken"]
  /\ UNCHANGED <<calls, task, cancelled, outstanding, metrics, shutdownVars>>

\* The task ends with the given outcome, and is counted.
End(w, outcome) ==
  /\ state' = [state EXCEPT ![current[w]] = outcome]
  /\ metrics' = [metrics EXCEPT ![outcome] = @ + 1]
  /\ thread' = [thread EXCEPT ![w] = "returned"]
  /\ UNCHANGED <<queueVars, current, cancelled, shutdownVars>>

\* Fault: the loop goes on to the next task before the bookkeeping.
SkipUnsettled(w) ==
  /\ thread[w] = "taken"
  /\ current[w] \in cancelled
  /\ thread' = [thread EXCEPT ![w] = "waiting"]
  /\ UNCHANGED <<queueVars, state, current, cancelled, metrics, shutdownVars>>

\* A task whose token is cancelled before its work is called is not run.
Skip(w) ==
  /\ thread[w] = "taken"
  /\ current[w] \in cancelled
  /\ End(w, "cancelled")

Begin(w) ==
  /\ thread[w] = "taken"
  /\ current[w] \notin cancelled
  /\ thread' = [thread EXCEPT ![w] = "working"]
  /\ UNCHANGED <<queueVars, state, current, cancelled, metrics, shutdownVars>>

\* The work returns, or throws; a return counts by the token of the task.
Finish(w) ==
  /\ thread[w] = "working"
  /\ \/ End(w, IF current[w] \in cancelled THEN "cancelled" ELSE "completed")
     \/ End(w, "failed")

Settle(w) ==
  /\ thread[w] = "returned"
  /\ outstanding' = outstanding - 1
  /\ thread' = [thread EXCEPT ![w] = "settled"]
  /\ UNCHANGED <<calls, task, state, ahead, current, cancelled, metrics,
                 shutdownVars>>

Unregister(w) ==
  /\ thread[w] = "settled"
  /\ thread' = [thread EXCEPT ![w] = "waiting"]
  /\ UNCHANGED <<queueVars, state, current, cancelled, metrics, shutdownVars>>

\* A stopped thread leaves when its queue is empty, and runs its cleanup.
Exit(w) ==
  /\ thread[w] = "waiting"
  /\ Queue(w) = {}
  /\ w \in stopping
  /\ thread' = [thread EXCEPT ![w] = "exited"]
  /\ UNCHANGED <<queueVars, state, current, cancelled, metrics, shutdownVars>>

-----------------------------------------------------------------------------
(* submit().  Every call names the next task.                              *)

Call(q) ==
  /\ calls < MaxTasks
  /\ calls' = calls + 1
  /\ task' = [task EXCEPT ![calls + 1] = q]
  /\ UNCHANGED <<workerVars, shutdownVars>>

\* accepting_ is read under the lock of the worker.  Fault: it is not.
CallUnchecked(q) == Call(q)
AcceptedCall(q) == accepting /\ Call(q)

\* Fault: only the front of the queue is compared.
CoalescesAtFront(q) == /\ q.priority = "background"
                       /\ Queue(Owner[q.root]) # {}
                       /\ First(Queue(Owner[q.root])) \in Analyses(q.root)
Coalesces(q) == q.priority = "background" /\ Analyses(q.root) # {}
NotOlder(q) == q.version >= task[First(Analyses(q.root))].version

\* Fault: one task more than the capacity.
FullTooLate(w) == Cardinality(Queue(w)) > Capacity(w)
Full(w) == Cardinality(Queue(w)) >= Capacity(w)
Evictable(w) == With("background", Queue(w))

\* The running work a new background submission cancels.
Superseded(q) ==
  IF q.priority = "background" /\ q.supersede THEN Running(q.root) ELSE {}

\* What a call cancels once it is admitted in the room of the tasks gone, or
\* refused.  Fault: the evicted are not told.
CancelledSilently(q, gone) == Superseded(q)
CancelledOnAdmission(q, gone) == gone \cup Superseded(q)
CancelledOnRefusal(q) == {calls + 1}

CountCoalesced ==
  metrics' = [metrics EXCEPT !.submitted = @ + 1, !.coalesced = @ + 1]

Refuse(q, end) ==
  /\ state' = [state EXCEPT ![calls + 1] = end]
  /\ cancelled' = cancelled \cup CancelledOnRefusal(q)
  /\ UNCHANGED <<ahead, outstanding>>

\* The call enters its queue once the tasks gone have been evicted from it.
Admit(q, gone) ==
  LET t == calls + 1
      Q == Queue(Owner[q.root]) \ gone
  IN  /\ state' = [x \in Task |-> IF x = t THEN "queued"
                                  ELSE IF x \in gone THEN "evicted"
                                  ELSE state[x]]
      /\ ahead' = Inserted(Erased(gone), t, Front(q, Q), Q)
      /\ cancelled' = cancelled \cup CancelledOnAdmission(q, gone)

SubmitAfterShutdown(q) ==
  /\ ~accepting
  /\ Call(q)
  /\ Refuse(q, "rejected")
  /\ UNCHANGED metrics

\* The pending analysis of the root gives its place to one not older.
SubmitNewer(q) ==
  /\ AcceptedCall(q)
  /\ Coalesces(q)
  /\ NotOlder(q)
  /\ LET t == calls + 1
         old == First(Analyses(q.root))
     IN  /\ state' = [state EXCEPT ![old] = "superseded", ![t] = "queued"]
         /\ ahead' = Replaced(old, t)
         /\ cancelled' = cancelled \cup CancelledOnAdmission(q, {old})
  /\ CountCoalesced
  /\ UNCHANGED outstanding

\* An analysis older than the pending one of its root is dropped.
SubmitOlder(q) ==
  /\ AcceptedCall(q)
  /\ Coalesces(q)
  /\ ~NotOlder(q)
  /\ Refuse(q, "superseded")
  /\ CountCoalesced

\* Barriers are exempt from the capacity of the queue.
SubmitWithRoom(q) ==
  /\ AcceptedCall(q)
  /\ ~Coalesces(q)
  /\ q.priority = "barrier" \/ ~Full(Owner[q.root])
  /\ Admit(q, {})
  /\ metrics' = [metrics EXCEPT !.submitted = @ + 1]
  /\ outstanding' = outstanding + 1

\* In a full queue the first background task, of whatever root, makes room.
SubmitEvicting(q) ==
  /\ AcceptedCall(q)
  /\ ~Coalesces(q)
  /\ q.priority # "barrier"
  /\ Full(Owner[q.root])
  /\ Evictable(Owner[q.root]) # {}
  /\ Admit(q, {First(Evictable(Owner[q.root]))})
  /\ CountCoalesced
  /\ UNCHANGED outstanding

SubmitToFullQueue(q) ==
  /\ AcceptedCall(q)
  /\ ~Coalesces(q)
  /\ q.priority # "barrier"
  /\ Full(Owner[q.root])
  /\ Evictable(Owner[q.root]) = {}
  /\ Refuse(q, "rejected")
  /\ UNCHANGED metrics

Submit(q) ==
  \/ SubmitAfterShutdown(q)
  \/ SubmitNewer(q)
  \/ SubmitOlder(q)
  \/ SubmitWithRoom(q)
  \/ SubmitEvicting(q)
  \/ SubmitToFullQueue(q)

-----------------------------------------------------------------------------
(* Cancellation and shutdown.                                              *)

\* Every queued task of S is dropped and its token cancelled.
Discard(S) ==
  /\ state' = [t \in Task |-> IF t \in S THEN "discarded" ELSE state[t]]
  /\ ahead' = Erased(S)
  /\ metrics' = [metrics EXCEPT !.cancelled = @ + Cardinality(S)]
  /\ outstanding' = outstanding - Cardinality(S)

CancelRoot(r) ==
  /\ Discard(Of(r, Queue(Owner[r])))
  /\ cancelled' = cancelled \cup Of(r, Queue(Owner[r])) \cup Running(r)
  /\ UNCHANGED <<calls, task, workerVars, shutdownVars>>

\* Whoever submitted a task may cancel its token at any time; the token of a
\* task that is over is read no more.
CancelToken(t) ==
  /\ state[t] \in {"queued", "running"}
  /\ cancelled' = cancelled \cup {t}
  /\ UNCHANGED <<queueVars, state, workerVars, metrics, shutdownVars>>

\* Only the first caller of shutdown() goes on from here.
BeginShutdown ==
  /\ accepting
  /\ accepting' = FALSE
  /\ closing' = "draining"
  /\ UNCHANGED <<queueVars, state, workerVars, cancelled, metrics, drained,
                 stopping>>

\* Faults: the running, or the queued, tasks are left alone; a token no task
\* holds is cancelled.
DrainQueueOnly(w) == Queue(w)
DrainRunningOnly(w) == IF Registered(w) THEN {current[w]} ELSE {}
DrainUnregistered(w) == Queue(w) \cup {current[w]}
CancelledByDrain(w) == Queue(w) \cup (IF Registered(w) THEN {current[w]} ELSE {})

DrainWorker(w) ==
  /\ closing = "draining"
  /\ w = drained
  /\ Discard(Queue(w))
  /\ cancelled' = cancelled \cup CancelledByDrain(w)
  /\ drained' = drained + 1
  /\ closing' = IF drained + 1 = WorkerCount THEN "stopping" ELSE "draining"
  /\ UNCHANGED <<calls, task, workerVars, accepting, stopping>>

RequestStop ==
  /\ closing = "stopping"
  /\ stopping' = Worker
  /\ closing' = "joining"
  /\ UNCHANGED <<queueVars, state, workerVars, cancelled, metrics, accepting,
                 drained>>

Join ==
  /\ closing = "joining"
  /\ \A w \in Worker : thread[w] = "exited"
  /\ closing' = "closed"
  /\ UNCHANGED <<queueVars, state, workerVars, cancelled, metrics, accepting,
                 drained, stopping>>

-----------------------------------------------------------------------------
Init ==
  /\ calls = 0
  /\ task = [t \in Task |-> CHOOSE q \in Requests : TRUE]
  /\ state = [t \in Task |-> "new"]
  /\ ahead = [t \in Task |-> {}]
  /\ cancelled = {}
  /\ thread = [w \in Worker |-> "waiting"]
  /\ current = [w \in Worker |-> 0]
  /\ outstanding = 0
  /\ metrics = [submitted |-> 0, completed |-> 0, cancelled |-> 0,
                failed |-> 0, coalesced |-> 0]
  /\ accepting = TRUE
  /\ closing = "open"
  /\ drained = 0
  /\ stopping = {}

WorkerStep(w) ==
  \/ Take(w)
  \/ Skip(w)
  \/ Begin(w)
  \/ Finish(w)
  \/ Settle(w)
  \/ Unregister(w)
  \/ Exit(w)

ShutdownStep == RequestStop \/ Join \/ \E w \in Worker : DrainWorker(w)

Next ==
  \/ \E q \in Requests : Submit(q)
  \/ \E w \in Worker : WorkerStep(w)
  \/ \E r \in Root : CancelRoot(r)
  \/ \E t \in Task : CancelToken(t)
  \/ BeginShutdown
  \/ ShutdownStep

Spec == Init /\ [][Next]_vars

\* The standard library wakes a thread whose predicate holds; a work function
\* returns once its token is cancelled, and owes nothing before that.
Progress(w) ==
  \/ Take(w) \/ Skip(w) \/ Begin(w) \/ Settle(w) \/ Unregister(w) \/ Exit(w)
  \/ current[w] \in cancelled /\ Finish(w)

FairSpec == /\ Spec
            /\ \A w \in Worker : WF_vars(Progress(w))
            /\ WF_vars(ShutdownStep)

-----------------------------------------------------------------------------
(* Correctness.                                                            *)

Waiting == {t \in Task : state[t] = "queued"}
Outcome == {"completed", "cancelled", "failed"}
Dropped == {t \in Task : state[t] \in
              {"superseded", "evicted", "rejected", "discarded"}}
\* The threads between the pop of a task and outstanding_.fetch_sub.
Busy == {w \in Worker : thread[w] \in {"taken", "working", "returned"}}

TypeOK ==
  /\ calls \in 0 .. MaxTasks
  /\ task \in [Task -> Requests]
  /\ state \in [Task -> {"new", "queued", "running", "superseded", "evicted",
                         "rejected", "discarded"} \cup Outcome]
  /\ ahead \in [Task -> SUBSET Task]
  /\ cancelled \subseteq Task
  /\ thread \in [Worker -> {"waiting", "taken", "working", "returned",
                            "settled", "exited"}]
  /\ current \in [Worker -> Task \cup {0}]
  /\ outstanding \in Int
  /\ metrics \in [{"submitted", "coalesced"} \cup Outcome -> Int]
  /\ accepting \in BOOLEAN
  /\ closing \in {"open", "draining", "stopping", "joining", "closed"}
  /\ drained \in 0 .. WorkerCount
  /\ stopping \in SUBSET Worker

StrictOrder(Q, order) ==
  /\ \A x \in Q : order[x] \subseteq Q /\ x \notin order[x]
  /\ \A x, y \in Q : x = y \/ x \in order[y] \/ y \in order[x]
  /\ \A x, y, z \in Q : x \in order[y] /\ y \in order[z] => x \in order[z]

FreshTasks == \A t \in Task : state[t] = "new" <=> t > calls
OrderedQueues == \A w \in Worker : StrictOrder(Queue(w), ahead)
TakenTasks ==
  \A w \in Worker : Registered(w) =>
    /\ current[w] \in Task
    /\ Owner[task[current[w]].root] = w
    /\ state[current[w]] \notin {"new", "queued"}
    /\ thread[w] \in {"taken", "working"} => state[current[w]] = "running"
ClosingSteps ==
  /\ accepting <=> closing = "open"
  /\ accepting => drained = 0
  /\ closing = "draining" => drained < WorkerCount

\* The structure the other properties rest on: ahead orders every queue (in
\* place replacement, eviction and erasure leave no cycle and no gap), a task
\* in the running map has left its queue, and shutdown() drains in turn.
Structure == FreshTasks /\ OrderedQueues /\ TakenTasks /\ ClosingSteps

\* At most one analysis of a root is pending, however submissions, evictions
\* and cancellations interleave (submit: a pending one is replaced in place).
OneAnalysisPerRoot ==
  \A r \in Root : \A x, y \in Analyses(r) : x = y

\* A barrier stays behind every task of its root submitted before it, through
\* in-place replacements, evictions and insertions of other priorities.
BarriersFollowEarlierWork ==
  \A b \in Waiting : task[b].priority = "barrier" =>
    \A t \in Of(task[b].root, Waiting) : t < b => t \in ahead[b]

\* A query stays behind the analysis of its root that was pending when it was
\* submitted: it never runs on the state that analysis is about to replace.
QueriesFollowAnalyses ==
  \A i \in Waiting : task[i].priority = "interactive" =>
    \A a \in With("background", Of(task[i].root, Waiting)) :
      a < i => a \in ahead[i]

\* Barriers aside, no queue outgrows the worker's share of queue_capacity.
QueuesBounded ==
  \A w \in Worker :
    Cardinality(Queue(w) \ With("barrier", Queue(w))) <= Capacity(w)

\* Work that was accepted or refused and will never run has a cancelled token,
\* so whoever waits on the token is told.
DroppedWorkIsCancelled == Dropped \subseteq cancelled

\* Once shutdown() has drained a worker no task enters its queue again, and
\* the task it runs, popped before or after the drain began, is cancelled.
DrainedWorkersStayEmpty ==
  \A w \in Worker : w < drained =>
    /\ Queue(w) = {}
    /\ Registered(w) => current[w] \in cancelled

\* outstanding_ is exactly the queued tasks and the ones being worked on: it
\* never wraps below zero and wait_idle() never returns past unfinished work.
\* Every submission that was counted is among them, or counted as completed,
\* failed, cancelled or coalesced.
OutstandingIsExact ==
  /\ outstanding = Cardinality(Waiting) + Cardinality(Busy)
  /\ metrics.submitted + Cardinality({w \in Worker : thread[w] = "returned"}) =
       metrics.completed + metrics.cancelled + metrics.failed
       + metrics.coalesced + outstanding

\* shutdown() returns: every thread is joined once its work heeds its token.
ShutdownReturns == closing # "open" ~> closing = "closed"

\* Every task that was queued is taken or dropped, and every task taken ends
\* (between finitely many submissions), if no work function runs for ever.
QueuedWorkEnds ==
  (\A w \in Worker : []<>(thread[w] # "working"))
    => \A t \in Task : state[t] \in {"queued", "running"}
                          ~> state[t] \notin {"queued", "running"}

\* The order of each root's work: one pending analysis, barriers behind all and
\* queries behind the analysis that came before them.
QueueOrder ==
  OneAnalysisPerRoot /\ BarriersFollowEarlierWork /\ QueriesFollowAnalyses

\* No submission is lost and none is counted twice: queues keep their bound, what
\* is dropped is cancelled, a drained worker stays drained, and outstanding_ and
\* the counters say exactly what is pending, running and over.
WorkIsAccountedFor ==
  /\ QueuesBounded
  /\ DroppedWorkIsCancelled
  /\ DrainedWorkersStayEmpty
  /\ OutstandingIsExact

\* What callers of submit() and shutdown() wait for comes: queued work ends, and
\* shutdown() returns with every thread joined.
WorkAndShutdownEnd == ShutdownReturns /\ QueuedWorkEnds

=============================================================================
