-------------------------- MODULE SchedulerProofs --------------------------
(***************************************************************************)
(* Proofs about Scheduler, for every number of workers and roots, every    *)
(* capacity, every set of requests and every number of submissions: the    *)
(* order of its queues, the accounting of its work, and that it implements *)
(* WorkContract with the refinement mapping of SchedulerRefinement.        *)
(***************************************************************************)
EXTENDS SchedulerRefinement, FiniteSetTheorems, WellFoundedInduction, TLAPS

-----------------------------------------------------------------------------
(* The order of a queue, and what the edits of submit() do to it.          *)

\* A set of tasks that no other task of Q stands in front of.
Prefix(P, Q) == P \subseteq Q /\ \A x \in P : ahead[x] \cap Q \subseteq P

\* The tasks are finitely many.
LEMMA TaskFinite ==
  ASSUME NEW S \in SUBSET Task
  PROVE  IsFiniteSet(S) /\ Cardinality(S) \in Nat
<1>1. IsFiniteSet(Task)
  BY FS_Interval, SubmissionAssumption DEF Task
<1>2. IsFiniteSet(S)
  BY <1>1, FS_Subset
<1> QED
  BY <1>2, FS_CardinalityType

\* Some task of a nonempty part of a queue stands in front of the others, so
\* First names one: the descent is over the finite sets of tasks in front.
LEMMA FirstIsFirst ==
  ASSUME NEW Q \in SUBSET Task, StrictOrder(Q, ahead),
         NEW S \in SUBSET Q, S # {}
  PROVE  First(S) \in S /\ ahead[First(S)] \cap S = {}
<1> DEFINE T == {ahead[x] \cap S : x \in S}
           R == StrictSubsetOrdering(S)
<1>1. IsWellFoundedOn(R, FiniteSubsetsOf(S))
  BY FS_StrictSubsetOrderingWellFounded
<1>2. T \subseteq FiniteSubsetsOf(S) /\ T # {}
  BY TaskFinite DEF FiniteSubsetsOf
<1>3. PICK m \in T : \A n \in T : ~(<<n, m>> \in R)
  BY <1>1, <1>2, WFMin, Zenon
<1>4. PICK x \in S : m = ahead[x] \cap S
  BY <1>3
<1>5. ASSUME NEW y \in m PROVE FALSE
  <2>1. y \in S /\ y \in ahead[x] /\ y \notin ahead[y]
    BY <1>4, <1>5 DEF StrictOrder
  <2>2. ahead[y] \cap S \subseteq m
    BY <1>4, <2>1 DEF StrictOrder
  <2>3. <<ahead[y] \cap S, m>> \in R
    BY <1>4, <1>5, <2>1, <2>2 DEF StrictSubsetOrdering
  <2> QED
    BY <1>3, <2>1, <2>3
<1> QED
  BY <1>4, <1>5 DEF First

\* Tasks leave a queue: the others keep their order.
LEMMA ErasedOrder ==
  ASSUME NEW Q \in SUBSET Task, StrictOrder(Q, ahead), NEW S
  PROVE  StrictOrder(Q \ S, Erased(S))
BY DEF StrictOrder, Erased

\* A task enters a queue behind a prefix of it.
LEMMA InsertedOrder ==
  ASSUME NEW Q \in SUBSET Task, NEW order, StrictOrder(Q, order),
         NEW front \in SUBSET Q, \A x \in front : order[x] \subseteq front,
         NEW t \in Task \ Q
  PROVE  StrictOrder(Q \cup {t}, Inserted(order, t, front, Q))
BY DEF StrictOrder, Inserted

LEMMA InsertedType ==
  ASSUME NEW order \in [Task -> SUBSET Task], NEW front \in SUBSET Task,
         NEW t \in Task, NEW Q
  PROVE  Inserted(order, t, front, Q) \in [Task -> SUBSET Task]
<1>1. \A x \in Task : order[x] \cup {t} \in SUBSET Task
  OBVIOUS
<1> QED
  BY <1>1 DEF Inserted

\* A task takes the place of another.
LEMMA ReplacedOrder ==
  ASSUME NEW Q \in SUBSET Task, StrictOrder(Q, ahead),
         NEW old \in Q, NEW t \in Task \ Q
  PROVE  StrictOrder((Q \ {old}) \cup {t}, Replaced(old, t))
BY DEF StrictOrder, Replaced

\* submit() always inserts behind a prefix of the queue.
LEMMA FrontIsPrefix ==
  ASSUME NEW whole \in SUBSET Task, StrictOrder(whole, ahead),
         NEW Q \in SUBSET whole, NEW q \in Request
  PROVE  Prefix(Front(q, Q), Q)
<1>1. ASSUME NEW S \in SUBSET Q PROVE Prefix(Before(S, Q), Q)
  BY <1>1 DEF Prefix, Before, StrictOrder
<1>2. ASSUME NEW S \in SUBSET Q PROVE Prefix(Through(S, Q), Q)
  BY <1>2 DEF Prefix, Through, StrictOrder
<1>3. Of(q.root, Q) \subseteq Q
      /\ \A p : With(p, Q) \subseteq Q /\ With(p, Of(q.root, Q)) \subseteq Q
  BY DEF Of, With
<1>4. With("background", Of(q.root, Q)) # {}
      => {First(With("background", Of(q.root, Q)))} \subseteq Q
  BY <1>3, FirstIsFirst
<1>5. q.priority \in {"background", "interactive", "barrier"}
  BY DEF Request
<1> QED
  BY <1>1, <1>2, <1>3, <1>4, <1>5 DEF Front, QueryFront, BarrierFront

-----------------------------------------------------------------------------
(* Type correctness and structure.                                         *)

IInv == TypeOK /\ Structure

\* The parts of a queue are parts of it.
LEMMA Parts ==
  ASSUME NEW w \in Worker, NEW r, NEW p, NEW S
  PROVE  /\ Queue(w) \in SUBSET Task
         /\ Of(r, S) \subseteq S
         /\ With(p, S) \subseteq S
BY DEF Queue, Of, With

\* A requested root has an owner among the workers.
LEMMA OwnerInRange ==
  /\ \A q \in Requests : q.root \in Root /\ Owner[q.root] \in Worker
                         /\ q \in Request
  /\ \A r \in Root : Owner[r] \in Worker
BY SubmissionAssumption DEF Request

LEMMA InitInvariant == Init => IInv
<1> SUFFICES ASSUME Init PROVE IInv
  OBVIOUS
<1>1. (CHOOSE q \in Requests : TRUE) \in Requests
  BY SubmissionAssumption
<1>2. TypeOK
  BY <1>1, SubmissionAssumption, SchedulerOptions
  DEF Init, TypeOK, Outcome, Task, Worker
<1>3. \A w \in Worker : Queue(w) = {}
  BY DEF Init, Queue
<1>4. Structure
  BY <1>3, SubmissionAssumption, SchedulerOptions
  DEF Init, Structure, FreshTasks, OrderedQueues, StrictOrder, TakenTasks,
      ClosingSteps, Registered, Task
<1> QED
  BY <1>2, <1>4 DEF IInv

\* What the pop of the front task leaves.
LEMMA TakeInvariant ==
  ASSUME IInv, NEW w \in Worker, Take(w) PROVE IInv'
<1> DEFINE t == First(Queue(w))
<1>1. t \in Queue(w)
  BY Parts, FirstIsFirst DEF IInv, Structure, OrderedQueues, Take
<1>2. t \in Task /\ state[t] = "queued" /\ Owner[task[t].root] = w
  BY <1>1 DEF Queue
<1>3. TypeOK'
  BY <1>2 DEF IInv, TypeOK, Take, Erased, shutdownVars
<1>4. \A x \in Worker : Queue(x)' = Queue(x) \ {t}
  BY <1>2 DEF IInv, TypeOK, Take, Queue
<1>5. OrderedQueues'
  BY <1>4, Parts, ErasedOrder
  DEF IInv, Structure, OrderedQueues, Take
<1>6. FreshTasks'
  BY <1>2 DEF IInv, TypeOK, Structure, FreshTasks, Take
<1>7. TakenTasks'
  BY <1>2 DEF IInv, TypeOK, Structure, TakenTasks, Take, Registered
<1>8. ClosingSteps'
  BY DEF IInv, Structure, ClosingSteps, Take, shutdownVars
<1> QED
  BY <1>3, <1>5, <1>6, <1>7, <1>8 DEF IInv, Structure

\* The other steps of a worker thread leave the queues alone.
LEMMA WorkerInvariant ==
  ASSUME IInv, NEW w \in Worker,
         Skip(w) \/ Begin(w) \/ Finish(w) \/ Settle(w) \/ Unregister(w) \/ Exit(w)
  PROVE  IInv'
<1> USE DEF queueVars, shutdownVars
<1>1. /\ calls' = calls /\ task' = task /\ ahead' = ahead /\ current' = current
      /\ UNCHANGED shutdownVars /\ cancelled' = cancelled
  BY DEF Skip, Begin, Finish, Settle, Unregister, Exit, End
<1>2. /\ state' = state
      \/ /\ thread[w] \in {"taken", "working"} /\ thread'[w] = "returned"
         /\ \E o \in Outcome : state' = [state EXCEPT ![current[w]] = o]
  BY DEF Skip, Begin, Finish, Settle, Unregister, Exit, End, IInv, TypeOK, Outcome
<1>3. /\ \E s \in {"waiting", "working", "returned", "settled", "exited"} :
            thread' = [thread EXCEPT ![w] = s]
      /\ Registered(w)' => Registered(w)
      /\ thread'[w] = "working" => thread[w] = "taken" /\ state' = state
      /\ thread'[w] # "taken"
  BY DEF Skip, Begin, Finish, Settle, Unregister, Exit, End, IInv, TypeOK, Registered
<1>4. outstanding' \in Int /\ metrics' \in [{"submitted", "coalesced"} \cup Outcome -> Int]
  BY DEF Skip, Begin, Finish, Settle, Unregister, Exit, End, IInv, TypeOK, Outcome
<1>5. TypeOK'
  BY <1>1, <1>2, <1>3, <1>4 DEF IInv, TypeOK, Outcome
<1>6. \A t \in Task : /\ state'[t] = "queued" <=> state[t] = "queued"
                      /\ state'[t] = "new" <=> state[t] = "new"
  BY <1>2 DEF IInv, TypeOK, Structure, TakenTasks, Registered, Outcome
<1>7. \A x \in Worker : Queue(x)' = Queue(x)
  BY <1>1, <1>6 DEF Queue
<1>8. OrderedQueues' /\ FreshTasks' /\ ClosingSteps'
  BY <1>1, <1>6, <1>7
  DEF IInv, Structure, OrderedQueues, StrictOrder, FreshTasks, ClosingSteps
<1>9. TakenTasks'
  BY <1>1, <1>2, <1>3, <1>6
  DEF IInv, TypeOK, Structure, TakenTasks, Registered, Outcome
<1> QED
  BY <1>5, <1>8, <1>9 DEF IInv, Structure

\* Dropping queued tasks, whether for one root or for a whole worker.
LEMMA DiscardInvariant ==
  ASSUME IInv, NEW S \in SUBSET Waiting, Discard(S),
         UNCHANGED <<calls, task, thread, current>>
  PROVE  /\ state' \in [Task -> {"new", "queued", "running", "superseded",
                          "evicted", "rejected", "discarded"} \cup Outcome]
         /\ ahead' \in [Task -> SUBSET Task]
         /\ outstanding' \in Int
         /\ metrics' \in [{"submitted", "coalesced"} \cup Outcome -> Int]
         /\ \A w \in Worker : Queue(w)' = Queue(w) \ S
         /\ OrderedQueues' /\ FreshTasks' /\ TakenTasks'
<1>1. S \subseteq Task /\ \A t \in S : state[t] = "queued"
  BY DEF Waiting
<1>2. Cardinality(S) \in Nat
  BY <1>1, TaskFinite
<1>3. /\ state' \in [Task -> {"new", "queued", "running", "superseded",
                          "evicted", "rejected", "discarded"} \cup Outcome]
      /\ ahead' \in [Task -> SUBSET Task]
  BY <1>1 DEF IInv, TypeOK, Discard, Erased
<1>4. outstanding' \in Int
      /\ metrics' \in [{"submitted", "coalesced"} \cup Outcome -> Int]
  BY <1>2 DEF IInv, TypeOK, Discard, Outcome
<1>5. \A w \in Worker : Queue(w)' = Queue(w) \ S
  BY <1>1 DEF IInv, TypeOK, Discard, Queue
<1>6. OrderedQueues'
  BY <1>5, Parts, ErasedOrder DEF IInv, Structure, OrderedQueues, Discard
<1>7. FreshTasks' /\ TakenTasks'
  BY <1>1 DEF IInv, TypeOK, Structure, FreshTasks, TakenTasks, Discard, Registered
<1> QED
  BY <1>3, <1>4, <1>5, <1>6, <1>7

\* The tasks whose tokens Running names exist.
LEMMA RunningInTask ==
  ASSUME IInv, NEW r \in Root
  PROVE  Running(r) \subseteq Task
BY OwnerInRange DEF IInv, Structure, TakenTasks, Running

LEMMA CancelInvariant ==
  ASSUME IInv,
         \/ \E r \in Root : CancelRoot(r)
         \/ \E t \in Task : CancelToken(t)
  PROVE  IInv'
<1>1. ASSUME NEW r \in Root, CancelRoot(r) PROVE IInv'
  <2> DEFINE S == Of(r, Queue(Owner[r]))
  <2>1. S \subseteq Waiting /\ S \subseteq Task
    BY DEF Of, Queue, Waiting
  <2>2. UNCHANGED <<calls, task, thread, current>> /\ UNCHANGED shutdownVars
    BY <1>1 DEF CancelRoot, workerVars
  <2>3. cancelled' \subseteq Task
    BY <1>1, <2>1, RunningInTask DEF CancelRoot, IInv, TypeOK
  <2>4. TypeOK'
    BY <1>1, <2>1, <2>2, <2>3, DiscardInvariant
    DEF CancelRoot, IInv, TypeOK, shutdownVars
  <2>5. Structure'
    BY <1>1, <2>1, <2>2, DiscardInvariant
    DEF CancelRoot, IInv, Structure, ClosingSteps, shutdownVars
  <2> QED
    BY <2>4, <2>5 DEF IInv
<1>2. ASSUME NEW t \in Task, CancelToken(t) PROVE IInv'
  <2>1. UNCHANGED <<calls, task, state, ahead, outstanding, metrics, thread,
                    current, accepting, closing, drained, stopping>>
        /\ cancelled' \subseteq Task
    BY <1>2 DEF CancelToken, queueVars, workerVars, shutdownVars, IInv, TypeOK
  <2>2. \A w \in Worker : Queue(w)' = Queue(w)
    BY <2>1 DEF Queue
  <2> QED
    BY <2>1, <2>2
    DEF IInv, TypeOK, Structure, FreshTasks, OrderedQueues, StrictOrder,
        TakenTasks, ClosingSteps, Registered
<1> QED
  BY <1>1, <1>2

LEMMA ShutdownInvariant ==
  ASSUME IInv, BeginShutdown \/ ShutdownStep PROVE IInv'
<1> USE DEF queueVars, workerVars
<1>1. ASSUME NEW w \in Worker, DrainWorker(w) PROVE IInv'
  <2>1. Queue(w) \subseteq Waiting /\ Queue(w) \subseteq Task
    BY DEF Queue, Waiting
  <2>2. UNCHANGED <<calls, task, thread, current, accepting, stopping>>
    BY <1>1 DEF DrainWorker
  <2>3. cancelled' \subseteq Task
    BY <1>1, <2>1
    DEF DrainWorker, CancelledByDrain, IInv, TypeOK, Structure, TakenTasks
  <2>4. /\ closing = "draining" /\ drained' \in 0 .. WorkerCount
        /\ closing' \in {"draining", "stopping"}
        /\ closing' = "draining" => drained' < WorkerCount
    BY <1>1, SchedulerOptions
    DEF DrainWorker, IInv, TypeOK, Structure, ClosingSteps
  <2>5. TypeOK'
    BY <1>1, <2>1, <2>2, <2>3, <2>4, DiscardInvariant
    DEF DrainWorker, IInv, TypeOK
  <2>6. Structure'
    BY <1>1, <2>1, <2>2, <2>4, DiscardInvariant
    DEF DrainWorker, IInv, Structure, ClosingSteps
  <2> QED
    BY <2>5, <2>6 DEF IInv
<1>2. ASSUME BeginShutdown \/ RequestStop \/ Join PROVE IInv'
  <2>1. UNCHANGED <<calls, task, state, ahead, outstanding, metrics, thread,
                    current, cancelled, drained>>
    BY <1>2 DEF BeginShutdown, RequestStop, Join
  <2>2. \A w \in Worker : Queue(w)' = Queue(w)
    BY <2>1 DEF Queue
  <2>3. TypeOK'
    BY <1>2, <2>1 DEF BeginShutdown, RequestStop, Join, IInv, TypeOK
  <2>4. ClosingSteps'
    BY <1>2, <2>1, SchedulerOptions
    DEF BeginShutdown, RequestStop, Join, IInv, TypeOK, Structure, ClosingSteps
  <2> QED
    BY <2>1, <2>2, <2>3, <2>4
    DEF IInv, Structure, FreshTasks, OrderedQueues, StrictOrder, TakenTasks,
        Registered
<1> QED
  BY <1>1, <1>2 DEF ShutdownStep

\* The call a submission makes: the next task, which is in no queue yet.
LEMMA CallFacts ==
  ASSUME IInv, NEW q \in Requests, Call(q)
  PROVE  /\ calls + 1 \in Task /\ state[calls + 1] = "new"
         /\ calls' \in 0 .. MaxTasks /\ task' \in [Task -> Requests]
         /\ \A x \in Task : x # calls + 1 => task'[x] = task[x]
         /\ task'[calls + 1] = q
         /\ UNCHANGED <<thread, current, accepting, closing, drained, stopping>>
BY SubmissionAssumption
DEF IInv, TypeOK, Structure, FreshTasks, Call, Task, workerVars, shutdownVars

\* A coalesced submission counts as submitted and as coalesced.
LEMMA CoalescedMetrics ==
  ASSUME TypeOK,
         metrics' = [metrics EXCEPT !.submitted = @ + 1, !.coalesced = @ + 1]
  PROVE  /\ metrics' \in [{"submitted", "coalesced"} \cup Outcome -> Int]
         /\ metrics'.submitted = metrics.submitted + 1
         /\ metrics'.coalesced = metrics.coalesced + 1
         /\ \A o \in Outcome : metrics'[o] = metrics[o]
<1> DEFINE D == {"submitted", "coalesced"} \cup Outcome
           n == [metrics EXCEPT !["submitted"] = @ + 1]
<1>1. metrics \in [D -> Int]
  BY DEF TypeOK
<1>2. "submitted" \in D /\ "coalesced" \in D /\ Outcome \subseteq D
      /\ "submitted" \notin Outcome /\ "coalesced" \notin Outcome
  BY DEF Outcome
<1>3. n \in [D -> Int] /\ n["submitted"] = metrics["submitted"] + 1
      /\ \A d \in D : d # "submitted" => n[d] = metrics[d]
  BY <1>1, <1>2
<1>4. metrics' = [n EXCEPT !["coalesced"] = @ + 1]
  OBVIOUS
<1> HIDE DEF n, D
<1> QED
  BY <1>2, <1>3, <1>4 DEF D

\* A submission that queues nothing keeps the queues.
LEMMA RefusedInvariant ==
  ASSUME IInv, NEW q \in Requests, Call(q),
         UNCHANGED <<ahead, outstanding>>,
         metrics' \in [{"submitted", "coalesced"} \cup Outcome -> Int],
         cancelled' = cancelled \cup {calls + 1},
         NEW end \in {"rejected", "superseded"},
         state' = [state EXCEPT ![calls + 1] = end]
  PROVE  IInv'
<1>1. /\ calls + 1 \in Task /\ state[calls + 1] = "new"
      /\ calls' \in 0 .. MaxTasks /\ task' \in [Task -> Requests]
      /\ \A x \in Task : x # calls + 1 => task'[x] = task[x]
      /\ UNCHANGED <<thread, current, accepting, closing, drained, stopping>>
  BY CallFacts
<1>2. TypeOK'
  BY <1>1 DEF IInv, TypeOK
<1>3. \A w \in Worker : Queue(w)' = Queue(w)
  BY <1>1 DEF IInv, TypeOK, Queue
<1>4. FreshTasks'
  BY <1>1 DEF IInv, TypeOK, Structure, FreshTasks, Call, Task
<1>5. OrderedQueues' /\ ClosingSteps'
  BY <1>1, <1>3
  DEF IInv, Structure, OrderedQueues, StrictOrder, ClosingSteps
<1>6. TakenTasks'
  BY <1>1 DEF IInv, TypeOK, Structure, TakenTasks, Registered
<1> QED
  BY <1>2, <1>4, <1>5, <1>6 DEF IInv, Structure

\* The queues after a task has entered one of them in the room of others.
LEMMA AdmitQueues ==
  ASSUME IInv, NEW q \in Requests, Call(q),
         NEW gone \in SUBSET Queue(Owner[q.root]), Admit(q, gone)
  PROVE  /\ Queue(Owner[q.root])'
              = (Queue(Owner[q.root]) \ gone) \cup {calls + 1}
         /\ \A w \in Worker : w # Owner[q.root] => Queue(w)' = Queue(w)
         /\ Prefix(Front(q, Queue(Owner[q.root]) \ gone),
                   Queue(Owner[q.root]) \ gone)
<1> DEFINE w == Owner[q.root]
           t == calls + 1
           Q == Queue(w) \ gone
<1>1. t \in Task /\ state[t] = "new" /\ task'[t] = q
      /\ \A x \in Task : x # t => task'[x] = task[x]
  BY CallFacts
<1>2. gone \subseteq Task /\ \A x \in gone : state[x] = "queued"
                              /\ Owner[task[x].root] = w
  BY DEF Queue
<1>8. \A x \in Task : state'[x] = "queued" <=>
                        x = t \/ (state[x] = "queued" /\ x \notin gone)
  BY <1>1, <1>2 DEF Admit
<1>3. \A x \in Worker : Queue(x)' = (Queue(x) \ gone) \cup (IF x = w THEN {t} ELSE {})
  <2> TAKE x \in Worker
  <2>1. \A y \in Task : y \in Queue(x)' <=>
          y \in Queue(x) \ gone \/ (x = w /\ y = t)
    BY <1>1, <1>8 DEF Queue
  <2> QED
    BY <1>1, <2>1 DEF Queue
<1>4. \A x \in Worker : x # w => Queue(x) \ gone = Queue(x)
  BY <1>2 DEF Queue
<1>5. w \in Worker /\ q \in Request
  BY OwnerInRange
<1>6. StrictOrder(Queue(w), ahead)
  BY <1>5 DEF IInv, Structure, OrderedQueues
<1>7. Prefix(Front(q, Q), Q)
  BY <1>5, <1>6, Parts, FrontIsPrefix
<1> QED
  BY <1>3, <1>4, <1>5, <1>7

LEMMA AdmitInvariant ==
  ASSUME IInv, NEW q \in Requests, Call(q), accepting,
         NEW gone \in SUBSET Queue(Owner[q.root]), Admit(q, gone),
         metrics' \in [{"submitted", "coalesced"} \cup Outcome -> Int],
         outstanding' \in Int
  PROVE  IInv'
<1> DEFINE w == Owner[q.root]
           t == calls + 1
           Q == Queue(w) \ gone
           front == Front(q, Q)
<1>1. /\ t \in Task /\ state[t] = "new"
      /\ calls' \in 0 .. MaxTasks /\ task' \in [Task -> Requests]
      /\ \A x \in Task : x # t => task'[x] = task[x]
      /\ UNCHANGED <<thread, current, accepting, closing, drained, stopping>>
  BY CallFacts
<1>2. w \in Worker /\ q.root \in Root
  BY OwnerInRange
<1>3. /\ Queue(w)' = Q \cup {t}
      /\ \A x \in Worker : x # w => Queue(x)' = Queue(x)
      /\ Prefix(front, Q)
  BY AdmitQueues
<1>4. gone \subseteq Task /\ \A x \in gone : state[x] = "queued"
  BY DEF Queue
<1>5. TypeOK'
  <2>1. ahead' \in [Task -> SUBSET Task]
    <3>1. front \subseteq Task /\ Erased(gone) \in [Task -> SUBSET Task]
      BY <1>3, Parts DEF Erased, Prefix, IInv, TypeOK, Queue
    <3> QED
      BY <1>1, <3>1, InsertedType DEF Admit
  <2>2. state' \in [Task -> {"new", "queued", "running", "superseded",
                         "evicted", "rejected", "discarded"} \cup Outcome]
    BY DEF Admit, IInv, TypeOK
  <2>3. cancelled' \subseteq Task
    BY <1>2, <1>4, RunningInTask DEF Admit, CancelledOnAdmission, Superseded, IInv, TypeOK
  <2> QED
    BY <1>1, <2>1, <2>2, <2>3 DEF IInv, TypeOK
<1>6. FreshTasks'
  BY <1>1, <1>4 DEF Admit, IInv, TypeOK, Structure, FreshTasks, Call, Task
<1>7. OrderedQueues'
  <2>1. StrictOrder(Queue(w), ahead) /\ Queue(w) \in SUBSET Task
    BY <1>2, Parts DEF IInv, Structure, OrderedQueues
  <2>2. StrictOrder(Q, Erased(gone))
    BY <2>1, ErasedOrder
  <2>3. \A x \in front : Erased(gone)[x] \subseteq front
    BY <1>3, <2>1 DEF Erased, Prefix, StrictOrder
  <2>4. t \notin Q
    BY <1>1 DEF Queue
  <2>5. StrictOrder(Q \cup {t}, Inserted(Erased(gone), t, front, Q))
    BY <1>1, <1>3, <2>1, <2>2, <2>3, <2>4, InsertedOrder DEF Prefix
  <2>6. StrictOrder(Queue(w)', ahead')
    BY <1>3, <2>5 DEF Admit
  <2>7. ASSUME NEW x \in Worker, x # w PROVE StrictOrder(Queue(x)', ahead')
    <3>1. \A y \in Queue(x) : y \in Task /\ y # t /\ y \notin Queue(w)
      BY <1>1, <2>7 DEF Queue
    <3>2. StrictOrder(Queue(x), ahead)
      BY DEF IInv, Structure, OrderedQueues
    <3>3. \A y \in Queue(x) : ahead'[y] = ahead[y]
      BY <3>1, <3>2 DEF Admit, Inserted, Erased, StrictOrder
    <3> QED
      BY <1>3, <2>7, <3>2, <3>3 DEF StrictOrder
  <2> QED
    BY <2>6, <2>7 DEF OrderedQueues
<1>8. TakenTasks'
  BY <1>1, <1>4 DEF Admit, IInv, TypeOK, Structure, TakenTasks, Registered
<1>9. ClosingSteps'
  BY <1>1 DEF IInv, Structure, ClosingSteps
<1> QED
  BY <1>5, <1>6, <1>7, <1>8, <1>9 DEF IInv, Structure

\* The task a coalesced submission replaces is the pending one of its root.
LEMMA PendingAnalysis ==
  ASSUME IInv, NEW r \in Root, Analyses(r) # {}
  PROVE  /\ First(Analyses(r)) \in Analyses(r)
         /\ Analyses(r) \subseteq Queue(Owner[r])
         /\ \A t \in Analyses(r) : t \in Task /\ state[t] = "queued"
                                   /\ task[t].root = r
<1>1. Analyses(r) \subseteq Queue(Owner[r])
      /\ \A t \in Analyses(r) : t \in Task /\ state[t] = "queued"
                                /\ task[t].root = r
  BY DEF Analyses, With, Of, Queue
<1>2. StrictOrder(Queue(Owner[r]), ahead) /\ Queue(Owner[r]) \in SUBSET Task
  BY OwnerInRange, Parts DEF IInv, Structure, OrderedQueues
<1> QED
  BY <1>1, <1>2, FirstIsFirst

LEMMA NewerInvariant ==
  ASSUME IInv, NEW q \in Requests, SubmitNewer(q) PROVE IInv'
<1> DEFINE w == Owner[q.root]
           t == calls + 1
           old == First(Analyses(q.root))
<1>1. /\ t \in Task /\ state[t] = "new"
      /\ calls' \in 0 .. MaxTasks /\ task' \in [Task -> Requests]
      /\ \A x \in Task : x # t => task'[x] = task[x]
      /\ task'[t] = q
      /\ UNCHANGED <<thread, current, accepting, closing, drained, stopping>>
  BY CallFacts DEF SubmitNewer, AcceptedCall
<1>2. w \in Worker /\ q.root \in Root
  BY OwnerInRange
<1>3. old \in Queue(w) /\ old \in Task /\ state[old] = "queued"
      /\ task[old].root = q.root
  BY <1>2, PendingAnalysis DEF SubmitNewer, Coalesces
<1>4. TypeOK'
  <2>1. cancelled' \subseteq Task
    BY <1>2, <1>3, RunningInTask DEF SubmitNewer, CancelledOnAdmission, Superseded, IInv, TypeOK
  <2>2. ahead' \in [Task -> SUBSET Task]
    BY <1>1, <1>3 DEF SubmitNewer, Replaced, IInv, TypeOK
  <2>3. metrics' \in [{"submitted", "coalesced"} \cup Outcome -> Int]
    BY CoalescedMetrics DEF SubmitNewer, CountCoalesced, IInv
  <2> QED
    BY <1>1, <1>3, <2>1, <2>2, <2>3 DEF SubmitNewer, IInv, TypeOK
<1>5. \A x \in Task : state'[x] = "queued" <=>
                        x = t \/ (state[x] = "queued" /\ x # old)
  BY <1>1, <1>3 DEF SubmitNewer, IInv, TypeOK
<1>6. /\ Queue(w)' = (Queue(w) \ {old}) \cup {t}
      /\ \A x \in Worker : x # w => Queue(x)' = Queue(x)
  BY <1>1, <1>3, <1>5 DEF Queue
<1>7. OrderedQueues'
  <2>1. StrictOrder(Queue(w)', ahead')
    <3>1. StrictOrder(Queue(w), ahead) /\ Queue(w) \in SUBSET Task
          /\ t \notin Queue(w)
      BY <1>1, <1>2, Parts DEF IInv, Structure, OrderedQueues, Queue
    <3> QED
      BY <1>1, <1>3, <1>6, <3>1, ReplacedOrder DEF SubmitNewer
  <2>2. ASSUME NEW x \in Worker, x # w PROVE StrictOrder(Queue(x)', ahead')
    <3>1. \A y \in Queue(x) : y \in Task /\ y # t /\ y # old
      BY <1>1, <1>3, <2>2 DEF Queue
    <3>2. StrictOrder(Queue(x), ahead) /\ old \notin Queue(x)
      BY <1>3, <2>2 DEF IInv, Structure, OrderedQueues, Queue
    <3>3. \A y \in Queue(x) : ahead'[y] = ahead[y]
      BY <3>1, <3>2 DEF SubmitNewer, Replaced, StrictOrder
    <3> QED
      BY <1>6, <2>2, <3>2, <3>3 DEF StrictOrder
  <2> QED
    BY <2>1, <2>2 DEF OrderedQueues
<1>8. FreshTasks'
  BY <1>1, <1>3
  DEF SubmitNewer, AcceptedCall, Call, IInv, TypeOK, Structure, FreshTasks, Task
<1>9. TakenTasks' /\ ClosingSteps'
  BY <1>1, <1>3
  DEF SubmitNewer, IInv, TypeOK, Structure, TakenTasks, ClosingSteps, Registered
<1> QED
  BY <1>4, <1>7, <1>8, <1>9 DEF IInv, Structure

LEMMA SubmitInvariant ==
  ASSUME IInv, NEW q \in Requests, Submit(q) PROVE IInv'
<1> DEFINE Metrics == [{"submitted", "coalesced"} \cup Outcome -> Int]
<1>1. CASE SubmitAfterShutdown(q) \/ SubmitToFullQueue(q)
  BY <1>1, RefusedInvariant
  DEF SubmitAfterShutdown, SubmitToFullQueue, AcceptedCall, Refuse,
      CancelledOnRefusal, IInv, TypeOK
<1>2. CASE SubmitOlder(q)
  <2>1. metrics' \in Metrics
    BY <1>2, CoalescedMetrics DEF SubmitOlder, CountCoalesced, IInv
  <2> QED
    BY <1>2, <2>1, RefusedInvariant
    DEF SubmitOlder, AcceptedCall, Refuse, CancelledOnRefusal
<1>3. CASE SubmitNewer(q)
  BY <1>3, NewerInvariant
<1>4. CASE SubmitWithRoom(q)
  <2>1. metrics' \in Metrics /\ outstanding' \in Int
    BY <1>4 DEF SubmitWithRoom, IInv, TypeOK, Outcome
  <2> QED
    BY <1>4, <2>1, AdmitInvariant DEF SubmitWithRoom, AcceptedCall
<1>5. CASE SubmitEvicting(q)
  <2> DEFINE w == Owner[q.root]
  <2>1. metrics' \in Metrics /\ outstanding' \in Int
    BY <1>5, CoalescedMetrics
    DEF SubmitEvicting, CountCoalesced, IInv, TypeOK
  <2>2. First(Evictable(w)) \in Queue(w)
    <3>1. StrictOrder(Queue(w), ahead) /\ Queue(w) \in SUBSET Task
          /\ Evictable(w) \in SUBSET Queue(w)
      BY OwnerInRange, Parts DEF IInv, Structure, OrderedQueues, Evictable
    <3> QED
      BY <1>5, <3>1, FirstIsFirst DEF SubmitEvicting
  <2> QED
    BY <1>5, <2>1, <2>2, AdmitInvariant DEF SubmitEvicting, AcceptedCall
<1> QED
  BY <1>1, <1>2, <1>3, <1>4, <1>5 DEF Submit

\* Every step keeps the types and the structure.
LEMMA StepInvariant == IInv /\ [Next]_vars => IInv'
<1> SUFFICES ASSUME IInv, [Next]_vars PROVE IInv'
  OBVIOUS
<1>1. ASSUME NEW q \in Requests, Submit(q) PROVE IInv'
  BY <1>1, SubmitInvariant
<1>2. ASSUME NEW w \in Worker, WorkerStep(w) PROVE IInv'
  BY <1>2, TakeInvariant, WorkerInvariant DEF WorkerStep
<1>3. CASE \/ \E r \in Root : CancelRoot(r)
           \/ \E t \in Task : CancelToken(t)
  BY <1>3, CancelInvariant
<1>4. CASE BeginShutdown \/ ShutdownStep
  BY <1>4, ShutdownInvariant
<1>5. CASE UNCHANGED vars
  BY <1>5
  DEF vars, IInv, TypeOK, Structure, FreshTasks, OrderedQueues, StrictOrder,
      TakenTasks, ClosingSteps, Registered, Queue
<1> QED
  BY <1>1, <1>2, <1>3, <1>4, <1>5 DEF Next

\* Every reachable state of the scheduler is well typed (submit, worker_loop,
\* cancel_root and shutdown of scheduler.cpp), for every value of the constants.
THEOREM TypeCorrect == Spec => []TypeOK
<1>1. IInv => TypeOK
  BY DEF IInv
<1> QED
  BY InitInvariant, StepInvariant, <1>1, PTL DEF Spec

\* Every queue stays totally ordered, tasks in the running map stay out of the
\* queues and shutdown() drains in turn: the invariant the other proofs rest on.
THEOREM StructureCorrect == Spec => []Structure
<1>1. IInv => Structure
  BY DEF IInv
<1> QED
  BY InitInvariant, StepInvariant, <1>1, PTL DEF Spec

-----------------------------------------------------------------------------
(* What no step does: reorder tasks that stay queued, or take a            *)
(* cancellation back.                                                      *)

Settled == /\ \A x \in Task : state[x] # "new" => task'[x] = task[x]
           /\ Waiting' \subseteq Waiting
           /\ \A x, y \in Waiting' : x \in ahead'[y] <=> x \in ahead[y]
           /\ cancelled \subseteq cancelled'

\* A step that is not a submission adds nothing and reorders nothing.
LEMMA OtherStepsSettle ==
  ASSUME IInv,
         \/ \E w \in Worker : WorkerStep(w)
         \/ \E r \in Root : CancelRoot(r)
         \/ \E t \in Task : CancelToken(t)
         \/ BeginShutdown \/ ShutdownStep
         \/ UNCHANGED vars
  PROVE  Settled
<1> USE DEF queueVars, shutdownVars, workerVars, Settled, Waiting
<1>1. ASSUME NEW w \in Worker, Take(w) PROVE Settled
  <2>1. First(Queue(w)) \in Queue(w)
    BY <1>1, Parts, FirstIsFirst DEF IInv, Structure, OrderedQueues, Take
  <2> QED
    BY <1>1, <2>1 DEF Take, Erased, IInv, TypeOK, Queue
<1>2. ASSUME NEW w \in Worker,
             Skip(w) \/ Begin(w) \/ Finish(w) \/ Settle(w) \/ Unregister(w)
               \/ Exit(w)
      PROVE Settled
  <2>1. state' = state \/ \E o \in Outcome : state' = [state EXCEPT ![current[w]] = o]
    BY <1>2 DEF Skip, Begin, Finish, Settle, Unregister, Exit, End, Outcome
  <2>2. task' = task /\ ahead' = ahead /\ cancelled' = cancelled
    BY <1>2 DEF Skip, Begin, Finish, Settle, Unregister, Exit, End
  <2> QED
    BY <2>1, <2>2 DEF IInv, TypeOK, Outcome
<1>3. ASSUME NEW S \in SUBSET Waiting, Discard(S), task' = task,
             cancelled \subseteq cancelled'
      PROVE Settled
  BY <1>3 DEF Discard, Erased, IInv, TypeOK
<1>4. ASSUME NEW r \in Root, CancelRoot(r) PROVE Settled
  <2>1. Of(r, Queue(Owner[r])) \in SUBSET Waiting
    BY DEF Of, Queue
  <2> QED
    BY <1>3, <1>4, <2>1 DEF CancelRoot
<1>5. ASSUME NEW w \in Worker, DrainWorker(w) PROVE Settled
  <2>1. Queue(w) \in SUBSET Waiting
    BY DEF Queue
  <2> QED
    BY <1>3, <1>5, <2>1 DEF DrainWorker
<1>6. CASE \/ \E t \in Task : CancelToken(t)
           \/ BeginShutdown \/ RequestStop \/ Join
           \/ UNCHANGED vars
  <2>1. state' = state /\ task' = task /\ ahead' = ahead
        /\ cancelled \subseteq cancelled'
    BY <1>6 DEF CancelToken, BeginShutdown, RequestStop, Join, vars
  <2> QED
    BY <2>1
<1> QED
  BY <1>1, <1>2, <1>4, <1>5, <1>6 DEF WorkerStep, ShutdownStep

\* A submission adds at most the task it names, and reorders nothing else; a
\* task it adds either takes the place of the pending analysis of its root or
\* enters behind Front, where no analysis of its root is pending if it is one.
LEMMA SubmitAdds ==
  ASSUME IInv, NEW q \in Requests, Submit(q)
  PROVE  /\ \A x \in Task : x # calls + 1 => task'[x] = task[x]
         /\ calls + 1 \in Task /\ state[calls + 1] = "new"
         /\ task'[calls + 1] = q
         /\ Waiting' \subseteq Waiting \cup {calls + 1}
         /\ \A x, y \in Waiting' \ {calls + 1} : x \in ahead'[y] <=> x \in ahead[y]
         /\ cancelled \subseteq cancelled'
         /\ calls + 1 \in Waiting' =>
              \/ /\ q.priority = "background"
                 /\ First(Analyses(q.root)) \in Analyses(q.root)
                 /\ First(Analyses(q.root)) \notin Waiting'
              \/ /\ ~Coalesces(q)
                 /\ \E gone \in SUBSET Queue(Owner[q.root]) :
                      /\ gone \cap Waiting' = {}
                      /\ ahead'[calls + 1] = Front(q, Queue(Owner[q.root]) \ gone)
<1> DEFINE t == calls + 1
<1>1. /\ t \in Task /\ state[t] = "new"
      /\ \A x \in Task : x # t => task'[x] = task[x]
      /\ task'[t] = q
  BY CallFacts
  DEF Submit, SubmitAfterShutdown, SubmitNewer, SubmitOlder, SubmitWithRoom,
      SubmitEvicting, SubmitToFullQueue, AcceptedCall
<1>2. CASE SubmitAfterShutdown(q) \/ SubmitToFullQueue(q) \/ SubmitOlder(q)
  <2>1. /\ ahead' = ahead /\ cancelled \subseteq cancelled'
        /\ \E s \in {"rejected", "superseded"} : state' = [state EXCEPT ![t] = s]
    BY <1>2 DEF SubmitAfterShutdown, SubmitToFullQueue, SubmitOlder, Refuse
  <2> QED
    BY <1>1, <2>1 DEF Waiting, IInv, TypeOK
<1>3. CASE SubmitNewer(q)
  <2> DEFINE old == First(Analyses(q.root))
  <2>1. old \in Analyses(q.root) /\ old \in Task /\ state[old] = "queued"
    BY <1>3, OwnerInRange, PendingAnalysis DEF SubmitNewer, Coalesces
  <2>2. Waiting' = (Waiting \ {old}) \cup {t}
    BY <1>1, <1>3, <2>1 DEF SubmitNewer, IInv, TypeOK, Waiting
  <2>3. \A x, y \in Waiting' \ {t} : x \in ahead'[y] <=> x \in ahead[y]
    BY <1>3, <2>1, <2>2 DEF SubmitNewer, Replaced, Waiting
  <2>4. old # t /\ q.priority = "background" /\ cancelled \subseteq cancelled'
    BY <1>1, <1>3, <2>1 DEF SubmitNewer, Coalesces
  <2> QED
    BY <1>1, <2>1, <2>2, <2>3, <2>4
<1>4. ASSUME NEW gone \in SUBSET Queue(Owner[q.root]), Admit(q, gone),
             ~Coalesces(q)
      PROVE  /\ Waiting' = (Waiting \ gone) \cup {t}
             /\ \A x, y \in Waiting' \ {t} : x \in ahead'[y] <=> x \in ahead[y]
             /\ cancelled \subseteq cancelled'
             /\ gone \cap Waiting' = {}
             /\ ahead'[t] = Front(q, Queue(Owner[q.root]) \ gone)
  <2>1. gone \subseteq Waiting /\ t \notin gone /\ t \notin Waiting
    BY <1>1 DEF Queue, Waiting
  <2>2. Waiting' = (Waiting \ gone) \cup {t}
    BY <1>1, <1>4, <2>1 DEF Admit, Waiting
  <2> QED
    BY <1>1, <1>4, <2>1, <2>2 DEF Admit, Inserted, Erased, Waiting
<1>5. CASE SubmitWithRoom(q)
  BY <1>1, <1>4, <1>5 DEF SubmitWithRoom
<1>6. CASE SubmitEvicting(q)
  <2> DEFINE w == Owner[q.root]
  <2>1. First(Evictable(w)) \in Queue(w)
    <3>1. StrictOrder(Queue(w), ahead) /\ Queue(w) \in SUBSET Task
          /\ Evictable(w) \in SUBSET Queue(w)
      BY OwnerInRange, Parts DEF IInv, Structure, OrderedQueues, Evictable
    <3> QED
      BY <1>6, <3>1, FirstIsFirst DEF SubmitEvicting
  <2>2. PICK gone \in SUBSET Queue(w) : Admit(q, gone) /\ ~Coalesces(q)
    BY <1>6, <2>1 DEF SubmitEvicting
  <2>3. /\ Waiting' = (Waiting \ gone) \cup {t}
        /\ \A x, y \in Waiting' \ {t} : x \in ahead'[y] <=> x \in ahead[y]
        /\ cancelled \subseteq cancelled'
        /\ gone \cap Waiting' = {}
        /\ ahead'[t] = Front(q, Queue(Owner[q.root]) \ gone)
    BY <1>4, <2>2
  <2> QED
    BY <1>1, <2>2, <2>3
<1> QED
  BY <1>2, <1>3, <1>5, <1>6 DEF Submit

-----------------------------------------------------------------------------
(* The order of the work of one root.                                      *)

OrderInv == OneAnalysisPerRoot /\ BarriersFollowEarlierWork
            /\ QueriesFollowAnalyses

\* The pending analyses of a root, without its queue.
LEMMA AnalysesOfRoot ==
  /\ \A r \in Root : \A x : x \in Analyses(r) <=>
       /\ x \in Waiting /\ task[x].root = r /\ task[x].priority = "background"
  /\ \A r \in Root : \A x : x \in Analyses(r)' <=>
       /\ x \in Waiting' /\ task'[x].root = r /\ task'[x].priority = "background"
BY DEF Analyses, With, Of, Queue, Waiting

LEMMA SubmitKeepsOrder ==
  ASSUME IInv, IInv', OrderInv, NEW q \in Requests, Submit(q)
  PROVE  OrderInv'
<1> DEFINE t == calls + 1
           w == Owner[q.root]
<1>1. /\ \A x \in Task : x # t => task'[x] = task[x]
      /\ t \in Task /\ state[t] = "new" /\ task'[t] = q
      /\ Waiting' \subseteq Waiting \cup {t}
      /\ \A x, y \in Waiting' \ {t} : x \in ahead'[y] <=> x \in ahead[y]
  BY SubmitAdds
<1>2. Waiting \subseteq Task /\ Waiting' \subseteq Task /\ t \notin Waiting
      /\ \A x \in Waiting : x < t
  <2>1. Waiting \subseteq Task /\ Waiting' \subseteq Task /\ t \notin Waiting
    BY <1>1 DEF Waiting
  <2>2. \A x \in Waiting : x \in Int /\ x <= calls /\ calls \in Int
    BY DEF Waiting, Task, IInv, TypeOK, Structure, FreshTasks
  <2> QED
    BY <2>1, <2>2
<1>3. q.root \in Root /\ w \in Worker
  BY OwnerInRange
<1>4. ASSUME t \in Waiting'
      PROVE  \/ /\ q.priority = "background"
                /\ First(Analyses(q.root)) \in Analyses(q.root)
                /\ First(Analyses(q.root)) \notin Waiting'
             \/ /\ ~Coalesces(q)
                /\ \E gone \in SUBSET Queue(w) :
                     /\ gone \cap Waiting' = {}
                     /\ ahead'[t] = Front(q, Queue(w) \ gone)
  BY <1>4, SubmitAdds
<1>5. OneAnalysisPerRoot'
  <2> SUFFICES ASSUME NEW r \in Root, NEW x \in Analyses(r)', NEW y \in Analyses(r)'
               PROVE  x = y
    BY DEF OneAnalysisPerRoot
  <2>1. x \in Waiting' /\ y \in Waiting' /\ task'[x].root = r /\ task'[y].root = r
        /\ task'[x].priority = "background" /\ task'[y].priority = "background"
    BY AnalysesOfRoot
  <2>2. ASSUME NEW z \in Analyses(r)', z # t PROVE z \in Analyses(r)
    <3>1. z \in Waiting' /\ task'[z].root = r /\ task'[z].priority = "background"
      BY AnalysesOfRoot
    <3>2. z \in Waiting /\ task'[z] = task[z]
      BY <1>1, <1>2, <2>2, <3>1
    <3> QED
      BY <3>1, <3>2, AnalysesOfRoot
  <2>3. ASSUME NEW z \in Analyses(r)', z # t, t \in Analyses(r)' PROVE FALSE
    <3>1. t \in Waiting' /\ r = q.root /\ q.priority = "background"
      BY <1>1, <2>3, AnalysesOfRoot
    <3>2. z \in Analyses(q.root) /\ z \in Waiting'
      BY <2>2, <2>3, <3>1, AnalysesOfRoot
    <3>3. CASE First(Analyses(q.root)) \in Analyses(q.root)
               /\ First(Analyses(q.root)) \notin Waiting'
      BY <1>3, <3>2, <3>3 DEF OrderInv, OneAnalysisPerRoot
    <3>4. CASE ~Coalesces(q)
      BY <3>1, <3>2, <3>4 DEF Coalesces
    <3> QED
      BY <1>4, <3>1, <3>3, <3>4
  <2> QED
    BY <2>2, <2>3 DEF OrderInv, OneAnalysisPerRoot
<1>6. ASSUME NEW b \in Waiting', NEW x \in Waiting',
             task'[x].root = task'[b].root, x < b, b # t
      PROVE  /\ b \in Waiting /\ x \in Waiting
             /\ task'[b] = task[b] /\ task'[x] = task[x]
             /\ x \in ahead'[b] <=> x \in ahead[b]
  <2>1. b \in Waiting /\ b < t /\ b \in Int /\ x \in Int /\ t \in Int
    BY <1>1, <1>2, <1>6 DEF Task
  <2>2. x # t
    BY <1>6, <2>1
  <2> QED
    BY <1>1, <1>2, <1>6, <2>1, <2>2
<1>7. ASSUME NEW x \in Waiting', t \in Waiting', task'[x].root = q.root, x < t
      PROVE  x \in Queue(w) /\ x \in Waiting /\ task'[x] = task[x]
  <2>1. x # t
    BY <1>1, <1>7 DEF Task
  <2> QED
    BY <1>1, <1>2, <1>7, <2>1 DEF Waiting, Queue
<1>8. BarriersFollowEarlierWork'
  <2> SUFFICES ASSUME NEW b \in Waiting', task'[b].priority = "barrier",
                      NEW x \in Waiting', task'[x].root = task'[b].root, x < b
               PROVE  x \in ahead'[b]
    BY DEF BarriersFollowEarlierWork, Of
  <2>1. CASE b # t
    BY <1>6, <2>1 DEF OrderInv, BarriersFollowEarlierWork, Of
  <2>2. CASE b = t
    <3>1. q.priority = "barrier" /\ task'[x].root = q.root
      BY <1>1, <2>2
    <3>2. PICK gone \in SUBSET Queue(w) :
            /\ gone \cap Waiting' = {}
            /\ ahead'[t] = Front(q, Queue(w) \ gone)
      BY <1>4, <2>2, <3>1
    <3>3. x \in Of(q.root, Queue(w) \ gone)
      BY <1>7, <2>2, <3>1, <3>2 DEF Of
    <3> QED
      BY <2>2, <3>1, <3>2, <3>3 DEF Front, BarrierFront, Through
  <2> QED
    BY <2>1, <2>2
<1>9. QueriesFollowAnalyses'
  <2> SUFFICES ASSUME NEW i \in Waiting', task'[i].priority = "interactive",
                      NEW x \in Waiting', task'[x].root = task'[i].root, x < i,
                      task'[x].priority = "background"
               PROVE  x \in ahead'[i]
    BY DEF QueriesFollowAnalyses, Of, With
  <2>1. CASE i # t
    BY <1>6, <2>1 DEF OrderInv, QueriesFollowAnalyses, Of, With
  <2>2. CASE i = t
    <3>1. q.priority = "interactive" /\ task'[x].root = q.root
      BY <1>1, <2>2
    <3>2. PICK gone \in SUBSET Queue(w) :
            /\ gone \cap Waiting' = {}
            /\ ahead'[t] = Front(q, Queue(w) \ gone)
      BY <1>4, <2>2, <3>1
    <3> DEFINE S == With("background", Of(q.root, Queue(w) \ gone))
    <3>3. x \in S
      BY <1>7, <2>2, <3>1, <3>2 DEF Of, With
    <3>4. S \subseteq Analyses(q.root) /\ S \subseteq Queue(w)
      BY DEF Of, With, Analyses
    <3>5. First(S) \in S
      <4>1. StrictOrder(Queue(w), ahead) /\ Queue(w) \in SUBSET Task
            /\ S \in SUBSET Queue(w) /\ S # {}
        BY <1>3, <3>3, <3>4, Parts DEF IInv, Structure, OrderedQueues
      <4> HIDE DEF S
      <4> QED
        BY <4>1, FirstIsFirst
    <3>6. First(S) = x
      BY <1>3, <3>3, <3>4, <3>5 DEF OrderInv, OneAnalysisPerRoot
    <3> QED
      BY <2>2, <3>1, <3>2, <3>3, <3>6 DEF Front, QueryFront, Through
  <2> QED
    BY <2>1, <2>2
<1> QED
  BY <1>5, <1>8, <1>9 DEF OrderInv

\* What never reorders nor adds keeps the order of each root.
LEMMA SettledKeepsOrder ==
  ASSUME IInv, OrderInv, Settled PROVE OrderInv'
<1>1. \A x \in Waiting' : x \in Waiting /\ task'[x] = task[x]
  BY DEF Settled, Waiting
<1>2. OneAnalysisPerRoot'
  BY <1>1, AnalysesOfRoot DEF OrderInv, OneAnalysisPerRoot
<1>3. BarriersFollowEarlierWork'
  BY <1>1 DEF Settled, OrderInv, BarriersFollowEarlierWork, Of
<1>4. QueriesFollowAnalyses'
  BY <1>1 DEF Settled, OrderInv, QueriesFollowAnalyses, Of, With
<1> QED
  BY <1>2, <1>3, <1>4 DEF OrderInv

LEMMA OrderInvariant == Spec => [](IInv /\ OrderInv)
<1>1. Init => IInv /\ OrderInv
  <2>1. Init => OrderInv
    BY DEF Init, OrderInv, OneAnalysisPerRoot, BarriersFollowEarlierWork,
           QueriesFollowAnalyses, Waiting, Analyses, With, Of, Queue
  <2> QED
    BY <2>1, InitInvariant
<1>2. IInv /\ OrderInv /\ [Next]_vars => (IInv /\ OrderInv)'
  <2> SUFFICES ASSUME IInv, OrderInv, [Next]_vars PROVE IInv' /\ OrderInv'
    OBVIOUS
  <2>1. IInv'
    BY StepInvariant
  <2>2. ASSUME NEW q \in Requests, Submit(q) PROVE OrderInv'
    BY <2>1, <2>2, SubmitKeepsOrder
  <2>3. CASE \/ \E w \in Worker : WorkerStep(w)
             \/ \E r \in Root : CancelRoot(r)
             \/ \E t \in Task : CancelToken(t)
             \/ BeginShutdown \/ ShutdownStep
             \/ UNCHANGED vars
    BY <2>1, <2>3, OtherStepsSettle, SettledKeepsOrder
  <2> QED
    BY <2>1, <2>2, <2>3 DEF Next
<1> QED
  BY <1>1, <1>2, PTL DEF Spec

\* At most one analysis of a root is pending (submit replaces it in place).
THEOREM OneAnalysis == Spec => []OneAnalysisPerRoot
<1>1. IInv /\ OrderInv => OneAnalysisPerRoot
  BY DEF OrderInv
<1> QED
  BY OrderInvariant, <1>1, PTL

\* A barrier never overtakes earlier work of its root, so a callback queued by
\* after_roots_idle runs when that work has ended or been dropped.
THEOREM BarrierOrder == Spec => []BarriersFollowEarlierWork
<1>1. IInv /\ OrderInv => BarriersFollowEarlierWork
  BY DEF OrderInv
<1> QED
  BY OrderInvariant, <1>1, PTL

\* A query never overtakes an earlier pending analysis of its root.
THEOREM QueryOrder == Spec => []QueriesFollowAnalyses
<1>1. IInv /\ OrderInv => QueriesFollowAnalyses
  BY DEF OrderInv
<1> QED
  BY OrderInvariant, <1>1, PTL

\* The three together: the order of each root's work, for every scheduler.
THEOREM QueueOrderCorrect == Spec => []QueueOrder
<1>1. IInv /\ OrderInv => QueueOrder
  BY DEF OrderInv, QueueOrder
<1> QED
  BY OrderInvariant, <1>1, PTL

-----------------------------------------------------------------------------
(***************************************************************************)
(* The scheduler loses no submission and counts none twice.                *)
(***************************************************************************)

(* What each step does to the queues.                                      *)

\* Nothing enters a queue, and what stays keeps its request.
OnlyLeave == \A w \in Worker : /\ Queue(w)' \subseteq Queue(w)
                               /\ \A x \in Queue(w)' : task'[x] = task[x]

LEMMA WaitingFinite ==
  ASSUME NEW S \in SUBSET Waiting
  PROVE  S \subseteq Task /\ IsFiniteSet(S) /\ Cardinality(S) \in Nat
<1>1. S \in SUBSET Task
  BY DEF Waiting
<1> QED
  BY <1>1, TaskFinite

LEMMA TakeEffect ==
  ASSUME IInv, NEW w \in Worker, Take(w)
  PROVE  /\ First(Queue(w)) \in Queue(w)
         /\ Waiting' = Waiting \ {First(Queue(w))}
         /\ Dropped' = Dropped
         /\ OnlyLeave
<1> DEFINE t == First(Queue(w))
<1>1. t \in Queue(w)
  BY Parts, FirstIsFirst DEF IInv, Structure, OrderedQueues, Take
<1>2. \A x \in Task : state'[x] = IF x = t THEN "running" ELSE state[x]
  BY <1>1 DEF IInv, TypeOK, Take
<1>3. state[t] = "queued" /\ t \in Task /\ task' = task
  BY <1>1 DEF Queue, Take
<1> HIDE DEF t
<1>4. Waiting' = Waiting \ {t} /\ Dropped' = Dropped
  BY <1>2, <1>3 DEF Waiting, Dropped
<1>5. OnlyLeave
  BY <1>2, <1>3 DEF Queue, OnlyLeave
<1> QED
  BY <1>1, <1>4, <1>5 DEF t

LEMMA LoopEffect ==
  ASSUME IInv, NEW w \in Worker,
         Skip(w) \/ Begin(w) \/ Finish(w) \/ Settle(w) \/ Unregister(w) \/ Exit(w)
  PROVE  Waiting' = Waiting /\ Dropped' = Dropped /\ OnlyLeave
<1>1. task' = task
      /\ \/ state' = state
         \/ /\ thread[w] \in {"taken", "working"}
            /\ \E o \in Outcome : state' = [state EXCEPT ![current[w]] = o]
  BY DEF Skip, Begin, Finish, Settle, Unregister, Exit, End, Outcome, queueVars
<1>2. \A x \in Task : state'[x] = state[x]
                      \/ (state[x] = "running" /\ state'[x] \in Outcome)
  BY <1>1 DEF IInv, TypeOK, Structure, TakenTasks, Registered
<1>3. Waiting' = Waiting /\ Dropped' = Dropped
  BY <1>2 DEF Waiting, Dropped, Outcome
<1>4. OnlyLeave
  BY <1>1, <1>2 DEF Queue, Outcome, OnlyLeave
<1> QED
  BY <1>3, <1>4

LEMMA DiscardEffect ==
  ASSUME IInv, NEW S \in SUBSET Waiting, Discard(S), task' = task
  PROVE  /\ Waiting' = Waiting \ S
         /\ Dropped' = Dropped \cup S
         /\ OnlyLeave
<1>1. \A x \in Task : state'[x] = IF x \in S THEN "discarded" ELSE state[x]
  BY DEF Discard
<1> QED
  BY <1>1 DEF Waiting, Dropped, Queue, OnlyLeave

LEMMA SameStateEffect ==
  ASSUME state' = state, task' = task
  PROVE  Waiting' = Waiting /\ Dropped' = Dropped /\ OnlyLeave
         /\ \A w \in Worker : Queue(w)' = Queue(w)
BY DEF Waiting, Dropped, Queue, OnlyLeave

LEMMA RefuseEffect ==
  ASSUME IInv, NEW q \in Requests, Call(q), NEW end \in {"rejected", "superseded"},
         Refuse(q, end)
  PROVE  /\ Waiting' = Waiting
         /\ Dropped' = Dropped \cup {calls + 1}
         /\ OnlyLeave
<1>1. /\ calls + 1 \in Task /\ state[calls + 1] = "new"
      /\ \A x \in Task : x # calls + 1 => task'[x] = task[x]
  BY CallFacts
<1>2. \A x \in Task : state'[x] = IF x = calls + 1 THEN end ELSE state[x]
  BY <1>1 DEF Refuse, IInv, TypeOK
<1> QED
  BY <1>1, <1>2 DEF Waiting, Dropped, Queue, OnlyLeave

LEMMA NewerEffect ==
  ASSUME IInv, NEW q \in Requests, SubmitNewer(q)
  PROVE  LET old == First(Analyses(q.root))
             w == Owner[q.root]
         IN /\ old \in Queue(w) /\ task[old].priority = "background"
            /\ calls + 1 \in Task \ Waiting
            /\ task'[calls + 1] = q
            /\ \A x \in Task : x # calls + 1 => task'[x] = task[x]
            /\ Waiting' = (Waiting \ {old}) \cup {calls + 1}
            /\ Dropped' = Dropped \cup {old}
            /\ Queue(w)' = (Queue(w) \ {old}) \cup {calls + 1}
            /\ \A x \in Worker : x # w => Queue(x)' = Queue(x)
<1> DEFINE old == First(Analyses(q.root))
           t == calls + 1
           w == Owner[q.root]
<1>1. /\ t \in Task /\ state[t] = "new" /\ task'[t] = q
      /\ \A x \in Task : x # t => task'[x] = task[x]
  BY CallFacts DEF SubmitNewer, AcceptedCall
<1>2. old \in Queue(w) /\ old \in Task /\ state[old] = "queued"
      /\ task[old].root = q.root /\ task[old].priority = "background"
  <2>1. old \in Analyses(q.root)
    BY OwnerInRange, PendingAnalysis DEF SubmitNewer, Coalesces
  <2> QED
    BY <2>1 DEF Analyses, With, Of, Queue
<1>3. \A x \in Task : state'[x] = IF x = t THEN "queued"
                                  ELSE IF x = old THEN "superseded" ELSE state[x]
  BY <1>1, <1>2 DEF SubmitNewer, IInv, TypeOK
<1> HIDE DEF old, t
<1>4. Waiting' = (Waiting \ {old}) \cup {t} /\ t \notin Waiting
      /\ Dropped' = Dropped \cup {old}
  BY <1>1, <1>2, <1>3 DEF Waiting, Dropped
<1>5. Queue(w)' = (Queue(w) \ {old}) \cup {t}
      /\ \A x \in Worker : x # w => Queue(x)' = Queue(x)
  BY <1>1, <1>2, <1>3 DEF Queue
<1> QED
  BY <1>1, <1>2, <1>4, <1>5 DEF old, t

LEMMA AdmitEffect ==
  ASSUME IInv, NEW q \in Requests, Call(q),
         NEW gone \in SUBSET Queue(Owner[q.root]), Admit(q, gone)
  PROVE  /\ calls + 1 \in Task \ Waiting
         /\ task'[calls + 1] = q
         /\ \A x \in Task : x # calls + 1 => task'[x] = task[x]
         /\ gone \subseteq Waiting
         /\ Waiting' = (Waiting \ gone) \cup {calls + 1}
         /\ Dropped' = Dropped \cup gone
         /\ Queue(Owner[q.root])' = (Queue(Owner[q.root]) \ gone) \cup {calls + 1}
         /\ \A x \in Worker : x # Owner[q.root] => Queue(x)' = Queue(x)
<1>1. /\ calls + 1 \in Task /\ state[calls + 1] = "new" /\ task'[calls + 1] = q
      /\ \A x \in Task : x # calls + 1 => task'[x] = task[x]
  BY CallFacts
<1>2. gone \subseteq Waiting
  BY DEF Queue, Waiting
<1>3. \A x \in Task : state'[x] = IF x = calls + 1 THEN "queued"
                                  ELSE IF x \in gone THEN "evicted" ELSE state[x]
  BY DEF Admit
<1>4. calls + 1 \notin Waiting /\ Waiting' = (Waiting \ gone) \cup {calls + 1}
      /\ Dropped' = Dropped \cup gone
  BY <1>1, <1>2, <1>3 DEF Waiting, Dropped
<1> QED
  BY <1>1, <1>2, <1>4, AdmitQueues

-----------------------------------------------------------------------------
(* The bound of a queue.                                                   *)

Bounded(w) == Queue(w) \ With("barrier", Queue(w))

LEMMA BoundedFacts ==
  /\ \A w \in Worker : Bounded(w) \in SUBSET Task /\ Bounded(w)' \in SUBSET Task
  /\ \A w \in Worker : Capacity(w) \in Int
<1>1. \A w \in Worker : Bounded(w) \in SUBSET Task /\ Bounded(w)' \in SUBSET Task
  BY DEF Bounded, Queue, With
<1>2. QueueCapacity \div WorkerCount \in Int
  BY SchedulerOptions
<1> QED
  BY <1>1, <1>2 DEF Capacity

LEMMA LeavingKeepsBound ==
  ASSUME QueuesBounded, OnlyLeave PROVE QueuesBounded'
<1> SUFFICES ASSUME NEW w \in Worker
             PROVE  Cardinality(Bounded(w)') <= Capacity(w)
  BY DEF QueuesBounded, Bounded, Capacity
<1>1. Bounded(w)' \subseteq Bounded(w)
  BY DEF OnlyLeave, Bounded, With
<1>2. IsFiniteSet(Bounded(w)) /\ Cardinality(Bounded(w)) \in Nat
      /\ Cardinality(Bounded(w)') \in Nat
  BY BoundedFacts, TaskFinite
<1>3. Cardinality(Bounded(w)') <= Cardinality(Bounded(w))
  BY <1>1, <1>2, FS_Subset
<1>4. Cardinality(Bounded(w)) <= Capacity(w)
  BY DEF QueuesBounded, Bounded
<1> QED
  BY <1>2, <1>3, <1>4, BoundedFacts

\* A task enters a queue that has room for it, or from which work that counts
\* was taken.
LEMMA EnteringKeepsBound ==
  ASSUME QueuesBounded, NEW w \in Worker, NEW t \in Task, t \notin Queue(w),
         NEW gone \in SUBSET Queue(w), Queue(w)' = (Queue(w) \ gone) \cup {t},
         \A x \in Worker : x # w => Queue(x)' = Queue(x),
         \A x \in Waiting : task'[x] = task[x],
         \/ task'[t].priority = "barrier"
         \/ Cardinality(Queue(w)) < Capacity(w)
         \/ \E x \in gone : task[x].priority # "barrier"
  PROVE  QueuesBounded'
<1> SUFFICES ASSUME NEW v \in Worker
             PROVE  Cardinality(Bounded(v)') <= Capacity(v)
  BY DEF QueuesBounded, Bounded, Capacity
<1>1. \A x \in Worker : Queue(x) \subseteq Waiting
  BY DEF Queue, Waiting
<1>2. \A x \in Worker : /\ IsFiniteSet(Bounded(x)) /\ IsFiniteSet(Bounded(x)')
                       /\ Cardinality(Bounded(x)) \in Nat
                       /\ Cardinality(Bounded(x)') \in Nat
  BY BoundedFacts, TaskFinite
<1>3. \A x \in Worker : Cardinality(Bounded(x)) <= Capacity(x)
  BY DEF QueuesBounded, Bounded
<1>4. CASE v # w
  <2>1. Bounded(v)' = Bounded(v)
    BY <1>1, <1>4 DEF Bounded, With
  <2> QED
    BY <1>3, <2>1
<1>5. CASE v = w
  <2>1. Bounded(w)' \subseteq (Bounded(w) \ gone) \cup {t} /\ t \notin Bounded(w)
    BY <1>1 DEF Bounded, With
  <2>2. CASE task'[t].priority = "barrier"
    <3>1. Bounded(w)' \subseteq Bounded(w)
      BY <2>1, <2>2 DEF Bounded, With
    <3>2. Cardinality(Bounded(w)') <= Cardinality(Bounded(w))
      BY <1>2, <3>1, FS_Subset
    <3> QED
      BY <1>2, <1>3, <1>5, <3>2, BoundedFacts
  <2>3. CASE Cardinality(Queue(w)) < Capacity(w)
    <3>1. Queue(w) \in SUBSET Task /\ Bounded(w) \subseteq Queue(w)
      BY DEF Queue, Bounded
    <3>2. IsFiniteSet(Queue(w)) /\ Cardinality(Queue(w)) \in Nat
      BY <3>1, TaskFinite
    <3>3. Bounded(w)' \subseteq Queue(w) \cup {t}
      BY <2>1, <3>1
    <3>4. /\ IsFiniteSet(Queue(w) \cup {t})
          /\ Cardinality(Queue(w) \cup {t}) = Cardinality(Queue(w)) + 1
      BY <3>2, FS_AddElement
    <3>5. Cardinality(Bounded(w)') <= Cardinality(Queue(w)) + 1
      BY <3>3, <3>4, FS_Subset
    <3> QED
      BY <1>2, <1>5, <2>3, <3>2, <3>5, BoundedFacts
  <2>4. CASE \E x \in gone : task[x].priority # "barrier"
    <3>1. PICK x \in gone : task[x].priority # "barrier"
      BY <2>4
    <3>2. x \in Bounded(w) /\ Bounded(w)' \subseteq (Bounded(w) \ {x}) \cup {t}
      BY <2>1, <3>1 DEF Bounded, With
    <3>3. /\ IsFiniteSet(Bounded(w) \ {x})
          /\ Cardinality(Bounded(w) \ {x}) = Cardinality(Bounded(w)) - 1
      BY <1>2, <3>2, FS_RemoveElement
    <3>4. /\ IsFiniteSet((Bounded(w) \ {x}) \cup {t})
          /\ Cardinality((Bounded(w) \ {x}) \cup {t}) = Cardinality(Bounded(w))
      <4> DEFINE S == Bounded(w) \ {x}
      <4>1. t \notin S /\ IsFiniteSet(S) /\ Cardinality(S) = Cardinality(Bounded(w)) - 1
        BY <2>1, <3>3
      <4> HIDE DEF S
      <4>2. IsFiniteSet(S \cup {t}) /\ Cardinality(S \cup {t}) = Cardinality(S) + 1
        BY <4>1, FS_AddElement
      <4>3. Cardinality(Bounded(w)) \in Nat
        BY <1>2
      <4> QED
        BY <4>1, <4>2, <4>3 DEF S
    <3>5. Cardinality(Bounded(w)') <= Cardinality(Bounded(w))
      BY <3>2, <3>4, FS_Subset
    <3> QED
      BY <1>2, <1>3, <1>5, <3>5, BoundedFacts
  <2> QED
    BY <2>2, <2>3, <2>4
<1> QED
  BY <1>4, <1>5

\* The work that makes room in a full queue is in it, and is an analysis.
LEMMA EvictedIsQueued ==
  ASSUME IInv, NEW q \in Requests, SubmitEvicting(q)
  PROVE  /\ First(Evictable(Owner[q.root])) \in Queue(Owner[q.root])
         /\ task[First(Evictable(Owner[q.root]))].priority = "background"
<1> DEFINE w == Owner[q.root]
<1>1. StrictOrder(Queue(w), ahead) /\ Queue(w) \in SUBSET Task
      /\ Evictable(w) \in SUBSET Queue(w) /\ Evictable(w) # {}
  BY OwnerInRange, Parts DEF IInv, Structure, OrderedQueues, Evictable, SubmitEvicting
<1>2. First(Evictable(w)) \in Evictable(w)
  BY <1>1, FirstIsFirst
<1> QED
  BY <1>2 DEF Evictable, With

LEMMA SubmitKeepsBound ==
  ASSUME IInv, QueuesBounded, NEW q \in Requests, Submit(q) PROVE QueuesBounded'
<1> DEFINE w == Owner[q.root]
<1>1. w \in Worker /\ \A x \in Worker : Queue(x) \subseteq Waiting
  BY OwnerInRange DEF Queue, Waiting
<1>2. CASE SubmitAfterShutdown(q) \/ SubmitOlder(q) \/ SubmitToFullQueue(q)
  BY <1>2, RefuseEffect, LeavingKeepsBound
  DEF SubmitAfterShutdown, SubmitOlder, SubmitToFullQueue, AcceptedCall
<1>3. CASE SubmitNewer(q)
  <2> DEFINE old == First(Analyses(q.root))
  <2>1. /\ old \in Queue(w) /\ task[old].priority = "background"
        /\ calls + 1 \in Task \ Waiting
        /\ \A x \in Task : x # calls + 1 => task'[x] = task[x]
        /\ Queue(w)' = (Queue(w) \ {old}) \cup {calls + 1}
        /\ \A x \in Worker : x # w => Queue(x)' = Queue(x)
    BY <1>3, NewerEffect
  <2>2. {old} \in SUBSET Queue(w) /\ calls + 1 \notin Queue(w)
        /\ \A x \in Waiting : task'[x] = task[x]
    BY <1>1, <2>1 DEF Waiting
  <2> HIDE DEF old, w
  <2> QED
    BY <1>1, <2>1, <2>2, EnteringKeepsBound
<1>4. ASSUME Call(q), NEW gone \in SUBSET Queue(w), Admit(q, gone),
             \/ q.priority = "barrier"
             \/ Cardinality(Queue(w)) < Capacity(w)
             \/ \E x \in gone : task[x].priority # "barrier"
      PROVE QueuesBounded'
  <2>1. /\ calls + 1 \in Task \ Waiting /\ task'[calls + 1] = q
        /\ \A x \in Task : x # calls + 1 => task'[x] = task[x]
        /\ Queue(w)' = (Queue(w) \ gone) \cup {calls + 1}
        /\ \A x \in Worker : x # w => Queue(x)' = Queue(x)
    BY <1>4, AdmitEffect
  <2>2. calls + 1 \notin Queue(w) /\ \A x \in Waiting : task'[x] = task[x]
    BY <1>1, <2>1 DEF Waiting
  <2> HIDE DEF w
  <2> QED
    BY <1>1, <1>4, <2>1, <2>2, EnteringKeepsBound
<1>5. CASE SubmitWithRoom(q)
  <2>1. Cardinality(Queue(w)) \in Nat /\ Capacity(w) \in Int
    BY <1>1, BoundedFacts, TaskFinite, Parts
  <2>2. q.priority = "barrier" \/ Cardinality(Queue(w)) < Capacity(w)
    BY <1>5, <2>1 DEF SubmitWithRoom, Full
  <2>3. {} \in SUBSET Queue(w) /\ Call(q) /\ Admit(q, {})
    BY <1>5 DEF SubmitWithRoom, AcceptedCall
  <2> QED
    BY <1>4, <2>2, <2>3
<1>6. CASE SubmitEvicting(q)
  BY <1>4, <1>6, EvictedIsQueued DEF SubmitEvicting, AcceptedCall
<1> QED
  BY <1>2, <1>3, <1>5, <1>6 DEF Submit

-----------------------------------------------------------------------------
(* What is dropped is cancelled, and a drained worker stays drained.       *)

LEMMA SubmitCancelsDropped ==
  ASSUME IInv, DroppedWorkIsCancelled, NEW q \in Requests, Submit(q)
  PROVE  DroppedWorkIsCancelled'
<1> USE DEF DroppedWorkIsCancelled
<1>1. cancelled \subseteq cancelled'
  BY SubmitAdds
<1>2. CASE SubmitAfterShutdown(q) \/ SubmitOlder(q) \/ SubmitToFullQueue(q)
  <2>1. Dropped' = Dropped \cup {calls + 1} /\ calls + 1 \in cancelled'
    BY <1>2, RefuseEffect
    DEF SubmitAfterShutdown, SubmitOlder, SubmitToFullQueue, AcceptedCall, Refuse,
        CancelledOnRefusal
  <2> QED
    BY <1>1, <2>1
<1>3. CASE SubmitNewer(q)
  <2>1. /\ Dropped' = Dropped \cup {First(Analyses(q.root))}
        /\ First(Analyses(q.root)) \in cancelled'
    BY <1>3, NewerEffect DEF SubmitNewer, CancelledOnAdmission
  <2> QED
    BY <1>1, <2>1
<1>4. ASSUME Call(q), NEW gone \in SUBSET Queue(Owner[q.root]), Admit(q, gone)
      PROVE  DroppedWorkIsCancelled'
  BY <1>1, <1>4, AdmitEffect DEF Admit, CancelledOnAdmission
<1>5. CASE SubmitWithRoom(q)
  <2>1. {} \in SUBSET Queue(Owner[q.root]) /\ Call(q) /\ Admit(q, {})
    BY <1>5 DEF SubmitWithRoom, AcceptedCall
  <2> QED
    BY <1>4, <2>1
<1>6. CASE SubmitEvicting(q)
  BY <1>4, <1>6, EvictedIsQueued DEF SubmitEvicting, AcceptedCall
<1> QED
  BY <1>2, <1>3, <1>5, <1>6 DEF Submit

\* Once a worker is drained, submissions are refused.
LEMMA DrainedRefuses ==
  ASSUME IInv, NEW w \in Worker, w < drained, NEW q \in Requests, Submit(q)
  PROVE  SubmitAfterShutdown(q)
<1>1. ~accepting
  BY DEF IInv, TypeOK, Structure, ClosingSteps, Worker
<1> QED
  BY <1>1
  DEF Submit, SubmitNewer, SubmitOlder, SubmitWithRoom, SubmitEvicting,
      SubmitToFullQueue, AcceptedCall

LEMMA SubmitKeepsDrained ==
  ASSUME IInv, DrainedWorkersStayEmpty, NEW q \in Requests, Submit(q)
  PROVE  DrainedWorkersStayEmpty'
<1> SUFFICES ASSUME NEW w \in Worker, w < drained'
             PROVE  /\ Queue(w)' = {}
                    /\ Registered(w)' => current'[w] \in cancelled'
  BY DEF DrainedWorkersStayEmpty
<1>1. Call(q) /\ drained' = drained
  BY CallFacts
  DEF Submit, SubmitAfterShutdown, SubmitNewer, SubmitOlder, SubmitWithRoom,
      SubmitEvicting, SubmitToFullQueue, AcceptedCall
<1>2. SubmitAfterShutdown(q)
  BY <1>1, DrainedRefuses
<1>3. Queue(w)' \subseteq Queue(w) /\ cancelled \subseteq cancelled'
  BY <1>1, <1>2, RefuseEffect DEF OnlyLeave, SubmitAfterShutdown, Refuse
<1>4. thread' = thread /\ current' = current
  BY <1>1 DEF Call, workerVars
<1> QED
  BY <1>1, <1>3, <1>4 DEF DrainedWorkersStayEmpty, Registered

-----------------------------------------------------------------------------
(* The other steps.                                                        *)

AccountInv == QueuesBounded /\ DroppedWorkIsCancelled /\ DrainedWorkersStayEmpty

\* A step that takes tasks out of queues, registers none and cancels those that
\* it drops keeps the account, if drained' is drained.
LEMMA LeavingKeepsAccount ==
  ASSUME AccountInv, OnlyLeave, drained' = drained, cancelled \subseteq cancelled',
         Dropped' \subseteq Dropped \cup cancelled',
         \A w \in Worker : Registered(w)' =>
           \/ Registered(w) /\ current'[w] = current[w]
           \/ Queue(w) # {}
  PROVE  AccountInv'
<1>1. QueuesBounded'
  BY LeavingKeepsBound DEF AccountInv
<1>2. DroppedWorkIsCancelled'
  BY DEF AccountInv, DroppedWorkIsCancelled
<1>3. DrainedWorkersStayEmpty'
  BY DEF AccountInv, DrainedWorkersStayEmpty, OnlyLeave
<1> QED
  BY <1>1, <1>2, <1>3 DEF AccountInv

LEMMA WorkerKeepsAccount ==
  ASSUME IInv, AccountInv, NEW w \in Worker, WorkerStep(w) PROVE AccountInv'
<1> USE DEF queueVars, shutdownVars
<1>1. CASE Take(w)
  <2>1. \A x \in Worker : Registered(x)' =>
          \/ Registered(x) /\ current'[x] = current[x]
          \/ Queue(x) # {}
    BY <1>1 DEF Take, Registered, IInv, TypeOK
  <2>2. drained' = drained /\ cancelled' = cancelled
    BY <1>1 DEF Take
  <2> QED
    BY <1>1, <2>1, <2>2, TakeEffect, LeavingKeepsAccount
<1>2. CASE Skip(w) \/ Begin(w) \/ Finish(w) \/ Settle(w) \/ Unregister(w) \/ Exit(w)
  <2>1. \A x \in Worker : Registered(x)' => Registered(x) /\ current'[x] = current[x]
    BY <1>2
    DEF Skip, Begin, Finish, Settle, Unregister, Exit, End, Registered, IInv, TypeOK
  <2>2. drained' = drained /\ cancelled' = cancelled
    BY <1>2 DEF Skip, Begin, Finish, Settle, Unregister, Exit, End
  <2> QED
    BY <1>2, <2>1, <2>2, LoopEffect, LeavingKeepsAccount
<1> QED
  BY <1>1, <1>2 DEF WorkerStep

LEMMA CancelKeepsAccount ==
  ASSUME IInv, AccountInv,
         \/ \E r \in Root : CancelRoot(r)
         \/ \E t \in Task : CancelToken(t)
         \/ BeginShutdown \/ RequestStop \/ Join
         \/ UNCHANGED vars
  PROVE  AccountInv'
<1> USE DEF queueVars, workerVars, shutdownVars, vars
<1>1. ASSUME NEW r \in Root, CancelRoot(r) PROVE AccountInv'
  <2> DEFINE S == Of(r, Queue(Owner[r]))
  <2>1. S \in SUBSET Waiting /\ Discard(S) /\ task' = task /\ drained' = drained
        /\ S \subseteq cancelled' /\ cancelled \subseteq cancelled'
        /\ thread' = thread /\ current' = current
    BY <1>1 DEF CancelRoot, Of, Queue, Waiting
  <2> HIDE DEF S
  <2>2. Dropped' \subseteq Dropped \cup cancelled' /\ OnlyLeave
    BY <2>1, DiscardEffect
  <2> QED
    BY <2>1, <2>2, LeavingKeepsAccount DEF Registered
<1>2. CASE \/ \E t \in Task : CancelToken(t)
           \/ BeginShutdown \/ RequestStop \/ Join
           \/ UNCHANGED vars
  <2>1. /\ state' = state /\ task' = task /\ cancelled \subseteq cancelled'
        /\ drained' = drained /\ thread' = thread /\ current' = current
    BY <1>2 DEF CancelToken, BeginShutdown, RequestStop, Join
  <2> QED
    BY <2>1, SameStateEffect, LeavingKeepsAccount DEF Registered
<1> QED
  BY <1>1, <1>2

LEMMA DrainKeepsAccount ==
  ASSUME IInv, AccountInv, NEW v \in Worker, DrainWorker(v) PROVE AccountInv'
<1>1. Queue(v) \in SUBSET Waiting /\ Discard(Queue(v)) /\ task' = task
      /\ cancelled' = cancelled \cup CancelledByDrain(v)
      /\ v = drained /\ drained' = drained + 1
      /\ thread' = thread /\ current' = current
  BY DEF DrainWorker, Queue, Waiting, workerVars
<1>2. Dropped' = Dropped \cup Queue(v) /\ OnlyLeave /\ Waiting' = Waiting \ Queue(v)
  BY <1>1, DiscardEffect
<1>3. QueuesBounded'
  BY <1>2, LeavingKeepsBound DEF AccountInv
<1>4. DroppedWorkIsCancelled'
  BY <1>1, <1>2 DEF AccountInv, DroppedWorkIsCancelled, CancelledByDrain
<1>5. DrainedWorkersStayEmpty'
  <2> SUFFICES ASSUME NEW w \in Worker, w < drained'
               PROVE  /\ Queue(w)' = {}
                      /\ Registered(w)' => current'[w] \in cancelled'
    BY DEF DrainedWorkersStayEmpty
  <2>1. CASE w = v
    <3>1. Queue(v)' \subseteq Queue(v) /\ Queue(v)' \subseteq Waiting'
      BY <1>2 DEF OnlyLeave, Queue, Waiting
    <3> QED
      BY <1>1, <1>2, <2>1, <3>1 DEF CancelledByDrain, Registered
  <2>2. CASE w # v
    <3>1. w < drained
      BY <1>1, <2>2 DEF Worker, IInv, TypeOK
    <3> QED
      BY <1>1, <1>2, <3>1 DEF AccountInv, DrainedWorkersStayEmpty, OnlyLeave, Registered
  <2> QED
    BY <2>1, <2>2
<1> QED
  BY <1>3, <1>4, <1>5 DEF AccountInv

LEMMA StepKeepsAccount ==
  ASSUME IInv, AccountInv, [Next]_vars PROVE AccountInv'
<1>1. ASSUME NEW q \in Requests, Submit(q) PROVE AccountInv'
  BY <1>1, SubmitKeepsBound, SubmitCancelsDropped, SubmitKeepsDrained DEF AccountInv
<1> QED
  BY <1>1, WorkerKeepsAccount, CancelKeepsAccount, DrainKeepsAccount
  DEF Next, ShutdownStep

-----------------------------------------------------------------------------
(* The counters.                                                           *)

Returned == {w \in Worker : thread[w] = "returned"}

\* How many tasks and threads the counters are about, and their own values.
LEMMA CountedFacts ==
  ASSUME TypeOK
  PROVE  /\ IsFiniteSet(Waiting) /\ IsFiniteSet(Busy) /\ IsFiniteSet(Returned)
         /\ Cardinality(Waiting) \in Nat /\ Cardinality(Busy) \in Nat
         /\ Cardinality(Returned) \in Nat
         /\ outstanding \in Int
         /\ metrics.submitted \in Int /\ metrics.coalesced \in Int
         /\ metrics.completed \in Int /\ metrics.cancelled \in Int
         /\ metrics.failed \in Int
<1>1. IsFiniteSet(Worker)
  BY FS_Interval, SchedulerOptions DEF Worker
<1>2. Busy \subseteq Worker /\ Returned \subseteq Worker
  BY DEF Busy, Returned
<1>3. IsFiniteSet(Busy) /\ IsFiniteSet(Returned)
  BY <1>1, <1>2, FS_Subset
<1>4. Waiting \in SUBSET Task
  BY DEF Waiting
<1> QED
  BY <1>3, <1>4, TaskFinite, FS_CardinalityType DEF TypeOK, Outcome

\* The property, with the threads it counts named.
CountsMatch ==
  /\ outstanding = Cardinality(Waiting) + Cardinality(Busy)
  /\ metrics.submitted + Cardinality(Returned) =
       metrics.completed + metrics.cancelled + metrics.failed
       + metrics.coalesced + outstanding

LEMMA CountsAgree ==
  (OutstandingIsExact <=> CountsMatch) /\ (OutstandingIsExact' <=> CountsMatch')
BY DEF OutstandingIsExact, CountsMatch, Returned

\* The sums stay equal while pending and running tasks change their places.
LEMMA SameCounts ==
  ASSUME CountsMatch, Waiting' = Waiting, Busy' = Busy, Returned' = Returned,
         outstanding' = outstanding, metrics' = metrics
  PROVE  CountsMatch'
BY DEF CountsMatch

LEMMA TakeKeepsCounts ==
  ASSUME IInv, CountsMatch, NEW w \in Worker, Take(w)
  PROVE  CountsMatch'
<1> DEFINE t == First(Queue(w))
<1>1. t \in Waiting /\ Waiting' = Waiting \ {t}
  BY TakeEffect DEF Queue, Waiting
<1> HIDE DEF t
<1>2. Busy' = Busy \cup {w} /\ w \notin Busy /\ Returned' = Returned
  BY DEF Take, Busy, Returned, IInv, TypeOK
<1>3. outstanding' = outstanding /\ metrics' = metrics
  BY DEF Take
<1>4. IsFiniteSet(Waiting) /\ IsFiniteSet(Busy)
      /\ Cardinality(Waiting) \in Nat /\ Cardinality(Busy) \in Nat
  BY CountedFacts DEF IInv
<1>5. Cardinality(Waiting') = Cardinality(Waiting) - 1
  BY <1>1, <1>4, FS_RemoveElement
<1>6. Cardinality(Busy') = Cardinality(Busy) + 1
  BY <1>2, <1>4, FS_AddElement
<1> QED
  BY <1>2, <1>3, <1>4, <1>5, <1>6 DEF CountsMatch

LEMMA EndKeepsCounts ==
  ASSUME IInv, CountsMatch, NEW w \in Worker,
         thread[w] \in {"taken", "working"}, NEW o \in Outcome, End(w, o),
         Waiting' = Waiting
  PROVE  CountsMatch'
<1>1. Busy' = Busy /\ Returned' = Returned \cup {w} /\ w \notin Returned
  BY DEF End, Busy, Returned, IInv, TypeOK
<1>2. /\ outstanding' = outstanding
      /\ metrics'[o] = metrics[o] + 1
      /\ \A d \in ({"submitted", "coalesced"} \cup Outcome) \ {o} : metrics'[d] = metrics[d]
  BY DEF End, queueVars, IInv, TypeOK
<1>3. Cardinality(Returned') = Cardinality(Returned) + 1
  BY <1>1, CountedFacts, FS_AddElement DEF IInv
<1>4. metrics'.completed + metrics'.cancelled + metrics'.failed
        = metrics.completed + metrics.cancelled + metrics.failed + 1
      /\ metrics'.submitted = metrics.submitted /\ metrics'.coalesced = metrics.coalesced
  BY <1>2, CountedFacts DEF Outcome, IInv
<1>5. /\ metrics'.completed \in Int /\ metrics'.cancelled \in Int
      /\ metrics'.failed \in Int
  BY <1>2, CountedFacts DEF Outcome, IInv
<1> HIDE DEF IInv
<1> QED
  BY <1>1, <1>2, <1>3, <1>4, <1>5, CountedFacts DEF CountsMatch, IInv

LEMMA SettleKeepsCounts ==
  ASSUME IInv, CountsMatch, NEW w \in Worker, Settle(w), Waiting' = Waiting
  PROVE  CountsMatch'
<1>1. /\ Busy' = Busy \ {w} /\ w \in Busy
      /\ Returned' = Returned \ {w} /\ w \in Returned
  BY DEF Settle, Busy, Returned, IInv, TypeOK
<1>2. outstanding' = outstanding - 1 /\ metrics' = metrics
  BY DEF Settle
<1>3. Cardinality(Busy') = Cardinality(Busy) - 1
      /\ Cardinality(Returned') = Cardinality(Returned) - 1
  BY <1>1, CountedFacts, FS_RemoveElement DEF IInv
<1>4. /\ Cardinality(Busy) \in Nat /\ Cardinality(Returned) \in Nat
      /\ Cardinality(Waiting) \in Nat /\ outstanding \in Int
      /\ metrics.submitted \in Int /\ metrics.coalesced \in Int
      /\ metrics.completed \in Int /\ metrics.cancelled \in Int
      /\ metrics.failed \in Int
  BY CountedFacts DEF IInv
<1>5. Cardinality(Waiting') = Cardinality(Waiting)
  OBVIOUS
<1>6. outstanding' = Cardinality(Waiting') + Cardinality(Busy')
  BY <1>2, <1>3, <1>4, <1>5 DEF CountsMatch
<1>7. metrics'.submitted + Cardinality(Returned') =
        metrics'.completed + metrics'.cancelled + metrics'.failed
        + metrics'.coalesced + outstanding'
  BY <1>2, <1>3, <1>4 DEF CountsMatch
<1> QED
  BY <1>6, <1>7 DEF CountsMatch

LEMMA WorkerKeepsCounts ==
  ASSUME IInv, CountsMatch, NEW w \in Worker, WorkerStep(w)
  PROVE  CountsMatch'
<1>1. CASE Take(w)
  BY <1>1, TakeKeepsCounts
<1>2. CASE Skip(w) \/ Begin(w) \/ Finish(w) \/ Settle(w) \/ Unregister(w) \/ Exit(w)
  <2>1. Waiting' = Waiting
    BY <1>2, LoopEffect
  <2>2. CASE Skip(w) \/ Finish(w)
    <3>1. /\ thread[w] \in {"taken", "working"}
          /\ \E o \in Outcome : End(w, o)
      BY <2>2 DEF Skip, Finish, Outcome
    <3> QED
      BY <2>1, <3>1, EndKeepsCounts
  <2>3. CASE Settle(w)
    BY <2>1, <2>3, SettleKeepsCounts
  <2>4. CASE Begin(w) \/ Unregister(w) \/ Exit(w)
    <3>1. Busy' = Busy /\ Returned' = Returned
          /\ outstanding' = outstanding /\ metrics' = metrics
      BY <2>4 DEF Begin, Unregister, Exit, Busy, Returned, IInv, TypeOK, queueVars
    <3> QED
      BY <2>1, <3>1, SameCounts
  <2> QED
    BY <1>2, <2>2, <2>3, <2>4
<1> QED
  BY <1>1, <1>2 DEF WorkerStep

LEMMA DiscardKeepsCounts ==
  ASSUME IInv, CountsMatch, NEW S \in SUBSET Waiting, Discard(S),
         task' = task, thread' = thread
  PROVE  CountsMatch'
<1>1. Waiting' = Waiting \ S /\ Busy' = Busy /\ Returned' = Returned
  BY DiscardEffect DEF Busy, Returned
<1>2. Cardinality(S) \in Nat
  BY WaitingFinite
<1>3. Cardinality(Waiting') = Cardinality(Waiting) - Cardinality(S)
  <2>1. Waiting \cap S = S
    OBVIOUS
  <2> QED
    BY <1>1, <2>1, CountedFacts, FS_Difference DEF IInv
<1>4. outstanding' = outstanding - Cardinality(S)
      /\ metrics'.cancelled = metrics.cancelled + Cardinality(S)
      /\ metrics'.submitted = metrics.submitted /\ metrics'.coalesced = metrics.coalesced
      /\ metrics'.completed = metrics.completed /\ metrics'.failed = metrics.failed
  BY DEF Discard, IInv, TypeOK, Outcome
<1> QED
  BY <1>1, <1>2, <1>3, <1>4, CountedFacts DEF CountsMatch, IInv

\* A submission counts itself and what it replaces, or itself and a pending task.
LEMMA SubmitKeepsCounts ==
  ASSUME IInv, CountsMatch, NEW q \in Requests, Submit(q)
  PROVE  CountsMatch'
<1>1. Call(q) /\ Busy' = Busy /\ Returned' = Returned
  BY DEF Submit, SubmitAfterShutdown, SubmitNewer, SubmitOlder, SubmitWithRoom,
         SubmitEvicting, SubmitToFullQueue, AcceptedCall, Call, workerVars, Busy, Returned
<1>2. ASSUME CountCoalesced, outstanding' = outstanding,
             Cardinality(Waiting') = Cardinality(Waiting)
      PROVE  CountsMatch'
  <2>1. /\ metrics'.submitted = metrics.submitted + 1
        /\ metrics'.coalesced = metrics.coalesced + 1
        /\ \A o \in Outcome : metrics'[o] = metrics[o]
    BY <1>2, CoalescedMetrics DEF CountCoalesced, IInv
  <2> QED
    BY <1>1, <1>2, <2>1, CountedFacts DEF CountsMatch, IInv, Outcome
<1>3. ASSUME NEW x \in Waiting, NEW t, t \notin Waiting,
             Waiting' = (Waiting \ {x}) \cup {t}
      PROVE  Cardinality(Waiting') = Cardinality(Waiting)
  <2> DEFINE S == Waiting \ {x}
  <2>1. IsFiniteSet(S) /\ Cardinality(S) = Cardinality(Waiting) - 1 /\ t \notin S
    BY <1>3, CountedFacts, FS_RemoveElement DEF IInv
  <2> HIDE DEF S
  <2>2. Cardinality(S \cup {t}) = Cardinality(S) + 1
    BY <2>1, FS_AddElement
  <2> QED
    BY <1>3, <2>1, <2>2, CountedFacts DEF S, IInv
<1>4. CASE SubmitAfterShutdown(q) \/ SubmitToFullQueue(q)
  <2>1. Waiting' = Waiting /\ outstanding' = outstanding /\ metrics' = metrics
    BY <1>4, RefuseEffect DEF SubmitAfterShutdown, SubmitToFullQueue, AcceptedCall, Refuse
  <2> QED
    BY <1>1, <2>1, SameCounts
<1>5. CASE SubmitOlder(q)
  <2>1. Waiting' = Waiting /\ outstanding' = outstanding /\ CountCoalesced
    BY <1>5, RefuseEffect DEF SubmitOlder, AcceptedCall, Refuse
  <2> QED
    BY <1>2, <2>1
<1>6. CASE SubmitNewer(q)
  <2>1. /\ First(Analyses(q.root)) \in Waiting /\ calls + 1 \notin Waiting
        /\ Waiting' = (Waiting \ {First(Analyses(q.root))}) \cup {calls + 1}
    BY <1>6, NewerEffect DEF Queue, Waiting
  <2>2. Cardinality(Waiting') = Cardinality(Waiting)
    BY <1>3, <2>1
  <2> QED
    BY <1>2, <1>6, <2>2 DEF SubmitNewer
<1>7. CASE SubmitWithRoom(q)
  <2>1. Admit(q, {}) /\ {} \in SUBSET Queue(Owner[q.root])
    BY <1>7 DEF SubmitWithRoom
  <2>2. calls + 1 \notin Waiting /\ Waiting' = Waiting \cup {calls + 1}
    BY <1>1, <2>1, AdmitEffect
  <2>3. Cardinality(Waiting') = Cardinality(Waiting) + 1
    BY <2>2, CountedFacts, FS_AddElement DEF IInv
  <2>4. /\ outstanding' = outstanding + 1 /\ metrics'.submitted = metrics.submitted + 1
        /\ metrics'.coalesced = metrics.coalesced
        /\ metrics'.completed = metrics.completed
        /\ metrics'.cancelled = metrics.cancelled
        /\ metrics'.failed = metrics.failed
    BY <1>7 DEF SubmitWithRoom, IInv, TypeOK, Outcome
  <2> QED
    BY <1>1, <2>3, <2>4, CountedFacts DEF CountsMatch, IInv
<1>8. CASE SubmitEvicting(q)
  <2> DEFINE x == First(Evictable(Owner[q.root]))
  <2>1. {x} \in SUBSET Queue(Owner[q.root]) /\ Admit(q, {x})
    BY <1>8, EvictedIsQueued DEF SubmitEvicting
  <2> HIDE DEF x
  <2>2. /\ x \in Waiting /\ calls + 1 \notin Waiting
        /\ Waiting' = (Waiting \ {x}) \cup {calls + 1}
    BY <1>1, <2>1, AdmitEffect
  <2>3. Cardinality(Waiting') = Cardinality(Waiting)
    BY <1>3, <2>2
  <2> QED
    BY <1>2, <1>8, <2>3 DEF SubmitEvicting
<1> QED
  BY <1>4, <1>5, <1>6, <1>7, <1>8 DEF Submit

LEMMA StepKeepsCounts ==
  ASSUME IInv, CountsMatch, [Next]_vars PROVE CountsMatch'
<1> USE DEF queueVars, workerVars, shutdownVars, vars
<1>1. ASSUME NEW r \in Root, CancelRoot(r) PROVE CountsMatch'
  <2>1. Of(r, Queue(Owner[r])) \in SUBSET Waiting
    BY DEF Of, Queue, Waiting
  <2> QED
    BY <1>1, <2>1, DiscardKeepsCounts DEF CancelRoot
<1>2. ASSUME NEW w \in Worker, DrainWorker(w) PROVE CountsMatch'
  <2>1. Queue(w) \in SUBSET Waiting
    BY DEF Queue, Waiting
  <2> QED
    BY <1>2, <2>1, DiscardKeepsCounts DEF DrainWorker
<1>3. CASE \/ \E t \in Task : CancelToken(t)
           \/ BeginShutdown \/ RequestStop \/ Join
           \/ UNCHANGED vars
  <2>1. /\ state' = state /\ task' = task /\ thread' = thread
        /\ outstanding' = outstanding /\ metrics' = metrics
    BY <1>3 DEF CancelToken, BeginShutdown, RequestStop, Join
  <2>2. Busy' = Busy /\ Returned' = Returned /\ Waiting' = Waiting
    BY <2>1 DEF Busy, Returned, Waiting
  <2> QED
    BY <2>1, <2>2, SameCounts
<1> QED
  BY <1>1, <1>2, <1>3, SubmitKeepsCounts, WorkerKeepsCounts DEF Next, ShutdownStep

-----------------------------------------------------------------------------
(* The theorem.                                                            *)

LEMMA InitAccount == Init => AccountInv /\ CountsMatch
<1> SUFFICES ASSUME Init PROVE AccountInv /\ CountsMatch
  OBVIOUS
<1>1. \A w \in Worker : Queue(w) = {} /\ Bounded(w) = {} /\ ~Registered(w)
  BY DEF Init, Queue, Bounded, Registered
<1>2. Waiting = {} /\ Dropped = {} /\ Busy = {} /\ Returned = {}
  BY DEF Init, Waiting, Dropped, Busy, Returned
<1>3. \A w \in Worker : 0 <= Capacity(w)
  BY SchedulerOptions DEF Capacity, Worker
<1>4. QueuesBounded
  BY <1>1, <1>3, FS_EmptySet DEF QueuesBounded, Bounded
<1>5. DroppedWorkIsCancelled /\ DrainedWorkersStayEmpty
  BY <1>1, <1>2 DEF DroppedWorkIsCancelled, DrainedWorkersStayEmpty
<1>6. CountsMatch
  BY <1>2, FS_EmptySet DEF Init, CountsMatch
<1> QED
  BY <1>4, <1>5, <1>6 DEF AccountInv

\* submit(), worker_loop, cancel_root and shutdown() of scheduler.cpp lose no
\* submission and count none twice, for every value of the constants: queues
\* keep their bound, what is dropped is cancelled, a drained worker stays
\* drained, and the counters are what is pending, running and over.
THEOREM WorkAccounted == Spec => []WorkIsAccountedFor
<1>1. Init => IInv /\ AccountInv /\ CountsMatch
  BY InitInvariant, InitAccount
<1>2. IInv /\ AccountInv /\ CountsMatch /\ [Next]_vars
        => (IInv /\ AccountInv /\ CountsMatch)'
  BY StepInvariant, StepKeepsAccount, StepKeepsCounts
<1>3. IInv /\ AccountInv /\ CountsMatch => WorkIsAccountedFor
  BY CountsAgree DEF AccountInv, WorkIsAccountedFor
<1> QED
  BY <1>1, <1>2, <1>3, PTL DEF Spec

-----------------------------------------------------------------------------
(***************************************************************************)
(* The contract: every step of a queue, a thread or shutdown() is a step   *)
(* of WorkContract or none.                                                *)
(***************************************************************************)

Phases == [t \in Task |-> Phase(t)]

\* Work that runs is held by a thread, and a thread that is done with its work
\* holds one that is over.
HeldInv ==
  /\ \A t \in Task : state[t] = "running" =>
       \E w \in Worker : thread[w] \in {"taken", "working"} /\ current[w] = t
  /\ \A w \in Worker : thread[w] \in {"returned", "settled"} => state[current[w]] \in Outcome

-----------------------------------------------------------------------------
(* The phases.                                                             *)

LEMMA PhaseFacts ==
  ASSUME TypeOK, NEW t \in Task
  PROVE  /\ Phases[t] = "new" <=> state[t] = "new"
         /\ Phases[t] = "pending" <=> state[t] = "queued"
         /\ Phases[t] = "running" <=> state[t] = "running"
         /\ Phases[t] = "dropped" <=> t \in Dropped
         /\ Phases[t] = "ended" <=> state[t] \in Outcome
         /\ Phases[t] \in {"new", "pending", "running", "dropped", "ended"}
<1>1. state[t] \in {"new", "queued", "running", "superseded", "evicted",
                    "rejected", "discarded"} \cup Outcome
  BY DEF TypeOK
<1>2. Phases[t] = Phase(t)
  BY DEF Phases
<1> QED
  BY <1>1, <1>2 DEF Phase, Dropped, Outcome

\* Phases change only where states do, and then as the state says.
LEMMA PhaseSteps ==
  ASSUME TypeOK, TypeOK', NEW t \in Task
  PROVE  /\ state'[t] = state[t] => Phases'[t] = Phases[t]
         /\ state'[t] = "queued" => Phases'[t] = "pending"
         /\ state'[t] = "running" => Phases'[t] = "running"
         /\ state'[t] \in {"superseded", "evicted", "rejected", "discarded"}
              => Phases'[t] = "dropped"
         /\ state'[t] \in Outcome => Phases'[t] = "ended"
         /\ state'[t] = "new" => Phases'[t] = "new"
<1>1. /\ state[t] \in {"new", "queued", "running", "superseded", "evicted",
                       "rejected", "discarded"} \cup Outcome
      /\ state'[t] \in {"new", "queued", "running", "superseded", "evicted",
                        "rejected", "discarded"} \cup Outcome
  BY DEF TypeOK
<1>2. Phases[t] = Phase(t) /\ Phases'[t] = Phase(t)'
  BY DEF Phases
<1> QED
  BY <1>1, <1>2 DEF Phase, Dropped, Outcome

-----------------------------------------------------------------------------
(* What runs is held.                                                      *)

LEMMA InitHeld == Init => HeldInv
BY DEF Init, HeldInv

LEMMA WorkerKeepsHeld ==
  ASSUME IInv, HeldInv, NEW w \in Worker, WorkerStep(w) PROVE HeldInv'
<1> USE DEF queueVars, shutdownVars
<1>1. CASE Take(w)
  <2> DEFINE t == First(Queue(w))
  <2>1. t \in Task /\ state[t] = "queued"
    BY <1>1, TakeEffect DEF Queue
  <2>2. /\ \A x \in Task : state'[x] = IF x = t THEN "running" ELSE state[x]
        /\ \A x \in Worker : thread'[x] = IF x = w THEN "taken" ELSE thread[x]
        /\ \A x \in Worker : current'[x] = IF x = w THEN t ELSE current[x]
        /\ thread[w] = "waiting"
    BY <1>1, <2>1 DEF IInv, TypeOK, Take
  <2>3. \A x \in Worker : thread[x] \in {"returned", "settled"}
          => current[x] \in Task /\ state[current[x]] \in Outcome
    BY DEF HeldInv, IInv, Structure, TakenTasks, Registered
  <2> HIDE DEF t
  <2> QED
    BY <2>1, <2>2, <2>3 DEF HeldInv, Outcome
<1>2. CASE Skip(w) \/ Finish(w)
  <2> DEFINE t == current[w]
  <2>1. t \in Task /\ thread[w] \in {"taken", "working"} /\ current' = current
    BY <1>2 DEF Skip, Finish, End, IInv, Structure, TakenTasks, Registered
  <2>2. PICK o \in Outcome : state' = [state EXCEPT ![t] = o]
    BY <1>2 DEF Skip, Finish, End, Outcome
  <2>3. thread' = [thread EXCEPT ![w] = "returned"]
    BY <1>2 DEF Skip, Finish, End
  <2>4. /\ \A x \in Task : state'[x] = IF x = t THEN o ELSE state[x]
        /\ \A x \in Worker : thread'[x] = IF x = w THEN "returned" ELSE thread[x]
    BY <2>2, <2>3 DEF IInv, TypeOK
  <2>5. \A x \in Worker : thread[x] \in {"returned", "settled"}
          => current[x] \in Task /\ state[current[x]] \in Outcome
    BY DEF HeldInv, IInv, Structure, TakenTasks, Registered
  <2> QED
    BY <2>1, <2>4, <2>5 DEF HeldInv, Outcome
<1>3. CASE Begin(w) \/ Settle(w) \/ Unregister(w) \/ Exit(w)
  <2>1. state' = state /\ current' = current
    BY <1>3 DEF Begin, Settle, Unregister, Exit
  <2>2. \E s \in {"working", "settled", "waiting", "exited"} :
          /\ \A x \in Worker : thread'[x] = IF x = w THEN s ELSE thread[x]
          /\ s = "working" => thread[w] = "taken"
          /\ s = "settled" => thread[w] = "returned"
          /\ thread[w] \in {"taken", "working"} => s = "working"
    BY <1>3 DEF Begin, Settle, Unregister, Exit, IInv, TypeOK
  <2> QED
    BY <2>1, <2>2 DEF HeldInv
<1> QED
  BY <1>1, <1>2, <1>3 DEF WorkerStep

\* Steps of others leave running work, and work that is over, alone.
LEMMA OthersKeepHeld ==
  ASSUME IInv, HeldInv, UNCHANGED <<thread, current>>,
         \A x \in Task : state[x] \in {"running"} \cup Outcome => state'[x] = state[x],
         \A x \in Task : state'[x] = "running" => state[x] = "running"
  PROVE  HeldInv'
<1>1. \A w \in Worker : Registered(w) => current[w] \in Task
  BY DEF IInv, Structure, TakenTasks
<1> QED
  BY <1>1 DEF HeldInv, Registered

LEMMA SubmitStates ==
  ASSUME IInv, NEW q \in Requests, Submit(q)
  PROVE  /\ \A x \in Task : state'[x] = state[x] \/ x = calls + 1 \/ state[x] = "queued"
         /\ \A x \in Task : state'[x] = "running" => state[x] = "running"
         /\ state[calls + 1] = "new"
         /\ Call(q)
<1>1. Call(q)
  BY DEF Submit, SubmitAfterShutdown, SubmitNewer, SubmitOlder, SubmitWithRoom,
         SubmitEvicting, SubmitToFullQueue, AcceptedCall
<1>2. calls + 1 \in Task /\ state[calls + 1] = "new"
  BY <1>1, CallFacts
<1>3. CASE SubmitAfterShutdown(q) \/ SubmitOlder(q) \/ SubmitToFullQueue(q)
  BY <1>1, <1>2, <1>3
  DEF SubmitAfterShutdown, SubmitOlder, SubmitToFullQueue, Refuse, IInv, TypeOK
<1>4. CASE SubmitNewer(q)
  <2> DEFINE old == First(Analyses(q.root))
  <2>1. old \in Task /\ state[old] = "queued"
    BY <1>4, NewerEffect DEF Queue
  <2>2. state' = [state EXCEPT ![old] = "superseded", ![calls + 1] = "queued"]
    BY <1>4 DEF SubmitNewer
  <2> HIDE DEF old
  <2> QED
    BY <1>1, <1>2, <2>1, <2>2 DEF IInv, TypeOK
<1>5. ASSUME NEW gone \in SUBSET Queue(Owner[q.root]), Admit(q, gone)
      PROVE  /\ \A x \in Task : state'[x] = state[x] \/ x = calls + 1 \/ state[x] = "queued"
             /\ \A x \in Task : state'[x] = "running" => state[x] = "running"
  BY <1>2, <1>5 DEF Admit, Queue
<1> QED
  BY <1>1, <1>2, <1>3, <1>4, <1>5, EvictedIsQueued
  DEF Submit, SubmitWithRoom, SubmitEvicting

LEMMA StepKeepsHeld ==
  ASSUME IInv, HeldInv, [Next]_vars PROVE HeldInv'
<1> USE DEF queueVars, workerVars, shutdownVars, vars
<1>1. ASSUME NEW S \in SUBSET Waiting, Discard(S), UNCHANGED <<thread, current>>
      PROVE  HeldInv'
  <2>1. \A x \in Task : state'[x] = IF x \in S THEN "discarded" ELSE state[x]
    BY <1>1 DEF Discard
  <2> QED
    BY <1>1, <2>1, OthersKeepHeld DEF Waiting, Outcome
<1>2. ASSUME NEW q \in Requests, Submit(q) PROVE HeldInv'
  <2>1. UNCHANGED <<thread, current>>
    BY <1>2, SubmitStates DEF Call
  <2> QED
    BY <1>2, <2>1, SubmitStates, OthersKeepHeld DEF Outcome
<1>3. ASSUME NEW r \in Root, CancelRoot(r) PROVE HeldInv'
  <2>1. Of(r, Queue(Owner[r])) \in SUBSET Waiting
    BY DEF Of, Queue, Waiting
  <2> QED
    BY <1>1, <1>3, <2>1 DEF CancelRoot
<1>4. ASSUME NEW w \in Worker, DrainWorker(w) PROVE HeldInv'
  <2>1. Queue(w) \in SUBSET Waiting
    BY DEF Queue, Waiting
  <2> QED
    BY <1>1, <1>4, <2>1 DEF DrainWorker
<1>5. CASE \/ \E t \in Task : CancelToken(t)
           \/ BeginShutdown \/ RequestStop \/ Join
           \/ UNCHANGED vars
  <2>1. UNCHANGED <<thread, current, state>>
    BY <1>5 DEF CancelToken, BeginShutdown, RequestStop, Join
  <2> QED
    BY <2>1, OthersKeepHeld
<1> QED
  BY <1>2, <1>3, <1>4, <1>5, WorkerKeepsHeld DEF Next, ShutdownStep

-----------------------------------------------------------------------------
(* Every step is a step of the contract, or none.                          *)

LEMMA InitImplements == Init => Contract!Init
<1> SUFFICES ASSUME Init PROVE Contract!Init
  OBVIOUS
<1>1. \A t \in Task : Phases[t] = "new"
  BY InitInvariant, PhaseFacts DEF Init, IInv
<1>2. \A t \in Task : Phase(t) = "new"
  BY <1>1 DEF Phases
<1> QED
  BY <1>2 DEF Init, Contract!Init, Contract!Task, Task

\* Steps within the queues, the threads and shutdown() are none of the contract.
LEMMA StutterImplements ==
  ASSUME UNCHANGED <<calls, task, state, cancelled>>
  PROVE  UNCHANGED Contract!vars
<1>1. Phases' = Phases
  BY DEF Phases, Phase, Dropped
<1> QED
  BY <1>1 DEF Contract!vars, Phases

\* A thread takes the first task of its queue: nothing of its root runs, since its
\* root is served by this thread only, and all that it follows is in front of it.
LEMMA TakeImplements ==
  ASSUME IInv, IInv', OrderInv, HeldInv, NEW w \in Worker, Take(w)
  PROVE  Contract!Start(First(Queue(w)))
<1> DEFINE t == First(Queue(w))
<1>1. /\ t \in Task /\ state[t] = "queued" /\ Owner[task[t].root] = w
      /\ \A x \in Queue(w) : x \notin ahead[t]
  <2>1. StrictOrder(Queue(w), ahead) /\ Queue(w) \in SUBSET Task /\ Queue(w) # {}
    BY Parts DEF IInv, Structure, OrderedQueues, Take
  <2>2. t \in Queue(w) /\ ahead[t] \cap Queue(w) = {}
    BY <2>1, FirstIsFirst
  <2> QED
    BY <2>2 DEF Queue
<1>2. /\ thread[w] = "waiting"
      /\ \A x \in Task : state'[x] = IF x = t THEN "running" ELSE state[x]
      /\ calls' = calls /\ task' = task /\ cancelled' = cancelled
  BY <1>1 DEF Take, IInv, TypeOK
<1> HIDE DEF t
<1>3. \A x \in Task : Phases[x] = "running" => task[x].root # task[t].root
  <2> SUFFICES ASSUME NEW x \in Task, state[x] = "running", task[x].root = task[t].root
               PROVE  FALSE
    BY PhaseFacts DEF IInv
  <2>1. PICK v \in Worker : thread[v] \in {"taken", "working"} /\ current[v] = x
    BY DEF HeldInv
  <2>2. Owner[task[x].root] = v
    BY <2>1 DEF IInv, Structure, TakenTasks, Registered
  <2> QED
    BY <1>1, <1>2, <2>1, <2>2
<1>4. ASSUME NEW x \in Task, Phases[x] = "pending", Contract!Precedes(x, t)
      PROVE  FALSE
  <2>1. x \in Queue(w) /\ x \in Waiting /\ t \in Waiting
    BY <1>1, <1>4, PhaseFacts DEF IInv, Contract!Precedes, Queue, Waiting
  <2>2. CASE task[t].priority = "barrier"
    BY <1>1, <1>4, <2>1, <2>2
    DEF Contract!Precedes, OrderInv, BarriersFollowEarlierWork, Of
  <2>3. CASE task[t].priority = "interactive" /\ task[x].priority = "background"
    BY <1>1, <1>4, <2>1, <2>3
    DEF Contract!Precedes, OrderInv, QueriesFollowAnalyses, Of, With
  <2> QED
    BY <1>4, <2>2, <2>3 DEF Contract!Precedes
<1>5. Phases' = [Phases EXCEPT ![t] = "running"]
  <2>1. \A x \in Task : Phases'[x] = IF x = t THEN "running" ELSE Phases[x]
    BY <1>1, <1>2, PhaseSteps DEF IInv
  <2> QED
    BY <2>1 DEF Phases
<1>6. Phases[t] = "pending"
  BY <1>1, PhaseFacts DEF IInv
<1> QED
  BY <1>2, <1>3, <1>4, <1>5, <1>6
  DEF Contract!Start, Contract!Task, Task, Phases, t

LEMMA EndImplements ==
  ASSUME IInv, IInv', NEW w \in Worker, Skip(w) \/ Finish(w)
  PROVE  Contract!End(current[w])
<1> DEFINE t == current[w]
<1>1. t \in Task /\ state[t] = "running"
  BY DEF Skip, Finish, IInv, Structure, TakenTasks, Registered
<1>2. PICK o \in Outcome : state' = [state EXCEPT ![t] = o]
  BY DEF Skip, Finish, End, Outcome
<1>3. calls' = calls /\ task' = task /\ cancelled' = cancelled
  BY DEF Skip, Finish, End, queueVars
<1>4. \A x \in Task : state'[x] = IF x = t THEN o ELSE state[x]
  BY <1>2 DEF IInv, TypeOK
<1> HIDE DEF t
<1>5. Phases' = [Phases EXCEPT ![t] = "ended"]
  <2>1. \A x \in Task : Phases'[x] = IF x = t THEN "ended" ELSE Phases[x]
    BY <1>1, <1>4, PhaseSteps DEF IInv
  <2> QED
    BY <2>1 DEF Phases
<1>6. Phases[t] = "running"
  BY <1>1, PhaseFacts DEF IInv
<1> QED
  BY <1>3, <1>5, <1>6 DEF Contract!End, Phases, t

\* Waiting tasks are dropped, and what runs is told.
LEMMA DiscardImplements ==
  ASSUME IInv, IInv', NEW S \in SUBSET Waiting, Discard(S),
         NEW told \in SUBSET Task, \A t \in told : state[t] # "new",
         cancelled' = cancelled \cup S \cup told, UNCHANGED <<calls, task>>
  PROVE  \E C \in SUBSET Task : Contract!Cancel(C)
<1> DEFINE C == S \cup told
<1>1. C \in SUBSET Task /\ \A t \in C : Phases[t] # "new"
  BY PhaseFacts DEF Waiting, IInv
<1>2. S \in SUBSET {t \in C : Phases[t] = "pending"}
  BY PhaseFacts DEF Waiting, IInv
<1>3. Phases' = [t \in Task |-> IF t \in S THEN "dropped" ELSE Phases[t]]
  <2>1. \A t \in Task : state'[t] = IF t \in S THEN "discarded" ELSE state[t]
    BY DEF Discard
  <2>2. \A t \in Task : Phases'[t] = IF t \in S THEN "dropped" ELSE Phases[t]
    BY <2>1, PhaseSteps DEF IInv
  <2> QED
    BY <2>2 DEF Phases
<1>4. cancelled' = cancelled \cup C
  OBVIOUS
<1>5. Contract!Cancel(C)
  BY <1>1, <1>2, <1>3, <1>4 DEF Contract!Cancel, Contract!Task, Task, Phases
<1> QED
  BY <1>1, <1>5

LEMMA CancelImplements ==
  ASSUME IInv, IInv',
         \/ \E r \in Root : CancelRoot(r)
         \/ \E t \in Task : CancelToken(t)
         \/ \E w \in Worker : DrainWorker(w)
  PROVE  \E C \in SUBSET Task : Contract!Cancel(C)
<1> USE DEF queueVars, workerVars, shutdownVars
<1>1. ASSUME NEW r \in Root, CancelRoot(r)
      PROVE  \E C \in SUBSET Task : Contract!Cancel(C)
  <2> DEFINE S == Of(r, Queue(Owner[r]))
  <2>1. S \in SUBSET Waiting
    BY DEF Of, Queue, Waiting
  <2>2. Running(r) \in SUBSET Task /\ \A t \in Running(r) : state[t] # "new"
    BY OwnerInRange DEF IInv, Structure, TakenTasks, Running
  <2>3. /\ Discard(S) /\ cancelled' = cancelled \cup S \cup Running(r)
        /\ UNCHANGED <<calls, task>>
    BY <1>1 DEF CancelRoot
  <2> HIDE DEF S
  <2> QED
    BY <2>1, <2>2, <2>3, DiscardImplements
<1>2. ASSUME NEW w \in Worker, DrainWorker(w)
      PROVE  \E C \in SUBSET Task : Contract!Cancel(C)
  <2> DEFINE told == IF Registered(w) THEN {current[w]} ELSE {}
  <2>1. Queue(w) \in SUBSET Waiting
    BY DEF Queue, Waiting
  <2>2. told \in SUBSET Task /\ \A t \in told : state[t] # "new"
    BY DEF IInv, Structure, TakenTasks
  <2>3. /\ Discard(Queue(w)) /\ cancelled' = cancelled \cup Queue(w) \cup told
        /\ UNCHANGED <<calls, task>>
    BY <1>2 DEF DrainWorker, CancelledByDrain
  <2> HIDE DEF told
  <2> QED
    BY <2>1, <2>2, <2>3, DiscardImplements
<1>3. ASSUME NEW t \in Task, CancelToken(t)
      PROVE  \E C \in SUBSET Task : Contract!Cancel(C)
  <2>1. /\ state[t] # "new" /\ cancelled' = cancelled \cup {t}
        /\ UNCHANGED <<calls, task, state>>
    BY <1>3 DEF CancelToken
  <2>2. Phases' = Phases /\ Phases[t] # "new"
    BY <2>1, PhaseFacts DEF Phases, Phase, Dropped, IInv
  <2>3. Phases' = [x \in Task |-> IF x \in {} THEN "dropped" ELSE Phases[x]]
    BY <2>2 DEF Phases
  <2> DEFINE C == {t}
  <2>4. /\ C \in SUBSET Task /\ \A x \in C : Phases[x] # "new"
        /\ {} \in SUBSET {x \in C : Phases[x] = "pending"}
        /\ cancelled' = cancelled \cup C
    BY <2>1, <2>2
  <2> HIDE DEF C
  <2>5. Contract!Cancel(C)
    BY <2>1, <2>3, <2>4 DEF Contract!Cancel, Contract!Task, Task, Phases
  <2> QED
    BY <2>4, <2>5
<1> QED
  BY <1>1, <1>2, <1>3

\* The work that a submission supersedes is of its root, and runs or is over.
LEMMA SupersededFacts ==
  ASSUME IInv, HeldInv, NEW q \in Requests
  PROVE  Superseded(q) \in SUBSET
           {t \in Task : /\ Phases[t] \in {"running", "ended"}
                         /\ task[t].root = q.root
                         /\ q.priority = "background" /\ q.supersede}
<1>1. \A w \in Worker : Registered(w) =>
        current[w] \in Task /\ state[current[w]] \in {"running"} \cup Outcome
  BY DEF IInv, Structure, TakenTasks, Registered, HeldInv
<1>2. \A t \in Running(q.root) : t \in Task /\ task[t].root = q.root
                               /\ state[t] \in {"running"} \cup Outcome
  BY <1>1, OwnerInRange DEF Running
<1> QED
  BY <1>2, PhaseFacts DEF Superseded, IInv

LEMMA RefuseImplements ==
  ASSUME IInv, IInv', NEW q \in Requests, Call(q),
         NEW end \in {"rejected", "superseded"}, Refuse(q, end)
  PROVE  Contract!Submit(q)
<1> DEFINE t == calls + 1
<1>1. /\ t \in Task /\ state[t] = "new" /\ calls < MaxTasks /\ calls' = t
      /\ task' = [task EXCEPT ![t] = q]
      /\ cancelled' = cancelled \cup {t}
  BY CallFacts DEF Call, Refuse, CancelledOnRefusal
<1>2. \A x \in Task : state'[x] = IF x = t THEN end ELSE state[x]
  BY <1>1 DEF Refuse, IInv, TypeOK
<1> HIDE DEF t
<1>3. Phases' = [x \in Task |-> IF x = t THEN "dropped"
                                ELSE IF x \in {} THEN "dropped" ELSE Phases[x]]
  <2>1. \A x \in Task : Phases'[x] = IF x = t THEN "dropped" ELSE Phases[x]
    BY <1>1, <1>2, PhaseSteps DEF IInv
  <2> QED
    BY <2>1 DEF Phases
<1>4. cancelled' = cancelled \cup {} \cup {} \cup {t}
  BY <1>1
<1> QED
  BY <1>1, <1>3, <1>4 DEF Contract!Submit, Contract!Task, Task, Phases, t

\* A submission is queued; one task at most leaves for it.
LEMMA EnterImplements ==
  ASSUME IInv, IInv', HeldInv, NEW q \in Requests, Call(q),
         NEW gone \in SUBSET Task,
         \A x \in gone : Contract!MayDisplace(q, x),
         NEW end \in {"superseded", "evicted"},
         \A x \in Task : state'[x] = IF x = calls + 1 THEN "queued"
                                    ELSE IF x \in gone THEN end ELSE state[x],
         cancelled' = cancelled \cup gone \cup Superseded(q)
  PROVE  Contract!Submit(q)
<1> DEFINE t == calls + 1
           running == Superseded(q)
<1>1. /\ t \in Task /\ calls < MaxTasks /\ calls' = t
      /\ task' = [task EXCEPT ![t] = q]
  BY CallFacts DEF Call
<1>2. Phases' = [x \in Task |-> IF x = t THEN "pending"
                                ELSE IF x \in gone THEN "dropped" ELSE Phases[x]]
  <2>1. \A x \in Task : Phases'[x] = IF x = t THEN "pending"
                                     ELSE IF x \in gone THEN "dropped" ELSE Phases[x]
    BY <1>1, PhaseSteps DEF IInv
  <2> QED
    BY <2>1 DEF Phases
<1>3. running \in SUBSET {x \in Task : /\ Phases[x] \in {"running", "ended"}
                                        /\ task[x].root = q.root
                                        /\ q.priority = "background" /\ q.supersede}
  BY SupersededFacts
<1>4. gone \in SUBSET {x \in Task : Contract!MayDisplace(q, x)}
  OBVIOUS
<1>5. cancelled' = cancelled \cup gone \cup running \cup {}
  OBVIOUS
<1> HIDE DEF running
<1> QED
  BY <1>1, <1>2, <1>3, <1>4, <1>5 DEF Contract!Submit, Contract!Task, Task, Phases

LEMMA SubmitImplements ==
  ASSUME IInv, IInv', HeldInv, NEW q \in Requests, Submit(q)
  PROVE  Contract!Submit(q)
<1> DEFINE w == Owner[q.root]
<1>1. Call(q) /\ calls + 1 \in Task /\ state[calls + 1] = "new"
  BY SubmitStates, CallFacts
<1>2. CASE SubmitAfterShutdown(q) \/ SubmitOlder(q) \/ SubmitToFullQueue(q)
  BY <1>1, <1>2, RefuseImplements
  DEF SubmitAfterShutdown, SubmitOlder, SubmitToFullQueue
<1>3. CASE SubmitNewer(q)
  <2> DEFINE old == First(Analyses(q.root))
  <2>1. /\ old \in Task /\ state[old] = "queued" /\ task[old].priority = "background"
        /\ task[old].version <= q.version
    BY <1>3, NewerEffect DEF Queue, SubmitNewer, NotOlder
  <2>2. Contract!MayDisplace(q, old)
    BY <2>1, PhaseFacts DEF Contract!MayDisplace, Phases, IInv
  <2>3. /\ state' = [state EXCEPT ![old] = "superseded", ![calls + 1] = "queued"]
        /\ cancelled' = cancelled \cup {old} \cup Superseded(q)
    BY <1>3 DEF SubmitNewer, CancelledOnAdmission
  <2> HIDE DEF old
  <2> DEFINE gone == {old}
  <2>4. \A x \in Task : state'[x] = IF x = calls + 1 THEN "queued"
                                    ELSE IF x \in gone THEN "superseded" ELSE state[x]
    BY <1>1, <2>1, <2>3 DEF IInv, TypeOK
  <2>5. /\ gone \in SUBSET Task /\ \A x \in gone : Contract!MayDisplace(q, x)
        /\ cancelled' = cancelled \cup gone \cup Superseded(q)
    BY <2>1, <2>2, <2>3
  <2> HIDE DEF gone
  <2> QED
    BY <1>1, <2>4, <2>5, EnterImplements
<1>4. ASSUME NEW gone \in SUBSET Queue(w), Admit(q, gone),
             \A x \in gone : Contract!MayDisplace(q, x)
      PROVE  Contract!Submit(q)
  <2>1. gone \in SUBSET Task /\ calls + 1 \notin gone
    BY <1>1 DEF Queue
  <2>2. /\ \A x \in Task : state'[x] = IF x = calls + 1 THEN "queued"
                                       ELSE IF x \in gone THEN "evicted" ELSE state[x]
        /\ cancelled' = cancelled \cup gone \cup Superseded(q)
    BY <1>4 DEF Admit, CancelledOnAdmission
  <2> QED
    BY <1>1, <1>4, <2>1, <2>2, EnterImplements
<1>5. CASE SubmitWithRoom(q)
  BY <1>4, <1>5 DEF SubmitWithRoom
<1>6. CASE SubmitEvicting(q)
  <2> DEFINE old == First(Evictable(w))
  <2>1. /\ old \in Queue(w) /\ task[old].priority = "background"
    BY <1>6, EvictedIsQueued
  <2>2. Admit(q, {old}) /\ ~Coalesces(q)
    BY <1>6 DEF SubmitEvicting
  <2>3. q.priority = "background" => task[old].root # q.root
    BY <2>1, <2>2 DEF Coalesces, Analyses, With, Of
  <2>4. Contract!MayDisplace(q, old)
    BY <2>1, <2>3, PhaseFacts DEF Contract!MayDisplace, Phases, Queue, IInv
  <2> QED
    BY <1>4, <2>1, <2>2, <2>4
<1> QED
  BY <1>2, <1>3, <1>5, <1>6 DEF Submit

LEMMA StepImplements ==
  ASSUME IInv, IInv', OrderInv, HeldInv, [Next]_vars
  PROVE  [Contract!Next]_Contract!vars
<1> USE DEF queueVars, workerVars, shutdownVars, vars
<1>1. ASSUME NEW q \in Requests, Submit(q) PROVE Contract!Next
  BY <1>1, SubmitImplements DEF Contract!Next
<1>2. ASSUME NEW w \in Worker, Take(w) PROVE Contract!Next
  <2>1. First(Queue(w)) \in Contract!Task
    BY <1>2, TakeEffect DEF Queue, Task, Contract!Task
  <2> QED
    BY <1>2, <2>1, TakeImplements DEF Contract!Next
<1>3. ASSUME NEW w \in Worker, Skip(w) \/ Finish(w) PROVE Contract!Next
  <2>1. current[w] \in Contract!Task
    BY <1>3 DEF Skip, Finish, IInv, Structure, TakenTasks, Registered, Task, Contract!Task
  <2> QED
    BY <1>3, <2>1, EndImplements DEF Contract!Next
<1>4. CASE \/ \E r \in Root : CancelRoot(r)
           \/ \E t \in Task : CancelToken(t)
           \/ \E w \in Worker : DrainWorker(w)
  BY <1>4, CancelImplements DEF Contract!Next, Contract!Task, Task
<1>5. CASE \/ \E w \in Worker : Begin(w) \/ Settle(w) \/ Unregister(w) \/ Exit(w)
           \/ BeginShutdown \/ RequestStop \/ Join
           \/ UNCHANGED vars
  <2>1. UNCHANGED <<calls, task, state, cancelled>>
    BY <1>5 DEF Begin, Settle, Unregister, Exit, BeginShutdown, RequestStop, Join
  <2> QED
    BY <2>1, StutterImplements
<1> QED
  BY <1>1, <1>2, <1>3, <1>4, <1>5 DEF Next, WorkerStep, ShutdownStep

LEMMA ImplementationInvariant == Spec => [](IInv /\ OrderInv /\ HeldInv)
<1>1. Init => HeldInv
  BY InitHeld
<1>2. IInv /\ HeldInv /\ [Next]_vars => HeldInv'
  BY StepKeepsHeld
<1> QED
  BY <1>1, <1>2, OrderInvariant, PTL DEF Spec

\* The scheduler of scheduler.cpp implements WorkContract for every value of the
\* constants: no root's work overlaps, barriers and queries never overtake, an older
\* analysis never takes the place of a newer one, nothing is dropped silently.
THEOREM ContractKept == Spec => KeepsContract
<1>1. Init => Contract!Init
  BY InitImplements
<1>2. (IInv /\ OrderInv /\ HeldInv) /\ (IInv /\ OrderInv /\ HeldInv)' /\ [Next]_vars
        => [Contract!Next]_Contract!vars
  BY StepImplements
<1> QED
  BY <1>1, <1>2, ImplementationInvariant, PTL DEF Spec, KeepsContract, Contract!Spec

=============================================================================
