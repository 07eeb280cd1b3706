--------------------------- MODULE RequestServing ---------------------------
(***************************************************************************)
(* How requests are read, queued, run, cancelled and answered: run() and   *)
(* RequestExecutor of src/src/lsp/server.cpp, Server::handle, and the      *)
(* table of active requests of src/src/json_rpc/dispatcher.cpp.  The       *)
(* reader thread runs notifications and the lifecycle requests itself and  *)
(* hands every other request to a bounded executor.  Clients may reuse the *)
(* id of a request that is still active.  At the end run() waits for the   *)
(* analyses: Scheduler::wait_idle, which module IdleWait has in full.      *)
(***************************************************************************)
EXTENDS Integers, Sequences

CONSTANTS
  Id,            \* the request ids of the client
  Thread,        \* the executor threads
  QueueCapacity, \* request_queue_capacity
  MaxRequests    \* bound: how many requests the client sends

Request == 1 .. MaxRequests      \* named by the order they are read in
None == 0

ASSUME ExecutorLimits ==
  /\ Thread # {} /\ Id # {}
  /\ QueueCapacity \in Nat \ {0}
  /\ MaxRequests \in Nat

VARIABLES
  calls,      \* how many requests have been read
  id,         \* the id of each request read
  step,       \* how far each request is
  answer,     \* the response made for it
  active,     \* active_requests_: the request whose token an id names
  cancelled,  \* the requests whose token is cancelled
  queue,      \* the queue of the executor
  current,    \* the request each executor thread runs
  lifecycle,  \* Server::state_
  reader,     \* what the reader thread is at
  inline,     \* the lifecycle request the reader runs
  stopping,   \* RequestExecutor::stopping_
  exited,     \* the executor threads that have left their loop
  broken,     \* whether writing to the client fails
  analysis    \* whether outstanding_ of the scheduler of analyses is zero

vars == <<calls, id, step, answer, active, cancelled, queue, current,
          lifecycle, reader, inline, stopping, exited, broken, analysis>>

execution == <<queue, current, stopping, exited>>
\* The requests between begin_request and finish_request.
Unanswered == {"queued", "tested", "admitted", "running"}
Open == {r \in Request : step[r] \in Unanswered \cup {"answered"}}

Progress == Unanswered \cup {"unread", "answered", "finished", "written", "lost"}
Response == {"none", "cancelled", "refused", "unknown", "failed", "result"}
Waiting == {"testing idle", "parking", "parked", "overslept"}
ReaderPlace ==
  Waiting \cup {"reading", "initialize", "shutdown", "joining analysis",
               "answering", "leaving", "cancelled all", "failed", "returned"}

-----------------------------------------------------------------------------
(* The table of active requests.                                           *)

\* begin_request: the request that held the id is cancelled and replaced.
\* Fault: it is only replaced.
ForgottenByReuse(i) == {}
CancelledByReuse(i) == IF active[i] = None THEN {} ELSE {active[i]}

Begin(r, i) ==
  /\ calls' = r
  /\ id' = [id EXCEPT ![r] = i]
  /\ active' = [active EXCEPT ![i] = r]

\* finish_request erases the entry only while it holds the token of r.
\* Fault: nothing is erased.
NeverFinished(r) == active
Finished(r) == [active EXCEPT ![id[r]] = IF @ = r THEN None ELSE @]

Respond(r, response) ==
  /\ answer' = [answer EXCEPT ![r] = response]
  /\ step' = [step EXCEPT ![r] = "answered"]

\* What becomes of a response that is written: its thread records the failure.
Written == IF broken THEN "lost" ELSE "written"

-----------------------------------------------------------------------------
(* The reader thread: run().                                               *)

Reading == reader = "reading"
Unread == calls < MaxRequests

QueueRequest(i) ==
  /\ Reading /\ Unread
  /\ Len(queue) < QueueCapacity
  /\ Begin(calls + 1, i)
  /\ cancelled' = cancelled \cup CancelledByReuse(i)
  /\ step' = [step EXCEPT ![calls + 1] = "queued"]
  /\ queue' = Append(queue, calls + 1)
  /\ UNCHANGED <<answer, current, lifecycle, reader, inline, stopping, exited,
                 broken, analysis>>

\* A full queue: the request is cancelled, finished and answered in turn by
\* the reader, so that the id names no request afterwards.
RefuseRequest(i) ==
  /\ Reading /\ Unread
  /\ Len(queue) >= QueueCapacity
  /\ calls' = calls + 1
  /\ id' = [id EXCEPT ![calls + 1] = i]
  /\ active' = [active EXCEPT ![i] = None]
  /\ cancelled' = cancelled \cup CancelledByReuse(i) \cup {calls + 1}
  /\ answer' = [answer EXCEPT ![calls + 1] = "refused"]
  /\ step' = [step EXCEPT ![calls + 1] = Written]
  /\ reader' = IF broken THEN "failed" ELSE reader
  /\ UNCHANGED <<execution, lifecycle, inline, broken, analysis>>

\* initialize and shutdown run on the reader thread.
StartInline(i, method) ==
  /\ Reading /\ Unread
  /\ Begin(calls + 1, i)
  /\ cancelled' = cancelled \cup CancelledByReuse(i)
  /\ step' = [step EXCEPT ![calls + 1] = "running"]
  /\ inline' = calls + 1
  /\ reader' = method
  /\ UNCHANGED <<answer, execution, lifecycle, broken, analysis>>

Initialize ==
  /\ reader = "initialize"
  /\ \/ /\ lifecycle = "uninitialized"
        /\ lifecycle' = "awaiting"
        /\ Respond(inline, "result")
     \/ Respond(inline, "refused") /\ UNCHANGED lifecycle
  /\ reader' = "answering"
  /\ UNCHANGED <<calls, id, active, cancelled, execution, inline, broken, analysis>>

\* The analysis manager is shut down and joined between the two.
Shutdown ==
  /\ reader = "shutdown"
  /\ \/ /\ lifecycle = "running"
        /\ lifecycle' = "shutdown"
        /\ reader' = "joining analysis"
        /\ UNCHANGED <<answer, step>>
     \/ /\ Respond(inline, "refused")
        /\ reader' = "answering"
        /\ UNCHANGED lifecycle
  /\ UNCHANGED <<calls, id, active, cancelled, execution, inline, broken, analysis>>

FinishShutdown ==
  /\ reader = "joining analysis"
  /\ Respond(inline, "result")
  /\ reader' = "answering"
  /\ analysis' = "idle"
  /\ UNCHANGED <<calls, id, active, cancelled, execution, lifecycle, inline,
                 broken>>

AnswerInline ==
  /\ reader = "answering"
  /\ active' = Finished(inline)
  /\ step' = [step EXCEPT ![inline] = Written]
  /\ reader' = IF broken THEN "failed" ELSE "reading"
  /\ UNCHANGED <<calls, id, answer, cancelled, execution, lifecycle, inline,
                 broken, analysis>>

\* $/cancelRequest
ReadCancel(i) ==
  /\ Reading
  /\ active[i] # None
  /\ cancelled' = cancelled \cup {active[i]}
  /\ UNCHANGED <<calls, id, step, answer, active, execution, lifecycle, reader,
                 inline, broken, analysis>>

ReadInitialized ==
  /\ Reading
  /\ lifecycle = "awaiting"
  /\ lifecycle' = "running"
  /\ UNCHANGED <<calls, id, step, answer, active, cancelled, execution, reader,
                 inline, broken, analysis>>

\* exit, the end of the input, or a frame that does not parse.
ReadEnd ==
  /\ Reading
  /\ reader' \in {"leaving", "failed"}
  /\ UNCHANGED <<calls, id, step, answer, active, cancelled, execution,
                 lifecycle, inline, broken, analysis>>

\* cancel_all_requests.  Fault: a token that is not there is cancelled.
CancelledUnchecked == {active[i] : i \in Id}
CancelledAtEnd == {active[i] : i \in Id} \ {None}
CancelAll ==
  /\ reader = "leaving"
  /\ cancelled' = cancelled \cup CancelledAtEnd
  /\ reader' = "cancelled all"
  /\ UNCHANGED <<calls, id, step, answer, active, execution, lifecycle, inline,
                 broken, analysis>>

\* requests.shutdown(), also from its destructor when an exception unwinds.
\* Fault: only when no exception does.
StopsInOrder == {"cancelled all"}
Stops == {"cancelled all", "failed"}
StopExecutor ==
  /\ reader \in Stops
  /\ ~stopping
  /\ stopping' = TRUE
  /\ UNCHANGED <<calls, id, step, answer, active, cancelled, queue, current,
                 exited, lifecycle, reader, inline, broken, analysis>>

\* A failure, of the reader or of a thread that could not write, ends run()
\* without a wait: the destructor of the server joins the analyses.
JoinExecutor ==
  /\ stopping
  /\ reader \in Stops
  /\ exited = Thread
  /\ reader' = IF reader = "failed" \/ \E r \in Request : step[r] = "lost"
               THEN "returned" ELSE "testing idle"
  /\ UNCHANGED <<calls, id, step, answer, active, cancelled, execution,
                 lifecycle, inline, broken, analysis>>

\* wait_for_analysis(): the test of outstanding_, then the park.
TestIdle ==
  /\ reader = "testing idle"
  /\ reader' = IF analysis = "idle" THEN "returned" ELSE "parking"
  /\ UNCHANGED <<calls, id, step, answer, active, cancelled, execution,
                 lifecycle, inline, broken, analysis>>

\* A reader that parks after the last notification oversleeps it.
Park ==
  /\ reader = "parking"
  /\ reader' = IF analysis = "busy" THEN "parked" ELSE "overslept"
  /\ UNCHANGED <<calls, id, step, answer, active, cancelled, execution,
                 lifecycle, inline, broken, analysis>>

WakeSpuriously ==
  /\ reader \in {"parked", "overslept"}
  /\ reader' = "testing idle"
  /\ UNCHANGED <<calls, id, step, answer, active, cancelled, execution,
                 lifecycle, inline, broken, analysis>>

\* A notification that the reader runs, or a handler, submits work.
StartAnalysis ==
  /\ lifecycle = "running"
  /\ Reading \/ \E w \in Thread : current[w] # None /\ step[current[w]] = "running"
  /\ analysis' = "busy"
  /\ UNCHANGED <<calls, id, step, answer, active, cancelled, execution,
                 lifecycle, reader, inline, broken>>

Woken == IF reader = "parked" THEN "testing idle" ELSE reader
EndAnalysis ==
  /\ analysis = "busy"
  /\ analysis' = "idle"
  /\ reader' = Woken
  /\ UNCHANGED <<calls, id, step, answer, active, cancelled, execution,
                 lifecycle, inline, broken>>

\* The client closes its end of the output.
BreakOutput ==
  /\ ~broken
  /\ broken' = TRUE
  /\ UNCHANGED <<calls, id, step, answer, active, cancelled, execution,
                 lifecycle, reader, inline, analysis>>

-----------------------------------------------------------------------------
(* The executor threads: worker_loop, Server::handle, Dispatcher::dispatch.*)

Pop(w) ==
  /\ w \notin exited
  /\ current[w] = None
  /\ queue # <<>>
  /\ current' = [current EXCEPT ![w] = Head(queue)]
  /\ queue' = Tail(queue)
  /\ UNCHANGED <<calls, id, step, answer, active, cancelled, lifecycle, reader,
                 inline, stopping, exited, broken, analysis>>

\* Server::handle tests the token, then the state of the server; dispatch looks
\* for the handler, and tests the token again only if there is one.
TestToken(w) ==
  LET r == current[w] IN
  /\ r # None
  /\ step[r] = "queued"
  /\ IF r \in cancelled THEN Respond(r, "cancelled")
     ELSE step' = [step EXCEPT ![r] = "tested"] /\ UNCHANGED answer
  /\ UNCHANGED <<calls, id, active, cancelled, execution, lifecycle, reader,
                 inline, broken, analysis>>

TestState(w) ==
  LET r == current[w] IN
  /\ r # None
  /\ step[r] = "tested"
  /\ IF lifecycle # "running" THEN Respond(r, "refused")
     ELSE step' = [step EXCEPT ![r] = "admitted"] /\ UNCHANGED answer
  /\ UNCHANGED <<calls, id, active, cancelled, execution, lifecycle, reader,
                 inline, broken, analysis>>

\* Fault: the token is not tested again.
StartedUntested(r) == TRUE
MayStart(r) == r \notin cancelled
FindHandler(w) ==
  LET r == current[w] IN
  /\ r # None
  /\ step[r] = "admitted"
  /\ \/ Respond(r, "unknown")
     \/ ~MayStart(r) /\ Respond(r, "cancelled")
     \/ MayStart(r) /\ step' = [step EXCEPT ![r] = "running"] /\ UNCHANGED answer
  /\ UNCHANGED <<calls, id, active, cancelled, execution, lifecycle, reader,
                 inline, broken, analysis>>

\* The handler returns or throws; the token is tested again.  Fault: it is not.
UncheckedOutcome(r) == {"result", "failed"}
Outcome(r) == IF r \in cancelled THEN {"cancelled"} ELSE {"result", "failed"}
Return(w) ==
  LET r == current[w] IN
  /\ r # None
  /\ step[r] = "running"
  /\ \E response \in Outcome(r) : Respond(r, response)
  /\ UNCHANGED <<calls, id, active, cancelled, execution, lifecycle, reader,
                 inline, broken, analysis>>

Finish(w) ==
  LET r == current[w] IN
  /\ r # None
  /\ step[r] = "answered"
  /\ active' = Finished(r)
  /\ step' = [step EXCEPT ![r] = "finished"]
  /\ UNCHANGED <<calls, id, answer, cancelled, execution, lifecycle, reader,
                 inline, broken, analysis>>

Write(w) ==
  LET r == current[w] IN
  /\ r # None
  /\ step[r] = "finished"
  /\ step' = [step EXCEPT ![r] = Written]
  /\ current' = [current EXCEPT ![w] = None]
  /\ UNCHANGED <<calls, id, answer, active, cancelled, queue, lifecycle, reader,
                 inline, stopping, exited, broken, analysis>>

\* A thread leaves only once the queue is empty.  Fault: as soon as told.
LeavesAtOnce == stopping
MayLeave == stopping /\ queue = <<>>
Leave(w) ==
  /\ current[w] = None
  /\ w \notin exited
  /\ MayLeave
  /\ exited' = exited \cup {w}
  /\ UNCHANGED <<calls, id, step, answer, active, cancelled, queue, current,
                 lifecycle, reader, inline, stopping, broken, analysis>>

-----------------------------------------------------------------------------
Init ==
  /\ calls = 0
  /\ id = [r \in Request |-> CHOOSE i \in Id : TRUE]
  /\ step = [r \in Request |-> "unread"]
  /\ answer = [r \in Request |-> "none"]
  /\ active = [i \in Id |-> None]
  /\ cancelled = {}
  /\ queue = <<>>
  /\ current = [w \in Thread |-> None]
  /\ lifecycle = "uninitialized"
  /\ reader = "reading"
  /\ inline = None
  /\ stopping = FALSE
  /\ exited = {}
  /\ broken = FALSE
  /\ analysis = "idle"

HandleStep(w) == TestToken(w) \/ TestState(w) \/ FindHandler(w) \/ Return(w)
ThreadStep(w) == Pop(w) \/ HandleStep(w) \/ Finish(w) \/ Write(w) \/ Leave(w)
WaitIdle == TestIdle \/ Park
Closing == CancelAll \/ StopExecutor \/ JoinExecutor \/ WaitIdle
ReaderStep == Initialize \/ Shutdown \/ FinishShutdown \/ AnswerInline \/ Closing

Next ==
  \/ \E i \in Id : \/ QueueRequest(i) \/ RefuseRequest(i) \/ ReadCancel(i)
                   \/ \E m \in {"initialize", "shutdown"} : StartInline(i, m)
  \/ ReadInitialized \/ ReadEnd \/ BreakOutput
  \/ ReaderStep
  \/ StartAnalysis \/ EndAnalysis \/ WakeSpuriously
  \/ \E w \in Thread : ThreadStep(w)

Spec == Init /\ [][Next]_vars

\* Threads run, and handlers and analyses end: every wait in them is for a
\* worker process, whose requests have deadlines.  No spurious wakeup is owed.
FairSpec ==
  /\ Spec
  /\ WF_vars(ReaderStep) /\ WF_vars(EndAnalysis)
  /\ \A w \in Thread : WF_vars(ThreadStep(w))

-----------------------------------------------------------------------------
TypeOK ==
  /\ calls \in 0 .. MaxRequests
  /\ id \in [Request -> Id]
  /\ step \in [Request -> Progress]
  /\ answer \in [Request -> Response]
  /\ active \in [Id -> Request \cup {None}]
  /\ cancelled \subseteq Request
  /\ queue \in Seq(Request)
  /\ current \in [Thread -> Request \cup {None}]
  /\ lifecycle \in {"uninitialized", "awaiting", "running", "shutdown"}
  /\ reader \in ReaderPlace
  /\ inline \in Request \cup {None}
  /\ stopping \in BOOLEAN
  /\ exited \subseteq Thread
  /\ broken \in BOOLEAN
  /\ analysis \in {"idle", "busy"}

\* A request in progress can still be cancelled through its id, or has been:
\* reuse of an id, in any order of the two finishing, leaves no request that
\* neither $/cancelRequest nor cancel_all can reach.
ReachableOrCancelled ==
  \A r \in Open : active[id[r]] = r \/ r \in cancelled

\* The table names only requests in progress: an entry is never left behind,
\* to be cancelled or to grow the table for the life of the server.
NoStaleEntries == \A i \in Id : active[i] # None => active[i] \in Open /\ id[active[i]] = i

\* When run() returns, every request read has had its response written, or
\* the output had failed.
ReturnedMeansAnswered ==
  reader = "returned" =>
    \A r \in 1 .. calls : step[r] = "written" \/ (step[r] = "lost" /\ broken)

\* A request that is cancelled before its handler is started is never given to
\* it, and a handler that returns after the cancellation of its request is
\* answered with the cancellation, whatever it returned.  Past the first test
\* of the token, a request can still be refused for the state of the server or
\* for its method, which is said without another look at the token.
CancellationWins ==
  [][\A r \in cancelled :
       /\ step'[r] = "running" => step[r] = "running"
       /\ \/ answer'[r] \in {answer[r], "cancelled"}
          \/ step[r] = "tested" /\ answer'[r] = "refused"
          \/ step[r] = "admitted" /\ answer'[r] = "unknown"]_vars


\* What holds of requests in every state: they can be reached by a cancellation
\* while they are in progress and only then, and are answered before run() ends.
Safety == TypeOK /\ ReachableOrCancelled /\ NoStaleEntries /\ ReturnedMeansAnswered

=============================================================================
