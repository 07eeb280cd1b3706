---------------------------- MODULE WorkerProcess ----------------------------
(***************************************************************************)
(* One child process and its private protocol, as its parent sees it:      *)
(* WorkerProcess::Impl, RequestAbort and ChildProcess of                   *)
(* src/src/analysis/worker_process.cpp.  Requests are serialised by        *)
(* request_mutex_; each is armed with an abort that its token or its       *)
(* deadline may fire at any moment, and that kills the child from another  *)
(* thread.  The child may answer, answer wrongly, hang or die; what it     *)
(* wrote before it died can still be read.                                 *)
(***************************************************************************)
EXTENDS Integers, FiniteSets

CONSTANTS
  Caller,       \* the threads that make requests
  MaxRequests,  \* bound: how many requests they make
  MaxChildren   \* bound: how many children are launched

Request == 1 .. MaxRequests
Child == 1 .. MaxChildren
None == 0

ASSUME ProcessBounds ==
  /\ Caller # {} /\ {"none", "shutdown"} \cap Caller = {}
  /\ MaxRequests \in Nat \ {0}
  /\ MaxChildren \in Nat

VARIABLES
  calls,      \* how many requests have been made
  pc,         \* the step each caller is about to take
  request,    \* the request each caller makes
  using,      \* the child each request talks to
  cancelled,  \* the requests whose token is cancelled
  reason,     \* RequestAbort::reason_
  finished,   \* RequestAbort::finished_
  killing,    \* the aborts between setting reason_ and terminating the child
  outcome,    \* how each request ended
  holder,     \* who holds request_mutex_
  child,      \* child_
  launched,   \* how many children have been launched
  alive,      \* the children that run
  serving,    \* the request each child was sent last and has not answered
  reply,      \* the reply in the pipe of each child: the request it names
  closed,     \* the children whose pipes are closed
  stopping,   \* stopping_
  closing,    \* the step of shutdown()
  leaving     \* the child shutdown() has taken to let it leave

vars == <<calls, pc, request, using, cancelled, reason, finished, killing,
          outcome, holder, child, launched, alive, serving, reply, closed,
          stopping, closing, leaving>>
aborts == <<cancelled, reason, finished, killing>>
processes == <<child, launched, alive, serving, reply, closed>>
shutdownVars == <<stopping, closing, leaving>>

\* A reply names its request, and carries a result, an error or rubbish.
NoReply == [to |-> None, is |-> "none"]
Kinds == {"result", "error", "rubbish"}

-----------------------------------------------------------------------------
(* The child and its environment.                                          *)

Answer(k) ==
  /\ k \in alive
  /\ serving[k] # None
  /\ reply[k] = NoReply
  /\ \E kind \in Kinds : reply' = [reply EXCEPT ![k] = [to |-> serving[k], is |-> kind]]
  /\ serving' = [serving EXCEPT ![k] = None]
  /\ UNCHANGED <<calls, pc, request, using, aborts, outcome, holder, child,
                 launched, alive, closed, shutdownVars>>

Crash(k) ==
  /\ k \in alive
  /\ alive' = alive \ {k}
  /\ UNCHANGED <<calls, pc, request, using, aborts, outcome, holder, child,
                 launched, serving, reply, closed, shutdownVars>>

CancelToken(n) ==
  /\ n <= calls
  /\ outcome[n] = "none"
  /\ cancelled' = cancelled \cup {n}
  /\ UNCHANGED <<calls, pc, request, using, reason, finished, killing, outcome,
                 holder, processes, shutdownVars>>

-----------------------------------------------------------------------------
(* request()                                                               *)

Make(c) ==
  /\ pc[c] = "idle"
  /\ calls < MaxRequests
  /\ calls' = calls + 1
  /\ request' = [request EXCEPT ![c] = calls + 1]
  /\ pc' = [pc EXCEPT ![c] = "locking"]
  /\ UNCHANGED <<using, aborts, outcome, holder, processes, shutdownVars>>

\* The request of c ends and lets go of the mutex.
End(c, result) ==
  /\ outcome' = [outcome EXCEPT ![request[c]] = result]
  /\ pc' = [pc EXCEPT ![c] = "idle"]
  /\ holder' = IF holder = c THEN "none" ELSE holder

\* Before the child is touched: the deadline, the token and stopping_.
GiveUp(c) ==
  /\ pc[c] \in {"locking", "starting"}
  /\ \/ End(c, "timed_out")
     \/ request[c] \in cancelled /\ End(c, "cancelled")
     \/ stopping /\ End(c, "worker_exited")
  /\ UNCHANGED <<calls, request, using, aborts, processes, shutdownVars>>

Lock(c) ==
  /\ pc[c] = "locking"
  /\ holder = "none"
  /\ holder' = c
  /\ pc' = [pc EXCEPT ![c] = "starting"]
  /\ UNCHANGED <<calls, request, using, aborts, outcome, processes, shutdownVars>>

\* ensure_child tests stopping_ under the mutex shutdown() takes the child
\* under.  The deadline is tested once more when a launch has taken its time.
\* Fault: stopping_ is not tested.
MayLaunchAnyway == TRUE
MayLaunch == ~stopping
Ensure(c) ==
  /\ pc[c] = "starting"
  /\ request[c] \notin cancelled
  /\ MayLaunch
  /\ \/ /\ child # None
        /\ UNCHANGED <<child, launched, alive>>
     \/ /\ child = None
        /\ launched < MaxChildren
        /\ launched' = launched + 1
        /\ child' = launched + 1
        /\ alive' = alive \cup {launched + 1}
  /\ \/ /\ using' = [using EXCEPT ![request[c]] = child']
        /\ pc' = [pc EXCEPT ![c] = "sending"]
        /\ UNCHANGED <<outcome, holder>>
     \/ End(c, "timed_out") /\ UNCHANGED using
  /\ UNCHANGED <<calls, request, aborts, serving, reply, closed, shutdownVars>>

LaunchFails(c) ==
  /\ pc[c] = "starting"
  /\ child = None
  /\ End(c, "launch_failed")
  /\ UNCHANGED <<calls, request, using, aborts, processes, shutdownVars>>

-----------------------------------------------------------------------------
(* transact(): the request is armed from here until finish().              *)

Armed(n) == /\ using[n] # None
            /\ ~finished[n]

\* abort(): the first reason wins, unless the request has finished.  Fault:
\* finish() is not looked at.
UnlessAborted(n) == reason[n] = "none"
UnlessOver(n) == ~finished[n] /\ reason[n] = "none"

\* The deadline may pass at any time; the token fires once cancelled.  A
\* callback that outlives the request finds it finished.
Fire(n, why) ==
  /\ using[n] # None
  /\ UnlessOver(n)
  /\ why = "timed_out" => Armed(n)
  /\ why = "cancelled" => n \in cancelled
  /\ reason' = [reason EXCEPT ![n] = why]
  /\ killing' = killing \cup {n}
  /\ UNCHANGED <<calls, pc, request, using, cancelled, finished, outcome, holder,
                 processes, shutdownVars>>

\* terminate() is called outside the mutex of the abort.  Fault: the child is
\* asked to leave, not killed.
AbortAsks(n) == {}
AbortKills(n) == {using[n]}
Kill(n) ==
  /\ n \in killing
  /\ killing' = killing \ {n}
  /\ alive' = alive \ AbortKills(n)
  /\ UNCHANGED <<calls, pc, request, using, cancelled, reason, finished, outcome,
                 holder, child, launched, serving, reply, closed, shutdownVars>>

Send(c) ==
  LET n == request[c] IN
  /\ pc[c] = "sending"
  /\ using[n] \in alive
  /\ serving' = [serving EXCEPT ![using[n]] = n]
  /\ pc' = [pc EXCEPT ![c] = "reading"]
  /\ UNCHANGED <<calls, request, using, aborts, outcome, holder, child, launched,
                 alive, reply, closed, shutdownVars>>

\* transact() joins its timer before it returns; the callback of the token may
\* still be about to terminate the child.
TimerJoined(n) == n \in killing => reason[n] = "cancelled"

\* discard(): the child is forgotten, killed, and its pipes closed.  Faults: an
\* aborted request leaves the child to the next one; the child is not forgotten.
DiscardUnlessAborted(n) ==
  IF reason[n] # "none" THEN UNCHANGED <<child, alive, closed>>
  ELSE /\ child' = IF child = using[n] THEN None ELSE child
       /\ alive' = alive \ {using[n]}
       /\ closed' = closed \cup {using[n]}
DiscardRemembers(n) ==
  /\ alive' = alive \ {using[n]}
  /\ closed' = closed \cup {using[n]}
  /\ UNCHANGED child
Discard(n) ==
  /\ child' = IF child = using[n] THEN None ELSE child
  /\ alive' = alive \ {using[n]}
  /\ closed' = closed \cup {using[n]}

\* An error the child reports is an answer; rubbish, or the reply to another
\* request, is not.
Failed(n, r) == r.is = "rubbish" \/ r.to # n

\* A whole reply was read; finish() decides between it and an abort.
Receive(c) ==
  LET n == request[c]
      r == reply[using[n]]
  IN  /\ pc[c] = "reading"
      /\ r # NoReply
      /\ TimerJoined(n)
      /\ reply' = [reply EXCEPT ![using[n]] = NoReply]
      /\ finished' = [finished EXCEPT ![n] = TRUE]
      /\ IF reason[n] # "none"
         THEN Discard(n) /\ End(c, reason[n])
         ELSE IF Failed(n, r)
         THEN Discard(n) /\ End(c, IF r.to # n THEN "mismatched_reply"
                                   ELSE "malformed_reply")
         ELSE /\ End(c, IF r.is = "error" THEN "worker_error" ELSE "result")
              /\ UNCHANGED <<child, alive, closed>>
      /\ UNCHANGED <<calls, request, using, cancelled, reason, killing, launched,
                     serving, shutdownVars>>

\* The child is dead and has left no reply: writing or reading fails.
Lose(c) ==
  LET n == request[c] IN
  /\ pc[c] \in {"sending", "reading"}
  /\ using[n] \notin alive
  /\ pc[c] = "reading" => reply[using[n]] = NoReply
  /\ TimerJoined(n)
  /\ finished' = [finished EXCEPT ![n] = TRUE]
  /\ Discard(n)
  /\ End(c, IF reason[n] # "none" THEN reason[n] ELSE "worker_exited")
  /\ UNCHANGED <<calls, request, using, cancelled, reason, killing, launched,
                 serving, reply, shutdownVars>>

-----------------------------------------------------------------------------
(* reset() and shutdown().                                                 *)

\* reset() is called by the thread that makes the requests, between two.
Reset ==
  /\ \A c \in Caller : pc[c] = "idle"
  /\ child # None
  /\ child' = None
  /\ alive' = alive \ {child}
  /\ closed' = closed \cup {child}
  /\ UNCHANGED <<calls, pc, request, using, aborts, outcome, holder, launched,
                 serving, reply, shutdownVars>>

BeginShutdown ==
  /\ ~stopping
  /\ stopping' = TRUE
  /\ closing' = "stopping"
  /\ UNCHANGED <<calls, pc, request, using, aborts, outcome, holder, processes,
                 leaving>>

\* A request holds the mutex.
FindBusy ==
  /\ closing = "stopping"
  /\ holder # "none"
  /\ closing' = "interrupting"
  /\ UNCHANGED <<calls, pc, request, using, aborts, outcome, holder, processes,
                 stopping, leaving>>

\* Its child, if there still is one, is taken and killed; the pipes are left to
\* the request.  Faults: they are closed as well; without looking for a child.
ClosedByInterrupt == closed \cup ({child} \ {None})
ClosedUnchecked == closed \cup {child}
LeftByInterrupt == closed
Interrupt ==
  /\ closing = "interrupting"
  /\ child' = None
  /\ alive' = alive \ {child}
  /\ closed' = LeftByInterrupt
  /\ closing' = "closed"
  /\ UNCHANGED <<calls, pc, request, using, aborts, outcome, holder, launched,
                 serving, reply, stopping, leaving>>

\* No request does: the child is taken and asked to leave.
AskChild ==
  /\ closing = "stopping"
  /\ holder = "none"
  /\ holder' = "shutdown"
  /\ closing' = "asking"
  /\ leaving' = child
  /\ child' = None
  /\ UNCHANGED <<calls, pc, request, using, aborts, outcome, launched, alive,
                 serving, reply, closed, stopping>>

\* It is killed when shutdown_timeout has passed.  Fault: it is waited for.
OnceItLeft == leaving \notin alive
OnceAsked == TRUE
LeaveChild ==
  /\ closing = "asking"
  /\ OnceAsked
  /\ alive' = alive \ {leaving}
  /\ closed' = closed \cup ({leaving} \ {None})
  /\ leaving' = None
  /\ holder' = "none"
  /\ closing' = "closed"
  /\ UNCHANGED <<calls, pc, request, using, aborts, outcome, child, launched,
                 serving, reply, stopping>>

-----------------------------------------------------------------------------
Init ==
  /\ calls = 0
  /\ pc = [c \in Caller |-> "idle"]
  /\ request = [c \in Caller |-> None]
  /\ using = [n \in Request |-> None]
  /\ cancelled = {}
  /\ reason = [n \in Request |-> "none"]
  /\ finished = [n \in Request |-> FALSE]
  /\ killing = {}
  /\ outcome = [n \in Request |-> "none"]
  /\ holder = "none"
  /\ child = None
  /\ launched = 0
  /\ alive = {}
  /\ serving = [k \in Child |-> None]
  /\ reply = [k \in Child |-> NoReply]
  /\ closed = {}
  /\ stopping = FALSE
  /\ closing = "open"
  /\ leaving = None

CallerStep(c) ==
  \/ GiveUp(c) \/ Lock(c) \/ Ensure(c) \/ LaunchFails(c)
  \/ Send(c) \/ Receive(c) \/ Lose(c)
ShutdownStep == FindBusy \/ Interrupt \/ AskChild \/ LeaveChild

Next ==
  \/ \E c \in Caller : Make(c) \/ CallerStep(c)
  \/ \E n \in Request : \/ CancelToken(n) \/ Kill(n)
                        \/ \E why \in {"timed_out", "cancelled"} : Fire(n, why)
  \/ \E k \in Child : Answer(k) \/ Crash(k)
  \/ Reset \/ BeginShutdown \/ ShutdownStep

Spec == Init /\ [][Next]_vars

\* The deadline of every request passes; the child owes nothing.
FairSpec ==
  /\ Spec
  /\ \A c \in Caller : WF_vars(CallerStep(c))
  /\ \A n \in Request : WF_vars(Fire(n, "timed_out")) /\ WF_vars(Kill(n))
  /\ WF_vars(ShutdownStep)

-----------------------------------------------------------------------------
Outcome == {"none", "result", "worker_error", "timed_out", "cancelled",
            "worker_exited", "launch_failed", "mismatched_reply",
            "malformed_reply"}

TypeOK ==
  /\ calls \in 0 .. MaxRequests
  /\ pc \in [Caller -> {"idle", "locking", "starting", "sending", "reading"}]
  /\ request \in [Caller -> Request \cup {None}]
  /\ using \in [Request -> Child \cup {None}]
  /\ cancelled \subseteq Request
  /\ reason \in [Request -> {"none", "timed_out", "cancelled"}]
  /\ finished \in [Request -> BOOLEAN]
  /\ killing \subseteq Request
  /\ outcome \in [Request -> Outcome]
  /\ holder \in Caller \cup {"none", "shutdown"}
  /\ child \in Child \cup {None}
  /\ launched \in 0 .. MaxChildren
  /\ alive \subseteq Child
  /\ serving \in [Child -> Request \cup {None}]
  /\ reply \in [Child -> [to : Request, is : Kinds] \cup {NoReply}]
  /\ closed \subseteq Child
  /\ stopping \in BOOLEAN
  /\ closing \in {"open", "stopping", "interrupting", "asking", "closed"}
  /\ leaving \in Child \cup {None}

Transacting(c) == pc[c] \in {"sending", "reading"}

\* An abort kills only the child of its own request: however late it fires or
\* terminates, no other request is talking to that child.
AbortsSpareOthers ==
  \A n \in killing : \A c \in Caller :
    Transacting(c) /\ using[request[c]] = using[n] => request[c] = n

\* Every request starts with a child that owes nothing to an earlier one, whose
\* pipes are open and empty.
ChildStartsClean ==
  \A c \in Caller : pc[c] = "sending" =>
    LET k == using[request[c]] IN
      /\ k \notin closed
      /\ k \in alive => serving[k] = None /\ reply[k] = NoReply

\* The pipes of a child are closed only when no request reads or writes them.
PipesOpenInUse ==
  \A c \in Caller : Transacting(c) => using[request[c]] \notin closed

\* Once shutdown() has returned and the request it interrupted has ended, no
\* child is left running.
NoOrphan ==
  closing = "closed" /\ (\A c \in Caller : ~Transacting(c)) => alive = {}

\* A request that was aborted before it finished does not return a result, and
\* the child it was using is not used again.
AbortedChildrenAreLeft ==
  \A n \in Request : reason[n] # "none" =>
    /\ outcome[n] \in {"none", reason[n]}
    /\ outcome[n] # "none" => child # using[n]

\* Every request ends, whatever the child does; so does shutdown().
RequestsEnd == \A n \in Request : n <= calls ~> outcome[n] # "none"
ShutdownEnds == stopping ~> closing = "closed"

\* Requests do not touch each other through the child they share: not by an abort
\* that is late, by a reply that is left, or by a child that is used after it.
RequestsAreApart ==
  TypeOK /\ AbortsSpareOthers /\ ChildStartsClean /\ AbortedChildrenAreLeft

\* shutdown() beside a request neither closes the pipes it uses nor leaves a child.
ShutdownIsClean == PipesOpenInUse /\ NoOrphan

\* Every request ends, and shutdown() does.
AllEnds == RequestsEnd /\ ShutdownEnds

=============================================================================
