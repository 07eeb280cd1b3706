---------------------------- MODULE WorkContract ----------------------------
(***************************************************************************)
(* What the scheduler of src/src/analysis/scheduler.cpp promises to its    *)
(* callers, without queues, threads or capacities.  A submission waits,    *)
(* then runs once or is dropped with its token cancelled; the work of one  *)
(* root never overlaps; barriers and queries wait for what they follow.    *)
(***************************************************************************)
EXTENDS Integers

CONSTANTS Root, Requests, MaxTasks

Task == 1 .. MaxTasks

VARIABLES calls, task, phase, cancelled

vars == <<calls, task, phase, cancelled>>

\* Earlier work t has to wait for while it is pending.
Precedes(x, t) ==
  /\ x < t
  /\ task[x].root = task[t].root
  /\ \/ task[t].priority = "barrier"
     \/ task[t].priority = "interactive" /\ task[x].priority = "background"

\* An analysis takes the place of waiting ones of its root that are not newer.
MayDisplace(q, t) ==
  /\ phase[t] = "pending"
  /\ task[t].priority = "background"
  /\ q.priority = "background" /\ task[t].root = q.root => task[t].version <= q.version

\* One call is made; it may displace waiting background work, and cancel the
\* token of the work of its root that runs, or has just returned.
Submit(q) ==
  /\ calls < MaxTasks
  /\ calls' = calls + 1
  /\ task' = [task EXCEPT ![calls + 1] = q]
  /\ \E fate \in {"pending", "dropped"},
        displaced \in SUBSET {t \in Task : MayDisplace(q, t)} :
       /\ phase' = [t \in Task |-> IF t = calls + 1 THEN fate
                                   ELSE IF t \in displaced THEN "dropped"
                                   ELSE phase[t]]
       /\ fate = "dropped" => displaced = {}
       /\ \E running \in SUBSET {t \in Task : phase[t] \in {"running", "ended"}
                                  /\ task[t].root = q.root
                                  /\ q.priority = "background"
                                  /\ q.supersede} :
            /\ cancelled' = cancelled \cup displaced \cup running
                 \cup (IF fate = "dropped" THEN {calls + 1} ELSE {})
            /\ fate = "dropped" => running = {}

\* A task starts when nothing of its root runs and nothing it follows waits.
Start(t) ==
  /\ phase[t] = "pending"
  /\ \A x \in Task : /\ phase[x] = "running" => task[x].root # task[t].root
                     /\ phase[x] = "pending" => ~Precedes(x, t)
  /\ phase' = [phase EXCEPT ![t] = "running"]
  /\ UNCHANGED <<calls, task, cancelled>>

End(t) ==
  /\ phase[t] = "running"
  /\ phase' = [phase EXCEPT ![t] = "ended"]
  /\ UNCHANGED <<calls, task, cancelled>>

\* Tokens are cancelled; waiting work among them may be dropped.
Cancel(S) ==
  /\ \A t \in S : phase[t] # "new"
  /\ \E displaced \in SUBSET {t \in S : phase[t] = "pending"} :
       phase' = [t \in Task |-> IF t \in displaced THEN "dropped" ELSE phase[t]]
  /\ cancelled' = cancelled \cup S
  /\ UNCHANGED <<calls, task>>

Init ==
  /\ calls = 0
  /\ task = [t \in Task |-> CHOOSE q \in Requests : TRUE]
  /\ phase = [t \in Task |-> "new"]
  /\ cancelled = {}

Next ==
  \/ \E q \in Requests : Submit(q)
  \/ \E t \in Task : Start(t) \/ End(t)
  \/ \E S \in SUBSET Task : Cancel(S)

Spec == Init /\ [][Next]_vars

=============================================================================
