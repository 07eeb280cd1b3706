---------------------------- MODULE WorkerProofs ----------------------------
(***************************************************************************)
(* Proofs that the requests made of a worker process do not touch each     *)
(* other through the child they share, and that shutdown() neither closes  *)
(* pipes in use nor leaves a child running: for every number of calling    *)
(* threads, requests and children.                                         *)
(***************************************************************************)
EXTENDS WorkerProcess, TLAPS

\* request_mutex_ is held from the first look at the child to the end.
Mutex ==
  /\ \A c \in Caller : pc[c] \in {"starting", "sending", "reading"} => holder = c
  /\ holder = "shutdown" <=> closing = "asking"

\* The request of a caller is its own, and open.
Named ==
  \A c \in Caller : pc[c] # "idle" =>
    /\ request[c] \in Request /\ request[c] <= calls
    /\ outcome[request[c]] = "none" /\ ~finished[request[c]]
    /\ \A d \in Caller : d # c /\ pc[d] # "idle" => request[d] # request[c]
    /\ Transacting(c) <=> using[request[c]] # None

\* An abort fires during its request, whose child is closed when it ends.
AbortsAreTimely ==
  \A n \in Request :
    /\ n > calls => using[n] = None /\ outcome[n] = "none"
    /\ using[n] = None => reason[n] = "none" /\ ~finished[n]
    /\ n \in killing => reason[n] # "none"
    /\ using[n] # None /\ ~finished[n] => \E c \in Caller : Transacting(c) /\ request[c] = n
    /\ finished[n] /\ reason[n] # "none" => outcome[n] = reason[n] /\ using[n] \in closed

\* What runs is the current child or the one shutdown() waits for; children are
\* numbered in the order they are launched, and owe at most one thing.
Children ==
  /\ alive \subseteq {child, leaving}
  /\ child <= launched /\ leaving <= launched /\ child \notin closed
  /\ \A k \in closed : k <= launched
  /\ \A n \in Request : using[n] <= launched
  /\ \A k \in Child : k > launched => serving[k] = None /\ reply[k] = NoReply
  /\ \A k \in Child : serving[k] = None \/ reply[k] = NoReply

\* The child of a request is the current one, or was taken and killed.
Talking ==
  \A c \in Caller : Transacting(c) =>
    /\ child \in {None, using[request[c]]}
    /\ using[request[c]] \in alive => child = using[request[c]]
    /\ using[request[c]] \notin closed
    /\ pc[c] = "sending" => /\ serving[using[request[c]]] = None
                            /\ reply[using[request[c]]] = NoReply

\* Between requests the child owes nothing.
IdleIsClean ==
  child # None /\ (\A c \in Caller : ~Transacting(c))
    => serving[child] = None /\ reply[child] = NoReply

\* After shutdown() has taken the child there is none.
Closed ==
  /\ stopping <=> closing # "open"
  /\ closing \in {"asking", "closed"} => child = None
  /\ leaving # None => closing = "asking"

IInv ==
  /\ TypeOK
  /\ Mutex
  /\ Named
  /\ AbortsAreTimely
  /\ Children
  /\ Talking
  /\ IdleIsClean
  /\ Closed

-----------------------------------------------------------------------------
LEMMA InitWorker == Init => IInv
<1> SUFFICES ASSUME Init PROVE IInv
  OBVIOUS
<1>1. /\ 0 \in 0 .. MaxRequests /\ 0 \in 0 .. MaxChildren
      /\ \A n \in Request : n > 0
      /\ NoReply \in [to : Request, is : Kinds] \cup {NoReply}
  BY ProcessBounds DEF Request
<1>2. TypeOK
  BY <1>1 DEF Init, TypeOK, None, Outcome
<1>3. Mutex /\ Named /\ Closed
  BY DEF Init, Mutex, Named, Closed
<1>4. AbortsAreTimely
  BY <1>1 DEF Init, AbortsAreTimely
<1>5. Children
  BY DEF Init, Children, Child, None
<1>6. Talking /\ IdleIsClean
  BY DEF Init, Talking, IdleIsClean, Transacting
<1> QED
  BY <1>2, <1>3, <1>4, <1>5, <1>6 DEF IInv

\* Who holds the mutex is the only one to look at the child.
LEMMA HolderAlone ==
  ASSUME IInv, NEW c \in Caller, pc[c] \in {"starting", "sending", "reading"}
  PROVE  /\ holder = c /\ holder # "none" /\ holder # "shutdown"
         /\ closing # "asking" /\ leaving = None
         /\ request[c] \in Request /\ using[request[c]] \in Child \cup {None}
         /\ \A d \in Caller : pc[d] \in {"starting", "sending", "reading"} => d = c
         /\ \A d \in Caller : Transacting(d) => d = c
<1>1. holder = c /\ \A d \in Caller : pc[d] \in {"starting", "sending", "reading"} => d = c
  BY DEF IInv, Mutex
<1>2. c # "none" /\ c # "shutdown"
  BY ProcessBounds
<1>3. closing # "asking" /\ leaving = None
  BY <1>1, <1>2 DEF IInv, Mutex, Closed
<1>4. request[c] \in Request
  BY DEF IInv, Named
<1> QED
  BY <1>1, <1>2, <1>3, <1>4 DEF IInv, TypeOK, Transacting

\* The end of a request, whatever its outcome.
LEMMA EndFacts ==
  ASSUME IInv, NEW c \in Caller, NEW result \in Outcome,
         pc[c] # "idle", End(c, result),
         UNCHANGED <<calls, request, closing>>,
         \A n \in Request : n # request[c] => using'[n] = using[n] /\ finished'[n] = finished[n]
  PROVE  /\ Mutex' /\ Named'
         /\ outcome' \in [Request -> Outcome]
         /\ pc' \in [Caller -> {"idle", "locking", "starting", "sending", "reading"}]
         /\ holder' \in Caller \cup {"none", "shutdown"}
         /\ \A n \in Request : outcome'[n] = IF n = request[c] THEN result ELSE outcome[n]
         /\ \A d \in Caller : pc'[d] = IF d = c THEN "idle" ELSE pc[d]
         /\ \A d \in Caller : Transacting(d)' <=> Transacting(d) /\ d # c
<1>1. /\ outcome' = [outcome EXCEPT ![request[c]] = result]
      /\ pc' = [pc EXCEPT ![c] = "idle"]
      /\ holder' = IF holder = c THEN "none" ELSE holder
  BY DEF End
<1>2. request[c] \in Request
  BY DEF IInv, Named
<1>3. /\ \A n \in Request : outcome'[n] = IF n = request[c] THEN result ELSE outcome[n]
      /\ \A d \in Caller : pc'[d] = IF d = c THEN "idle" ELSE pc[d]
      /\ outcome' \in [Request -> Outcome]
      /\ pc' \in [Caller -> {"idle", "locking", "starting", "sending", "reading"}]
      /\ holder' \in Caller \cup {"none", "shutdown"}
  BY <1>1, <1>2 DEF IInv, TypeOK
<1>4. \A d \in Caller : Transacting(d)' <=> Transacting(d) /\ d # c
  BY <1>3 DEF Transacting
<1>5. Mutex'
  <2>1. \A d \in Caller : pc'[d] \in {"starting", "sending", "reading"} => holder' = d
    BY <1>1, <1>3 DEF IInv, Mutex
  <2>2. c # "none" /\ c # "shutdown" /\ "none" # "shutdown"
    BY ProcessBounds
  <2>3. holder' = "shutdown" <=> closing' = "asking"
    BY <1>1, <2>2 DEF IInv, Mutex
  <2> QED
    BY <2>1, <2>3 DEF Mutex
<1>6. Named'
  <2> SUFFICES ASSUME NEW d \in Caller, pc'[d] # "idle"
               PROVE  /\ request'[d] \in Request /\ request'[d] <= calls'
                      /\ outcome'[request'[d]] = "none" /\ ~finished'[request'[d]]
                      /\ \A e \in Caller : e # d /\ pc'[e] # "idle" => request'[e] # request'[d]
                      /\ Transacting(d)' <=> using'[request'[d]] # None
    BY DEF Named
  <2>1. d # c /\ pc[d] # "idle" /\ request'[d] = request[d]
    BY <1>3
  <2>2. request[d] # request[c] /\ request[d] \in Request
    BY <2>1 DEF IInv, Named
  <2>3. \A e \in Caller : e # d /\ pc'[e] # "idle" => request'[e] # request'[d]
    BY <1>3, <2>1 DEF IInv, Named
  <2> QED
    BY <1>3, <1>4, <2>1, <2>2, <2>3 DEF IInv, Named
<1> QED
  BY <1>3, <1>4, <1>5, <1>6

-----------------------------------------------------------------------------
\* Callers before the child is touched.

LEMMA MakeKeeps == ASSUME IInv, NEW c \in Caller, Make(c) PROVE IInv'
<1> DEFINE n == calls + 1
<1>1. /\ pc[c] = "idle" /\ calls < MaxRequests /\ calls' = n
      /\ request' = [request EXCEPT ![c] = n]
      /\ pc' = [pc EXCEPT ![c] = "locking"]
      /\ UNCHANGED <<using, cancelled, reason, finished, killing, outcome, holder, child,
                     launched, alive, serving, reply, closed, stopping, closing, leaving>>
  BY DEF Make, aborts, processes, shutdownVars
<1>2. calls \in 0 .. MaxRequests
  BY DEF IInv, TypeOK
<1>3. /\ n \in Request /\ n \in 0 .. MaxRequests /\ n > calls /\ n <= n
      /\ \A r \in Request : (r <= calls => r # n /\ r <= n) /\ (r > n => r > calls)
  BY <1>1, <1>2, ProcessBounds DEF Request
<1> HIDE DEF n
<1>4. /\ \A d \in Caller : pc'[d] = IF d = c THEN "locking" ELSE pc[d]
      /\ \A d \in Caller : request'[d] = IF d = c THEN n ELSE request[d]
  BY <1>1 DEF IInv, TypeOK
<1>5. TypeOK'
  BY <1>1, <1>3 DEF IInv, TypeOK
<1>6. Mutex'
  BY <1>1, <1>4 DEF IInv, Mutex
<1>7. \A d \in Caller : /\ Transacting(d)' <=> Transacting(d)
                        /\ Transacting(d) => request'[d] = request[d]
  BY <1>1, <1>4 DEF Transacting
<1>8. outcome[n] = "none" /\ ~finished[n] /\ using[n] = None
  BY <1>3 DEF IInv, AbortsAreTimely
<1>9. Named'
  <2> SUFFICES ASSUME NEW d \in Caller, pc'[d] # "idle"
               PROVE  /\ request'[d] \in Request /\ request'[d] <= calls'
                      /\ outcome'[request'[d]] = "none" /\ ~finished'[request'[d]]
                      /\ \A e \in Caller : e # d /\ pc'[e] # "idle" => request'[e] # request'[d]
                      /\ Transacting(d)' <=> using'[request'[d]] # None
    BY DEF Named
  <2>1. CASE d = c
    <3>1. ~Transacting(d)'
      BY <1>4, <2>1 DEF Transacting
    <3>2. \A e \in Caller : e # d /\ pc'[e] # "idle" => request'[e] # request'[d]
      BY <1>3, <1>4, <2>1 DEF IInv, Named
    <3> QED
      BY <1>1, <1>3, <1>4, <1>8, <2>1, <3>1, <3>2
  <2>2. CASE d # c
    <3>1. pc[d] # "idle" /\ request'[d] = request[d] /\ request[d] \in Request
          /\ request[d] <= calls
      BY <1>4, <2>2 DEF IInv, Named
    <3>2. \A e \in Caller : e # d /\ pc'[e] # "idle" => request'[e] # request'[d]
      BY <1>3, <1>4, <3>1 DEF IInv, Named
    <3> QED
      BY <1>1, <1>3, <1>7, <3>1, <3>2 DEF IInv, Named
  <2> QED
    BY <2>1, <2>2
<1>10. AbortsAreTimely'
  BY <1>1, <1>3, <1>7 DEF IInv, AbortsAreTimely
<1>11. Talking'
  BY <1>1, <1>4, <1>7 DEF IInv, Talking, Transacting
<1>12. Children' /\ Closed'
  BY <1>1 DEF IInv, Children, Closed
<1>13. IdleIsClean'
  BY <1>1, <1>7 DEF IInv, IdleIsClean
<1> QED
  BY <1>5, <1>6, <1>9, <1>10, <1>11, <1>12, <1>13 DEF IInv

\* A request that ends before it is sent leaves the child as it is.
LEMMA UnsentEnds ==
  ASSUME IInv, NEW c \in Caller, NEW result \in Outcome,
         pc[c] \in {"locking", "starting"}, End(c, result),
         UNCHANGED <<calls, request, using, cancelled, reason, finished, killing, child, launched,
                     alive, serving, reply, closed, stopping, closing, leaving>>
  PROVE  IInv'
<1>1. ~Transacting(c) /\ pc[c] # "idle"
  BY DEF Transacting
<1>2. /\ Mutex' /\ Named'
      /\ outcome' \in [Request -> Outcome]
      /\ pc' \in [Caller -> {"idle", "locking", "starting", "sending", "reading"}]
      /\ holder' \in Caller \cup {"none", "shutdown"}
      /\ \A n \in Request : outcome'[n] = IF n = request[c] THEN result ELSE outcome[n]
      /\ \A d \in Caller : pc'[d] = IF d = c THEN "idle" ELSE pc[d]
      /\ \A d \in Caller : Transacting(d)' <=> Transacting(d) /\ d # c
  BY <1>1, EndFacts
<1>3. \A d \in Caller : Transacting(d)' <=> Transacting(d)
  BY <1>1, <1>2
<1>4. /\ request[c] \in Request /\ ~(request[c] > calls) /\ using[request[c]] = None
      /\ ~finished[request[c]]
  <2>1. /\ request[c] \in Request /\ request[c] <= calls /\ using[request[c]] = None
        /\ ~finished[request[c]]
    BY <1>1 DEF IInv, Named
  <2>2. calls \in Nat /\ request[c] \in Nat
    BY <2>1, ProcessBounds DEF IInv, TypeOK, Request
  <2> QED
    BY <2>1, <2>2
<1>5. TypeOK'
  BY <1>2 DEF IInv, TypeOK
<1>6. AbortsAreTimely'
  BY <1>2, <1>3, <1>4 DEF IInv, AbortsAreTimely
<1>7. Talking'
  BY <1>2, <1>3 DEF IInv, Talking, Transacting
<1>8. Children' /\ Closed'
  BY DEF IInv, Children, Closed
<1>9. IdleIsClean'
  BY <1>3 DEF IInv, IdleIsClean
<1> QED
  BY <1>2, <1>5, <1>6, <1>7, <1>8, <1>9 DEF IInv

LEMMA GiveUpKeeps == ASSUME IInv, NEW c \in Caller, GiveUp(c) \/ LaunchFails(c) PROVE IInv'
<1>1. /\ pc[c] \in {"locking", "starting"}
      /\ \E result \in Outcome : End(c, result)
      /\ UNCHANGED <<calls, request, using, cancelled, reason, finished, killing, child, launched,
                     alive, serving, reply, closed, stopping, closing, leaving>>
  BY DEF GiveUp, LaunchFails, Outcome, aborts, processes, shutdownVars
<1> QED
  BY <1>1, UnsentEnds

LEMMA LockKeeps == ASSUME IInv, NEW c \in Caller, Lock(c) PROVE IInv'
<1>1. /\ pc[c] = "locking" /\ holder = "none" /\ holder' = c
      /\ pc' = [pc EXCEPT ![c] = "starting"]
      /\ UNCHANGED <<calls, request, using, cancelled, reason, finished, killing, outcome, child,
                     launched, alive, serving, reply, closed, stopping, closing, leaving>>
  BY DEF Lock, aborts, processes, shutdownVars
<1>2. \A d \in Caller : pc'[d] = IF d = c THEN "starting" ELSE pc[d]
  BY <1>1 DEF IInv, TypeOK
<1>3. c # "none" /\ c # "shutdown" /\ \A d \in Caller : d # "none"
  BY ProcessBounds
<1>4. \A d \in Caller : Transacting(d)' <=> Transacting(d)
  BY <1>1, <1>2 DEF Transacting
<1>5. TypeOK'
  BY <1>1 DEF IInv, TypeOK
<1>6. Mutex'
  BY <1>1, <1>2, <1>3 DEF IInv, Mutex
<1>7. Named'
  BY <1>1, <1>2, <1>4 DEF IInv, Named
<1>8. AbortsAreTimely'
  BY <1>1, <1>4 DEF IInv, AbortsAreTimely
<1>9. Talking'
  BY <1>1, <1>2, <1>4 DEF IInv, Talking, Transacting
<1>10. Children' /\ Closed'
  BY <1>1 DEF IInv, Children, Closed
<1>11. IdleIsClean'
  BY <1>1, <1>4 DEF IInv, IdleIsClean
<1> QED
  BY <1>5, <1>6, <1>7, <1>8, <1>9, <1>10, <1>11 DEF IInv

-----------------------------------------------------------------------------
\* The child, the tokens and the aborts.

\* The callers stay where they are.
LEMMA CallersStay ==
  ASSUME IInv, UNCHANGED <<calls, pc, request, using, finished, outcome>>
  PROVE  /\ Named'
         /\ \A d \in Caller : Transacting(d)' <=> Transacting(d)
<1>1. \A d \in Caller : Transacting(d)' <=> Transacting(d)
  BY DEF Transacting
<1> QED
  BY <1>1 DEF IInv, Named

LEMMA AnswerKeeps == ASSUME IInv, NEW k \in Child, Answer(k) PROVE IInv'
<1>1. /\ k \in alive /\ serving[k] # None /\ reply[k] = NoReply
      /\ serving' = [serving EXCEPT ![k] = None]
      /\ UNCHANGED <<calls, pc, request, using, cancelled, reason, finished, killing, outcome,
                     holder, child, launched, alive, closed, stopping, closing, leaving>>
  BY DEF Answer, aborts, shutdownVars
<1>2. PICK kind \in Kinds : reply' = [reply EXCEPT ![k] = [to |-> serving[k], is |-> kind]]
  BY DEF Answer
<1>3. /\ \A j \in Child : serving'[j] = IF j = k THEN None ELSE serving[j]
      /\ \A j \in Child : j # k => reply'[j] = reply[j]
      /\ serving[k] \in Request
  BY <1>1, <1>2 DEF IInv, TypeOK
<1>4. Named' /\ \A d \in Caller : Transacting(d)' <=> Transacting(d)
  BY <1>1, CallersStay
<1>5. TypeOK'
  <2>1. reply' \in [Child -> [to : Request, is : Kinds] \cup {NoReply}]
    BY <1>2, <1>3 DEF IInv, TypeOK
  <2>2. serving' \in [Child -> Request \cup {None}]
    BY <1>1 DEF IInv, TypeOK
  <2> QED
    BY <1>1, <2>1, <2>2 DEF IInv, TypeOK
<1>6. Mutex' /\ Closed'
  BY <1>1 DEF IInv, Mutex, Closed
<1>7. AbortsAreTimely'
  BY <1>1, <1>4 DEF IInv, AbortsAreTimely
<1>8. Children'
  <2>1. ~(k > launched)
    BY <1>1 DEF IInv, Children
  <2> QED
    BY <1>1, <1>3, <2>1 DEF IInv, Children
<1>9. Talking'
  <2> SUFFICES ASSUME NEW d \in Caller, Transacting(d)'
               PROVE  /\ child' \in {None, using'[request'[d]]}
                      /\ using'[request'[d]] \in alive' => child' = using'[request'[d]]
                      /\ using'[request'[d]] \notin closed'
                      /\ pc'[d] = "sending" => /\ serving'[using'[request'[d]]] = None
                                               /\ reply'[using'[request'[d]]] = NoReply
    BY DEF Talking
  <2>1. Transacting(d) /\ pc[d] # "idle"
    BY <1>4 DEF Transacting
  <2>2. using[request[d]] \in Child
    BY <2>1 DEF IInv, TypeOK, Named
  <2>3. pc[d] = "sending" => using[request[d]] # k
    BY <1>1, <2>1 DEF IInv, Talking
  <2> QED
    BY <1>1, <1>3, <2>1, <2>2, <2>3 DEF IInv, Talking
<1>10. IdleIsClean'
  <2> SUFFICES ASSUME child # None, \A c \in Caller : ~Transacting(c)
               PROVE  serving'[child] = None /\ reply'[child] = NoReply
    BY <1>1, <1>4 DEF IdleIsClean
  <2>1. child \in Child /\ serving[child] = None /\ reply[child] = NoReply
    BY DEF IInv, TypeOK, IdleIsClean
  <2> QED
    BY <1>1, <1>3, <2>1
<1> QED
  BY <1>4, <1>5, <1>6, <1>7, <1>8, <1>9, <1>10 DEF IInv

\* A child dies, by itself or killed by an abort.
LEMMA DeathKeeps ==
  ASSUME IInv, alive' \subseteq alive,
         killing' \subseteq killing,
         UNCHANGED <<calls, pc, request, using, cancelled, reason, finished, outcome, holder, child,
                     launched, serving, reply, closed, stopping, closing, leaving>>
  PROVE  IInv'
<1>1. Named' /\ \A d \in Caller : Transacting(d)' <=> Transacting(d)
  BY CallersStay
<1>2. TypeOK'
  BY DEF IInv, TypeOK
<1>3. Mutex' /\ Closed' /\ Children'
  BY DEF IInv, Mutex, Closed, Children
<1>4. AbortsAreTimely'
  BY <1>1 DEF IInv, AbortsAreTimely
<1>5. Talking'
  BY <1>1 DEF IInv, Talking
<1>6. IdleIsClean'
  BY <1>1 DEF IInv, IdleIsClean
<1> QED
  BY <1>1, <1>2, <1>3, <1>4, <1>5, <1>6 DEF IInv

LEMMA CrashKeeps == ASSUME IInv, NEW k \in Child, Crash(k) PROVE IInv'
BY DeathKeeps DEF Crash, aborts, shutdownVars

LEMMA KillKeeps == ASSUME IInv, NEW n \in Request, Kill(n) PROVE IInv'
BY DeathKeeps DEF Kill, shutdownVars

\* A token is cancelled, or an abort sets its reason.
LEMMA FireKeeps ==
  ASSUME IInv, NEW n \in Request,
         CancelToken(n) \/ \E why \in {"timed_out", "cancelled"} : Fire(n, why)
  PROVE  IInv'
<1>1. /\ UNCHANGED <<calls, pc, request, using, finished, outcome, holder, child,
                     launched, alive, serving, reply, closed, stopping, closing, leaving>>
      /\ cancelled' \subseteq Request
      /\ \/ UNCHANGED <<reason, killing>>
         \/ /\ using[n] # None /\ ~finished[n] /\ killing' = killing \cup {n}
            /\ \E why \in {"timed_out", "cancelled"} : reason' = [reason EXCEPT ![n] = why]
  BY DEF CancelToken, Fire, UnlessOver, processes, shutdownVars, IInv, TypeOK
<1>2. Named' /\ \A d \in Caller : Transacting(d)' <=> Transacting(d)
  BY <1>1, CallersStay
<1>3. /\ \A m \in Request : m # n => /\ reason'[m] = reason[m]
                                     /\ m \in killing' <=> m \in killing
      /\ \/ reason'[n] = reason[n] /\ (n \in killing' <=> n \in killing)
         \/ using[n] # None /\ ~finished[n] /\ reason'[n] # "none"
      /\ reason' \in [Request -> {"none", "timed_out", "cancelled"}]
      /\ killing' \subseteq Request
  BY <1>1 DEF IInv, TypeOK
<1>4. TypeOK'
  BY <1>1, <1>3 DEF IInv, TypeOK
<1>5. Mutex' /\ Closed' /\ Children'
  BY <1>1 DEF IInv, Mutex, Closed, Children
<1>6. AbortsAreTimely'
  <2> SUFFICES ASSUME NEW m \in Request
               PROVE  /\ m > calls' => using'[m] = None /\ outcome'[m] = "none"
                      /\ using'[m] = None => reason'[m] = "none" /\ ~finished'[m]
                      /\ m \in killing' => reason'[m] # "none"
                      /\ using'[m] # None /\ ~finished'[m]
                           => \E c \in Caller : Transacting(c)' /\ request'[c] = m
                      /\ finished'[m] /\ reason'[m] # "none"
                           => outcome'[m] = reason'[m] /\ using'[m] \in closed'
    BY DEF AbortsAreTimely
  <2>1. /\ m > calls' => using'[m] = None /\ outcome'[m] = "none"
        /\ using'[m] # None /\ ~finished'[m]
             => \E c \in Caller : Transacting(c)' /\ request'[c] = m
    BY <1>1, <1>2 DEF IInv, AbortsAreTimely
  <2>2. /\ using'[m] = None => reason'[m] = "none" /\ ~finished'[m]
        /\ m \in killing' => reason'[m] # "none"
        /\ finished'[m] /\ reason'[m] # "none"
             => outcome'[m] = reason'[m] /\ using'[m] \in closed'
    BY <1>1, <1>3 DEF IInv, AbortsAreTimely
  <2> QED
    BY <2>1, <2>2
<1>7. Talking'
  BY <1>1, <1>2 DEF IInv, Talking
<1>8. IdleIsClean'
  BY <1>1, <1>2 DEF IInv, IdleIsClean
<1> QED
  BY <1>2, <1>4, <1>5, <1>6, <1>7, <1>8 DEF IInv

-----------------------------------------------------------------------------
\* reset() and shutdown().

LEMMA NoneIsNoChild == None \notin Child /\ \A k \in Child : k # None
BY DEF None, Child

LEMMA ResetKeeps == ASSUME IInv, Reset PROVE IInv'
<1>1. /\ \A c \in Caller : pc[c] = "idle"
      /\ child # None /\ child' = None
      /\ alive' = alive \ {child} /\ closed' = closed \cup {child}
      /\ UNCHANGED <<calls, pc, request, using, cancelled, reason, finished, killing, outcome,
                     holder, launched, serving, reply, stopping, closing, leaving>>
  BY DEF Reset, aborts, shutdownVars
<1>2. \A c \in Caller : ~Transacting(c) /\ ~Transacting(c)'
  BY <1>1 DEF Transacting
<1>3. Named'
  BY <1>1, CallersStay
<1>4. child \in Child
  BY <1>1 DEF IInv, TypeOK
<1>5. TypeOK'
  BY <1>1, <1>4 DEF IInv, TypeOK
<1>6. Mutex' /\ Closed'
  BY <1>1 DEF IInv, Mutex, Closed
<1>7. AbortsAreTimely'
  BY <1>1, <1>2 DEF IInv, AbortsAreTimely
<1>8. Children'
  <2>1. None \notin closed' /\ None <= launched
    BY <1>1, <1>5, NoneIsNoChild, ProcessBounds DEF IInv, TypeOK, None
  <2> QED
    BY <1>1, <2>1 DEF IInv, Children
<1>9. Talking' /\ IdleIsClean'
  BY <1>1, <1>2 DEF Talking, IdleIsClean
<1> QED
  BY <1>3, <1>5, <1>6, <1>7, <1>8, <1>9 DEF IInv

LEMMA TellKeeps == ASSUME IInv, BeginShutdown \/ FindBusy PROVE IInv'
<1>1. /\ UNCHANGED <<calls, pc, request, using, cancelled, reason, finished, killing, outcome,
                     holder, child, launched, alive, serving, reply, closed, leaving>>
      /\ stopping' = TRUE /\ closing \in {"open", "stopping"}
      /\ closing' \in {"stopping", "interrupting"}
  BY DEF BeginShutdown, FindBusy, aborts, processes, IInv, Closed, TypeOK
<1>2. Named' /\ \A d \in Caller : Transacting(d)' <=> Transacting(d)
  BY <1>1, CallersStay
<1>3. TypeOK' /\ Children'
  BY <1>1 DEF IInv, TypeOK, Children
<1>4. Mutex' /\ Closed'
  BY <1>1 DEF IInv, Mutex, Closed
<1>5. AbortsAreTimely'
  BY <1>1, <1>2 DEF IInv, AbortsAreTimely
<1>6. Talking'
  BY <1>1, <1>2 DEF IInv, Talking
<1>7. IdleIsClean'
  BY <1>1, <1>2 DEF IInv, IdleIsClean
<1> QED
  BY <1>2, <1>3, <1>4, <1>5, <1>6, <1>7 DEF IInv

LEMMA InterruptKeeps == ASSUME IInv, Interrupt PROVE IInv'
<1>1. /\ closing = "interrupting" /\ closing' = "closed"
      /\ child' = None /\ alive' = alive \ {child} /\ closed' = closed
      /\ UNCHANGED <<calls, pc, request, using, cancelled, reason, finished, killing, outcome,
                     holder, launched, serving, reply, stopping, leaving>>
  BY DEF Interrupt, LeftByInterrupt, aborts
<1>2. Named' /\ \A d \in Caller : Transacting(d)' <=> Transacting(d)
  BY <1>1, CallersStay
<1>3. TypeOK'
  BY <1>1 DEF IInv, TypeOK
<1>4. Mutex' /\ Closed'
  BY <1>1 DEF IInv, Mutex, Closed
<1>5. AbortsAreTimely'
  BY <1>1, <1>2 DEF IInv, AbortsAreTimely
<1>6. Children'
  <2>1. None \notin closed' /\ None <= launched
    BY <1>3, NoneIsNoChild, ProcessBounds DEF IInv, TypeOK, None
  <2> QED
    BY <1>1, <2>1 DEF IInv, Children
<1>7. Talking'
  <2> SUFFICES ASSUME NEW d \in Caller, Transacting(d)
               PROVE  /\ using[request[d]] \notin alive'
                      /\ using[request[d]] \notin closed
                      /\ pc[d] = "sending" => /\ serving[using[request[d]]] = None
                                              /\ reply[using[request[d]]] = NoReply
    BY <1>1, <1>2 DEF Talking
  <2> QED
    BY <1>1 DEF IInv, Talking
<1>8. IdleIsClean'
  BY <1>1 DEF IdleIsClean
<1> QED
  BY <1>2, <1>3, <1>4, <1>5, <1>6, <1>7, <1>8 DEF IInv

LEMMA AskChildKeeps == ASSUME IInv, AskChild PROVE IInv'
<1>1. /\ closing = "stopping" /\ closing' = "asking"
      /\ holder = "none" /\ holder' = "shutdown"
      /\ leaving' = child /\ child' = None
      /\ UNCHANGED <<calls, pc, request, using, cancelled, reason, finished, killing, outcome,
                     launched, alive, serving, reply, closed, stopping>>
  BY DEF AskChild, aborts
<1>2. \A c \in Caller : pc[c] \notin {"starting", "sending", "reading"}
  BY <1>1, ProcessBounds DEF IInv, Mutex
<1>3. \A c \in Caller : ~Transacting(c) /\ ~Transacting(c)'
  BY <1>1, <1>2 DEF Transacting
<1>4. Named'
  BY <1>1, CallersStay
<1>5. TypeOK'
  BY <1>1 DEF IInv, TypeOK
<1>6. Mutex'
  BY <1>1, <1>2 DEF Mutex
<1>7. Closed' /\ leaving = None
  BY <1>1 DEF IInv, Closed
<1>8. AbortsAreTimely'
  BY <1>1, <1>3 DEF IInv, AbortsAreTimely
<1>9. Children'
  <2>1. None \notin closed' /\ None <= launched /\ None \notin alive
    BY <1>5, <1>1, NoneIsNoChild, ProcessBounds DEF IInv, TypeOK, None
  <2>2. alive' \subseteq {child', leaving'}
    BY <1>1, <1>7, <2>1 DEF IInv, Children
  <2> QED
    BY <1>1, <2>1, <2>2 DEF IInv, Children
<1>10. Talking' /\ IdleIsClean'
  BY <1>1, <1>3 DEF Talking, IdleIsClean
<1> QED
  BY <1>4, <1>5, <1>6, <1>7, <1>8, <1>9, <1>10 DEF IInv

LEMMA LeaveChildKeeps == ASSUME IInv, LeaveChild PROVE IInv'
<1>1. /\ closing = "asking" /\ closing' = "closed"
      /\ alive' = alive \ {leaving} /\ closed' = closed \cup ({leaving} \ {None})
      /\ leaving' = None /\ holder' = "none"
      /\ UNCHANGED <<calls, pc, request, using, cancelled, reason, finished, killing, outcome,
                     child, launched, serving, reply, stopping>>
  BY DEF LeaveChild, aborts
<1>2. holder = "shutdown" /\ child = None
  BY <1>1 DEF IInv, Mutex, Closed
<1>3. \A c \in Caller : pc[c] \notin {"starting", "sending", "reading"}
  BY <1>2, ProcessBounds DEF IInv, Mutex
<1>4. \A c \in Caller : ~Transacting(c) /\ ~Transacting(c)'
  BY <1>1, <1>3 DEF Transacting
<1>5. Named'
  BY <1>1, CallersStay
<1>6. TypeOK'
  BY <1>1 DEF IInv, TypeOK
<1>7. Mutex'
  BY <1>1, <1>3 DEF Mutex
<1>8. Closed'
  BY <1>1, <1>2 DEF IInv, Closed
<1>9. AbortsAreTimely'
  BY <1>1, <1>4 DEF IInv, AbortsAreTimely
<1>10. Children'
  <2>1. None \notin closed' /\ None <= launched
    BY <1>6, <1>1, NoneIsNoChild, ProcessBounds DEF IInv, TypeOK, None
  <2> QED
    BY <1>1, <1>2, <2>1 DEF IInv, Children
<1>11. Talking' /\ IdleIsClean'
  BY <1>1, <1>2, <1>4 DEF Talking, IdleIsClean
<1> QED
  BY <1>5, <1>6, <1>7, <1>8, <1>9, <1>10, <1>11 DEF IInv

-----------------------------------------------------------------------------
\* Callers that talk to the child.

LEMMA SendKeeps == ASSUME IInv, NEW c \in Caller, Send(c) PROVE IInv'
<1> DEFINE n == request[c]
           k == using[n]
<1>1. /\ pc[c] = "sending" /\ k \in alive
      /\ serving' = [serving EXCEPT ![k] = n]
      /\ pc' = [pc EXCEPT ![c] = "reading"]
      /\ UNCHANGED <<calls, request, using, cancelled, reason, finished, killing, outcome, holder,
                     child, launched, alive, reply, closed, stopping, closing, leaving>>
  BY DEF Send, aborts, shutdownVars
<1>2. /\ holder = c /\ n \in Request
      /\ \A d \in Caller : Transacting(d) => d = c
  BY <1>1, HolderAlone
<1>3. Transacting(c) /\ k \in Child
  BY <1>1 DEF Transacting, IInv, TypeOK
<1>4. reply[k] = NoReply /\ child = k /\ k \notin closed
  BY <1>1, <1>3 DEF IInv, Talking
<1>5. k <= launched
  BY <1>2 DEF IInv, Children
<1>6. /\ \A d \in Caller : pc'[d] = IF d = c THEN "reading" ELSE pc[d]
      /\ \A j \in Child : serving'[j] = IF j = k THEN n ELSE serving[j]
  BY <1>1, <1>3 DEF IInv, TypeOK
<1>7. \A d \in Caller : Transacting(d)' <=> Transacting(d)
  BY <1>1, <1>6 DEF Transacting
<1>8. TypeOK'
  BY <1>1, <1>2 DEF IInv, TypeOK
<1>9. Mutex' /\ Closed'
  BY <1>1, <1>6 DEF IInv, Mutex, Closed
<1>10. Named'
  BY <1>1, <1>6, <1>7 DEF IInv, Named
<1>11. AbortsAreTimely'
  BY <1>1, <1>7 DEF IInv, AbortsAreTimely
<1>12. Children'
  <2>1. ~(k > launched)
    BY <1>3, <1>5, ProcessBounds DEF IInv, TypeOK, Child
  <2>2. \A j \in Child : j > launched => serving'[j] = None /\ reply'[j] = NoReply
    BY <1>1, <1>6, <2>1 DEF IInv, Children
  <2>3. \A j \in Child : serving'[j] = None \/ reply'[j] = NoReply
    BY <1>1, <1>4, <1>6 DEF IInv, Children
  <2> QED
    BY <1>1, <2>2, <2>3 DEF IInv, Children
<1>13. Talking'
  <2> SUFFICES ASSUME NEW d \in Caller, Transacting(d)'
               PROVE  /\ child' \in {None, using'[request'[d]]}
                      /\ using'[request'[d]] \in alive' => child' = using'[request'[d]]
                      /\ using'[request'[d]] \notin closed'
                      /\ pc'[d] # "sending"
    BY DEF Talking
  <2>1. d = c
    BY <1>2, <1>7
  <2> QED
    BY <1>1, <1>4, <1>6, <2>1
<1>14. IdleIsClean'
  BY <1>3, <1>7 DEF IdleIsClean
<1> QED
  BY <1>8, <1>9, <1>10, <1>11, <1>12, <1>13, <1>14 DEF IInv

\* The child a request is given is clean, whether it was there or is launched.
LEMMA GivenChild ==
  ASSUME IInv, NEW c \in Caller, Ensure(c)
  PROVE  /\ child' \in Child /\ child' \notin closed
         /\ serving[child'] = None /\ reply[child'] = NoReply
         /\ launched' \in 0 .. MaxChildren /\ launched' >= launched /\ child' <= launched'
         /\ alive' \subseteq {child'}
         /\ leaving = None /\ closing = "open"
         /\ \A d \in Caller : ~Transacting(d)
<1>1. /\ pc[c] = "starting" /\ ~stopping
      /\ \/ child # None /\ UNCHANGED <<child, launched, alive>>
         \/ /\ child = None /\ launched < MaxChildren
            /\ launched' = launched + 1 /\ child' = launched + 1
            /\ alive' = alive \cup {launched + 1}
  BY DEF Ensure, MayLaunch
<1>2. \A d \in Caller : ~Transacting(d)
  BY <1>1, HolderAlone DEF Transacting
<1>3. leaving = None /\ closing = "open"
  BY <1>1 DEF IInv, Closed
<1>4. launched \in Nat /\ launched \in 0 .. MaxChildren /\ MaxChildren \in Nat
  BY ProcessBounds DEF IInv, TypeOK
<1>5. CASE child # None /\ UNCHANGED <<child, launched, alive>>
  <2>1. /\ child \in Child /\ child \notin closed /\ child <= launched
        /\ alive \subseteq {child}
    BY <1>3, <1>5, NoneIsNoChild DEF IInv, TypeOK, Children
  <2>2. serving[child] = None /\ reply[child] = NoReply
    BY <1>2, <1>5 DEF IInv, IdleIsClean
  <2> QED
    BY <1>2, <1>3, <1>4, <1>5, <2>1, <2>2
<1>6. CASE /\ child = None /\ launched < MaxChildren
           /\ launched' = launched + 1 /\ child' = launched + 1
           /\ alive' = alive \cup {launched + 1}
  <2>1. /\ launched + 1 \in Child /\ launched + 1 > launched /\ ~(launched + 1 <= launched)
        /\ launched' \in 0 .. MaxChildren /\ launched' >= launched /\ child' <= launched'
    BY <1>4, <1>6 DEF Child
  <2>2. /\ launched + 1 \notin closed
        /\ serving[launched + 1] = None /\ reply[launched + 1] = NoReply
    BY <2>1 DEF IInv, Children
  <2>3. alive = {}
    BY <1>3, <1>6, NoneIsNoChild DEF IInv, TypeOK, Children
  <2> QED
    BY <1>2, <1>3, <1>6, <2>1, <2>2, <2>3
<1> QED
  BY <1>1, <1>5, <1>6

LEMMA EnsureKeeps == ASSUME IInv, NEW c \in Caller, Ensure(c) PROVE IInv'
<1> DEFINE n == request[c]
<1>1. /\ pc[c] = "starting"
      /\ UNCHANGED <<calls, request, cancelled, reason, finished, killing, serving, reply, closed,
                     stopping, closing, leaving>>
      /\ \/ /\ using' = [using EXCEPT ![n] = child']
            /\ pc' = [pc EXCEPT ![c] = "sending"]
            /\ UNCHANGED <<outcome, holder>>
         \/ End(c, "timed_out") /\ UNCHANGED using
  BY DEF Ensure, aborts, shutdownVars
<1>2. /\ child' \in Child /\ child' \notin closed
      /\ serving[child'] = None /\ reply[child'] = NoReply
      /\ launched' \in 0 .. MaxChildren /\ launched' >= launched /\ child' <= launched'
      /\ alive' \subseteq {child'}
      /\ leaving = None /\ closing = "open"
      /\ \A d \in Caller : ~Transacting(d)
  BY GivenChild
<1>3. /\ holder = c /\ n \in Request
      /\ \A d \in Caller : pc[d] \in {"starting", "sending", "reading"} => d = c
  BY <1>1, HolderAlone
<1>4. child' # None /\ launched \in Nat /\ launched' \in Nat
  BY <1>2, NoneIsNoChild, ProcessBounds DEF IInv, TypeOK
<1>5. using[n] = None /\ ~finished[n] /\ outcome[n] = "none" /\ n <= calls
  BY <1>1, <1>2 DEF IInv, Named
<1>6. \A k \in Child : /\ k > launched' => serving'[k] = None /\ reply'[k] = NoReply
                       /\ serving'[k] = None \/ reply'[k] = NoReply
  <2>1. \A k \in Child : k > launched' => k > launched
    BY <1>2, <1>4 DEF Child
  <2> QED
    BY <1>1, <2>1 DEF IInv, Children
<1>7. /\ \A k \in closed : k <= launched'
      /\ \A m \in Request : using[m] <= launched'
      /\ leaving' <= launched'
  <2>1. /\ \A k \in closed : k \in Nat /\ k <= launched
        /\ \A m \in Request : using[m] \in Nat /\ using[m] <= launched
    BY DEF IInv, TypeOK, Children, Child, None
  <2> QED
    BY <1>1, <1>2, <1>4, <2>1 DEF None
<1>8. Closed'
  BY <1>1, <1>2 DEF IInv, Closed
<1>9. CASE using' = [using EXCEPT ![n] = child'] /\ pc' = [pc EXCEPT ![c] = "sending"]
           /\ UNCHANGED <<outcome, holder>>
  <2>1. /\ \A m \in Request : using'[m] = IF m = n THEN child' ELSE using[m]
        /\ \A d \in Caller : pc'[d] = IF d = c THEN "sending" ELSE pc[d]
    BY <1>3, <1>9 DEF IInv, TypeOK
  <2>2. \A d \in Caller : Transacting(d)' <=> d = c
    BY <1>2, <2>1 DEF Transacting
  <2>3. TypeOK'
    BY <1>1, <1>2, <1>3, <1>9 DEF IInv, TypeOK
  <2>4. Mutex'
    BY <1>1, <1>9, <2>1 DEF IInv, Mutex
  <2>5. Named'
    <3> SUFFICES ASSUME NEW d \in Caller, pc'[d] # "idle"
                 PROVE  /\ request'[d] \in Request /\ request'[d] <= calls'
                        /\ outcome'[request'[d]] = "none" /\ ~finished'[request'[d]]
                        /\ \A e \in Caller : e # d /\ pc'[e] # "idle" => request'[e] # request'[d]
                        /\ Transacting(d)' <=> using'[request'[d]] # None
      BY DEF Named
    <3>1. pc[d] # "idle" /\ (d # c => request[d] # n) /\ request[d] \in Request
      BY <1>1, <2>1 DEF IInv, Named
    <3>2. \A e \in Caller : e # d /\ pc'[e] # "idle" => request'[e] # request'[d]
      BY <1>1, <2>1, <3>1 DEF IInv, Named
    <3>3. Transacting(d)' <=> using'[request'[d]] # None
      BY <1>1, <1>2, <1>4, <2>1, <2>2, <3>1 DEF IInv, Named
    <3> QED
      BY <1>1, <1>9, <3>1, <3>2, <3>3 DEF IInv, Named
  <2>6. AbortsAreTimely'
    <3> SUFFICES ASSUME NEW m \in Request
                 PROVE  /\ m > calls' => using'[m] = None /\ outcome'[m] = "none"
                        /\ using'[m] = None => reason'[m] = "none" /\ ~finished'[m]
                        /\ m \in killing' => reason'[m] # "none"
                        /\ using'[m] # None /\ ~finished'[m]
                             => \E d \in Caller : Transacting(d)' /\ request'[d] = m
                        /\ finished'[m] /\ reason'[m] # "none"
                             => outcome'[m] = reason'[m] /\ using'[m] \in closed'
      BY DEF AbortsAreTimely
    <3>1. CASE m = n
      <4>1. ~(n > calls)
        BY <1>3, <1>5, ProcessBounds DEF IInv, TypeOK, Request
      <4>2. reason[n] = "none" /\ n \notin killing
        BY <1>3, <1>5 DEF IInv, AbortsAreTimely
      <4>3. Transacting(c)' /\ request'[c] = m
        BY <1>1, <2>2, <3>1
      <4> QED
        BY <1>1, <1>4, <1>5, <2>1, <3>1, <4>1, <4>2, <4>3
    <3>2. CASE m # n
      <4>1. using'[m] = using[m] /\ (using[m] # None => finished[m])
        BY <1>2, <2>1, <3>2 DEF IInv, AbortsAreTimely
      <4> QED
        BY <1>1, <1>9, <4>1 DEF IInv, AbortsAreTimely
    <3> QED
      BY <3>1, <3>2
  <2>7. Children'
    <3>1. \A m \in Request : using'[m] <= launched'
      BY <1>2, <1>7, <2>1
    <3> QED
      BY <1>1, <1>2, <1>6, <1>7, <3>1 DEF Children
  <2>8. using'[request'[c]] = child'
    BY <1>1, <1>3, <2>1
  <2>9. Talking'
    BY <1>1, <1>2, <2>2, <2>8 DEF Talking
  <2>10. IdleIsClean'
    BY <2>2 DEF IdleIsClean
  <2> QED
    BY <1>8, <2>3, <2>4, <2>5, <2>6, <2>7, <2>9, <2>10 DEF IInv
<1>10. CASE End(c, "timed_out") /\ UNCHANGED using
  <2>1. /\ Mutex' /\ Named'
        /\ outcome' \in [Request -> Outcome]
        /\ pc' \in [Caller -> {"idle", "locking", "starting", "sending", "reading"}]
        /\ holder' \in Caller \cup {"none", "shutdown"}
        /\ \A m \in Request : outcome'[m] = IF m = n THEN "timed_out" ELSE outcome[m]
        /\ \A d \in Caller : Transacting(d)' <=> Transacting(d) /\ d # c
    <3>1. "timed_out" \in Outcome /\ pc[c] # "idle"
      BY <1>1 DEF Outcome
    <3> QED
      BY <1>1, <1>10, <3>1, EndFacts
  <2>2. \A d \in Caller : ~Transacting(d)'
    BY <1>2, <2>1
  <2>3. TypeOK'
    BY <1>1, <1>2, <1>10, <2>1 DEF IInv, TypeOK
  <2>4. ~(n > calls)
    BY <1>3, <1>5, ProcessBounds DEF IInv, TypeOK, Request
  <2>5. AbortsAreTimely'
    BY <1>1, <1>2, <1>5, <1>10, <2>1, <2>4 DEF IInv, AbortsAreTimely
  <2>6. Children'
    BY <1>1, <1>2, <1>6, <1>7, <1>10 DEF Children
  <2>7. Talking' /\ IdleIsClean'
    BY <1>1, <1>2, <2>2 DEF Talking, IdleIsClean
  <2> QED
    BY <1>8, <2>1, <2>3, <2>5, <2>6, <2>7 DEF IInv
<1> QED
  BY <1>1, <1>9, <1>10

\* A request ends: an abort that fired in time gives its outcome, and then, or
\* when the child failed, the child is discarded.
LEMMA TalkEnds ==
  ASSUME IInv, NEW c \in Caller, NEW result \in Outcome,
         Transacting(c), End(c, result),
         finished' = [finished EXCEPT ![request[c]] = TRUE],
         reason[request[c]] # "none" => result = reason[request[c]],
         reply' \in [Child -> [to : Request, is : Kinds] \cup {NoReply}],
         \A k \in Child : reply'[k] \in {reply[k], NoReply},
         \/ Discard(request[c])
         \/ /\ reason[request[c]] = "none" /\ UNCHANGED <<child, alive, closed>>
            /\ serving[using[request[c]]] = None /\ reply'[using[request[c]]] = NoReply,
         UNCHANGED <<calls, request, using, cancelled, reason, killing, launched, serving,
                     stopping, closing, leaving>>
  PROVE  IInv'
<1> DEFINE n == request[c]
           k == using[n]
<1>1. /\ holder = c /\ n \in Request /\ leaving = None
      /\ \A d \in Caller : Transacting(d) => d = c
  BY HolderAlone DEF Transacting
<1>2. pc[c] # "idle" /\ k # None /\ k \in Child
  BY <1>1 DEF Transacting, IInv, TypeOK, Named
<1>3. /\ child \in {None, k} /\ (k \in alive => child = k) /\ k \notin closed
  BY DEF IInv, Talking
<1>4. /\ \A m \in Request : finished'[m] = IF m = n THEN TRUE ELSE finished[m]
      /\ finished' \in [Request -> BOOLEAN]
  BY <1>1 DEF IInv, TypeOK
<1>5. /\ Mutex' /\ Named'
      /\ outcome' \in [Request -> Outcome]
      /\ pc' \in [Caller -> {"idle", "locking", "starting", "sending", "reading"}]
      /\ holder' \in Caller \cup {"none", "shutdown"}
      /\ \A m \in Request : outcome'[m] = IF m = n THEN result ELSE outcome[m]
      /\ \A d \in Caller : Transacting(d)' <=> Transacting(d) /\ d # c
  BY <1>2, <1>4, EndFacts
<1>6. \A d \in Caller : ~Transacting(d)'
  BY <1>1, <1>5
<1> HIDE DEF k
<1>7. k <= launched /\ k = using[n]
  BY <1>1 DEF IInv, Children, k
<1>8. /\ \A j \in closed' : j \in closed \/ j = k
      /\ closed \subseteq closed' /\ closed' \subseteq Child
      /\ child' \in {child, None} /\ alive' \subseteq alive
      /\ \/ k \in closed' /\ child' = None /\ alive' = alive \ {k}
         \/ /\ reason[n] = "none" /\ UNCHANGED <<child, alive, closed>>
            /\ serving[k] = None /\ reply'[k] = NoReply
  BY <1>2, <1>3 DEF Discard, IInv, TypeOK, k
<1>9. TypeOK'
  BY <1>4, <1>5, <1>8 DEF IInv, TypeOK
<1>10. AbortsAreTimely'
  <2> SUFFICES ASSUME NEW m \in Request
               PROVE  /\ m > calls' => using'[m] = None /\ outcome'[m] = "none"
                      /\ using'[m] = None => reason'[m] = "none" /\ ~finished'[m]
                      /\ m \in killing' => reason'[m] # "none"
                      /\ using'[m] # None /\ ~finished'[m]
                           => \E d \in Caller : Transacting(d)' /\ request'[d] = m
                      /\ finished'[m] /\ reason'[m] # "none"
                           => outcome'[m] = reason'[m] /\ using'[m] \in closed'
    BY DEF AbortsAreTimely
  <2>1. CASE m = n
    <3>1. ~(n > calls)
      BY <1>1, <1>2, <1>7 DEF IInv, AbortsAreTimely
    <3>2. n \in killing => reason[n] # "none"
      BY <1>1 DEF IInv, AbortsAreTimely
    <3>3. reason[n] # "none" => outcome'[n] = reason[n] /\ k \in closed'
      BY <1>1, <1>5, <1>8
    <3> QED
      BY <1>1, <1>2, <1>4, <1>7, <2>1, <3>1, <3>2, <3>3
  <2>2. CASE m # n
    <3>1. /\ outcome'[m] = outcome[m] /\ finished'[m] = finished[m]
      BY <1>4, <1>5, <2>2
    <3>2. using[m] # None => finished[m]
      BY <1>1, <2>2 DEF IInv, AbortsAreTimely
    <3> QED
      BY <1>8, <3>1, <3>2 DEF IInv, AbortsAreTimely
  <2> QED
    BY <2>1, <2>2
<1>11. Children'
  <2>1. None <= launched
    BY ProcessBounds DEF IInv, TypeOK, None
  <2>2. child' \notin closed' /\ child' <= launched' /\ \A j \in closed' : j <= launched'
    BY <1>7, <1>8, <2>1, NoneIsNoChild DEF IInv, Children
  <2>3. alive' \subseteq {child', leaving'}
    BY <1>1, <1>3, <1>8, NoneIsNoChild DEF IInv, TypeOK, Children
  <2>4. \A j \in Child : /\ j > launched' => serving'[j] = None /\ reply'[j] = NoReply
                         /\ serving'[j] = None \/ reply'[j] = NoReply
    BY DEF IInv, Children
  <2> QED
    BY <2>2, <2>3, <2>4 DEF IInv, Children
<1>12. Talking'
  BY <1>6 DEF Talking
<1>13. IdleIsClean'
  BY <1>3, <1>8 DEF IdleIsClean
<1>14. Closed'
  BY <1>8 DEF IInv, Closed
<1> QED
  BY <1>5, <1>9, <1>10, <1>11, <1>12, <1>13, <1>14 DEF IInv

LEMMA ReceiveKeeps == ASSUME IInv, NEW c \in Caller, Receive(c) PROVE IInv'
<1> DEFINE n == request[c]
           k == using[n]
           r == reply[k]
<1>1. /\ pc[c] = "reading" /\ r # NoReply
      /\ reply' = [reply EXCEPT ![k] = NoReply]
      /\ finished' = [finished EXCEPT ![n] = TRUE]
      /\ \E result \in Outcome :
           /\ End(c, result)
           /\ reason[n] # "none" => result = reason[n]
           /\ \/ Discard(n)
              \/ reason[n] = "none" /\ UNCHANGED <<child, alive, closed>>
      /\ UNCHANGED <<calls, request, using, cancelled, reason, killing, launched, serving,
                     stopping, closing, leaving>>
  <2>1. n \in Request => reason[n] \in Outcome
    BY DEF IInv, TypeOK, Outcome
  <2>2. n \in Request
    BY DEF Receive, IInv, Named
  <2>3. /\ pc[c] = "reading" /\ r # NoReply
        /\ reply' = [reply EXCEPT ![k] = NoReply]
        /\ finished' = [finished EXCEPT ![n] = TRUE]
        /\ UNCHANGED <<calls, request, using, cancelled, reason, killing, launched, serving,
                       stopping, closing, leaving>>
    BY DEF Receive, shutdownVars
  <2>4. CASE reason[n] # "none"
    <3>1. End(c, reason[n]) /\ Discard(n)
      BY <2>4 DEF Receive
    <3> QED
      BY <2>1, <2>2, <2>3, <2>4, <3>1
  <2>5. CASE reason[n] = "none"
    <3>1. \E result \in Outcome :
             /\ End(c, result)
             /\ Discard(n) \/ UNCHANGED <<child, alive, closed>>
      BY <2>5 DEF Receive, Outcome
    <3> QED
      BY <2>3, <2>5, <3>1
  <2> QED
    BY <2>4, <2>5
<1>2. Transacting(c)
  BY <1>1 DEF Transacting
<1>3. n \in Request /\ k \in Child
  BY <1>1, <1>2 DEF IInv, TypeOK, Named
<1>4. serving[k] = None
  BY <1>1, <1>3 DEF IInv, Children
<1>5. /\ reply' \in [Child -> [to : Request, is : Kinds] \cup {NoReply}]
      /\ \A j \in Child : reply'[j] \in {reply[j], NoReply}
      /\ reply'[k] = NoReply
  BY <1>1, <1>3 DEF IInv, TypeOK
<1> QED
  BY <1>1, <1>2, <1>4, <1>5, TalkEnds

LEMMA LoseKeeps == ASSUME IInv, NEW c \in Caller, Lose(c) PROVE IInv'
<1> DEFINE n == request[c]
<1>1. /\ pc[c] \in {"sending", "reading"}
      /\ finished' = [finished EXCEPT ![n] = TRUE]
      /\ Discard(n)
      /\ End(c, IF reason[n] # "none" THEN reason[n] ELSE "worker_exited")
      /\ UNCHANGED <<calls, request, using, cancelled, reason, killing, launched, serving, reply,
                     stopping, closing, leaving>>
  BY DEF Lose, shutdownVars
<1>2. Transacting(c) /\ n \in Request
  BY <1>1 DEF Transacting, IInv, Named
<1>3. (IF reason[n] # "none" THEN reason[n] ELSE "worker_exited") \in Outcome
  BY <1>2 DEF IInv, TypeOK, Outcome
<1>4. /\ reply' \in [Child -> [to : Request, is : Kinds] \cup {NoReply}]
      /\ \A j \in Child : reply'[j] \in {reply[j], NoReply}
  BY <1>1 DEF IInv, TypeOK
<1> QED
  BY <1>1, <1>2, <1>3, <1>4, TalkEnds

-----------------------------------------------------------------------------
LEMMA StepWorker == IInv /\ [Next]_vars => IInv'
<1> SUFFICES ASSUME IInv, [Next]_vars PROVE IInv'
  OBVIOUS
<1>1. CASE \E c \in Caller : Make(c) \/ GiveUp(c) \/ LaunchFails(c) \/ Lock(c)
  BY <1>1, MakeKeeps, GiveUpKeeps, LockKeeps
<1>2. CASE \E c \in Caller : Ensure(c) \/ Send(c)
  BY <1>2, EnsureKeeps, SendKeeps
<1>3. CASE \E c \in Caller : Receive(c) \/ Lose(c)
  BY <1>3, ReceiveKeeps, LoseKeeps
<1>4. CASE \E n \in Request : CancelToken(n) \/ \E why \in {"timed_out", "cancelled"} : Fire(n, why)
  BY <1>4, FireKeeps
<1>5. CASE \E n \in Request : Kill(n)
  BY <1>5, KillKeeps
<1>6. CASE \E k \in Child : Answer(k) \/ Crash(k)
  BY <1>6, AnswerKeeps, CrashKeeps
<1>7. CASE Reset \/ BeginShutdown \/ FindBusy
  BY <1>7, ResetKeeps, TellKeeps
<1>8. CASE Interrupt \/ AskChild \/ LeaveChild
  BY <1>8, InterruptKeeps, AskChildKeeps, LeaveChildKeeps
<1>9. CASE UNCHANGED vars
  BY <1>9, DeathKeeps DEF vars, aborts, processes, shutdownVars
<1> QED
  BY <1>1, <1>2, <1>3, <1>4, <1>5, <1>6, <1>7, <1>8, <1>9
     DEF Next, CallerStep, ShutdownStep

LEMMA ApartInIInv == IInv => RequestsAreApart
<1> SUFFICES ASSUME IInv PROVE RequestsAreApart
  OBVIOUS
<1>1. AbortsSpareOthers
  <2> SUFFICES ASSUME NEW n \in killing, NEW c \in Caller, Transacting(c),
                      using[request[c]] = using[n]
               PROVE  request[c] = n
    BY DEF AbortsSpareOthers
  <2>1. n \in Request /\ reason[n] # "none" /\ using[n] # None
    BY DEF IInv, TypeOK, AbortsAreTimely
  <2>2. using[n] \notin closed
    BY DEF IInv, Talking
  <2>3. PICK d \in Caller : Transacting(d) /\ request[d] = n
    BY <2>1, <2>2 DEF IInv, AbortsAreTimely
  <2>4. d = c
    BY <2>3, HolderAlone DEF Transacting
  <2> QED
    BY <2>3, <2>4
<1>2. ChildStartsClean
  BY DEF IInv, Talking, ChildStartsClean, Transacting
<1>3. AbortedChildrenAreLeft
  <2> SUFFICES ASSUME NEW n \in Request, reason[n] # "none"
               PROVE  /\ outcome[n] \in {"none", reason[n]}
                      /\ outcome[n] # "none" => child # using[n]
    BY DEF AbortedChildrenAreLeft
  <2>1. using[n] # None
    BY DEF IInv, AbortsAreTimely
  <2>2. CASE finished[n]
    BY <2>2 DEF IInv, AbortsAreTimely, Children
  <2>3. CASE ~finished[n]
    <3>1. PICK d \in Caller : Transacting(d) /\ request[d] = n
      BY <2>1, <2>3 DEF IInv, AbortsAreTimely
    <3> QED
      BY <3>1 DEF IInv, Named, Transacting
  <2> QED
    BY <2>2, <2>3
<1> QED
  BY <1>1, <1>2, <1>3 DEF IInv, RequestsAreApart

LEMMA CleanInIInv == IInv => ShutdownIsClean
<1> SUFFICES ASSUME IInv PROVE ShutdownIsClean
  OBVIOUS
<1>1. PipesOpenInUse
  BY DEF IInv, Talking, PipesOpenInUse
<1>2. NoOrphan
  <2>1. closing = "closed" => child = None /\ leaving = None
    BY DEF IInv, Closed
  <2> QED
    BY <2>1, NoneIsNoChild DEF IInv, TypeOK, Children, NoOrphan
<1> QED
  BY <1>1, <1>2 DEF ShutdownIsClean

\* Requests do not touch each other through the child they share: RequestAbort,
\* WorkerProcess::Impl::request, transact and discard.
THEOREM RequestsApart == Spec => []RequestsAreApart
BY InitWorker, StepWorker, ApartInIInv, PTL DEF Spec

\* shutdown() beside a request neither closes the pipes it uses nor leaves a
\* child running: WorkerProcess::Impl::shutdown, ensure_child and discard.
THEOREM CleanShutdown == Spec => []ShutdownIsClean
BY InitWorker, StepWorker, CleanInIInv, PTL DEF Spec

=============================================================================
