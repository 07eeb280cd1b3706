---------------------------- MODULE RequestProofs ----------------------------
(***************************************************************************)
(* Proofs that requests in progress, and only they, can be reached by a    *)
(* cancellation, that run() leaves none unanswered, and that a cancelled   *)
(* request is answered as such: for every number of threads, ids and       *)
(* requests and every capacity of the queue.  Below: that every message is *)
(* understood as it was sent, and that of all layers of configuration that *)
(* a request is answered with the highest wins.                            *)
(***************************************************************************)
EXTENDS RequestServing, Messages, Layers, FiniteSetTheorems, WellFoundedInduction, TLAPS

\* The steps of the reader in which it runs a lifecycle request.
RunsInline == reader \in {"initialize", "shutdown", "joining analysis"}
HasInline == RunsInline \/ reader = "answering"
Holds(q, r) == \E k \in 1 .. Len(q) : q[k] = r
InQueue(r) == Holds(queue, r)

ReadRequests == \A r \in Request : step[r] = "unread" <=> r > calls

\* The request that the reader runs is nobody else's.
InlineIsApart ==
  /\ HasInline => /\ inline \in Request
                  /\ ~InQueue(inline)
                  /\ \A w \in Thread : current[w] # inline
  /\ RunsInline => step[inline] = "running"
  /\ reader = "answering" => step[inline] = "answered"

\* Every request that is not answered is in the queue or in somebody's hands.
InHand ==
  /\ \A r \in Request : InQueue(r) => step[r] # "unread"
  /\ \A w \in Thread : current[w] # None => step[current[w]] # "unread"
  /\ \A r \in Request :
       step[r] \in {"unread", "written", "lost"} \/ InQueue(r)
       \/ (\E w \in Thread : current[w] = r) \/ (HasInline /\ inline = r)
  /\ \A r \in Request : step[r] = "lost" => broken

\* Threads leave when the reader has stopped and the queue is empty.
Left ==
  /\ stopping => reader \in Stops \cup Waiting \cup {"returned"}
  /\ reader \in Waiting \cup {"returned"} => stopping /\ exited = Thread
  /\ exited # {} => stopping /\ queue = <<>>
  /\ \A w \in exited : current[w] = None

IInv ==
  /\ TypeOK
  /\ ReadRequests
  /\ InlineIsApart
  /\ InHand
  /\ Left
  /\ ReachableOrCancelled
  /\ NoStaleEntries

USE DEF Unanswered, Progress, Response, Waiting, ReaderPlace, Stops

-----------------------------------------------------------------------------
LEMMA InitServing == Init => IInv
<1> SUFFICES ASSUME Init PROVE IInv
  OBVIOUS
<1>1. (CHOOSE i \in Id : TRUE) \in Id
  BY ExecutorLimits
<1>2. /\ 0 \in 0 .. MaxRequests /\ queue \in Seq(Request)
      /\ ~\E k \in 1 .. Len(queue) : TRUE
  BY ExecutorLimits DEF Init
<1>3. TypeOK
  BY <1>1, <1>2 DEF Init, TypeOK, None
<1>4. ReadRequests
  BY ExecutorLimits DEF Init, ReadRequests, Request
<1>5. InlineIsApart /\ Left
  BY DEF Init, InlineIsApart, HasInline, RunsInline, Left
<1>6. InHand
  BY <1>2 DEF Init, InHand, InQueue, Holds
<1>7. ReachableOrCancelled /\ NoStaleEntries
  BY DEF Init, ReachableOrCancelled, NoStaleEntries, Open
<1> QED
  BY <1>3, <1>4, <1>5, <1>6, <1>7 DEF IInv

\* The next request to be read.
LEMMA NextRequest ==
  ASSUME IInv, Unread
  PROVE  /\ calls + 1 \in Request /\ calls + 1 \in 0 .. MaxRequests /\ calls + 1 # None
         /\ step[calls + 1] = "unread"
         /\ ~InQueue(calls + 1)
         /\ \A w \in Thread : current[w] # calls + 1
         /\ \A i \in Id : active[i] # calls + 1
         /\ \A r \in Request : r > calls + 1 <=> r > calls /\ r # calls + 1
<1>0. calls \in 0 .. MaxRequests /\ calls < MaxRequests
  BY DEF IInv, TypeOK, Unread
<1>1. calls \in Nat /\ MaxRequests \in Nat /\ calls < MaxRequests
  BY <1>0, ExecutorLimits
<1>2. /\ calls + 1 \in Request /\ calls + 1 \in 0 .. MaxRequests /\ calls + 1 # None
      /\ calls + 1 > calls
      /\ \A r \in Request : r > calls + 1 <=> r > calls /\ r # calls + 1
  BY <1>1 DEF Request, None
<1>3. step[calls + 1] = "unread"
  BY <1>2 DEF IInv, ReadRequests
<1>4. ~InQueue(calls + 1)
  BY <1>2, <1>3 DEF IInv, InHand
<1>5. \A w \in Thread : current[w] # calls + 1
  BY <1>2, <1>3 DEF IInv, InHand
<1>6. \A i \in Id : active[i] # calls + 1
  BY <1>2, <1>3 DEF IInv, NoStaleEntries, Open
<1> QED
  BY <1>2, <1>3, <1>4, <1>5, <1>6

LEMMA AppendHolds ==
  ASSUME NEW S, NEW q \in Seq(S), NEW e \in S
  PROVE  /\ Append(q, e) \in Seq(S)
         /\ Append(q, e) # <<>>
         /\ \A x : Holds(Append(q, e), x) <=> Holds(q, x) \/ x = e
<1>1. /\ Append(q, e) \in Seq(S) /\ Len(q) \in Nat /\ Len(Append(q, e)) = Len(q) + 1
      /\ \A k \in 1 .. Len(q) : Append(q, e)[k] = q[k]
      /\ Append(q, e)[Len(q) + 1] = e
  OBVIOUS
<1>2. \A k : k \in 1 .. (Len(q) + 1) <=> k \in 1 .. Len(q) \/ k = Len(q) + 1
  BY <1>1
<1>3. \A x : Holds(Append(q, e), x) <=> Holds(q, x) \/ x = e
  BY <1>1, <1>2 DEF Holds
<1>4. Append(q, e) # <<>>
  BY <1>1, Len(<<>>) = 0
<1> QED
  BY <1>1, <1>3, <1>4

LEMMA TailHolds ==
  ASSUME NEW S, NEW q \in Seq(S), q # <<>>
  PROVE  /\ Tail(q) \in Seq(S) /\ Head(q) \in S
         /\ Holds(q, Head(q))
         /\ \A x : Holds(q, x) <=> x = Head(q) \/ Holds(Tail(q), x)
<1>1. /\ Tail(q) \in Seq(S) /\ Head(q) = q[1] /\ Head(q) \in S /\ Len(q) \in Nat /\ Len(q) >= 1
      /\ Len(Tail(q)) = Len(q) - 1
      /\ \A k \in 1 .. (Len(q) - 1) : Tail(q)[k] = q[k + 1]
  OBVIOUS
<1>2. \A k \in 1 .. Len(q) : k = 1 \/ (k - 1 \in 1 .. (Len(q) - 1) /\ (k - 1) + 1 = k)
  BY <1>1
<1>3. \A k \in 1 .. (Len(q) - 1) : k + 1 \in 1 .. Len(q)
  BY <1>1
<1>4. 1 \in 1 .. Len(q)
  BY <1>1
<1>5. \A x : Holds(q, x) => x = Head(q) \/ Holds(Tail(q), x)
  BY <1>1, <1>2 DEF Holds
<1>6. \A x : Holds(Tail(q), x) => Holds(q, x)
  BY <1>1, <1>3 DEF Holds
<1>7. Holds(q, Head(q))
  BY <1>1, <1>4 DEF Holds
<1> QED
  BY <1>1, <1>5, <1>6, <1>7

-----------------------------------------------------------------------------
\* The reader.

LEMMA QueueRequestKeeps == ASSUME IInv, NEW i \in Id, QueueRequest(i) PROVE IInv'
<1> DEFINE n == calls + 1
<1>1. /\ n \in Request /\ n \in 0 .. MaxRequests /\ n # None
      /\ step[n] = "unread" /\ ~InQueue(n)
      /\ \A w \in Thread : current[w] # n
      /\ \A j \in Id : active[j] # n
      /\ \A r \in Request : r > n <=> r > calls /\ r # n
  BY NextRequest DEF QueueRequest
<1>2. /\ reader = "reading" /\ calls' = n
      /\ id' = [id EXCEPT ![n] = i]
      /\ active' = [active EXCEPT ![i] = n]
      /\ cancelled' = cancelled \cup CancelledByReuse(i)
      /\ step' = [step EXCEPT ![n] = "queued"]
      /\ queue' = Append(queue, n)
      /\ UNCHANGED <<answer, current, lifecycle, reader, inline, stopping, exited, broken, analysis>>
  BY DEF QueueRequest, Begin, Reading
<1> HIDE DEF n
<1>3. /\ Append(queue, n) \in Seq(Request)
      /\ \A x : Holds(Append(queue, n), x) <=> Holds(queue, x) \/ x = n
  <2>1. queue \in Seq(Request) /\ n \in Request
    BY <1>1 DEF IInv, TypeOK
  <2> QED
    BY <2>1, AppendHolds
<1>4. CancelledByReuse(i) \subseteq Request
  BY DEF CancelledByReuse, IInv, TypeOK
<1>5. /\ \A r \in Request : step'[r] = IF r = n THEN "queued" ELSE step[r]
      /\ \A r \in Request : id'[r] = IF r = n THEN i ELSE id[r]
      /\ \A j \in Id : active'[j] = IF j = i THEN n ELSE active[j]
  BY <1>1, <1>2 DEF IInv, TypeOK
<1>6. TypeOK'
  BY <1>1, <1>2, <1>3, <1>4 DEF IInv, TypeOK
<1>7. ReadRequests'
  BY <1>1, <1>2, <1>5 DEF IInv, ReadRequests
<1>8. InlineIsApart'
  BY <1>2 DEF InlineIsApart, HasInline, RunsInline
<1>9. \A r \in Request : InQueue(r)' <=> InQueue(r) \/ r = n
  BY <1>2, <1>3 DEF InQueue
<1>10. InHand'
  BY <1>1, <1>2, <1>5, <1>9 DEF IInv, TypeOK, InHand, HasInline, RunsInline
<1>11. Left'
  BY <1>2 DEF IInv, Left
<1>12. ReachableOrCancelled'
  <2> SUFFICES ASSUME NEW r \in Request, r \in Open'
               PROVE  active'[id'[r]] = r \/ r \in cancelled'
    BY <1>6 DEF ReachableOrCancelled, Open
  <2>1. CASE r = n
    BY <2>1, <1>1, <1>5
  <2>2. CASE r # n
    <3>1. r \in Open /\ id'[r] = id[r] /\ id[r] \in Id
      BY <2>2, <1>5 DEF Open, IInv, TypeOK
    <3>2. active[id[r]] = r \/ r \in cancelled
      BY <3>1 DEF IInv, ReachableOrCancelled
    <3>3. CASE id[r] = i /\ active[i] = r
      BY <3>3, <1>2, <2>2 DEF CancelledByReuse, None, Request
    <3> QED
      BY <3>1, <3>2, <3>3, <1>2, <1>5
  <2> QED
    BY <2>1, <2>2
<1>13. NoStaleEntries'
  <2> SUFFICES ASSUME NEW j \in Id, active'[j] # None
               PROVE  active'[j] \in Open' /\ id'[active'[j]] = j
    BY DEF NoStaleEntries
  <2>1. CASE j = i
    BY <2>1, <1>1, <1>5 DEF Open
  <2>2. CASE j # i
    <3>1. active'[j] = active[j] /\ active[j] # n
      BY <2>2, <1>1, <1>5
    <3>2. active[j] \in Open /\ id[active[j]] = j
      BY <3>1 DEF IInv, NoStaleEntries
    <3> QED
      BY <3>1, <3>2, <1>5 DEF Open
  <2> QED
    BY <2>1, <2>2
<1> QED
  BY <1>6, <1>7, <1>8, <1>10, <1>11, <1>12, <1>13 DEF IInv

LEMMA RefuseRequestKeeps == ASSUME IInv, NEW i \in Id, RefuseRequest(i) PROVE IInv'
<1> DEFINE n == calls + 1
<1>1. /\ n \in Request /\ n \in 0 .. MaxRequests /\ n # None
      /\ step[n] = "unread" /\ ~InQueue(n)
      /\ \A w \in Thread : current[w] # n
      /\ \A j \in Id : active[j] # n
      /\ \A r \in Request : r > n <=> r > calls /\ r # n
  BY NextRequest DEF RefuseRequest
<1>2. /\ reader = "reading" /\ calls' = n
      /\ id' = [id EXCEPT ![n] = i]
      /\ active' = [active EXCEPT ![i] = None]
      /\ cancelled' = cancelled \cup CancelledByReuse(i) \cup {n}
      /\ answer' = [answer EXCEPT ![n] = "refused"]
      /\ step' = [step EXCEPT ![n] = Written]
      /\ reader' = IF broken THEN "failed" ELSE reader
      /\ Written = IF broken THEN "lost" ELSE "written"
      /\ UNCHANGED <<queue, current, stopping, exited, lifecycle, inline, broken, analysis>>
  BY DEF RefuseRequest, Reading, execution, Written
<1> HIDE DEF n
<1>4. CancelledByReuse(i) \subseteq Request
  BY DEF CancelledByReuse, IInv, TypeOK
<1>5. /\ \A r \in Request : step'[r] = IF r = n THEN Written ELSE step[r]
      /\ \A r \in Request : id'[r] = IF r = n THEN i ELSE id[r]
      /\ \A j \in Id : active'[j] = IF j = i THEN None ELSE active[j]
  BY <1>1, <1>2 DEF IInv, TypeOK
<1>6. TypeOK'
  BY <1>1, <1>2, <1>4 DEF IInv, TypeOK
<1>7. ReadRequests'
  BY <1>1, <1>2, <1>5 DEF IInv, ReadRequests
<1>8. InlineIsApart'
  BY <1>2 DEF InlineIsApart, HasInline, RunsInline
<1>9. \A r \in Request : InQueue(r)' <=> InQueue(r)
  BY <1>2 DEF InQueue
<1>10. InHand'
  BY <1>1, <1>2, <1>5, <1>9 DEF IInv, TypeOK, InHand, HasInline, RunsInline
<1>11. Left'
  BY <1>2 DEF IInv, Left
<1>12. ReachableOrCancelled'
  <2> SUFFICES ASSUME NEW r \in Request, r \in Open'
               PROVE  active'[id'[r]] = r \/ r \in cancelled'
    BY <1>6 DEF ReachableOrCancelled, Open
  <2>1. r # n
    BY <1>2, <1>5 DEF Open
  <2>2. r \in Open /\ id'[r] = id[r] /\ id[r] \in Id
    BY <2>1, <1>5 DEF Open, IInv, TypeOK
  <2>3. active[id[r]] = r \/ r \in cancelled
    BY <2>2 DEF IInv, ReachableOrCancelled
  <2>4. CASE id[r] = i /\ active[i] = r
    BY <2>4, <1>2 DEF CancelledByReuse, None, Request
  <2> QED
    BY <2>2, <2>3, <2>4, <1>2, <1>5
<1>13. NoStaleEntries'
  <2> SUFFICES ASSUME NEW j \in Id, active'[j] # None
               PROVE  active'[j] \in Open' /\ id'[active'[j]] = j
    BY DEF NoStaleEntries
  <2>1. CASE j = i
    BY <2>1, <1>1, <1>5 DEF Open
  <2>2. CASE j # i
    <3>1. active'[j] = active[j] /\ active[j] # n
      BY <2>2, <1>1, <1>5
    <3>2. active[j] \in Open /\ id[active[j]] = j
      BY <3>1 DEF IInv, NoStaleEntries
    <3> QED
      BY <3>1, <3>2, <1>5 DEF Open
  <2> QED
    BY <2>1, <2>2
<1> QED
  BY <1>6, <1>7, <1>8, <1>10, <1>11, <1>12, <1>13 DEF IInv

LEMMA StartInlineKeeps ==
  ASSUME IInv, NEW i \in Id, NEW m \in {"initialize", "shutdown"}, StartInline(i, m)
  PROVE  IInv'
<1> DEFINE n == calls + 1
<1>1. /\ n \in Request /\ n \in 0 .. MaxRequests /\ n # None
      /\ step[n] = "unread" /\ ~InQueue(n)
      /\ \A w \in Thread : current[w] # n
      /\ \A j \in Id : active[j] # n
      /\ \A r \in Request : r > n <=> r > calls /\ r # n
  BY NextRequest DEF StartInline
<1>2. /\ reader = "reading" /\ calls' = n
      /\ id' = [id EXCEPT ![n] = i]
      /\ active' = [active EXCEPT ![i] = n]
      /\ cancelled' = cancelled \cup CancelledByReuse(i)
      /\ step' = [step EXCEPT ![n] = "running"]
      /\ inline' = n /\ reader' = m
      /\ UNCHANGED <<answer, queue, current, stopping, exited, lifecycle, broken, analysis>>
  BY DEF StartInline, Begin, Reading, execution
<1> HIDE DEF n
<1>4. CancelledByReuse(i) \subseteq Request
  BY DEF CancelledByReuse, IInv, TypeOK
<1>5. /\ \A r \in Request : step'[r] = IF r = n THEN "running" ELSE step[r]
      /\ \A r \in Request : id'[r] = IF r = n THEN i ELSE id[r]
      /\ \A j \in Id : active'[j] = IF j = i THEN n ELSE active[j]
  BY <1>1, <1>2 DEF IInv, TypeOK
<1>6. TypeOK'
  BY <1>1, <1>2, <1>4 DEF IInv, TypeOK
<1>7. ReadRequests'
  BY <1>1, <1>2, <1>5 DEF IInv, ReadRequests
<1>8. \A r \in Request : InQueue(r)' <=> InQueue(r)
  BY <1>2 DEF InQueue
<1>9. InlineIsApart'
  BY <1>1, <1>2, <1>5, <1>8 DEF InlineIsApart, HasInline, RunsInline
<1>10. InHand'
  BY <1>1, <1>2, <1>5, <1>8 DEF IInv, TypeOK, InHand, HasInline, RunsInline
<1>11. Left'
  BY <1>2 DEF IInv, Left
<1>12. ReachableOrCancelled'
  <2> SUFFICES ASSUME NEW r \in Request, r \in Open'
               PROVE  active'[id'[r]] = r \/ r \in cancelled'
    BY <1>6 DEF ReachableOrCancelled, Open
  <2>1. CASE r = n
    BY <2>1, <1>1, <1>5
  <2>2. CASE r # n
    <3>1. r \in Open /\ id'[r] = id[r] /\ id[r] \in Id
      BY <2>2, <1>5 DEF Open, IInv, TypeOK
    <3>2. active[id[r]] = r \/ r \in cancelled
      BY <3>1 DEF IInv, ReachableOrCancelled
    <3>3. CASE id[r] = i /\ active[i] = r
      BY <3>3, <1>2, <2>2 DEF CancelledByReuse, None, Request
    <3> QED
      BY <3>1, <3>2, <3>3, <1>2, <1>5
  <2> QED
    BY <2>1, <2>2
<1>13. NoStaleEntries'
  <2> SUFFICES ASSUME NEW j \in Id, active'[j] # None
               PROVE  active'[j] \in Open' /\ id'[active'[j]] = j
    BY DEF NoStaleEntries
  <2>1. CASE j = i
    BY <2>1, <1>1, <1>5 DEF Open
  <2>2. CASE j # i
    <3>1. active'[j] = active[j] /\ active[j] # n
      BY <2>2, <1>1, <1>5
    <3>2. active[j] \in Open /\ id[active[j]] = j
      BY <3>1 DEF IInv, NoStaleEntries
    <3> QED
      BY <3>1, <3>2, <1>5 DEF Open
  <2> QED
    BY <2>1, <2>2
<1> QED
  BY <1>6, <1>7, <1>9, <1>10, <1>11, <1>12, <1>13 DEF IInv

\* A request in progress is answered, or goes on, without leaving the hands it
\* is in.
LEMMA StepKeeps ==
  ASSUME IInv, NEW r \in Request, NEW s \in {"tested", "admitted", "running", "answered"},
         step[r] \in Unanswered,
         step' = [step EXCEPT ![r] = s],
         answer' \in [Request -> Response],
         UNCHANGED <<calls, id, active, cancelled, queue, current, stopping, exited, broken>>
  PROVE  /\ ReadRequests' /\ ReachableOrCancelled' /\ NoStaleEntries'
         /\ step' \in [Request -> Progress]
         /\ \A x \in Request : InQueue(x)' <=> InQueue(x)
         /\ HasInline' = HasInline /\ inline' = inline => InHand'
<1>1. /\ \A x \in Request : step'[x] = IF x = r THEN s ELSE step[x]
      /\ step' \in [Request -> Progress]
  BY DEF IInv, TypeOK
<1>2. Open' = Open
  BY <1>1 DEF Open
<1>3. ReadRequests' /\ ReachableOrCancelled' /\ NoStaleEntries'
  BY <1>1, <1>2 DEF IInv, ReadRequests, ReachableOrCancelled, NoStaleEntries
<1>4. \A x \in Request : InQueue(x)' <=> InQueue(x)
  BY DEF InQueue
<1>5. ASSUME HasInline' = HasInline /\ inline' = inline
      PROVE  InHand'
  <2>1. InHand
    BY DEF IInv
  <2>2. \A w \in Thread : current[w] # None => current[w] \in Request
    BY DEF IInv, TypeOK
  <2>3. \A x \in Request : /\ step'[x] = "unread" <=> step[x] = "unread"
                           /\ step'[x] = "lost" <=> step[x] = "lost"
                           /\ step'[x] \in {"unread", "written", "lost"}
                                <=> step[x] \in {"unread", "written", "lost"}
    BY <1>1
  <2> QED
    BY <2>1, <2>2, <2>3, <1>4, <1>5 DEF InHand
<1> QED
  BY <1>1, <1>3, <1>4, <1>5

LEMMA InitializeKeeps == ASSUME IInv, Initialize PROVE IInv'
<1>1. /\ reader = "initialize" /\ reader' = "answering" /\ lifecycle' \in {lifecycle, "awaiting"}
      /\ Respond(inline, "result") \/ Respond(inline, "refused")
      /\ UNCHANGED <<calls, id, active, cancelled, queue, current, stopping, exited, inline, broken, analysis>>
  BY DEF Initialize, execution
<1>2. inline \in Request /\ step[inline] = "running"
  BY <1>1 DEF IInv, InlineIsApart, HasInline, RunsInline
<1>3. /\ step' = [step EXCEPT ![inline] = "answered"]
      /\ answer' \in [Request -> Response]
  BY <1>1, <1>2 DEF Respond, IInv, TypeOK
<1>4. HasInline' /\ HasInline /\ ~RunsInline'
  BY <1>1 DEF HasInline, RunsInline
<1>5. /\ ReadRequests' /\ ReachableOrCancelled' /\ NoStaleEntries' /\ InHand'
      /\ step' \in [Request -> Progress]
      /\ \A x \in Request : InQueue(x)' <=> InQueue(x)
  BY <1>1, <1>2, <1>3, <1>4, StepKeeps
<1>6. TypeOK'
  BY <1>1, <1>3, <1>5 DEF IInv, TypeOK
<1>7. step'[inline] = "answered"
  BY <1>2, <1>3 DEF IInv, TypeOK
<1>8. InlineIsApart'
  BY <1>1, <1>2, <1>4, <1>5, <1>7 DEF IInv, InlineIsApart
<1>9. Left'
  BY <1>1 DEF IInv, Left
<1> QED
  BY <1>5, <1>6, <1>8, <1>9 DEF IInv

LEMMA FinishShutdownKeeps == ASSUME IInv, FinishShutdown PROVE IInv'
<1>1. /\ reader = "joining analysis" /\ reader' = "answering"
      /\ Respond(inline, "result")
      /\ UNCHANGED <<calls, id, active, cancelled, queue, current, stopping, exited, inline,
                     lifecycle, broken>>
      /\ analysis' = "idle"
  BY DEF FinishShutdown, execution
<1>2. inline \in Request /\ step[inline] = "running"
  BY <1>1 DEF IInv, InlineIsApart, HasInline, RunsInline
<1>3. /\ step' = [step EXCEPT ![inline] = "answered"]
      /\ answer' \in [Request -> Response]
  BY <1>1, <1>2 DEF Respond, IInv, TypeOK
<1>4. HasInline' /\ HasInline /\ ~RunsInline'
  BY <1>1 DEF HasInline, RunsInline
<1>5. /\ ReadRequests' /\ ReachableOrCancelled' /\ NoStaleEntries' /\ InHand'
      /\ step' \in [Request -> Progress]
      /\ \A x \in Request : InQueue(x)' <=> InQueue(x)
  BY <1>1, <1>2, <1>3, <1>4, StepKeeps
<1>6. TypeOK'
  BY <1>1, <1>3, <1>5 DEF IInv, TypeOK
<1>7. step'[inline] = "answered"
  BY <1>2, <1>3 DEF IInv, TypeOK
<1>8. InlineIsApart'
  BY <1>1, <1>2, <1>4, <1>5, <1>7 DEF IInv, InlineIsApart
<1>9. Left'
  BY <1>1 DEF IInv, Left
<1> QED
  BY <1>5, <1>6, <1>8, <1>9 DEF IInv

\* Requests stay where they are, and the reader keeps what it runs.
LEMMA RequestsStay ==
  ASSUME IInv,
         UNCHANGED <<calls, id, step, answer, active, queue, current, inline>>,
         cancelled \subseteq cancelled', cancelled' \subseteq Request,
         broken => broken',
         broken' \in BOOLEAN,
         \/ reader' = reader
         \/ ~RunsInline' /\ reader' # "answering"
         \/ RunsInline /\ RunsInline',
         HasInline => HasInline',
         lifecycle' \in {"uninitialized", "awaiting", "running", "shutdown"},
         reader' \in ReaderPlace,
         stopping' \in BOOLEAN, exited' \subseteq Thread,
         analysis' \in {"idle", "busy"}
  PROVE  /\ TypeOK' /\ ReadRequests' /\ InlineIsApart' /\ InHand'
         /\ ReachableOrCancelled' /\ NoStaleEntries'
<1>1. TypeOK' /\ ReadRequests'
  BY DEF IInv, TypeOK, ReadRequests
<1>2. \A x : InQueue(x)' <=> InQueue(x)
  BY DEF InQueue
<1>3. /\ RunsInline' => RunsInline
      /\ reader' = "answering" => reader = "answering"
      /\ HasInline' => HasInline
  BY DEF HasInline, RunsInline
<1>4. InlineIsApart'
  BY <1>2, <1>3 DEF IInv, InlineIsApart
<1>5. InHand'
  BY <1>2 DEF IInv, InHand
<1>6. ReachableOrCancelled' /\ NoStaleEntries'
  BY DEF IInv, ReachableOrCancelled, NoStaleEntries, Open
<1> QED
  BY <1>1, <1>4, <1>5, <1>6

LEMMA ShutdownKeeps == ASSUME IInv, Shutdown PROVE IInv'
<1>1. /\ reader = "shutdown"
      /\ UNCHANGED <<calls, id, active, cancelled, queue, current, stopping, exited, inline, broken, analysis>>
  BY DEF Shutdown, execution
<1>2. Left'
  BY <1>1 DEF Shutdown, IInv, Left
<1>3. CASE lifecycle' = "shutdown" /\ reader' = "joining analysis" /\ UNCHANGED <<answer, step>>
  <2>1. /\ RunsInline' /\ RunsInline /\ HasInline'
        /\ lifecycle' \in {"uninitialized", "awaiting", "running", "shutdown"}
        /\ reader' \in ReaderPlace
    BY <1>1, <1>3 DEF RunsInline, HasInline
  <2>2. cancelled' \subseteq Request /\ stopping' \in BOOLEAN /\ exited' \subseteq Thread
        /\ broken' \in BOOLEAN /\ analysis' \in {"idle", "busy"}
    BY <1>1 DEF IInv, TypeOK
  <2>3. /\ TypeOK' /\ ReadRequests' /\ InlineIsApart' /\ InHand'
        /\ ReachableOrCancelled' /\ NoStaleEntries'
    BY <1>1, <1>3, <2>1, <2>2, RequestsStay
  <2> QED
    BY <1>2, <2>3 DEF IInv
<1>4. CASE Respond(inline, "refused") /\ reader' = "answering" /\ UNCHANGED lifecycle
  <2>2. inline \in Request /\ step[inline] = "running"
    BY <1>1 DEF IInv, InlineIsApart, HasInline, RunsInline
  <2>3. /\ step' = [step EXCEPT ![inline] = "answered"]
        /\ answer' \in [Request -> Response]
    BY <1>4, <2>2 DEF Respond, IInv, TypeOK
  <2>4. HasInline' /\ HasInline /\ ~RunsInline'
    BY <1>1, <1>4 DEF HasInline, RunsInline
  <2>5. /\ ReadRequests' /\ ReachableOrCancelled' /\ NoStaleEntries' /\ InHand'
        /\ step' \in [Request -> Progress]
        /\ \A x \in Request : InQueue(x)' <=> InQueue(x)
    BY <1>1, <2>2, <2>3, <2>4, StepKeeps
  <2>6. TypeOK'
    BY <1>1, <1>4, <2>3, <2>5 DEF IInv, TypeOK
  <2>7. step'[inline] = "answered"
    BY <2>2, <2>3 DEF IInv, TypeOK
  <2>8. InlineIsApart'
    BY <1>1, <2>2, <2>4, <2>5, <2>7 DEF IInv, InlineIsApart
  <2> QED
    BY <1>2, <2>5, <2>6, <2>8 DEF IInv
<1> QED
  BY <1>3, <1>4 DEF Shutdown

LEMMA ReaderMoves ==
  ASSUME IInv,
         \/ \E i \in Id : ReadCancel(i)
         \/ ReadInitialized \/ ReadEnd \/ BreakOutput
         \/ CancelAll \/ StopExecutor \/ JoinExecutor \/ WaitIdle
         \/ StartAnalysis \/ EndAnalysis \/ WakeSpuriously
  PROVE  IInv'
<1>1. /\ TypeOK /\ Left
      /\ cancelled \subseteq Request /\ stopping \in BOOLEAN /\ exited \subseteq Thread
      /\ broken \in BOOLEAN /\ analysis \in {"idle", "busy"}
      /\ lifecycle \in {"uninitialized", "awaiting", "running", "shutdown"}
      /\ reader \in ReaderPlace
      /\ \A i \in Id : active[i] # None => active[i] \in Request
  BY DEF IInv, TypeOK
<1>2. /\ UNCHANGED <<calls, id, step, answer, active, queue, current, inline>>
      /\ cancelled \subseteq cancelled' /\ cancelled' \subseteq Request
      /\ broken => broken'
      /\ broken' \in BOOLEAN /\ analysis' \in {"idle", "busy"}
      /\ lifecycle' \in {"uninitialized", "awaiting", "running", "shutdown"}
      /\ reader' \in ReaderPlace
      /\ stopping' \in BOOLEAN /\ exited' \subseteq Thread
      /\ \/ reader' = reader
         \/ /\ reader \in {"reading", "leaving"} \cup Stops \cup Waiting
            /\ reader' \in {"leaving", "returned"} \cup Stops \cup Waiting
      /\ Left'
  <2>1. CASE \E i \in Id : ReadCancel(i)
    <3>1. PICK i \in Id : ReadCancel(i)
      BY <2>1
    <3>2. active[i] \in Request
      BY <1>1, <3>1 DEF ReadCancel
    <3>3. cancelled' \subseteq Request /\ cancelled \subseteq cancelled'
      BY <1>1, <3>1, <3>2 DEF ReadCancel
    <3> QED
      BY <1>1, <3>1, <3>3 DEF ReadCancel, execution, Left
  <2>2. CASE ReadInitialized
    BY <1>1, <2>2 DEF ReadInitialized, execution, Left
  <2>3. CASE ReadEnd
    BY <1>1, <2>3 DEF ReadEnd, Reading, execution, Left
  <2>4. CASE BreakOutput
    BY <1>1, <2>4 DEF BreakOutput, execution, Left
  <2>5. CASE CancelAll
    BY <1>1, <2>5 DEF CancelAll, CancelledAtEnd, execution, Left
  <2>6. CASE StopExecutor
    BY <1>1, <2>6 DEF StopExecutor, Stops, Left
  <2>7. CASE JoinExecutor
    BY <1>1, <2>7 DEF JoinExecutor, execution, Left
  <2>8. CASE WaitIdle \/ WakeSpuriously
    BY <1>1, <2>8 DEF WaitIdle, TestIdle, Park, WakeSpuriously, execution, Left
  <2>9. CASE StartAnalysis
    BY <1>1, <2>9 DEF StartAnalysis, execution, Left
  <2>10. CASE EndAnalysis
    BY <1>1, <2>10 DEF EndAnalysis, Woken, execution, Left
  <2> QED
    BY <2>1, <2>2, <2>3, <2>4, <2>5, <2>6, <2>7, <2>8, <2>9, <2>10
<1>3. /\ \/ reader' = reader
         \/ ~RunsInline' /\ reader' # "answering"
         \/ RunsInline /\ RunsInline'
      /\ HasInline => HasInline'
  BY <1>2 DEF RunsInline, HasInline
<1>4. /\ TypeOK' /\ ReadRequests' /\ InlineIsApart' /\ InHand'
      /\ ReachableOrCancelled' /\ NoStaleEntries'
  BY <1>2, <1>3, RequestsStay
<1> QED
  BY <1>2, <1>4 DEF IInv

LEMMA AnswerInlineKeeps == ASSUME IInv, AnswerInline PROVE IInv'
<1> DEFINE r == inline
<1>1. /\ reader = "answering"
      /\ active' = [active EXCEPT ![id[r]] = IF @ = r THEN None ELSE @]
      /\ step' = [step EXCEPT ![r] = Written]
      /\ reader' = IF broken THEN "failed" ELSE "reading"
      /\ Written = IF broken THEN "lost" ELSE "written"
      /\ UNCHANGED <<calls, id, answer, cancelled, queue, current, stopping, exited, lifecycle,
                     inline, broken, analysis>>
  BY DEF AnswerInline, Finished, Written, execution
<1>2. /\ r \in Request /\ step[r] = "answered" /\ id[r] \in Id
      /\ ~InQueue(r) /\ \A w \in Thread : current[w] # r
  BY <1>1 DEF IInv, TypeOK, InlineIsApart, HasInline, RunsInline
<1> HIDE DEF r
<1>3. /\ \A x \in Request : step'[x] = IF x = r THEN Written ELSE step[x]
      /\ \A j \in Id : active'[j] = IF j = id[r] /\ active[j] = r THEN None ELSE active[j]
  BY <1>1, <1>2 DEF IInv, TypeOK
<1>4. TypeOK'
  BY <1>1, <1>2 DEF IInv, TypeOK
<1>5. ReadRequests'
  BY <1>1, <1>2, <1>3 DEF IInv, ReadRequests
<1>6. InlineIsApart'
  BY <1>1 DEF InlineIsApart, HasInline, RunsInline
<1>7. \A x \in Request : InQueue(x)' <=> InQueue(x)
  BY <1>1 DEF InQueue
<1>8. InHand'
  <2>1. \A w \in Thread : current'[w] = current[w]
                          /\ (current[w] # None => current[w] \in Request /\ current[w] # r)
    BY <1>1, <1>2 DEF IInv, TypeOK
  <2>2. \A x \in Request : x # r => step'[x] = step[x]
    BY <1>3
  <2>3. step'[r] \in {"written", "lost"} /\ (step'[r] = "lost" => broken)
    BY <1>1, <1>2, <1>3
  <2>4. r = inline
    BY DEF r
  <2> QED
    BY <1>1, <1>2, <1>7, <2>1, <2>2, <2>3, <2>4 DEF IInv, InHand
<1>9. Left'
  BY <1>1 DEF IInv, Left
<1>10. ReachableOrCancelled'
  <2> SUFFICES ASSUME NEW x \in Request, x \in Open'
               PROVE  active'[id'[x]] = x \/ x \in cancelled'
    BY <1>4 DEF ReachableOrCancelled, Open
  <2>1. x # r /\ x \in Open /\ id[x] \in Id
    BY <1>1, <1>2, <1>3 DEF Open, IInv, TypeOK
  <2> QED
    BY <1>1, <1>3, <2>1 DEF IInv, ReachableOrCancelled
<1>11. NoStaleEntries'
  <2> SUFFICES ASSUME NEW j \in Id, active'[j] # None
               PROVE  active'[j] \in Open' /\ id'[active'[j]] = j
    BY DEF NoStaleEntries
  <2>1. active'[j] = active[j] /\ active[j] \in Open /\ id[active[j]] = j
    BY <1>3 DEF IInv, NoStaleEntries
  <2>2. active[j] # r
    BY <1>3, <2>1
  <2> QED
    BY <1>1, <1>3, <2>1, <2>2 DEF Open
<1> QED
  BY <1>4, <1>5, <1>6, <1>8, <1>9, <1>10, <1>11 DEF IInv

-----------------------------------------------------------------------------
\* The threads.

LEMMA PopKeeps == ASSUME IInv, NEW w \in Thread, Pop(w) PROVE IInv'
<1> DEFINE r == Head(queue)
<1>1. /\ w \notin exited /\ current[w] = None /\ queue # <<>>
      /\ current' = [current EXCEPT ![w] = r]
      /\ queue' = Tail(queue)
      /\ UNCHANGED <<calls, id, step, answer, active, cancelled, lifecycle, reader, inline,
                     stopping, exited, broken, analysis>>
  BY DEF Pop
<1>2. /\ Tail(queue) \in Seq(Request) /\ r \in Request /\ InQueue(r)
      /\ \A x : InQueue(x) <=> x = r \/ InQueue(x)'
  <2>1. queue \in Seq(Request)
    BY DEF IInv, TypeOK
  <2> QED
    BY <2>1, <1>1, TailHolds DEF InQueue
<1> HIDE DEF r
<1>3. \A v \in Thread : current'[v] = IF v = w THEN r ELSE current[v]
  BY <1>1 DEF IInv, TypeOK
<1>4. TypeOK' /\ ReadRequests'
  BY <1>1, <1>2 DEF IInv, TypeOK, ReadRequests
<1>5. HasInline' = HasInline /\ RunsInline' = RunsInline
  BY <1>1 DEF HasInline, RunsInline
<1>6. InlineIsApart'
  BY <1>1, <1>2, <1>3, <1>5 DEF IInv, InlineIsApart
<1>7. r # None /\ step[r] # "unread"
  BY <1>2 DEF IInv, InHand, Request, None
<1>8. InHand'
  <2>1. \A x \in Request : (\E v \in Thread : current[v] = x) => (\E v \in Thread : current'[v] = x)
    BY <1>1, <1>3 DEF None, Request
  <2>2. \E v \in Thread : current'[v] = r
    BY <1>3
  <2>3. \A x \in Request : InQueue(x) => InQueue(x)' \/ \E v \in Thread : current'[v] = x
    BY <1>2, <2>2
  <2>4. \A v \in Thread : current'[v] # None => step'[current'[v]] # "unread"
    BY <1>1, <1>3, <1>7 DEF IInv, InHand
  <2> QED
    BY <1>1, <1>2, <1>5, <2>1, <2>3, <2>4 DEF IInv, InHand
<1>9. Left'
  BY <1>1, <1>3 DEF IInv, Left
<1>10. ReachableOrCancelled' /\ NoStaleEntries'
  BY <1>1 DEF IInv, ReachableOrCancelled, NoStaleEntries, Open
<1> QED
  BY <1>4, <1>6, <1>8, <1>9, <1>10 DEF IInv

\* The request of a thread is not the one the reader runs.
LEMMA HeldIsApart ==
  ASSUME IInv, NEW w \in Thread, current[w] # None
  PROVE  current[w] \in Request /\ (HasInline => inline # current[w])
BY DEF IInv, TypeOK, InlineIsApart

LEMMA HandleKeeps == ASSUME IInv, NEW w \in Thread, HandleStep(w) PROVE IInv'
<1> DEFINE r == current[w]
<1>1. /\ r # None /\ step[r] \in Unanswered
      /\ UNCHANGED <<calls, id, active, cancelled, queue, current, stopping, exited, lifecycle,
                     reader, inline, broken, analysis>>
  BY DEF HandleStep, TestToken, TestState, FindHandler, Return, execution
<1>2. r \in Request /\ (HasInline => inline # r)
  BY <1>1, HeldIsApart
<1>3. PICK s \in {"tested", "admitted", "running", "answered"} :
        /\ step' = [step EXCEPT ![r] = s]
        /\ answer' = answer \/ \E a \in Response :
                                  answer' = [answer EXCEPT ![r] = a]
  BY DEF HandleStep, TestToken, TestState, FindHandler, Return, Respond, Outcome
<1> HIDE DEF r
<1>4. answer' \in [Request -> Response]
  BY <1>2, <1>3 DEF IInv, TypeOK
<1>5. HasInline' = HasInline /\ RunsInline' = RunsInline
  BY <1>1 DEF HasInline, RunsInline
<1>6. /\ ReadRequests' /\ ReachableOrCancelled' /\ NoStaleEntries' /\ InHand'
      /\ step' \in [Request -> Progress]
      /\ \A x \in Request : InQueue(x)' <=> InQueue(x)
  BY <1>1, <1>2, <1>3, <1>4, <1>5, StepKeeps
<1>7. TypeOK'
  BY <1>1, <1>4, <1>6 DEF IInv, TypeOK
<1>8. HasInline => step'[inline] = step[inline]
  BY <1>2, <1>3 DEF IInv, TypeOK, InlineIsApart
<1>9. InlineIsApart'
  BY <1>1, <1>5, <1>6, <1>8 DEF IInv, InlineIsApart, HasInline
<1>10. Left'
  BY <1>1 DEF IInv, Left
<1> QED
  BY <1>6, <1>7, <1>9, <1>10 DEF IInv

LEMMA FinishKeeps == ASSUME IInv, NEW w \in Thread, Finish(w) PROVE IInv'
<1> DEFINE r == current[w]
<1>1. /\ r # None /\ step[r] = "answered"
      /\ active' = [active EXCEPT ![id[r]] = IF @ = r THEN None ELSE @]
      /\ step' = [step EXCEPT ![r] = "finished"]
      /\ UNCHANGED <<calls, id, answer, cancelled, queue, current, stopping, exited, lifecycle,
                     reader, inline, broken, analysis>>
  BY DEF Finish, Finished, execution
<1>2. r \in Request /\ id[r] \in Id /\ (HasInline => inline # r)
  BY <1>1, HeldIsApart DEF IInv, TypeOK
<1> HIDE DEF r
<1>3. /\ \A x \in Request : step'[x] = IF x = r THEN "finished" ELSE step[x]
      /\ \A j \in Id : active'[j] = IF j = id[r] /\ active[j] = r THEN None ELSE active[j]
  BY <1>1, <1>2 DEF IInv, TypeOK
<1>4. TypeOK'
  BY <1>1, <1>2 DEF IInv, TypeOK
<1>5. ReadRequests'
  BY <1>1, <1>2, <1>3 DEF IInv, ReadRequests
<1>6. \A x \in Request : InQueue(x)' <=> InQueue(x)
  BY <1>1 DEF InQueue
<1>7. HasInline' = HasInline /\ RunsInline' = RunsInline
  BY <1>1 DEF HasInline, RunsInline
<1>8. HasInline => step'[inline] = step[inline]
  BY <1>2, <1>3 DEF IInv, InlineIsApart
<1>9. InlineIsApart'
  BY <1>1, <1>6, <1>7, <1>8 DEF IInv, InlineIsApart, HasInline
<1>10. InHand'
  <2>1. \A v \in Thread : current'[v] = current[v]
                          /\ (current[v] # None => current[v] \in Request)
    BY <1>1 DEF IInv, TypeOK
  <2>2. \A x \in Request : /\ step'[x] = "unread" <=> step[x] = "unread"
                           /\ step'[x] = "lost" <=> step[x] = "lost"
                           /\ step'[x] \in {"unread", "written", "lost"}
                                <=> step[x] \in {"unread", "written", "lost"}
    BY <1>1, <1>3
  <2> QED
    BY <1>1, <1>6, <1>7, <2>1, <2>2 DEF IInv, InHand
<1>11. Left'
  BY <1>1 DEF IInv, Left
<1>12. ReachableOrCancelled'
  <2> SUFFICES ASSUME NEW x \in Request, x \in Open'
               PROVE  active'[id'[x]] = x \/ x \in cancelled'
    BY <1>4 DEF ReachableOrCancelled, Open
  <2>1. x # r /\ x \in Open /\ id[x] \in Id
    BY <1>3 DEF Open, IInv, TypeOK
  <2> QED
    BY <1>1, <1>3, <2>1 DEF IInv, ReachableOrCancelled
<1>13. NoStaleEntries'
  <2> SUFFICES ASSUME NEW j \in Id, active'[j] # None
               PROVE  active'[j] \in Open' /\ id'[active'[j]] = j
    BY DEF NoStaleEntries
  <2>1. active'[j] = active[j] /\ active[j] \in Open /\ id[active[j]] = j
    BY <1>3 DEF IInv, NoStaleEntries
  <2>2. active[j] # r
    BY <1>3, <2>1
  <2> QED
    BY <1>1, <1>3, <2>1, <2>2 DEF Open
<1> QED
  BY <1>4, <1>5, <1>9, <1>10, <1>11, <1>12, <1>13 DEF IInv

LEMMA WriteKeeps == ASSUME IInv, NEW w \in Thread, Write(w) PROVE IInv'
<1> DEFINE r == current[w]
<1>1. /\ r # None /\ step[r] = "finished"
      /\ step' = [step EXCEPT ![r] = Written]
      /\ Written = IF broken THEN "lost" ELSE "written"
      /\ current' = [current EXCEPT ![w] = None]
      /\ UNCHANGED <<calls, id, answer, active, cancelled, queue, lifecycle, reader, inline,
                     stopping, exited, broken, analysis>>
  BY DEF Write, Written
<1>2. r \in Request /\ (HasInline => inline # r)
  BY <1>1, HeldIsApart
<1>3. \A v \in Thread : /\ current'[v] = IF v = w THEN None ELSE current[v]
                        /\ current[v] # None => current[v] \in Request
  BY <1>1 DEF IInv, TypeOK
<1>4. \A x \in Request : (\E v \in Thread : current[v] = x)
                           => x = r \/ \E v \in Thread : current'[v] = x
  BY <1>3
<1> HIDE DEF r
<1>5. \A x \in Request : step'[x] = IF x = r THEN Written ELSE step[x]
  BY <1>1, <1>2 DEF IInv, TypeOK
<1>6. TypeOK'
  BY <1>1, <1>2 DEF IInv, TypeOK
<1>7. ReadRequests'
  BY <1>1, <1>2, <1>5 DEF IInv, ReadRequests
<1>8. \A x \in Request : InQueue(x)' <=> InQueue(x)
  BY <1>1 DEF InQueue
<1>9. HasInline' = HasInline /\ RunsInline' = RunsInline
  BY <1>1 DEF HasInline, RunsInline
<1>10. HasInline => step'[inline] = step[inline]
  BY <1>2, <1>5 DEF IInv, InlineIsApart
<1>11. InlineIsApart'
  <2>1. HasInline => \A v \in Thread : current'[v] # inline
    BY <1>3 DEF IInv, InlineIsApart, None, Request
  <2> QED
    BY <1>1, <1>8, <1>9, <1>10, <2>1 DEF IInv, InlineIsApart, HasInline
<1>12. InHand'
  <2>1. /\ \A x \in Request : x # r => step'[x] = step[x]
        /\ step'[r] \in {"written", "lost"} /\ (step'[r] = "lost" => broken)
    BY <1>1, <1>2, <1>5
  <2>2. \A v \in Thread : current'[v] # None => step'[current'[v]] # "unread"
    BY <1>3, <2>1 DEF IInv, InHand
  <2> QED
    BY <1>1, <1>2, <1>4, <1>8, <1>9, <2>1, <2>2 DEF IInv, InHand
<1>13. Left'
  BY <1>1, <1>3 DEF IInv, TypeOK, Left
<1>14. \A x \in Request : x \in Open' <=> x \in Open
  BY <1>1, <1>5 DEF Open
<1>15. ReachableOrCancelled' /\ NoStaleEntries'
  BY <1>1, <1>14 DEF IInv, ReachableOrCancelled, NoStaleEntries, Open
<1> QED
  BY <1>6, <1>7, <1>11, <1>12, <1>13, <1>15 DEF IInv

LEMMA LeaveKeeps == ASSUME IInv, NEW w \in Thread, Leave(w) PROVE IInv'
<1>1. /\ current[w] = None /\ stopping /\ queue = <<>> /\ exited' = exited \cup {w}
      /\ UNCHANGED <<calls, id, step, answer, active, cancelled, queue, current, lifecycle,
                     reader, inline, stopping, broken, analysis>>
  BY DEF Leave, MayLeave
<1>2. /\ cancelled' \subseteq Request /\ stopping' \in BOOLEAN /\ exited' \subseteq Thread
      /\ broken' \in BOOLEAN /\ analysis' \in {"idle", "busy"}
      /\ lifecycle' \in {"uninitialized", "awaiting", "running", "shutdown"}
      /\ reader' \in ReaderPlace
      /\ (HasInline => HasInline')
  BY <1>1 DEF IInv, TypeOK, HasInline, RunsInline
<1>3. /\ TypeOK' /\ ReadRequests' /\ InlineIsApart' /\ InHand'
      /\ ReachableOrCancelled' /\ NoStaleEntries'
  BY <1>1, <1>2, RequestsStay
<1>4. Left'
  BY <1>1 DEF IInv, TypeOK, Left
<1> QED
  BY <1>3, <1>4 DEF IInv

-----------------------------------------------------------------------------
LEMMA StepServing == IInv /\ [Next]_vars => IInv'
<1> SUFFICES ASSUME IInv, [Next]_vars PROVE IInv'
  OBVIOUS
<1>1. CASE \E i \in Id : QueueRequest(i)
  BY <1>1, QueueRequestKeeps
<1>2. CASE \E i \in Id : RefuseRequest(i)
  BY <1>2, RefuseRequestKeeps
<1>3. CASE \E i \in Id : \E m \in {"initialize", "shutdown"} : StartInline(i, m)
  BY <1>3, StartInlineKeeps
<1>4. CASE \/ \E i \in Id : ReadCancel(i)
           \/ ReadInitialized \/ ReadEnd \/ BreakOutput
           \/ CancelAll \/ StopExecutor \/ JoinExecutor \/ WaitIdle
           \/ StartAnalysis \/ EndAnalysis \/ WakeSpuriously
  BY <1>4, ReaderMoves
<1>5. CASE Initialize \/ Shutdown \/ FinishShutdown \/ AnswerInline
  BY <1>5, InitializeKeeps, ShutdownKeeps, FinishShutdownKeeps, AnswerInlineKeeps
<1>6. CASE \E w \in Thread : Pop(w)
  BY <1>6, PopKeeps
<1>7. CASE \E w \in Thread : HandleStep(w)
  BY <1>7, HandleKeeps
<1>8. CASE \E w \in Thread : Finish(w) \/ Write(w) \/ Leave(w)
  BY <1>8, FinishKeeps, WriteKeeps, LeaveKeeps
<1>9. CASE UNCHANGED vars
  <2>1. /\ TypeOK' /\ ReadRequests' /\ Left' /\ ReachableOrCancelled' /\ NoStaleEntries'
    BY <1>9 DEF vars, IInv, TypeOK, ReadRequests, Left, ReachableOrCancelled, NoStaleEntries,
                Open
  <2>2. InlineIsApart' /\ InHand'
    BY <1>9 DEF vars, IInv, InlineIsApart, InHand, InQueue, HasInline, RunsInline
  <2> QED
    BY <2>1, <2>2 DEF IInv
<1> QED
  BY <1>1, <1>2, <1>3, <1>4, <1>5, <1>6, <1>7, <1>8, <1>9
     DEF Next, ReaderStep, Closing, ThreadStep

LEMMA IInvSafe == IInv => Safety
<1> SUFFICES ASSUME IInv, reader = "returned"
             PROVE  \A r \in 1 .. calls : step[r] = "written" \/ (step[r] = "lost" /\ broken)
  BY DEF IInv, Safety, ReturnedMeansAnswered
<1>1. PICK w \in Thread : w \in exited
  BY ExecutorLimits DEF IInv, Left
<1>2. queue = <<>> /\ \A v \in Thread : current[v] = None
  BY <1>1 DEF IInv, Left
<1>3. \A r \in Request : ~InQueue(r)
  BY <1>2, Len(<<>>) = 0 DEF InQueue, Holds
<1>4. \A r \in Request : step[r] \in {"unread", "written", "lost"} /\ (step[r] = "lost" => broken)
  BY <1>2, <1>3 DEF IInv, InHand, HasInline, RunsInline, Request, None
<1>5. \A r \in 1 .. calls : r \in Request /\ ~(r > calls)
  BY ExecutorLimits DEF IInv, TypeOK, Request
<1> QED
  BY <1>4, <1>5 DEF IInv, ReadRequests

\* Requests in progress, and only they, can be reached by a cancellation, and
\* run() returns only when every request read has been answered or the output
\* has failed: Server::handle, Dispatcher::begin_request and finish_request,
\* RequestExecutor and run().
THEOREM ServingSafety == Spec => []Safety
BY InitServing, StepServing, IInvSafe, PTL DEF Spec

-----------------------------------------------------------------------------
\* Only requests that have been read are cancelled, and never the one that the
\* reader runs: it is the reader that cancels.
Reached ==
  /\ cancelled \subseteq 1 .. calls
  /\ HasInline => inline \notin cancelled

LEMMA ReadBound ==
  ASSUME IInv
  PROVE  /\ calls \in Nat
         /\ \A i \in Id : active[i] # None => active[i] \in 1 .. calls
         /\ calls + 1 \notin 1 .. calls
         /\ 1 .. calls \subseteq 1 .. (calls + 1)
         /\ calls + 1 \in 1 .. (calls + 1)
<1>1. calls \in 0 .. MaxRequests
  BY DEF IInv, TypeOK
<1>2. calls \in Nat
  BY <1>1, ExecutorLimits
<1>3. \A r \in Request : ~(r > calls) => r \in 1 .. calls
  BY <1>2, ExecutorLimits DEF Request
<1>4. ASSUME NEW i \in Id, active[i] # None
      PROVE  active[i] \in 1 .. calls
  <2>1. active[i] \in Request /\ step[active[i]] # "unread"
    BY <1>4 DEF IInv, NoStaleEntries, Open
  <2> QED
    BY <2>1, <1>3 DEF IInv, ReadRequests
<1> QED
  BY <1>2, <1>4

LEMMA StepReached == ASSUME IInv, Reached, [Next]_vars PROVE Reached'
<1>1. /\ calls \in Nat
      /\ \A i \in Id : active[i] # None => active[i] \in 1 .. calls
      /\ calls + 1 \notin 1 .. calls
      /\ 1 .. calls \subseteq 1 .. (calls + 1)
      /\ calls + 1 \in 1 .. (calls + 1)
  BY ReadBound
<1>2. ASSUME NEW i \in Id
      PROVE  CancelledByReuse(i) \subseteq 1 .. calls
  BY <1>1 DEF CancelledByReuse
<1>3. ASSUME NEW i \in Id, QueueRequest(i)
      PROVE  Reached'
  <2>1. /\ calls' = calls + 1 /\ cancelled' = cancelled \cup CancelledByReuse(i)
        /\ reader' = "reading"
    BY <1>3 DEF QueueRequest, Begin, Reading
  <2> QED
    BY <1>1, <1>2, <2>1 DEF Reached, HasInline, RunsInline
<1>4. ASSUME NEW i \in Id, RefuseRequest(i)
      PROVE  Reached'
  <2>1. /\ calls' = calls + 1 /\ cancelled' = cancelled \cup CancelledByReuse(i) \cup {calls + 1}
        /\ reader' \in {"reading", "failed"}
    BY <1>4 DEF RefuseRequest, Reading
  <2> QED
    BY <1>1, <1>2, <2>1 DEF Reached, HasInline, RunsInline
<1>5. ASSUME NEW i \in Id, NEW m \in {"initialize", "shutdown"}, StartInline(i, m)
      PROVE  Reached'
  <2>1. /\ calls' = calls + 1 /\ cancelled' = cancelled \cup CancelledByReuse(i)
        /\ inline' = calls + 1
    BY <1>5 DEF StartInline, Begin
  <2> QED
    BY <1>1, <1>2, <2>1 DEF Reached
<1>6. ASSUME NEW i \in Id, ReadCancel(i)
      PROVE  Reached'
  <2>1. /\ calls' = calls /\ cancelled' = cancelled \cup {active[i]} /\ reader' = "reading"
        /\ active[i] # None
    BY <1>6 DEF ReadCancel, Reading
  <2> QED
    BY <1>1, <2>1 DEF Reached, HasInline, RunsInline
<1>7. CASE CancelAll
  <2>1. calls' = calls /\ cancelled' = cancelled \cup CancelledAtEnd /\ reader' = "cancelled all"
    BY <1>7 DEF CancelAll
  <2>2. CancelledAtEnd \subseteq 1 .. calls
    BY <1>1 DEF CancelledAtEnd
  <2> QED
    BY <1>1, <2>1, <2>2 DEF Reached, HasInline, RunsInline
<1>8. ASSUME UNCHANGED <<calls, cancelled, inline>>, HasInline' => HasInline
      PROVE  Reached'
  BY <1>8 DEF Reached
<1>9. CASE Initialize \/ Shutdown \/ FinishShutdown \/ AnswerInline
  <2>1. UNCHANGED <<calls, cancelled, inline>> /\ HasInline
    BY <1>9 DEF Initialize, Shutdown, FinishShutdown, AnswerInline, HasInline, RunsInline
  <2> QED
    BY <1>8, <2>1
<1>10. CASE \/ ReadInitialized \/ ReadEnd \/ BreakOutput \/ StopExecutor \/ JoinExecutor
            \/ WaitIdle \/ StartAnalysis \/ EndAnalysis \/ WakeSpuriously
  <2>1. UNCHANGED <<calls, cancelled, inline>> /\ (HasInline' => HasInline)
    BY <1>10 DEF ReadInitialized, ReadEnd, BreakOutput, StopExecutor, JoinExecutor, WaitIdle,
                 TestIdle, Park, StartAnalysis, EndAnalysis, Woken, WakeSpuriously, HasInline,
                 RunsInline
  <2> QED
    BY <1>8, <2>1
<1>11. CASE (\E w \in Thread : ThreadStep(w)) \/ UNCHANGED vars
  <2>1. UNCHANGED <<calls, cancelled, inline, reader>>
    BY <1>11 DEF ThreadStep, HandleStep, Pop, TestToken, TestState, FindHandler, Return, Finish,
                 Write, Leave, vars
  <2> QED
    BY <1>8, <2>1 DEF HasInline, RunsInline
<1> QED
  BY <1>3, <1>4, <1>5, <1>6, <1>7, <1>9, <1>10, <1>11 DEF Next, ReaderStep, Closing

\* A cancelled request is not started, nor answered with what its handler made.
Withheld(r) ==
  /\ step'[r] = "running" => step[r] = "running"
  /\ \/ answer'[r] \in {answer[r], "cancelled"}
     \/ step[r] = "tested" /\ answer'[r] = "refused"
     \/ step[r] = "admitted" /\ answer'[r] = "unknown"

LEMMA StepWithholds == ASSUME IInv, Reached, Next, NEW r \in cancelled PROVE Withheld(r)
<1>1. r \in Request /\ r # calls + 1 /\ (HasInline => inline # r)
  BY ReadBound DEF IInv, TypeOK, Reached
<1>2. ASSUME UNCHANGED answer, UNCHANGED step
      PROVE  Withheld(r)
  BY <1>2 DEF Withheld
<1>3. ASSUME NEW x, NEW s, step' = [step EXCEPT ![x] = s], x # r \/ s # "running",
             answer' = answer \/ \E a : answer' = [answer EXCEPT ![x] = a] /\ x # r
      PROVE  Withheld(r)
  BY <1>1, <1>3 DEF IInv, TypeOK, Withheld
<1>4. ASSUME NEW i \in Id,
             \/ QueueRequest(i) \/ RefuseRequest(i)
             \/ \E m \in {"initialize", "shutdown"} : StartInline(i, m)
      PROVE  Withheld(r)
  <2>1. \E s : step' = [step EXCEPT ![calls + 1] = s]
    BY <1>4 DEF QueueRequest, RefuseRequest, StartInline
  <2>2. answer' = answer \/ \E a : answer' = [answer EXCEPT ![calls + 1] = a]
    BY <1>4 DEF QueueRequest, RefuseRequest, StartInline
  <2> QED
    BY <1>1, <1>3, <2>1, <2>2
<1>5. CASE Initialize \/ FinishShutdown \/ Shutdown
  <2>1. HasInline
    BY <1>5 DEF Initialize, FinishShutdown, Shutdown, HasInline, RunsInline
  <2>2. \/ UNCHANGED <<answer, step>>
        \/ \E a : Respond(inline, a)
    BY <1>5 DEF Initialize, FinishShutdown, Shutdown
  <2> QED
    BY <1>1, <1>2, <1>3, <2>1, <2>2 DEF Respond
<1>6. ASSUME NEW w \in Thread, HandleStep(w)
      PROVE  Withheld(r)
  <2>1. CASE current[w] = r
    BY <1>1, <1>6, <2>1 DEF HandleStep, TestToken, TestState, FindHandler, MayStart, Return,
                            Outcome, Respond, IInv, TypeOK, Withheld
  <2>2. CASE current[w] # r
    <3>1. \E s : step' = [step EXCEPT ![current[w]] = s]
      BY <1>6 DEF HandleStep, TestToken, TestState, FindHandler, Return, Respond
    <3>2. answer' = answer \/ \E a : answer' = [answer EXCEPT ![current[w]] = a]
      BY <1>6 DEF HandleStep, TestToken, TestState, FindHandler, Return, Respond
    <3> QED
      BY <1>3, <2>2, <3>1, <3>2
  <2> QED
    BY <2>1, <2>2
<1>7. ASSUME NEW w \in Thread, Pop(w) \/ Leave(w)
      PROVE  Withheld(r)
  BY <1>2, <1>7 DEF Pop, Leave
<1>8. ASSUME NEW w \in Thread, Finish(w) \/ Write(w)
      PROVE  Withheld(r)
  <2>1. PICK s \in {"finished", "written", "lost"} :
          step' = [step EXCEPT ![current[w]] = s] /\ answer' = answer
    BY <1>8 DEF Finish, Write, Written
  <2> QED
    BY <1>3, <2>1
<1>9. CASE AnswerInline
  <2>1. PICK s \in {"written", "lost"} :
          step' = [step EXCEPT ![inline] = s] /\ answer' = answer
    BY <1>9 DEF AnswerInline, Written
  <2> QED
    BY <1>3, <2>1
<1>10. CASE \/ \E i \in Id : ReadCancel(i)
            \/ ReadInitialized \/ ReadEnd \/ BreakOutput \/ Closing
            \/ StartAnalysis \/ EndAnalysis \/ WakeSpuriously
  BY <1>2, <1>10 DEF ReadCancel, ReadInitialized, ReadEnd, BreakOutput, Closing, CancelAll,
                     StopExecutor, JoinExecutor, WaitIdle, TestIdle, Park, StartAnalysis,
                     EndAnalysis, WakeSpuriously
<1> QED
  BY <1>4, <1>5, <1>6, <1>7, <1>8, <1>9, <1>10 DEF Next, ReaderStep, ThreadStep

\* A request that is cancelled before its handler is started is never given to
\* it, and one that is cancelled before its handler returns is answered with
\* the cancellation, whatever the handler made: Server::handle and
\* Dispatcher::dispatch.  Past the first test of the token it may also be
\* refused, or its method be unknown.
THEOREM CancelledAnswered == Spec => CancellationWins
<1>1. Init => Reached
  BY DEF Init, Reached, HasInline, RunsInline
<1>2. IInv /\ Reached /\ [Next]_vars => Reached'
  BY StepReached
<1>3. IInv /\ Reached /\ [Next]_vars
        => [\A r \in cancelled :
              /\ step'[r] = "running" => step[r] = "running"
              /\ \/ answer'[r] \in {answer[r], "cancelled"}
                 \/ step[r] = "tested" /\ answer'[r] = "refused"
                 \/ step[r] = "admitted" /\ answer'[r] = "unknown"]_vars
  BY StepWithholds DEF Withheld
<1> QED
  BY <1>1, <1>2, <1>3, InitServing, StepServing, PTL DEF Spec, CancellationWins

HIDE DEF Unanswered, Progress, Response, Waiting, ReaderPlace, Stops

-----------------------------------------------------------------------------
(* What is made of a message.                                              *)

Says(json, message) ==
  /\ message.kind \in {"request", "notification", "response", "errorResponse"}
  /\ Get(json, "jsonrpc") = "2.0"
  /\ message.kind # "notification" => Get(json, "id") = message.id
  /\ message.kind \in {"request", "notification"} =>
       Get(json, "method") = message.method /\ Get(json, "params") = message.params
  /\ message.kind = "response" => Get(json, "result") = message.result
  /\ message.kind = "errorResponse" => Get(json, "error") = message.result

LEMMA SaysWhatWasSent ==
  ASSUME NEW json, NEW message, Says(json, message)
  PROVE  \A name \in DOMAIN ToJson(message) : Get(json, name) = ToJson(message)[name]
<1> DEFINE isCall == message.kind \in {"request", "notification"}
           says == [jsonrpc |-> TRUE, id |-> message.kind # "notification",
                    method |-> isCall, params |-> isCall /\ message.params # "absent",
                    result |-> message.kind = "response",
                    error |-> message.kind = "errorResponse"]
           names == {n \in DOMAIN says : says[n]}
           value(name) == CASE name = "jsonrpc" -> "2.0"
                            [] name \in {"result", "error"} -> message.result
                            [] OTHER -> message[name]
<1>1. ToJson(message) = [name \in names |-> value(name)]
  BY DEF ToJson
<1>2. DOMAIN says = {"jsonrpc", "id", "method", "params", "result", "error"}
  OBVIOUS
<1>3. /\ says["id"] => message.kind # "notification"
      /\ says["method"] => isCall
      /\ says["params"] => isCall
      /\ says["result"] => message.kind = "response"
      /\ says["error"] => message.kind = "errorResponse"
  OBVIOUS
<1> HIDE DEF says
<1>4. ASSUME NEW name \in names PROVE Get(json, name) = value(name)
  <2>1. name \in DOMAIN says /\ says[name]
    OBVIOUS
  <2>2. CASE name = "jsonrpc"
    BY <2>2 DEF Says
  <2>3. CASE name \in {"result", "error"}
    BY <1>3, <2>1, <2>3 DEF Says
  <2>4. CASE name \in {"id", "method", "params"}
    BY <1>3, <2>1, <2>4 DEF Says
  <2> QED
    BY <1>2, <2>1, <2>2, <2>3, <2>4
<1> HIDE DEF names, value
<1> QED
  BY <1>1, <1>4

LEMMA IdIsThatOfTheMessage ==
  ASSUME NEW json, Get(json, "id") # "unsigned", ParseId(json) # {}
  PROVE  /\ (CHOOSE i \in ParseId(json) : TRUE) = Get(json, "id")
         /\ ParseId(json) = {Get(json, "id")}
         /\ Get(json, "id") # "absent"
<1>1. ParseId(json) = {json["id"]} /\ Get(json, "id") \in {"null", "string", "integer"}
  BY DEF ParseId
<1>2. Get(json, "id") = json["id"]
  BY <1>1 DEF Get
<1> QED
  BY <1>1, <1>2

\* Every message that can be read says what its client sent, none that has an id is
\* taken for a notification, and a call that is refused is refused under the id that
\* its client waits for (parse_message), for every JSON object whose id is not an
\* integer that only fits into 64 bits without a sign.
THEOREM MessagesCorrect ==
  ASSUME NEW json, \A name \in DOMAIN json : json[name] # "absent"
  PROVE  MessageIsUnderstood(json)
<1> DEFINE message == ParseMessage(json)
           understood == IF message.kind # "error"
             THEN /\ \A name \in DOMAIN ToJson(message) :
                       Get(json, name) = ToJson(message)[name]
                  /\ message.kind = "notification" => "id" \notin DOMAIN json
             ELSE /\ message.id \in {"null", Get(json, "id")}
                  /\ Get(json, "jsonrpc") = "2.0" /\ "method" \in DOMAIN json =>
                       ParseId(json) \subseteq {message.id}
<1>1. SUFFICES ASSUME Get(json, "id") # "unsigned" PROVE understood
  BY DEF MessageIsUnderstood
<1>2. ASSUME NEW name \in DOMAIN json PROVE Get(json, name) = json[name]
  BY DEF Get
<1>3. "id" \in DOMAIN json => Get(json, "id") # "absent"
  BY <1>2
<1>4. CASE Get(json, "jsonrpc") # "2.0"
  <2>1. message.kind = "error" /\ message.id = "null"
    BY <1>4 DEF ParseMessage, InvalidRequest, Failure
  <2> HIDE DEF message
  <2> QED
    BY <1>4, <2>1
<1>5. CASE Get(json, "jsonrpc") = "2.0" /\ "method" \in DOMAIN json
  <2> DEFINE own == IF ParseId(json) = {} THEN "null" ELSE CHOOSE i \in ParseId(json) : TRUE
             bad == \/ json["method"] # "string"
                    \/ Get(json, "params") \notin {"absent", "object", "array"}
                    \/ {"result", "error"} \cap DOMAIN json # {}
  <2>1. message = ParseCall(json)
    BY <1>5 DEF ParseMessage
  <2>2. /\ own \in {"null", Get(json, "id")} /\ ParseId(json) \subseteq {own}
        /\ ParseId(json) # {} => own = Get(json, "id")
    BY <1>1, IdIsThatOfTheMessage
  <2>3. CASE bad
    <3>1. message.kind = "error" /\ message.id = own
      BY <2>1, <2>3 DEF ParseCall, Failure
    <3> HIDE DEF message, own
    <3> QED
      BY <2>2, <3>1
  <2>4. CASE ~bad /\ HasNoId(json)
    <3>1. message = [kind |-> "notification", method |-> json["method"],
                     params |-> Get(json, "params")]
      BY <2>1, <2>4 DEF ParseCall
    <3> HIDE DEF message
    <3>2. Says(json, message) /\ message.kind = "notification"
      BY <1>2, <1>5, <3>1 DEF Says
    <3>3. "id" \notin DOMAIN json
      BY <1>3, <2>4 DEF HasNoId
    <3> QED
      BY <3>2, <3>3, SaysWhatWasSent
  <2>5. CASE ~bad /\ ~HasNoId(json) /\ ParseId(json) = {}
    <3>1. message.kind = "error" /\ message.id = "null"
      BY <2>1, <2>5 DEF ParseCall, InvalidRequest, Failure
    <3> HIDE DEF message
    <3> QED
      BY <2>5, <3>1
  <2>6. CASE ~bad /\ ~HasNoId(json) /\ ParseId(json) # {}
    <3>1. message = [kind |-> "request", id |-> own, method |-> json["method"],
                     params |-> Get(json, "params")]
      BY <2>1, <2>6 DEF ParseCall
    <3> HIDE DEF message, own
    <3>2. Says(json, message) /\ message.kind = "request"
      BY <1>2, <1>5, <2>2, <2>6, <3>1 DEF Says
    <3> QED
      BY <3>2, SaysWhatWasSent
  <2> QED
    BY <2>3, <2>4, <2>5, <2>6
<1>6. CASE Get(json, "jsonrpc") = "2.0" /\ "method" \notin DOMAIN json
  <2> DEFINE own == CHOOSE i \in ParseId(json) : TRUE
  <2>1. message = ParseAnswer(json)
    BY <1>6 DEF ParseMessage
  <2>2. ParseId(json) # {} => own = Get(json, "id")
    BY <1>1, IdIsThatOfTheMessage
  <2>3. CASE message = InvalidRequest
    <3>1. message.kind = "error" /\ message.id = "null"
      BY <2>3 DEF InvalidRequest, Failure
    <3> HIDE DEF message
    <3> QED
      BY <1>6, <3>1
  <2>4. CASE message # InvalidRequest
    <3>1. /\ ParseId(json) # {}
          /\ \/ /\ "result" \in DOMAIN json
                /\ message = [kind |-> "response", id |-> own, result |-> json["result"]]
             \/ /\ "error" \in DOMAIN json
                /\ message = [kind |-> "errorResponse", id |-> own, result |-> json["error"]]
      <4> HIDE DEF message
      <4>1. ParseId(json) # {}
        BY <2>1, <2>4 DEF ParseAnswer
      <4>2. CASE "result" \in DOMAIN json
        BY <2>1, <2>4, <4>1, <4>2 DEF ParseAnswer
      <4>3. CASE "result" \notin DOMAIN json
        BY <2>1, <2>4, <4>1, <4>3 DEF ParseAnswer
      <4> QED
        BY <4>2, <4>3
    <3> HIDE DEF message, own
    <3>2. Says(json, message) /\ message.kind \in {"response", "errorResponse"}
      BY <1>2, <1>6, <2>2, <3>1 DEF Says
    <3> QED
      BY <3>2, SaysWhatWasSent
  <2> QED
    BY <2>3, <2>4
<1> QED
  BY <1>4, <1>5, <1>6

-----------------------------------------------------------------------------
(* The least of some numbers.                                             *)

LEMMA LeastNumber ==
  ASSUME NEW T, T \subseteq Nat, T # {}
  PROVE  \E n \in T : \A m \in T : n <= m
<1>1. PICK n \in T : \A m \in T : ~(<<m, n>> \in OpToRel(<, Nat))
  BY NatLessThanWellFounded, WFMin, Zenon
<1>2. ASSUME NEW m \in T PROVE n <= m
  <2>1. n \in Nat /\ m \in Nat
    OBVIOUS
  <2>2. ~(m < n)
    BY <1>1, <2>1 DEF OpToRel
  <2> QED
    BY <2>1, <2>2
<1> QED
  BY <1>2

-----------------------------------------------------------------------------
(* What is made of the first layers.                                       *)

LEMMA OverIs ==
  ASSUME NEW f, NEW g
  PROVE  /\ DOMAIN Over(f, g) = DOMAIN f \cup DOMAIN g
         /\ \A k \in DOMAIN f \cup DOMAIN g :
              Over(f, g)[k] = IF k \in DOMAIN f THEN f[k] ELSE g[k]
BY DEF Over

OnlyParts == {"scalars", "definitions", "mappings"}

IsSettings(s, Path) ==
  /\ DOMAIN s = OnlyParts \cup {"includes"}
  /\ DOMAIN s.scalars \cap {"mappings", "includes"} = {}
  /\ s.includes \in Seq(Path)

IsLayer(layer, Path) ==
  /\ DOMAIN layer = {"settings", "origin"}
  /\ IsSettings(layer.settings, Path)

IsConfiguration(c) ==
  DOMAIN c = {"scalars", "definitions", "mappings", "includes", "origins",
              "definitionOrigins", "variants", "pipelines"}

LEMMA AppliedIs ==
  ASSUME NEW c, IsConfiguration(c), NEW s, NEW origin,
         NEW d, d = ApplySettings(c, s, origin)
  PROVE  /\ IsConfiguration(d)
         /\ d.scalars = Over(s.scalars, c.scalars)
         /\ d.definitions = Over(s.definitions, c.definitions)
         /\ d.mappings = Over(s.mappings, c.mappings)
         /\ \A k \in DOMAIN s.scalars : k \in DOMAIN d.origins /\ d.origins[k] = origin
         /\ \A k \in DOMAIN c.origins \ (DOMAIN s.scalars \cup {"mappings"}) :
              k \in DOMAIN d.origins /\ d.origins[k] = c.origins[k]
         /\ \A k \in DOMAIN s.definitions :
              k \in DOMAIN d.definitionOrigins /\ d.definitionOrigins[k] = origin
         /\ \A k \in DOMAIN c.definitionOrigins \ DOMAIN s.definitions :
              /\ k \in DOMAIN d.definitionOrigins
              /\ d.definitionOrigins[k] = c.definitionOrigins[k]
         /\ d.includes = c.includes /\ d.variants = c.variants /\ d.pipelines = c.pipelines
<1> DEFINE upper == [k \in DOMAIN s.scalars \cup
                             (IF s.mappings = Nothing THEN {} ELSE {"mappings"}) |-> origin]
           upperDefinitions == [n \in DOMAIN s.definitions |-> origin]
<1>1. /\ IsConfiguration(d)
      /\ d.scalars = Over(s.scalars, c.scalars)
      /\ d.definitions = Over(s.definitions, c.definitions)
      /\ d.mappings = Over(s.mappings, c.mappings)
      /\ d.definitionOrigins = Over(upperDefinitions, c.definitionOrigins)
      /\ d.origins = Over(upper, c.origins)
      /\ d.includes = c.includes /\ d.variants = c.variants /\ d.pipelines = c.pipelines
  BY DEF ApplySettings, IsConfiguration
<1>2. /\ DOMAIN upper \subseteq DOMAIN s.scalars \cup {"mappings"}
      /\ \A k \in DOMAIN s.scalars : k \in DOMAIN upper /\ upper[k] = origin
      /\ DOMAIN upperDefinitions = DOMAIN s.definitions
      /\ \A k \in DOMAIN s.definitions : upperDefinitions[k] = origin
  OBVIOUS
<1> HIDE DEF upper, upperDefinitions
<1>3. /\ \A k \in DOMAIN s.scalars : k \in DOMAIN d.origins /\ d.origins[k] = origin
      /\ \A k \in DOMAIN c.origins \ (DOMAIN s.scalars \cup {"mappings"}) :
           k \in DOMAIN d.origins /\ d.origins[k] = c.origins[k]
  BY <1>1, <1>2 DEF Over
<1>4. /\ \A k \in DOMAIN s.definitions :
           k \in DOMAIN d.definitionOrigins /\ d.definitionOrigins[k] = origin
      /\ \A k \in DOMAIN c.definitionOrigins \ DOMAIN s.definitions :
           /\ k \in DOMAIN d.definitionOrigins
           /\ d.definitionOrigins[k] = c.definitionOrigins[k]
  BY <1>1, <1>2 DEF Over
<1> QED
  BY <1>1, <1>3, <1>4

\* The values and the origins are of the highest of the first n layers that declares
\* a key; the mappings have no origins of their own.
Tops(values, origins, layers, n, part) ==
  /\ DOMAIN values = UNION {DOMAIN layers[i].settings[part] : i \in 1 .. n}
  /\ \A k \in DOMAIN values : \E i \in 1 .. n :
       /\ k \in DOMAIN layers[i].settings[part]
       /\ \A j \in i + 1 .. n : k \notin DOMAIN layers[j].settings[part]
       /\ values[k] = layers[i].settings[part][k]
       /\ part # "mappings" => origins[k] = layers[i].origin

LEMMA TopsOfNothing ==
  ASSUME NEW layers, NEW origins, NEW part PROVE Tops(Nothing, origins, layers, 0, part)
BY DEF Tops, Nothing

\* One layer more.
LEMMA TopsOfMore ==
  ASSUME NEW layers, NEW n \in Nat, NEW part, NEW values, NEW origins, NEW newOrigins,
         Tops(values, origins, layers, n, part),
         part # "mappings" =>
           /\ \A k \in DOMAIN layers[n + 1].settings[part] :
                newOrigins[k] = layers[n + 1].origin
           /\ \A k \in DOMAIN values \ DOMAIN layers[n + 1].settings[part] :
                newOrigins[k] = origins[k]
  PROVE  Tops(Over(layers[n + 1].settings[part], values), newOrigins, layers, n + 1, part)
<1> DEFINE said == layers[n + 1].settings[part]
           all == Over(said, values)
<1>1. /\ DOMAIN all = DOMAIN said \cup DOMAIN values
      /\ \A k \in DOMAIN all : all[k] = IF k \in DOMAIN said THEN said[k] ELSE values[k]
  <2> HIDE DEF said
  <2>1. DOMAIN all = DOMAIN said \cup DOMAIN values
    BY OverIs
  <2>2. \A k \in DOMAIN said \cup DOMAIN values :
          all[k] = IF k \in DOMAIN said THEN said[k] ELSE values[k]
    BY DEF Over
  <2> QED
    BY <2>1, <2>2
<1>2. DOMAIN all = UNION {DOMAIN layers[i].settings[part] : i \in 1 .. n + 1}
  <2>1. 1 .. n + 1 = (1 .. n) \cup {n + 1}
    OBVIOUS
  <2>2. DOMAIN values = UNION {DOMAIN layers[i].settings[part] : i \in 1 .. n}
    BY DEF Tops
  <2> QED
    BY <1>1, <2>1, <2>2
<1> HIDE DEF all
<1>3. ASSUME NEW k \in DOMAIN all
      PROVE  \E i \in 1 .. n + 1 :
               /\ k \in DOMAIN layers[i].settings[part]
               /\ \A j \in i + 1 .. n + 1 : k \notin DOMAIN layers[j].settings[part]
               /\ all[k] = layers[i].settings[part][k]
               /\ part # "mappings" => newOrigins[k] = layers[i].origin
  <2>1. CASE k \in DOMAIN said
    <3>1. n + 1 \in 1 .. n + 1 /\ (n + 1) + 1 .. n + 1 = {}
      OBVIOUS
    <3> QED
      BY <1>1, <2>1, <3>1
  <2>2. CASE k \notin DOMAIN said
    <3>1. k \in DOMAIN values /\ all[k] = values[k]
      BY <1>1, <2>2
    <3>2. PICK i \in 1 .. n :
            /\ k \in DOMAIN layers[i].settings[part]
            /\ \A j \in i + 1 .. n : k \notin DOMAIN layers[j].settings[part]
            /\ values[k] = layers[i].settings[part][k]
            /\ part # "mappings" => origins[k] = layers[i].origin
      BY <3>1 DEF Tops
    <3>3. i \in 1 .. n + 1 /\ i + 1 .. n + 1 = (i + 1 .. n) \cup {n + 1}
      OBVIOUS
    <3>4. \A j \in i + 1 .. n + 1 : k \notin DOMAIN layers[j].settings[part]
      BY <2>2, <3>2, <3>3
    <3>5. part # "mappings" => newOrigins[k] = origins[k]
      BY <2>2, <3>1
    <3> QED
      BY <3>1, <3>2, <3>3, <3>4, <3>5
  <2> QED
    BY <2>1, <2>2
<1> QED
  BY <1>2, <1>3 DEF Tops, all

\* Another sequence with the same layers at the bottom.
LEMMA TopsOfTheSame ==
  ASSUME NEW layers, NEW others, NEW n \in Nat, NEW part, NEW values, NEW origins,
         Tops(values, origins, layers, n, part), \A i \in 1 .. n : others[i] = layers[i]
  PROVE  Tops(values, origins, others, n, part)
<1>1. {DOMAIN layers[i].settings[part] : i \in 1 .. n}
        = {DOMAIN others[i].settings[part] : i \in 1 .. n}
  OBVIOUS
<1>2. ASSUME NEW k \in DOMAIN values
      PROVE  \E i \in 1 .. n :
               /\ k \in DOMAIN others[i].settings[part]
               /\ \A j \in i + 1 .. n : k \notin DOMAIN others[j].settings[part]
               /\ values[k] = others[i].settings[part][k]
               /\ part # "mappings" => origins[k] = others[i].origin
  <2>1. PICK i \in 1 .. n :
          /\ k \in DOMAIN layers[i].settings[part]
          /\ \A j \in i + 1 .. n : k \notin DOMAIN layers[j].settings[part]
          /\ values[k] = layers[i].settings[part][k]
          /\ part # "mappings" => origins[k] = layers[i].origin
    BY DEF Tops
  <2>2. i + 1 .. n \subseteq 1 .. n
    OBVIOUS
  <2> QED
    BY <2>1, <2>2
<1> QED
  BY <1>1, <1>2 DEF Tops

\* A layer below all others counts where none of them declares anything.
Under(newValues, newOrigins, values, origins, layer, part) ==
  /\ DOMAIN newValues = DOMAIN values \cup DOMAIN layer.settings[part]
  /\ \A k \in DOMAIN values :
       newValues[k] = values[k] /\ (part # "mappings" => newOrigins[k] = origins[k])
  /\ \A k \in DOMAIN layer.settings[part] \ DOMAIN values :
       /\ newValues[k] = layer.settings[part][k]
       /\ part # "mappings" => newOrigins[k] = layer.origin

LEMMA TopsOverAnother ==
  ASSUME NEW layers, NEW others, NEW n \in Nat, NEW part, NEW values, NEW origins,
         NEW newValues, NEW newOrigins,
         Tops(values, origins, layers, n, part), \A i \in 1 .. n : others[i + 1] = layers[i],
         Under(newValues, newOrigins, values, origins, others[1], part)
  PROVE  Tops(newValues, newOrigins, others, n + 1, part)
<1>0. /\ DOMAIN newValues = DOMAIN values \cup DOMAIN others[1].settings[part]
      /\ \A k \in DOMAIN values :
           newValues[k] = values[k] /\ (part # "mappings" => newOrigins[k] = origins[k])
      /\ \A k \in DOMAIN others[1].settings[part] \ DOMAIN values :
           /\ newValues[k] = others[1].settings[part][k]
           /\ part # "mappings" => newOrigins[k] = others[1].origin
  BY DEF Under
<1> DEFINE said(i) == DOMAIN others[i].settings[part]
<1>1. DOMAIN values = UNION {said(i) : i \in 2 .. n + 1}
  <2>1. DOMAIN values = UNION {DOMAIN layers[i].settings[part] : i \in 1 .. n}
    BY DEF Tops
  <2>2. ASSUME NEW i \in 1 .. n
        PROVE  i + 1 \in 2 .. n + 1 /\ DOMAIN layers[i].settings[part] = said(i + 1)
    OBVIOUS
  <2>3. ASSUME NEW i \in 2 .. n + 1
        PROVE  i - 1 \in 1 .. n /\ DOMAIN layers[i - 1].settings[part] = said(i)
    <3>1. i - 1 \in 1 .. n /\ (i - 1) + 1 = i
      OBVIOUS
    <3> QED
      BY <3>1
  <2> HIDE DEF said
  <2>4. \A k : (\E i \in 1 .. n : k \in DOMAIN layers[i].settings[part])
                 <=> \E i \in 2 .. n + 1 : k \in said(i)
    BY <2>2, <2>3
  <2>5. \A k : k \in DOMAIN values <=> \E i \in 1 .. n : k \in DOMAIN layers[i].settings[part]
    BY <2>1
  <2>6. \A k : k \in UNION {said(i) : i \in 2 .. n + 1} <=> \E i \in 2 .. n + 1 : k \in said(i)
    OBVIOUS
  <2> QED
    BY <2>4, <2>5, <2>6
<1>2. DOMAIN newValues = UNION {said(i) : i \in 1 .. n + 1}
  <2>1. 1 .. n + 1 = {1} \cup (2 .. n + 1)
    OBVIOUS
  <2> QED
    BY <1>0, <1>1, <2>1
<1>3. ASSUME NEW k \in DOMAIN newValues
      PROVE  \E i \in 1 .. n + 1 :
               /\ k \in DOMAIN others[i].settings[part]
               /\ \A j \in i + 1 .. n + 1 : k \notin DOMAIN others[j].settings[part]
               /\ newValues[k] = others[i].settings[part][k]
               /\ part # "mappings" => newOrigins[k] = others[i].origin
  <2>1. CASE k \in DOMAIN values
    <3>1. PICK i \in 1 .. n :
            /\ k \in DOMAIN layers[i].settings[part]
            /\ \A j \in i + 1 .. n : k \notin DOMAIN layers[j].settings[part]
            /\ values[k] = layers[i].settings[part][k]
            /\ part # "mappings" => origins[k] = layers[i].origin
      BY <2>1 DEF Tops
    <3>2. i + 1 \in 1 .. n + 1 /\ others[i + 1] = layers[i]
      OBVIOUS
    <3>3. ASSUME NEW j \in (i + 1) + 1 .. n + 1
          PROVE  k \notin DOMAIN others[j].settings[part]
      <4>1. j - 1 \in i + 1 .. n /\ j - 1 \in 1 .. n /\ (j - 1) + 1 = j
        OBVIOUS
      <4> QED
        BY <3>1, <4>1
    <3> QED
      BY <1>0, <2>1, <3>1, <3>2, <3>3
  <2>2. CASE k \notin DOMAIN values
    <3>1. k \in DOMAIN others[1].settings[part] /\ 1 \in 1 .. n + 1 /\ 1 + 1 = 2
      BY <1>0, <1>2, <2>2
    <3>2. \A j \in 2 .. n + 1 : k \notin said(j)
      BY <1>1, <2>2
    <3> QED
      BY <1>0, <2>2, <3>1, <3>2
  <2> QED
    BY <2>1, <2>2
<1> QED
  BY <1>2, <1>3 DEF Tops

\* What is of the highest layer is what the model calls it.
LEMMA TopsDecide ==
  ASSUME NEW layers, NEW n \in Nat, DOMAIN layers = 1 .. n, NEW part, NEW c, NEW origins,
         Tops(c[part], c[origins], layers, n, part)
  PROVE  Decides(c, layers, part, origins)
<1>1. DOMAIN c[part] = UNION {DOMAIN layers[i].settings[part] : i \in DOMAIN layers}
  BY DEF Tops
<1>2. ASSUME NEW k \in DOMAIN c[part]
      PROVE  /\ c[part][k] = Highest(layers, part, k).settings[part][k]
             /\ part # "mappings" => c[origins][k] = Highest(layers, part, k).origin
  <2>1. PICK i \in 1 .. n :
          /\ k \in DOMAIN layers[i].settings[part]
          /\ \A j \in i + 1 .. n : k \notin DOMAIN layers[j].settings[part]
          /\ c[part][k] = layers[i].settings[part][k]
          /\ part # "mappings" => c[origins][k] = layers[i].origin
    BY DEF Tops
  <2> DEFINE D == Declaring(layers, part, k)
  <2>2. i \in D /\ D \subseteq 1 .. n
    BY <2>1 DEF Declaring
  <2>3. \A j \in D : j <= i
    <3>1. \A j \in D : j \in 1 .. n /\ j \notin i + 1 .. n
      BY <2>1, <2>2 DEF Declaring
    <3> HIDE DEF D
    <3> QED
      BY <3>1
  <2> HIDE DEF D
  <2>4. (CHOOSE x \in D : \A j \in D : j <= x) = i
    <3>1. \A x \in D : (\A j \in D : j <= x) => x = i
      BY <2>2, <2>3
    <3> QED
      BY <2>2, <2>3, <3>1, Zenon
  <2>5. Highest(layers, part, k) = layers[i]
    BY <2>4 DEF Highest, D
  <2> QED
    BY <2>1, <2>5
<1> QED
  BY <1>1, <1>2 DEF Decides

-----------------------------------------------------------------------------
(* Files and groups.  Layered is a recursive function: it exists.          *)

IsMade(g, layers, n) ==
  g = [i \in 0 .. n |->
         IF i = 0 THEN NoConfiguration
         ELSE ApplySettings(g[i - 1], layers[i].settings, layers[i].origin)]

LEMMA MadeExists ==
  ASSUME NEW layers, NEW n \in Nat
  PROVE  \E g : IsMade(g, layers, n)
<1> DEFINE B == {m \in Nat : ~ \E g : IsMade(g, layers, m)}
           next(c, i) == ApplySettings(c, layers[i].settings, layers[i].origin)
<1>1. SUFFICES ASSUME B # {} PROVE FALSE
  BY <1>1
<1>2. PICK m \in B : \A k \in B : m <= k
  <2>1. B \subseteq Nat
    OBVIOUS
  <2> HIDE DEF B
  <2> QED
    BY <1>1, <2>1, LeastNumber
<1>3. m \in Nat /\ ~ \E g : IsMade(g, layers, m)
  BY <1>2
<1>4. CASE m = 0
  <2> DEFINE g == [i \in 0 .. 0 |-> NoConfiguration]
  <2>1. \A i \in 0 .. 0 : i = 0
    OBVIOUS
  <2>2. IsMade(g, layers, 0)
    BY <2>1 DEF IsMade
  <2> QED
    BY <1>3, <1>4, <2>2
<1>5. CASE m # 0
  <2>1. m - 1 \in Nat /\ m - 1 \notin B
    BY <1>2, <1>3, <1>5
  <2>2. PICK h : IsMade(h, layers, m - 1)
    BY <2>1
  <2> DEFINE g == [i \in 0 .. m |-> IF i < m THEN h[i] ELSE next(h[i - 1], i)]
  <2> HIDE DEF next
  <2>3. ASSUME NEW i \in 0 .. m
        PROVE  g[i] = IF i = 0 THEN NoConfiguration ELSE next(g[i - 1], i)
    <3>1. CASE i = m
      <4>1. g[i - 1] = h[i - 1] /\ i # 0
        BY <1>3, <1>5, <3>1
      <4>2. g[i] = next(h[i - 1], i)
        BY <3>1
      <4> QED
        BY <4>1, <4>2
    <3>2. CASE i # m
      <4>1. i \in 0 .. m - 1 /\ g[i] = h[i]
        BY <1>3, <3>2
      <4>2. i # 0 => g[i - 1] = h[i - 1]
        BY <1>3, <3>2, <4>1
      <4>3. h[i] = IF i = 0 THEN NoConfiguration ELSE next(h[i - 1], i)
        BY <2>2, <4>1 DEF IsMade, next
      <4> QED
        BY <4>1, <4>2, <4>3
    <3> QED
      BY <3>1, <3>2
  <2>4. g = [i \in 0 .. m |-> g[i]]
    OBVIOUS
  <2> HIDE DEF g
  <2>5. IsMade(g, layers, m)
    BY <2>3, <2>4 DEF IsMade, next
  <2> QED
    BY <1>3, <2>5
<1> QED
  BY <1>4, <1>5

\* What the layers come to: every part is of the highest, and nothing else is made.
AllTops(c, layers, n) ==
  /\ IsConfiguration(c)
  /\ DOMAIN c.scalars \cap {"mappings", "includes"} = {}
  /\ DOMAIN c.scalars \subseteq DOMAIN c.origins
  /\ DOMAIN c.definitions \subseteq DOMAIN c.definitionOrigins
  /\ Tops(c.scalars, c.origins, layers, n, "scalars")
  /\ Tops(c.definitions, c.definitionOrigins, layers, n, "definitions")
  /\ Tops(c.mappings, c.origins, layers, n, "mappings")

LEMMA NoConfigurationTops ==
  ASSUME NEW layers PROVE AllTops(NoConfiguration, layers, 0)
<1>1. /\ IsConfiguration(NoConfiguration)
      /\ NoConfiguration.scalars = Nothing /\ NoConfiguration.definitions = Nothing
      /\ NoConfiguration.mappings = Nothing
  BY DEF NoConfiguration, IsConfiguration
<1>2. DOMAIN Nothing = {}
  BY DEF Nothing
<1> QED
  BY <1>1, <1>2, TopsOfNothing DEF AllTops

LEMMA AppliedTops ==
  ASSUME NEW Path, NEW layers, NEW n \in Nat, NEW s, NEW origin,
         s = layers[n + 1].settings, origin = layers[n + 1].origin, IsSettings(s, Path),
         NEW c, AllTops(c, layers, n), NEW d, d = ApplySettings(c, s, origin)
  PROVE  AllTops(d, layers, n + 1)
<1>1. /\ IsConfiguration(d)
      /\ d.scalars = Over(s.scalars, c.scalars)
      /\ d.definitions = Over(s.definitions, c.definitions)
      /\ d.mappings = Over(s.mappings, c.mappings)
      /\ \A k \in DOMAIN s.scalars : k \in DOMAIN d.origins /\ d.origins[k] = origin
      /\ \A k \in DOMAIN c.origins \ (DOMAIN s.scalars \cup {"mappings"}) :
           k \in DOMAIN d.origins /\ d.origins[k] = c.origins[k]
      /\ \A k \in DOMAIN s.definitions :
           k \in DOMAIN d.definitionOrigins /\ d.definitionOrigins[k] = origin
      /\ \A k \in DOMAIN c.definitionOrigins \ DOMAIN s.definitions :
           /\ k \in DOMAIN d.definitionOrigins
           /\ d.definitionOrigins[k] = c.definitionOrigins[k]
  BY AppliedIs DEF AllTops
<1>2. /\ DOMAIN d.scalars = DOMAIN s.scalars \cup DOMAIN c.scalars
      /\ DOMAIN d.definitions = DOMAIN s.definitions \cup DOMAIN c.definitions
  BY <1>1 DEF Over
<1>3. \A k \in DOMAIN c.scalars : k \in DOMAIN c.origins /\ k # "mappings"
  BY DEF AllTops
<1>4. /\ DOMAIN d.scalars \cap {"mappings", "includes"} = {}
      /\ DOMAIN d.scalars \subseteq DOMAIN d.origins
  BY <1>1, <1>2, <1>3 DEF AllTops, IsSettings
<1>5. DOMAIN d.definitions \subseteq DOMAIN d.definitionOrigins
  BY <1>1, <1>2 DEF AllTops
<1>6. Tops(d.scalars, d.origins, layers, n + 1, "scalars")
  <2>1. Tops(c.scalars, c.origins, layers, n, "scalars")
    BY DEF AllTops
  <2>2. layers[n + 1].settings["scalars"] = s.scalars /\ layers[n + 1].origin = origin
    OBVIOUS
  <2>3. \A k \in DOMAIN c.scalars \ DOMAIN s.scalars : d.origins[k] = c.origins[k]
    BY <1>1, <1>3
  <2>4. /\ \A k \in DOMAIN layers[n + 1].settings["scalars"] :
             d.origins[k] = layers[n + 1].origin
        /\ \A k \in DOMAIN c.scalars \ DOMAIN layers[n + 1].settings["scalars"] :
             d.origins[k] = c.origins[k]
    BY <1>1, <2>2, <2>3
  <2>5. d.scalars = Over(layers[n + 1].settings["scalars"], c.scalars)
    BY <1>1, <2>2
  <2>6. Tops(Over(layers[n + 1].settings["scalars"], c.scalars), d.origins, layers, n + 1,
             "scalars")
    BY <2>1, <2>4, TopsOfMore
  <2> QED
    BY <2>5, <2>6
<1>7. Tops(d.definitions, d.definitionOrigins, layers, n + 1, "definitions")
  <2>1. Tops(c.definitions, c.definitionOrigins, layers, n, "definitions")
    BY DEF AllTops
  <2>2. layers[n + 1].settings["definitions"] = s.definitions /\ layers[n + 1].origin = origin
    OBVIOUS
  <2>3. \A k \in DOMAIN c.definitions \ DOMAIN s.definitions :
          d.definitionOrigins[k] = c.definitionOrigins[k]
    BY <1>1 DEF AllTops
  <2>4. /\ \A k \in DOMAIN layers[n + 1].settings["definitions"] :
             d.definitionOrigins[k] = layers[n + 1].origin
        /\ \A k \in DOMAIN c.definitions \ DOMAIN layers[n + 1].settings["definitions"] :
             d.definitionOrigins[k] = c.definitionOrigins[k]
    BY <1>1, <2>2, <2>3
  <2>5. d.definitions = Over(layers[n + 1].settings["definitions"], c.definitions)
    BY <1>1, <2>2
  <2>6. Tops(Over(layers[n + 1].settings["definitions"], c.definitions), d.definitionOrigins, layers, n + 1,
             "definitions")
    BY <2>1, <2>4, TopsOfMore
  <2> QED
    BY <2>5, <2>6
<1>8. Tops(d.mappings, d.origins, layers, n + 1, "mappings")
  <2>1. Tops(c.mappings, c.origins, layers, n, "mappings")
    BY DEF AllTops
  <2>2. d.mappings = Over(layers[n + 1].settings["mappings"], c.mappings)
    BY <1>1
  <2>3. Tops(Over(layers[n + 1].settings["mappings"], c.mappings), d.origins, layers, n + 1,
             "mappings")
    BY <2>1, TopsOfMore
  <2> QED
    BY <2>2, <2>3
<1> QED
  BY <1>1, <1>4, <1>5, <1>6, <1>7, <1>8 DEF AllTops

LEMMA LayeredTops ==
  ASSUME NEW Path, NEW layers, NEW n \in Nat, Len(layers) = n,
         \A i \in 1 .. n : IsLayer(layers[i], Path)
  PROVE  AllTops(Layered(layers), layers, n)
<1> DEFINE g == CHOOSE g : IsMade(g, layers, n)
<1>1. Layered(layers) = g[n]
  BY DEF Layered, IsMade
<1>2. IsMade(g, layers, n)
  BY MadeExists
<1> HIDE DEF g
<1>3. \A i \in 0 .. n : g[i] = IF i = 0 THEN NoConfiguration
                              ELSE ApplySettings(g[i - 1], layers[i].settings, layers[i].origin)
  BY <1>2 DEF IsMade
<1> DEFINE B == {i \in 0 .. n : ~AllTops(g[i], layers, i)}
<1>4. B = {}
  <2>1. SUFFICES ASSUME B # {} PROVE FALSE
    OBVIOUS
  <2>2. PICK m \in B : \A k \in B : m <= k
    <3>1. B \subseteq Nat
      OBVIOUS
    <3> HIDE DEF B
    <3> QED
      BY <2>1, <3>1, LeastNumber
  <2>3. CASE m = 0
    BY <1>3, <2>2, <2>3, NoConfigurationTops
  <2>4. CASE m # 0
    <3>1. m - 1 \in 0 .. n /\ m - 1 \in Nat /\ (m - 1) + 1 = m /\ m - 1 \notin B
          /\ 1 .. m \subseteq 1 .. n
      BY <2>2, <2>4
    <3>2. AllTops(g[m - 1], layers, m - 1)
      BY <3>1
    <3>3. g[m] = ApplySettings(g[m - 1], layers[m].settings, layers[m].origin)
      BY <1>3, <2>2, <2>4
    <3> DEFINE p == m - 1
    <3>4. p \in Nat /\ p + 1 = m /\ IsSettings(layers[p + 1].settings, Path)
      BY <3>1 DEF IsLayer
    <3>5. g[p + 1] = ApplySettings(g[p], layers[p + 1].settings, layers[p + 1].origin)
      BY <3>1, <3>3
    <3>6. AllTops(g[p], layers, p)
      BY <3>2
    <3> HIDE DEF p
    <3>7. AllTops(g[p + 1], layers, p + 1)
      BY <3>4, <3>5, <3>6, AppliedTops
    <3> QED
      BY <2>2, <3>4, <3>7
  <2> QED
    BY <2>3, <2>4
<1> QED
  BY <1>1, <1>4

-----------------------------------------------------------------------------
(* Include directories.                                                    *)

\* Somewhere in s, d comes and e has not come yet.
FirstBefore(s, d, e) == \E p \in DOMAIN s : s[p] = d /\ \A q \in 1 .. p : s[q] # e

LEMMA AppendedIs ==
  ASSUME NEW T, NEW s \in Seq(T), NEW x \in T
  PROVE  /\ Append(s, x) \in Seq(T)
         /\ DOMAIN s = 1 .. Len(s) /\ Len(s) \in Nat
         /\ DOMAIN Append(s, x) = 1 .. Len(s) + 1
         /\ \A i \in 1 .. Len(s) : Append(s, x)[i] = s[i]
         /\ Append(s, x)[Len(s) + 1] = x
OBVIOUS

IsSeen(g, s, n) ==
  g = [i \in 0 .. n |->
         IF i = 0 THEN <<>>
         ELSE IF Contains(g[i - 1], s[i]) THEN g[i - 1] ELSE Append(g[i - 1], s[i])]

LEMMA SeenExists ==
  ASSUME NEW s, NEW n \in Nat
  PROVE  \E g : IsSeen(g, s, n)
<1> DEFINE B == {m \in Nat : ~ \E g : IsSeen(g, s, m)}
           next(c, i) == IF Contains(c, s[i]) THEN c ELSE Append(c, s[i])
<1>1. SUFFICES ASSUME B # {} PROVE FALSE
  BY <1>1
<1>2. PICK m \in B : \A k \in B : m <= k
  <2>1. B \subseteq Nat
    OBVIOUS
  <2> HIDE DEF B
  <2> QED
    BY <1>1, <2>1, LeastNumber
<1>3. m \in Nat /\ ~ \E g : IsSeen(g, s, m)
  BY <1>2
<1>4. CASE m = 0
  <2> DEFINE g == [i \in 0 .. 0 |-> <<>>]
  <2>1. \A i \in 0 .. 0 : i = 0
    OBVIOUS
  <2>2. IsSeen(g, s, 0)
    BY <2>1 DEF IsSeen
  <2> QED
    BY <1>3, <1>4, <2>2
<1>5. CASE m # 0
  <2>1. m - 1 \in Nat /\ m - 1 \notin B
    BY <1>2, <1>3, <1>5
  <2>2. PICK h : IsSeen(h, s, m - 1)
    BY <2>1
  <2> DEFINE g == [i \in 0 .. m |-> IF i < m THEN h[i] ELSE next(h[i - 1], i)]
  <2> HIDE DEF next
  <2>3. ASSUME NEW i \in 0 .. m
        PROVE  g[i] = IF i = 0 THEN <<>> ELSE next(g[i - 1], i)
    <3>1. CASE i = m
      <4>1. g[i - 1] = h[i - 1] /\ i # 0
        BY <1>3, <1>5, <3>1
      <4>2. g[i] = next(h[i - 1], i)
        BY <3>1
      <4> QED
        BY <4>1, <4>2
    <3>2. CASE i # m
      <4>1. i \in 0 .. m - 1 /\ g[i] = h[i]
        BY <1>3, <3>2
      <4>2. i # 0 => g[i - 1] = h[i - 1]
        BY <1>3, <3>2, <4>1
      <4>3. h[i] = IF i = 0 THEN <<>> ELSE next(h[i - 1], i)
        BY <2>2, <4>1 DEF IsSeen, next
      <4> QED
        BY <4>1, <4>2, <4>3
    <3> QED
      BY <3>1, <3>2
  <2>4. g = [i \in 0 .. m |-> g[i]]
    OBVIOUS
  <2> HIDE DEF g
  <2>5. IsSeen(g, s, m)
    BY <2>3, <2>4 DEF IsSeen, next
  <2> QED
    BY <1>3, <2>5
<1> QED
  BY <1>4, <1>5

\* What is seen of the first n of s: all of them, in the order of their first places.
SeenOf(seen, s, n, T) ==
  /\ seen \in Seq(T)
  /\ \A x : (\E a \in DOMAIN seen : seen[a] = x) <=> \E i \in 1 .. n : s[i] = x
  /\ \A a, b \in DOMAIN seen : a < b => FirstBefore(s, seen[a], seen[b])

LEMMA SeenMore ==
  ASSUME NEW T, NEW s \in Seq(T), NEW n \in Nat, n + 1 \in 1 .. Len(s),
         NEW old, SeenOf(old, s, n, T),
         NEW seen, seen = IF Contains(old, s[n + 1]) THEN old ELSE Append(old, s[n + 1])
  PROVE  SeenOf(seen, s, n + 1, T)
<1> DEFINE x == s[n + 1]
<1>1. x \in T /\ 1 .. n + 1 = (1 .. n) \cup {n + 1} /\ DOMAIN old = 1 .. Len(old) /\ old \in Seq(T)
  BY DEF SeenOf
<1>2. Contains(old, x) <=> \E i \in 1 .. n : s[i] = x
  BY <1>1 DEF SeenOf, Contains
<1>3. CASE Contains(old, x)
  <2>1. \A y : (\E i \in 1 .. n + 1 : s[i] = y) <=> \E i \in 1 .. n : s[i] = y
    BY <1>1, <1>2, <1>3
  <2> QED
    BY <1>3, <2>1 DEF SeenOf
<1>4. CASE ~Contains(old, x)
  <2>1. seen = Append(old, x)
    BY <1>4
  <2>2. /\ seen \in Seq(T) /\ DOMAIN seen = 1 .. Len(old) + 1 /\ Len(old) \in Nat
        /\ \A i \in 1 .. Len(old) : seen[i] = old[i]
        /\ seen[Len(old) + 1] = x
    BY <1>1, <2>1, AppendedIs
  <2>3. DOMAIN seen = DOMAIN old \cup {Len(old) + 1}
    BY <1>1, <2>2
  <2>4. \A y : (\E a \in DOMAIN seen : seen[a] = y) <=> \E i \in 1 .. n + 1 : s[i] = y
    <3>1. \A y : (\E a \in DOMAIN seen : seen[a] = y)
                   <=> (\E a \in DOMAIN old : old[a] = y) \/ y = x
      BY <1>1, <2>2, <2>3
    <3>2. \A y : (\E i \in 1 .. n + 1 : s[i] = y) <=> (\E i \in 1 .. n : s[i] = y) \/ y = x
      BY <1>1
    <3>3. \A y : (\E a \in DOMAIN old : old[a] = y) <=> \E i \in 1 .. n : s[i] = y
      BY DEF SeenOf
    <3> QED
      BY <3>1, <3>2, <3>3
  <2>5. ASSUME NEW a \in DOMAIN seen, NEW b \in DOMAIN seen, a < b
        PROVE  FirstBefore(s, seen[a], seen[b])
    <3>1. a \in DOMAIN old /\ seen[a] = old[a]
      BY <1>1, <2>2, <2>5
    <3>2. CASE b \in DOMAIN old
      <4>1. seen[b] = old[b]
        BY <1>1, <2>2, <3>2
      <4> QED
        BY <2>5, <3>1, <3>2, <4>1 DEF SeenOf
    <3>3. CASE b = Len(old) + 1
      <4>1. PICK p \in 1 .. n : s[p] = old[a]
        BY <3>1 DEF SeenOf
      <4>2. p \in DOMAIN s /\ 1 .. p \subseteq 1 .. n
        OBVIOUS
      <4>3. \A q \in 1 .. p : s[q] # x
        BY <1>2, <1>4, <4>2
      <4> QED
        BY <2>2, <3>1, <3>3, <4>1, <4>2, <4>3 DEF FirstBefore
    <3> QED
      BY <2>3, <3>2, <3>3
  <2> QED
    BY <2>2, <2>4, <2>5 DEF SeenOf
<1> QED
  BY <1>3, <1>4

\* Every directory once, in the order of their first places.
LEMMA DistinctIs ==
  ASSUME NEW T, NEW s \in Seq(T)
  PROVE  SeenOf(Distinct(s), s, Len(s), T)
<1> DEFINE n == Len(s)
           g == CHOOSE g : IsSeen(g, s, n)
<1>1. Distinct(s) = g[n] /\ n \in Nat
  BY DEF Distinct, IsSeen
<1>2. IsSeen(g, s, n)
  BY <1>1, SeenExists
<1> HIDE DEF g
<1>3. \A i \in 0 .. n : g[i] = IF i = 0 THEN <<>>
                              ELSE IF Contains(g[i - 1], s[i]) THEN g[i - 1]
                              ELSE Append(g[i - 1], s[i])
  BY <1>2 DEF IsSeen
<1> DEFINE B == {i \in 0 .. n : ~SeenOf(g[i], s, i, T)}
<1>4. B = {}
  <2>1. SUFFICES ASSUME B # {} PROVE FALSE
    OBVIOUS
  <2>2. PICK m \in B : \A k \in B : m <= k
    <3>1. B \subseteq Nat
      BY <1>1
    <3> HIDE DEF B
    <3> QED
      BY <2>1, <3>1, LeastNumber
  <2>3. CASE m = 0
    <3>1. g[0] = <<>>
      BY <1>1, <1>3
    <3>2. SeenOf(<<>>, s, 0, T)
      BY DEF SeenOf
    <3> QED
      BY <2>2, <2>3, <3>1, <3>2
  <2>4. CASE m # 0
    <3> DEFINE p == m - 1
    <3>1. p \in 0 .. n /\ p \in Nat /\ p + 1 = m /\ p \notin B /\ m \in 1 .. n
      BY <1>1, <2>2, <2>4
    <3>2. SeenOf(g[p], s, p, T)
      BY <3>1
    <3>3. g[m] = IF Contains(g[p], s[m]) THEN g[p] ELSE Append(g[p], s[m])
      BY <1>3, <2>2, <2>4
    <3> HIDE DEF p
    <3>4. SeenOf(g[p + 1], s, p + 1, T)
      BY <3>1, <3>2, <3>3, SeenMore
    <3> QED
      BY <2>2, <3>1, <3>4
  <2> QED
    BY <2>3, <2>4
<1>5. n \in 0 .. n
  BY <1>1
<1> QED
  BY <1>1, <1>4, <1>5

LEMMA JoinedAre ==
  ASSUME NEW T, NEW s \in Seq(T), NEW t \in Seq(T)
  PROVE  /\ s \o t \in Seq(T)
         /\ Len(s) \in Nat /\ Len(t) \in Nat /\ Len(s \o t) = Len(s) + Len(t)
         /\ DOMAIN s = 1 .. Len(s) /\ DOMAIN t = 1 .. Len(t)
         /\ DOMAIN (s \o t) = 1 .. Len(s) + Len(t)
         /\ \A i \in 1 .. Len(s) : (s \o t)[i] = s[i]
         /\ \A i \in 1 .. Len(t) : (s \o t)[Len(s) + i] = t[i]
OBVIOUS

\* The directories of the layers above the m-th of N, in the order of the search.
OrderedAbove(directories, layers, m, N, T) ==
  /\ directories \in Seq(T)
  /\ \A x : (\E a \in DOMAIN directories : directories[a] = x)
              <=> \E l \in m + 1 .. N : Contains(layers[l].settings.includes, x)
  /\ \A a, b \in DOMAIN directories :
       a < b => SearchedBefore(layers, directories[a], directories[b])

\* What stands before another in the directories of a layer and of those that it is
\* combined with, and where.
Combined(both, first, second, T) ==
  /\ both \in Seq(T)
  /\ \A x : (\E a \in DOMAIN both : both[a] = x)
              <=> \/ \E i \in DOMAIN first : first[i] = x
                  \/ \E i \in DOMAIN second : second[i] = x
  /\ \A a, b \in DOMAIN both : a < b =>
       \/ FirstBefore(first, both[a], both[b])
       \/ /\ FirstBefore(second, both[a], both[b])
          /\ \A i \in DOMAIN first : first[i] # both[b]

LEMMA CombinedIs ==
  ASSUME NEW T, NEW first \in Seq(T), NEW second \in Seq(T)
  PROVE  Combined(Distinct(first \o second), first, second, T)
<1> DEFINE s == first \o second
           both == Distinct(s)
           n == Len(first)
           m == Len(second)
<1>1. /\ s \in Seq(T) /\ n \in Nat /\ m \in Nat /\ Len(s) = n + m
      /\ DOMAIN first = 1 .. n /\ DOMAIN second = 1 .. m /\ DOMAIN s = 1 .. n + m
      /\ \A i \in 1 .. n : s[i] = first[i]
      /\ \A i \in 1 .. m : s[n + i] = second[i]
  BY JoinedAre
<1>2. SeenOf(both, s, n + m, T)
  BY <1>1, DistinctIs
<1> HIDE DEF s, n, m, both
<1>3. ASSUME NEW i \in 1 .. n + m
      PROVE  \/ i \in 1 .. n /\ s[i] = first[i]
             \/ i - n \in 1 .. m /\ s[i] = second[i - n]
  <2>1. CASE i \in 1 .. n
    BY <1>1, <2>1
  <2>2. CASE i \notin 1 .. n
    <3>1. i - n \in 1 .. m /\ n + (i - n) = i
      BY <1>1, <2>2
    <3> QED
      BY <1>1, <3>1
  <2> QED
    BY <2>1, <2>2
<1>4. \A x : (\E i \in 1 .. n + m : s[i] = x)
               <=> (\E i \in DOMAIN first : first[i] = x) \/ \E i \in DOMAIN second : second[i] = x
  <2>1. \A i \in 1 .. n : i \in 1 .. n + m
    BY <1>1
  <2>2. \A i \in 1 .. m : n + i \in 1 .. n + m
    BY <1>1
  <2> QED
    BY <1>1, <1>3, <2>1, <2>2
<1>5. ASSUME NEW a \in DOMAIN both, NEW b \in DOMAIN both, a < b
      PROVE  \/ FirstBefore(first, both[a], both[b])
             \/ /\ FirstBefore(second, both[a], both[b])
                /\ \A i \in DOMAIN first : first[i] # both[b]
  <2>1. FirstBefore(s, both[a], both[b])
    BY <1>2, <1>5 DEF SeenOf
  <2>2. PICK p \in 1 .. n + m : s[p] = both[a] /\ \A q \in 1 .. p : s[q] # both[b]
    BY <1>1, <2>1 DEF FirstBefore
  <2>3. CASE p \in 1 .. n
    <3>1. \A q \in 1 .. p : q \in 1 .. n
      BY <1>1, <2>3
    <3> QED
      BY <1>1, <2>2, <2>3, <3>1 DEF FirstBefore
  <2>4. CASE p \notin 1 .. n
    <3>1. p - n \in 1 .. m /\ s[p] = second[p - n]
      BY <1>3, <2>4
    <3>2. ASSUME NEW q \in 1 .. p - n PROVE second[q] # both[b]
      <4>1. q \in 1 .. m /\ n + q \in 1 .. p
        BY <1>1, <3>1
      <4> QED
        BY <1>1, <2>2, <4>1
    <3>3. \A i \in 1 .. n : i \in 1 .. p
      BY <1>1, <2>4
    <3> QED
      BY <1>1, <2>2, <3>1, <3>2, <3>3 DEF FirstBefore
  <2> QED
    BY <2>3, <2>4
<1> QED
  BY <1>2, <1>4, <1>5 DEF SeenOf, Combined, both, s

\* The next lower layer adds what the higher ones do not list.
LEMMA FoundMore ==
  ASSUME NEW T, NEW N \in Nat, NEW layers, DOMAIN layers = 1 .. N,
         \A l \in 1 .. N : layers[l].settings.includes \in Seq(T),
         NEW m \in 1 .. N, NEW old, OrderedAbove(old, layers, m, N, T),
         NEW new, new = CombineIncludeDirectories(layers[m].settings.includes, old)
  PROVE  OrderedAbove(new, layers, m - 1, N, T)
<1> DEFINE h == layers[m].settings.includes
           listed(l, x) == Contains(layers[l].settings.includes, x)
<1>1. /\ new \in Seq(T)
      /\ \A x : (\E a \in DOMAIN new : new[a] = x)
                  <=> (\E i \in DOMAIN old : old[i] = x) \/ \E i \in DOMAIN h : h[i] = x
      /\ \A a, b \in DOMAIN new : a < b =>
           \/ FirstBefore(old, new[a], new[b])
           \/ /\ FirstBefore(h, new[a], new[b])
              /\ \A i \in DOMAIN old : old[i] # new[b]
  <2>1. old \in Seq(T) /\ h \in Seq(T) /\ new = Distinct(old \o h)
    BY DEF OrderedAbove, CombineIncludeDirectories
  <2> HIDE DEF h
  <2>2. Combined(new, old, h, T)
    BY <2>1, CombinedIs
  <2> QED
    BY <2>2 DEF Combined
<1>2. \A l \in 1 .. N : \A x : listed(l, x) <=>
        \E p \in DOMAIN layers[l].settings.includes : layers[l].settings.includes[p] = x
  BY DEF Contains
<1>3. \A x : (\E i \in DOMAIN old : old[i] = x) <=> \E l \in m + 1 .. N : listed(l, x)
  BY DEF OrderedAbove
<1>4. (m - 1) + 1 .. N = {m} \cup (m + 1 .. N)
  OBVIOUS
<1>5. \A x : (\E a \in DOMAIN new : new[a] = x) <=> \E l \in (m - 1) + 1 .. N : listed(l, x)
  <2>1. \A x : (\E i \in DOMAIN h : h[i] = x) <=> listed(m, x)
    BY <1>2
  <2> HIDE DEF listed, h
  <2> QED
    BY <1>1, <1>3, <1>4, <2>1
<1>6. ASSUME NEW a \in DOMAIN new, NEW b \in DOMAIN new, a < b
      PROVE  SearchedBefore(layers, new[a], new[b])
  <2> DEFINE d == new[a]
             e == new[b]
  <2>1. CASE FirstBefore(old, d, e) /\ \E r \in DOMAIN old : old[r] = e
    <3>1. PICK p \in DOMAIN old : old[p] = d /\ \A q \in 1 .. p : old[q] # e
      BY <2>1 DEF FirstBefore
    <3>2. PICK r \in DOMAIN old : old[r] = e
      BY <2>1
    <3>3. p < r
      <4>1. DOMAIN old = 1 .. Len(old) /\ Len(old) \in Nat
        BY DEF OrderedAbove
      <4>2. r \notin 1 .. p
        BY <3>1, <3>2
      <4> QED
        BY <4>1, <4>2
    <3> QED
      BY <3>1, <3>2, <3>3 DEF OrderedAbove
  <2>2. CASE FirstBefore(old, d, e) /\ ~ \E r \in DOMAIN old : old[r] = e
    <3>1. PICK l \in m + 1 .. N : listed(l, d)
      BY <1>3, <2>2 DEF FirstBefore
    <3>2. l \in 1 .. N /\ \A k \in 1 .. N : k >= l => k \in m + 1 .. N
      OBVIOUS
    <3>3. \A k \in m + 1 .. N : ~listed(k, e)
      BY <1>3, <2>2
    <3>4. PICK p \in DOMAIN layers[l].settings.includes : layers[l].settings.includes[p] = d
      BY <1>2, <3>1, <3>2
    <3>5. \A q \in 1 .. p : layers[l].settings.includes[q] # e
      <4>1. 1 .. p \subseteq DOMAIN layers[l].settings.includes
        <5>1. layers[l].settings.includes \in Seq(T)
          BY <3>2
        <5> QED
          BY <5>1
      <4> QED
        BY <1>2, <3>2, <3>3, <4>1
    <3>6. \A k \in DOMAIN layers : k > l => ~listed(k, e)
      BY <3>2, <3>3
    <3> QED
      BY <3>2, <3>4, <3>5, <3>6 DEF SearchedBefore
  <2>3. CASE FirstBefore(h, d, e) /\ \A i \in DOMAIN old : old[i] # e
    <3>1. PICK p \in DOMAIN h : h[p] = d /\ \A q \in 1 .. p : h[q] # e
      BY <2>3 DEF FirstBefore
    <3>2. \A k \in m + 1 .. N : ~listed(k, e)
      BY <1>3, <2>3
    <3>3. \A k \in DOMAIN layers : k > m => ~listed(k, e)
      BY <3>2
    <3> QED
      BY <3>1, <3>3 DEF SearchedBefore
  <2> QED
    BY <1>1, <1>6, <2>1, <2>2, <2>3
<1> QED
  BY <1>1, <1>5, <1>6 DEF OrderedAbove

IsFound(g, layers, n) ==
  g = [i \in 0 .. n |->
         IF i = 0 THEN <<>>
         ELSE CombineIncludeDirectories(layers[Len(layers) + 1 - i].settings.includes, g[i - 1])]

LEMMA FoundExists ==
  ASSUME NEW layers, NEW n \in Nat
  PROVE  \E g : IsFound(g, layers, n)
<1> DEFINE B == {m \in Nat : ~ \E g : IsFound(g, layers, m)}
           next(c, i) ==
             CombineIncludeDirectories(layers[Len(layers) + 1 - i].settings.includes, c)
<1>1. SUFFICES ASSUME B # {} PROVE FALSE
  BY <1>1
<1>2. PICK m \in B : \A k \in B : m <= k
  <2>1. B \subseteq Nat
    OBVIOUS
  <2> HIDE DEF B
  <2> QED
    BY <1>1, <2>1, LeastNumber
<1>3. m \in Nat /\ ~ \E g : IsFound(g, layers, m)
  BY <1>2
<1>4. CASE m = 0
  <2> DEFINE g == [i \in 0 .. 0 |-> <<>>]
  <2>1. \A i \in 0 .. 0 : i = 0
    OBVIOUS
  <2>2. IsFound(g, layers, 0)
    BY <2>1 DEF IsFound
  <2> QED
    BY <1>3, <1>4, <2>2
<1>5. CASE m # 0
  <2>1. m - 1 \in Nat /\ m - 1 \notin B
    BY <1>2, <1>3, <1>5
  <2>2. PICK h : IsFound(h, layers, m - 1)
    BY <2>1
  <2> DEFINE g == [i \in 0 .. m |-> IF i < m THEN h[i] ELSE next(h[i - 1], i)]
  <2> HIDE DEF next
  <2>3. ASSUME NEW i \in 0 .. m
        PROVE  g[i] = IF i = 0 THEN <<>> ELSE next(g[i - 1], i)
    <3>1. CASE i = m
      <4>1. g[i - 1] = h[i - 1] /\ i # 0
        BY <1>3, <1>5, <3>1
      <4>2. g[i] = next(h[i - 1], i)
        BY <3>1
      <4> QED
        BY <4>1, <4>2
    <3>2. CASE i # m
      <4>1. i \in 0 .. m - 1 /\ g[i] = h[i]
        BY <1>3, <3>2
      <4>2. i # 0 => g[i - 1] = h[i - 1]
        BY <1>3, <3>2, <4>1
      <4>3. h[i] = IF i = 0 THEN <<>> ELSE next(h[i - 1], i)
        BY <2>2, <4>1 DEF IsFound, next
      <4> QED
        BY <4>1, <4>2, <4>3
    <3> QED
      BY <3>1, <3>2
  <2>4. g = [i \in 0 .. m |-> g[i]]
    OBVIOUS
  <2> HIDE DEF g
  <2>5. IsFound(g, layers, m)
    BY <2>3, <2>4 DEF IsFound, next
  <2> QED
    BY <1>3, <2>5
<1> QED
  BY <1>4, <1>5

LEMMA DirectoriesAreOrdered ==
  ASSUME NEW T, NEW N \in Nat, NEW layers, DOMAIN layers = 1 .. N, Len(layers) = N,
         \A l \in 1 .. N : layers[l].settings.includes \in Seq(T)
  PROVE  OrderedAbove(IncludeDirectories(layers), layers, 0, N, T)
<1> DEFINE g == CHOOSE g : IsFound(g, layers, N)
<1>1. IncludeDirectories(layers) = g[N]
  BY DEF IncludeDirectories, IsFound
<1>2. IsFound(g, layers, N)
  BY FoundExists
<1> HIDE DEF g
<1>3. \A i \in 0 .. N : g[i] = IF i = 0 THEN <<>>
                              ELSE CombineIncludeDirectories(
                                     layers[N + 1 - i].settings.includes, g[i - 1])
  BY <1>2 DEF IsFound
<1> DEFINE B == {i \in 0 .. N : ~OrderedAbove(g[i], layers, N - i, N, T)}
<1>4. B = {}
  <2>1. SUFFICES ASSUME B # {} PROVE FALSE
    OBVIOUS
  <2>2. PICK m \in B : \A k \in B : m <= k
    <3>1. B \subseteq Nat
      OBVIOUS
    <3> HIDE DEF B
    <3> QED
      BY <2>1, <3>1, LeastNumber
  <2>3. CASE m = 0
    <3>1. g[0] = <<>> /\ N - 0 = N /\ N + 1 .. N = {}
      BY <1>3
    <3>2. OrderedAbove(<<>>, layers, N, N, T)
      BY <3>1 DEF OrderedAbove
    <3> QED
      BY <2>2, <2>3, <3>1, <3>2
  <2>4. CASE m # 0
    <3> DEFINE p == N + 1 - m
    <3>1. p \in 1 .. N /\ p - 1 = N - m /\ N - (m - 1) = p /\ m - 1 \in 0 .. N /\ m - 1 \notin B
      BY <2>2, <2>4
    <3>2. OrderedAbove(g[m - 1], layers, p, N, T)
      BY <3>1
    <3>3. g[m] = CombineIncludeDirectories(layers[p].settings.includes, g[m - 1])
      BY <1>3, <2>2, <2>4
    <3> HIDE DEF p
    <3>4. OrderedAbove(g[m], layers, p - 1, N, T)
      BY <3>1, <3>2, <3>3, FoundMore
    <3> QED
      BY <2>2, <3>1, <3>4
  <2> QED
    BY <2>3, <2>4
<1>5. N \in 0 .. N /\ N - N = 0
  OBVIOUS
<1> QED
  BY <1>1, <1>4, <1>5

\* With nothing below, this is the order that is promised, and the other way around.
LEMMA OrderedIsSearched ==
  ASSUME NEW T, NEW N \in Nat, NEW layers, DOMAIN layers = 1 .. N,
         \A l \in 1 .. N : layers[l].settings.includes \in Seq(T),
         NEW directories \in Seq(T)
  PROVE  OrderedAbove(directories, layers, 0, N, T) <=> InSearchOrder(directories, layers)
<1> DEFINE listed(l, x) == Contains(layers[l].settings.includes, x)
<1>1. \A x : x \in ToSet(directories) <=> \E a \in DOMAIN directories : directories[a] = x
  BY DEF ToSet
<1>2. \A x : x \in UNION {ToSet(layers[i].settings.includes) : i \in DOMAIN layers}
               <=> \E l \in 0 + 1 .. N : listed(l, x)
  <2>1. \A l \in 1 .. N : \A x : x \in ToSet(layers[l].settings.includes) <=> listed(l, x)
    BY DEF ToSet, Contains
  <2>2. \A x : x \in UNION {ToSet(layers[i].settings.includes) : i \in DOMAIN layers}
                 <=> \E i \in DOMAIN layers : x \in ToSet(layers[i].settings.includes)
    OBVIOUS
  <2>3. 0 + 1 .. N = 1 .. N
    OBVIOUS
  <2> HIDE DEF listed
  <2> QED
    BY <2>1, <2>2, <2>3
<1> HIDE DEF listed
<1> QED
  BY <1>1, <1>2 DEF OrderedAbove, InSearchOrder, listed

\* The directories of a layer that is put on top come first.
LEMMA VariantFirst ==
  ASSUME NEW T, NEW N \in Nat, NEW layers, DOMAIN layers = 1 .. N,
         NEW others, DOMAIN others = 1 .. N + 1, \A l \in 1 .. N : others[l] = layers[l],
         \A l \in 1 .. N + 1 : others[l].settings.includes \in Seq(T),
         NEW old, OrderedAbove(old, layers, 0, N, T),
         NEW new, new = CombineIncludeDirectories(old, others[N + 1].settings.includes)
  PROVE  OrderedAbove(new, others, 0, N + 1, T)
<1> DEFINE h == others[N + 1].settings.includes
           listed(l, x) == Contains(others[l].settings.includes, x)
<1>1. /\ new \in Seq(T)
      /\ \A x : (\E a \in DOMAIN new : new[a] = x)
                  <=> (\E i \in DOMAIN h : h[i] = x) \/ \E i \in DOMAIN old : old[i] = x
      /\ \A a, b \in DOMAIN new : a < b =>
           \/ FirstBefore(h, new[a], new[b])
           \/ /\ FirstBefore(old, new[a], new[b])
              /\ \A i \in DOMAIN h : h[i] # new[b]
  <2>1. old \in Seq(T) /\ h \in Seq(T) /\ new = Distinct(h \o old)
    BY DEF OrderedAbove, CombineIncludeDirectories
  <2> HIDE DEF h
  <2>2. Combined(new, h, old, T)
    BY <2>1, CombinedIs
  <2> QED
    BY <2>2 DEF Combined
<1>2. \A x : listed(N + 1, x) <=> \E i \in DOMAIN h : h[i] = x
  <2>1. h \in Seq(T)
    OBVIOUS
  <2> QED
    BY <2>1 DEF Contains
<1>3. \A x : (\E i \in DOMAIN old : old[i] = x) <=> \E l \in 0 + 1 .. N : listed(l, x)
  <2>1. \A l \in 0 + 1 .. N : \A x : Contains(layers[l].settings.includes, x) <=> listed(l, x)
    OBVIOUS
  <2> HIDE DEF listed
  <2> QED
    BY <2>1 DEF OrderedAbove
<1>4. \A x : (\E a \in DOMAIN new : new[a] = x) <=> \E l \in 0 + 1 .. N + 1 : listed(l, x)
  <2>1. 0 + 1 .. N + 1 = (0 + 1 .. N) \cup {N + 1}
    OBVIOUS
  <2> HIDE DEF listed, h
  <2> QED
    BY <1>1, <1>2, <1>3, <2>1
<1>5. ASSUME NEW a \in DOMAIN new, NEW b \in DOMAIN new, a < b
      PROVE  SearchedBefore(others, new[a], new[b])
  <2> DEFINE d == new[a]
             e == new[b]
  <2>1. CASE FirstBefore(h, d, e)
    <3>1. PICK p \in DOMAIN h : h[p] = d /\ \A q \in 1 .. p : h[q] # e
      BY <2>1 DEF FirstBefore
    <3>2. N + 1 \in DOMAIN others /\ \A k \in DOMAIN others : ~(k > N + 1)
      OBVIOUS
    <3> QED
      BY <3>1, <3>2 DEF SearchedBefore
  <2>2. CASE FirstBefore(old, d, e) /\ \A i \in DOMAIN h : h[i] # e
    <3>1. PICK p \in DOMAIN old : old[p] = d /\ \A q \in 1 .. p : old[q] # e
      BY <2>2 DEF FirstBefore
    <3>2. PICK r \in DOMAIN old : old[r] = e
      BY <1>1, <2>2
    <3>3. p < r
      <4>1. DOMAIN old = 1 .. Len(old) /\ Len(old) \in Nat
        BY DEF OrderedAbove
      <4>2. r \notin 1 .. p
        BY <3>1, <3>2
      <4> QED
        BY <4>1, <4>2
    <3>4. SearchedBefore(layers, d, e)
      BY <3>1, <3>2, <3>3 DEF OrderedAbove
    <3>5. PICK l \in 1 .. N : \E q \in DOMAIN layers[l].settings.includes :
            /\ layers[l].settings.includes[q] = d
            /\ \A o \in 1 .. q : layers[l].settings.includes[o] # e
            /\ \A k \in DOMAIN layers : k > l => ~Contains(layers[k].settings.includes, e)
      BY <3>4 DEF SearchedBefore
    <3>6. others[l] = layers[l] /\ l \in DOMAIN others
      OBVIOUS
    <3>7. ~listed(N + 1, e)
      BY <1>2, <2>2
    <3>8. \A k \in DOMAIN others : k > l => ~listed(k, e)
      <4>1. \A k \in 1 .. N + 1 : k = N + 1 \/ k \in 1 .. N
        OBVIOUS
      <4>2. \A k \in DOMAIN others : k = N + 1 \/ (k \in 1 .. N /\ others[k] = layers[k])
        BY <4>1
      <4> QED
        BY <3>5, <3>7, <4>2
    <3>9. PICK q \in DOMAIN others[l].settings.includes :
            /\ others[l].settings.includes[q] = d
            /\ \A o \in 1 .. q : others[l].settings.includes[o] # e
      BY <3>5, <3>6
    <3> HIDE DEF d, e, h
    <3>10. \A k \in DOMAIN others : k > l => ~Contains(others[k].settings.includes, e)
      BY <3>8
    <3>11. SearchedBefore(others, d, e)
      BY <3>6, <3>9, <3>10 DEF SearchedBefore
    <3> QED
      BY <3>11 DEF d, e
  <2> QED
    BY <1>1, <1>5, <2>1, <2>2
<1> QED
  BY <1>1, <1>4, <1>5 DEF OrderedAbove

\* A layer below that lists nothing changes nothing.
LEMMA SearchedAbove ==
  ASSUME NEW T, NEW N \in Nat, NEW layers, DOMAIN layers = 1 .. N,
         NEW others, DOMAIN others = 1 .. N + 1, \A l \in 1 .. N : others[l + 1] = layers[l],
         \A x : ~Contains(others[1].settings.includes, x),
         NEW directories, OrderedAbove(directories, layers, 0, N, T)
  PROVE  OrderedAbove(directories, others, 0, N + 1, T)
<1> DEFINE listed(l, x) == Contains(others[l].settings.includes, x)
<1>1. \A x : (\E a \in DOMAIN directories : directories[a] = x)
               <=> \E l \in 0 + 1 .. N + 1 : listed(l, x)
  <2>1. \A x : ~listed(1, x)
    OBVIOUS
  <2>2. \A l \in 1 .. N : l + 1 \in 1 .. N + 1
          /\ \A x : Contains(layers[l].settings.includes, x) <=> listed(l + 1, x)
    OBVIOUS
  <2>3. ASSUME NEW l \in 1 .. N + 1, l # 1
        PROVE  l - 1 \in 1 .. N
               /\ \A x : Contains(layers[l - 1].settings.includes, x) <=> listed(l, x)
    <3>1. l - 1 \in 1 .. N /\ (l - 1) + 1 = l
      BY <2>3
    <3> QED
      BY <2>2, <3>1
  <2>4. 0 + 1 = 1
    OBVIOUS
  <2>5. \A x : (\E a \in DOMAIN directories : directories[a] = x)
                 <=> \E l \in 1 .. N : Contains(layers[l].settings.includes, x)
    BY <2>4 DEF OrderedAbove
  <2> HIDE DEF listed
  <2>6. ASSUME NEW a \in DOMAIN directories
        PROVE  \E l \in 1 .. N + 1 : listed(l, directories[a])
    BY <2>2, <2>5
  <2>7. ASSUME NEW x, NEW l \in 1 .. N + 1, listed(l, x)
        PROVE  \E a \in DOMAIN directories : directories[a] = x
    <3>1. l # 1
      BY <2>1, <2>7
    <3>2. l - 1 \in 1 .. N /\ Contains(layers[l - 1].settings.includes, x)
      BY <2>3, <2>7, <3>1
    <3> QED
      BY <2>5, <3>2
  <2> QED
    BY <2>4, <2>6, <2>7
<1>2. ASSUME NEW d, NEW e, SearchedBefore(layers, d, e) PROVE SearchedBefore(others, d, e)
  <2>1. PICK l \in 1 .. N : \E q \in DOMAIN layers[l].settings.includes :
          /\ layers[l].settings.includes[q] = d
          /\ \A o \in 1 .. q : layers[l].settings.includes[o] # e
          /\ \A k \in DOMAIN layers : k > l => ~Contains(layers[k].settings.includes, e)
    BY <1>2 DEF SearchedBefore
  <2>2. l + 1 \in DOMAIN others /\ others[l + 1] = layers[l]
    OBVIOUS
  <2>3. ASSUME NEW k \in DOMAIN others, k > l + 1 PROVE ~listed(k, e)
    <3>1. k - 1 \in 1 .. N /\ (k - 1) + 1 = k /\ k - 1 > l
      BY <2>3
    <3>2. others[k] = layers[k - 1]
      BY <3>1
    <3>3. ~Contains(layers[k - 1].settings.includes, e)
      BY <2>1, <3>1
    <3> QED
      BY <3>2, <3>3
  <2>4. PICK q \in DOMAIN others[l + 1].settings.includes :
          /\ others[l + 1].settings.includes[q] = d
          /\ \A o \in 1 .. q : others[l + 1].settings.includes[o] # e
    BY <2>1, <2>2
  <2>5. \A k \in DOMAIN others : k > l + 1 => ~Contains(others[k].settings.includes, e)
    BY <2>3
  <2> QED
    BY <2>2, <2>4, <2>5 DEF SearchedBefore
<1> HIDE DEF listed
<1> QED
  BY <1>1, <1>2 DEF OrderedAbove, listed

-----------------------------------------------------------------------------
(* A configuration stands on its layers: every part is of the highest, and *)
(* the include directories are in their order.                             *)

Stands(c, layers, n, Path) ==
  /\ n \in Nat /\ Len(layers) = n /\ DOMAIN layers = 1 .. n
  /\ \A l \in 1 .. n : IsLayer(layers[l], Path)
  /\ AllTops(c, layers, n)
  /\ OrderedAbove(c.includes, layers, 0, n, Path)

\* Only the origins of what is declared count.
LEMMA TopsOfOtherOrigins ==
  ASSUME NEW layers, NEW n \in Nat, NEW part, NEW values, NEW origins, NEW newOrigins,
         Tops(values, origins, layers, n, part),
         part # "mappings" => \A k \in DOMAIN values : newOrigins[k] = origins[k]
  PROVE  Tops(values, newOrigins, layers, n, part)
BY DEF Tops

LEMMA AllTopsOfTheSame ==
  ASSUME NEW layers, NEW n \in Nat, NEW c, AllTops(c, layers, n),
         NEW d, IsConfiguration(d), d.scalars = c.scalars, d.definitions = c.definitions,
         d.mappings = c.mappings, d.definitionOrigins = c.definitionOrigins, NEW origin,
         d.origins = c.origins \/ d.origins = Over(Only("includes", origin), c.origins)
  PROVE  AllTops(d, layers, n)
<1>1. /\ DOMAIN c.scalars \cap {"mappings", "includes"} = {}
      /\ DOMAIN c.scalars \subseteq DOMAIN c.origins
      /\ DOMAIN c.definitions \subseteq DOMAIN c.definitionOrigins
      /\ Tops(c.scalars, c.origins, layers, n, "scalars")
      /\ Tops(c.definitions, c.definitionOrigins, layers, n, "definitions")
      /\ Tops(c.mappings, c.origins, layers, n, "mappings")
  BY DEF AllTops
<1>2. \A k \in DOMAIN c.origins :
        k \in DOMAIN d.origins /\ (k # "includes" => d.origins[k] = c.origins[k])
  BY DEF Over, Only
<1>3. \A k \in DOMAIN c.scalars : k \in DOMAIN d.origins /\ d.origins[k] = c.origins[k]
  BY <1>1, <1>2
<1>4. Tops(c.scalars, d.origins, layers, n, "scalars")
  BY <1>1, <1>3, TopsOfOtherOrigins
<1>5. Tops(c.mappings, d.origins, layers, n, "mappings")
  BY <1>1, TopsOfOtherOrigins
<1> QED
  BY <1>1, <1>3, <1>4, <1>5 DEF AllTops

\* What files and groups come to.
LEMMA MergedStands ==
  ASSUME NEW Path, NEW n \in Nat, NEW layers, Len(layers) = n, DOMAIN layers = 1 .. n,
         \A i \in 1 .. n : IsLayer(layers[i], Path), NEW variants, NEW pipelines
  PROVE  /\ Stands(MergeLayers(layers, variants, pipelines), layers, n, Path)
         /\ MergeLayers(layers, variants, pipelines).variants = variants
<1> DEFINE c == Layered(layers)
           d == MergeLayers(layers, variants, pipelines)
           origin == IF \A o, p \in IncludeOrigins(layers) : o = p
                     THEN CHOOSE o \in IncludeOrigins(layers) : TRUE ELSE <<"multiple">>
<1>1. AllTops(c, layers, n)
  BY LayeredTops
<1>2. /\ IsConfiguration(d) /\ d.scalars = c.scalars /\ d.definitions = c.definitions
      /\ d.mappings = c.mappings /\ d.definitionOrigins = c.definitionOrigins
      /\ d.origins = c.origins \/ d.origins = Over(Only("includes", origin), c.origins)
      /\ d.includes = IncludeDirectories(layers) /\ d.variants = variants
  <2>1. IsConfiguration(c)
    BY <1>1 DEF AllTops
  <2> HIDE DEF c
  <2> QED
    BY <2>1 DEF MergeLayers, IsConfiguration, c
<1> HIDE DEF c, d, origin
<1>3. AllTops(d, layers, n)
  BY <1>1, <1>2, AllTopsOfTheSame
<1>4. \A l \in 1 .. n : layers[l].settings.includes \in Seq(Path)
  BY DEF IsLayer, IsSettings
<1>5. OrderedAbove(d.includes, layers, 0, n, Path)
  BY <1>2, <1>4, DirectoriesAreOrdered
<1> QED
  BY <1>2, <1>3, <1>5 DEF Stands, d

LEMMA ClientLayerIs ==
  ASSUME NEW Path, NEW version, NEW layer, layer = ClientLayer(version)
  PROVE  /\ layer.settings.scalars = Only("languageVersion", version)
         /\ layer.settings.definitions = Nothing /\ layer.settings.mappings = Nothing
         /\ layer.settings.includes \in Seq(Path)
         /\ \A x : ~Contains(layer.settings.includes, x)
         /\ layer.origin = <<"client defaults">>
         /\ IsLayer(layer, Path)
<1> DEFINE scalars == Only("languageVersion", version)
<1>1. layer.settings = [NoSettings EXCEPT !.scalars = scalars]
      /\ layer.origin = <<"client defaults">>
  BY DEF ClientLayer
<1> HIDE DEF scalars
<1>2. [NoSettings EXCEPT !.scalars = scalars]
        = [scalars |-> scalars, definitions |-> Nothing,
           mappings |-> Nothing, includes |-> <<>>]
  BY DEF NoSettings
<1> DEFINE none == <<>>
<1>3. none \in Seq(Path) /\ \A x : ~Contains(none, x)
  BY DEF Contains
<1> HIDE DEF none
<1>4. [NoSettings EXCEPT !.scalars = scalars]
        = [scalars |-> scalars, definitions |-> Nothing,
           mappings |-> Nothing, includes |-> none]
  BY <1>2 DEF none
<1>5. DOMAIN scalars = {"languageVersion"} /\ DOMAIN layer = {"settings", "origin"}
  BY DEF scalars, Only, ClientLayer
<1>6. /\ layer.settings.scalars = scalars
      /\ layer.settings.definitions = Nothing /\ layer.settings.mappings = Nothing
      /\ layer.settings.includes = none
      /\ DOMAIN layer.settings = {"scalars", "definitions", "mappings", "includes"}
  BY <1>1, <1>4
<1>7. IsLayer(layer, Path)
  BY <1>3, <1>5, <1>6 DEF IsLayer, IsSettings, OnlyParts
<1> QED
  BY <1>1, <1>3, <1>6, <1>7 DEF scalars

\* What the client proposes stands below.
LiesUnder(layer, others, layers, n) ==
  /\ Len(others) = n + 1 /\ DOMAIN others = 1 .. n + 1 /\ others[1] = layer
  /\ \A l \in 1 .. n : others[l + 1] = layers[l]

LEMMA DefaultStands ==
  ASSUME NEW Path, NEW n \in Nat, NEW layers, NEW c, Stands(c, layers, n, Path),
         NEW proposed, proposed # {}, NEW version, version = The(proposed, 0),
         NEW others, LiesUnder(ClientLayer(version), others, layers, n),
         NEW d, d = ClientDefault(c, proposed)
  PROVE  Stands(d, others, n + 1, Path) /\ d.variants = c.variants
<1> DEFINE layer == others[1]
<1>0. /\ Len(others) = n + 1 /\ DOMAIN others = 1 .. n + 1
      /\ \A l \in 1 .. n : others[l + 1] = layers[l]
      /\ others[1] = ClientLayer(version)
  BY DEF LiesUnder
<1>1. /\ layer.settings.scalars = Only("languageVersion", version)
      /\ layer.settings.definitions = Nothing /\ layer.settings.mappings = Nothing
      /\ \A x : ~Contains(layer.settings.includes, x)
      /\ layer.origin = <<"client defaults">> /\ IsLayer(layer, Path)
  BY <1>0, ClientLayerIs
<1>2. /\ IsConfiguration(c) /\ DOMAIN c.scalars \cap {"mappings", "includes"} = {}
      /\ DOMAIN c.scalars \subseteq DOMAIN c.origins
      /\ DOMAIN c.definitions \subseteq DOMAIN c.definitionOrigins
      /\ Tops(c.scalars, c.origins, layers, n, "scalars")
      /\ Tops(c.definitions, c.definitionOrigins, layers, n, "definitions")
      /\ Tops(c.mappings, c.origins, layers, n, "mappings")
      /\ OrderedAbove(c.includes, layers, 0, n, Path)
      /\ \A l \in 1 .. n : IsLayer(layers[l], Path)
  BY DEF AllTops, Stands
<1>3. /\ IsConfiguration(d) /\ d.definitions = c.definitions /\ d.mappings = c.mappings
      /\ d.definitionOrigins = c.definitionOrigins /\ d.includes = c.includes
      /\ d.variants = c.variants
      /\ \/ /\ "languageVersion" \in DOMAIN c.scalars
            /\ d.scalars = c.scalars /\ d.origins = c.origins
         \/ /\ "languageVersion" \notin DOMAIN c.scalars
            /\ d.scalars = Over(Only("languageVersion", version), c.scalars)
            /\ d.origins = Over(Only("languageVersion", layer.origin), c.origins)
  BY <1>1, <1>2 DEF ClientDefault, IsConfiguration
<1> HIDE DEF layer
<1>4. /\ DOMAIN d.scalars = DOMAIN c.scalars \cup {"languageVersion"}
      /\ \A k \in DOMAIN c.scalars : d.scalars[k] = c.scalars[k] /\ d.origins[k] = c.origins[k]
      /\ "languageVersion" \notin DOMAIN c.scalars =>
           d.scalars["languageVersion"] = version /\ d.origins["languageVersion"] = layer.origin
      /\ DOMAIN d.scalars \subseteq DOMAIN d.origins
  <2>1. CASE "languageVersion" \in DOMAIN c.scalars
    BY <1>2, <1>3, <2>1
  <2>2. CASE "languageVersion" \notin DOMAIN c.scalars
    <3> DEFINE low == Only("languageVersion", version)
               from == Only("languageVersion", layer.origin)
    <3>1. /\ DOMAIN low = {"languageVersion"} /\ low["languageVersion"] = version
          /\ DOMAIN from = {"languageVersion"} /\ from["languageVersion"] = layer.origin
      BY DEF Only
    <3>2. d.scalars = Over(low, c.scalars) /\ d.origins = Over(from, c.origins)
      BY <1>3, <2>2
    <3> HIDE DEF low, from
    <3> QED
      BY <1>2, <2>2, <3>1, <3>2 DEF Over
  <2> QED
    BY <2>1, <2>2
<1>5. /\ DOMAIN layer.settings["scalars"] = {"languageVersion"}
      /\ layer.settings["scalars"]["languageVersion"] = version
      /\ DOMAIN layer.settings["definitions"] = {} /\ DOMAIN layer.settings["mappings"] = {}
  BY <1>1 DEF Only, Nothing
<1>6. Tops(d.scalars, d.origins, others, n + 1, "scalars")
  <2>1. Under(d.scalars, d.origins, c.scalars, c.origins, layer, "scalars")
    BY <1>4, <1>5 DEF Under
  <2> QED
    BY <1>0, <1>2, <2>1, TopsOverAnother DEF layer
<1>7. Tops(d.definitions, d.definitionOrigins, others, n + 1, "definitions")
  <2>1. Under(d.definitions, d.definitionOrigins, c.definitions, c.definitionOrigins, layer,
              "definitions")
    BY <1>3, <1>5 DEF Under
  <2> QED
    BY <1>0, <1>2, <2>1, TopsOverAnother DEF layer
<1>8. Tops(d.mappings, d.origins, others, n + 1, "mappings")
  <2>1. Under(d.mappings, d.origins, c.mappings, c.origins, layer, "mappings")
    BY <1>3, <1>5 DEF Under
  <2> QED
    BY <1>0, <1>2, <2>1, TopsOverAnother DEF layer
<1>9. AllTops(d, others, n + 1)
  BY <1>2, <1>3, <1>4, <1>6, <1>7, <1>8 DEF AllTops
<1>10. OrderedAbove(d.includes, others, 0, n + 1, Path)
  <2>1. DOMAIN layers = 1 .. n
    BY DEF Stands
  <2>2. \A x : ~Contains(others[1].settings.includes, x)
    BY <1>1 DEF layer
  <2>3. OrderedAbove(d.includes, layers, 0, n, Path)
    BY <1>2, <1>3
  <2> QED
    BY <1>0, <2>1, <2>2, <2>3, SearchedAbove
<1>11. \A l \in 1 .. n + 1 : IsLayer(others[l], Path)
  <2>1. IsLayer(others[1], Path)
    BY <1>1 DEF layer
  <2>2. ASSUME NEW l \in 1 .. n + 1, l # 1 PROVE IsLayer(others[l], Path)
    <3>1. l - 1 \in 1 .. n /\ (l - 1) + 1 = l
      BY <2>2
    <3> QED
      BY <1>0, <1>2, <3>1
  <2> QED
    BY <2>1, <2>2
<1> QED
  BY <1>0, <1>3, <1>9, <1>10, <1>11 DEF Stands

\* A variant that is applied is one of those that there are.
LEMMA AppliedExists ==
  ASSUME NEW V, NEW variants \in Seq(V), NEW name, Selection(variants, name) = "applied"
  PROVE  \E v \in V : VariantSettings(variants, name) = v.settings
<1> DEFINE found == {i \in DOMAIN variants : variants[i].name = name}
<1>1. found # {}
  BY DEF Selection
<1>2. found \subseteq Nat /\ \A i \in found : variants[i] \in V
  OBVIOUS
<1>3. VariantSettings(variants, name) = variants[Min(found)].settings
  BY DEF VariantSettings
<1> HIDE DEF found
<1>4. Min(found) \in found
  <2>1. \E i \in found : \A j \in found : i <= j
    BY <1>1, <1>2, LeastNumber
  <2> QED
    BY <2>1 DEF Min
<1> QED
  BY <1>2, <1>3, <1>4

LEMMA VariantStands ==
  ASSUME NEW Path, NEW n \in Nat, NEW layers, NEW c, Stands(c, layers, n, Path),
         NEW name, Selection(c.variants, name) = "applied",
         NEW s, s = VariantSettings(c.variants, name), IsSettings(s, Path),
         NEW others, Len(others) = n + 1, DOMAIN others = 1 .. n + 1,
         \A l \in 1 .. n : others[l] = layers[l],
         others[n + 1].settings = s, others[n + 1].origin = <<"variant", name>>,
         DOMAIN others[n + 1] = {"settings", "origin"}
  PROVE  Stands(ApplyVariant(c, name), others, n + 1, Path)
<1> DEFINE origin == <<"variant", name>>
           a == ApplySettings(c, s, origin)
           d == ApplyVariant(c, name)
<1>1. /\ AllTops(c, layers, n) /\ OrderedAbove(c.includes, layers, 0, n, Path)
      /\ \A l \in 1 .. n : IsLayer(layers[l], Path)
      /\ DOMAIN layers = 1 .. n /\ Len(layers) = n
  BY DEF Stands
<1>2. s.includes \in Seq(Path) /\ IsConfiguration(c)
  BY <1>1 DEF IsSettings, AllTops
<1>3. IsConfiguration(a) /\ a.includes = c.includes
  BY <1>2, AppliedIs
<1> HIDE DEF a
<1>4. d = [a EXCEPT !.includes = CombineIncludeDirectories(@, s.includes),
                    !.origins = IF s.includes = <<>> THEN @
                                ELSE Over(Only("includes", origin), @)]
  BY DEF ApplyVariant, a
<1> HIDE DEF d, origin
<1>5. /\ IsConfiguration(d) /\ d.scalars = a.scalars /\ d.definitions = a.definitions
      /\ d.mappings = a.mappings /\ d.definitionOrigins = a.definitionOrigins
      /\ d.origins = a.origins \/ d.origins = Over(Only("includes", origin), a.origins)
      /\ d.includes = CombineIncludeDirectories(c.includes, s.includes)
  BY <1>3, <1>4 DEF IsConfiguration
<1>6. AllTops(c, others, n)
  BY <1>1, TopsOfTheSame DEF AllTops
<1>7. AllTops(a, others, n + 1)
  BY <1>6, AppliedTops DEF a, origin
<1>8. AllTops(d, others, n + 1)
  BY <1>5, <1>7, AllTopsOfTheSame
<1>9. \A l \in 1 .. n + 1 : IsLayer(others[l], Path)
  <2>1. 1 .. n + 1 = (1 .. n) \cup {n + 1}
    OBVIOUS
  <2>2. IsLayer(others[n + 1], Path)
    BY DEF IsLayer
  <2> QED
    BY <1>1, <2>1, <2>2
<1>10. OrderedAbove(d.includes, others, 0, n + 1, Path)
  <2>1. \A l \in 1 .. n + 1 : others[l].settings.includes \in Seq(Path)
    BY <1>9 DEF IsLayer, IsSettings
  <2> QED
    BY <1>1, <1>5, <2>1, VariantFirst
<1> QED
  BY <1>8, <1>9, <1>10 DEF Stands, d

-----------------------------------------------------------------------------
(* On top: the editor settings.                                            *)

\* What is cleared goes, from the layers as from what they come to.
Lacks(lower, layer, cleared) ==
  /\ DOMAIN lower.settings.scalars = DOMAIN layer.settings.scalars \ cleared
  /\ \A k \in DOMAIN lower.settings.scalars :
       lower.settings.scalars[k] = layer.settings.scalars[k]
  /\ lower.origin = layer.origin

LEMMA WithoutLacks ==
  ASSUME NEW Path, NEW layer, IsLayer(layer, Path), NEW cleared
  PROVE  Lacks(Without(layer, cleared), layer, cleared)
<1> DEFINE s == layer.settings
           kept == [k \in DOMAIN s.scalars \ cleared |-> s.scalars[k]]
           lower == Without(layer, cleared)
<1>1. DOMAIN layer = {"settings", "origin"} /\ "scalars" \in DOMAIN s
  BY DEF IsLayer, IsSettings, OnlyParts
<1>2. lower.settings = [s EXCEPT !.scalars = kept] /\ lower.origin = layer.origin
  BY <1>1 DEF Without
<1> HIDE DEF kept, lower
<1>3. lower.settings.scalars = kept
  BY <1>1, <1>2
<1> QED
  BY <1>2, <1>3 DEF Lacks, kept, lower

LEMMA EditorLayerIs ==
  ASSUME NEW scalars
  PROVE  EditorLayer(scalars).settings.scalars = scalars /\ EditorLayer(scalars).origin = Editor
BY DEF EditorLayer, NoSettings

LEMMA TopsOfKept ==
  ASSUME NEW layers, NEW n \in Nat, NEW values, NEW origins,
         Tops(values, origins, layers, n, "scalars"), NEW cleared, NEW below,
         \A i \in 1 .. n : Lacks(below[i], layers[i], cleared)
  PROVE  Tops([k \in DOMAIN values \ cleared |-> values[k]], origins, below, n, "scalars")
<1> DEFINE kept == [k \in DOMAIN values \ cleared |-> values[k]]
           said(i) == DOMAIN layers[i].settings["scalars"]
           left(i) == DOMAIN below[i].settings["scalars"]
<1>1. DOMAIN kept = DOMAIN values \ cleared /\ \A k \in DOMAIN kept : kept[k] = values[k]
  OBVIOUS
<1>2. \A i \in 1 .. n : left(i) = said(i) \ cleared
  BY DEF Lacks
<1> HIDE DEF kept
<1>3. DOMAIN kept = UNION {left(i) : i \in 1 .. n}
  <2>1. DOMAIN values = UNION {said(i) : i \in 1 .. n}
    BY DEF Tops
  <2> HIDE DEF said, left
  <2>2. \A k : k \in UNION {left(i) : i \in 1 .. n} <=> \E i \in 1 .. n : k \in left(i)
    OBVIOUS
  <2>3. \A k : k \in DOMAIN values <=> \E i \in 1 .. n : k \in said(i)
    BY <2>1
  <2>4. \A k : k \in DOMAIN kept <=> \E i \in 1 .. n : k \in left(i)
    BY <1>1, <1>2, <2>3
  <2> QED
    BY <2>2, <2>4
<1>4. ASSUME NEW k \in DOMAIN kept
      PROVE  \E i \in 1 .. n :
               /\ k \in left(i)
               /\ \A j \in i + 1 .. n : k \notin left(j)
               /\ kept[k] = below[i].settings["scalars"][k]
               /\ origins[k] = below[i].origin
  <2>1. PICK i \in 1 .. n :
          /\ k \in said(i)
          /\ \A j \in i + 1 .. n : k \notin said(j)
          /\ values[k] = layers[i].settings["scalars"][k]
          /\ origins[k] = layers[i].origin
    BY <1>1 DEF Tops
  <2>2. k \in left(i) /\ below[i].settings["scalars"][k] = layers[i].settings["scalars"][k]
    BY <1>1, <1>2, <2>1 DEF Lacks
  <2>3. \A j \in i + 1 .. n : k \notin left(j)
    <3>1. i + 1 .. n \subseteq 1 .. n
      OBVIOUS
    <3> HIDE DEF said, left
    <3> QED
      BY <1>2, <2>1, <3>1
  <2> QED
    BY <1>1, <2>1, <2>2, <2>3 DEF Lacks
<1>5. Tops(kept, origins, below, n, "scalars")
  BY <1>3, <1>4, Zenon DEF Tops
<1> QED
  BY <1>5 DEF kept

LEMMA OverridesWin ==
  ASSUME NEW Path, NEW n \in Nat, NEW layers, NEW c, Stands(c, layers, n, Path),
         NEW overrides
  PROVE  HighestLayerWins(ApplyConfigurationOverrides(c, overrides), layers, overrides)
<1> DEFINE d == ApplyConfigurationOverrides(c, overrides)
           cleared == {k \in DOMAIN overrides.scalars : overrides.scalars[k] = Cleared}
           kept == {k \in DOMAIN overrides.scalars : overrides.scalars[k] # Cleared}
           below == [i \in DOMAIN layers |-> Without(layers[i], cleared)]
           set == [k \in kept |-> overrides.scalars[k]]
           top == EditorLayer(set)
           all == Append(below, top)
           over == Over(overrides.scalars, c.scalars)
           edited == DOMAIN overrides.scalars
                       \cup {x \in {"includes"} : overrides.includes # {}}
                       \cup {x \in {"mappings"} : The(overrides.mappings, Nothing) # Nothing}
<1>1. /\ IsConfiguration(c) /\ DOMAIN c.scalars \cap {"mappings", "includes"} = {}
      /\ DOMAIN c.scalars \subseteq DOMAIN c.origins
      /\ Tops(c.scalars, c.origins, layers, n, "scalars")
      /\ Tops(c.definitions, c.definitionOrigins, layers, n, "definitions")
      /\ Tops(c.mappings, c.origins, layers, n, "mappings")
      /\ OrderedAbove(c.includes, layers, 0, n, Path)
      /\ \A l \in 1 .. n : IsLayer(layers[l], Path)
      /\ DOMAIN layers = 1 .. n
  BY DEF Stands, AllTops
<1>2. /\ d.scalars = [k \in DOMAIN over \ cleared |-> over[k]]
      /\ d.definitions = The(overrides.definitions, c.definitions)
      /\ d.definitionOrigins = IF overrides.definitions = {} THEN c.definitionOrigins
                               ELSE [m \in DOMAIN The(overrides.definitions, 0) |-> Editor]
      /\ d.mappings = The(overrides.mappings, c.mappings)
      /\ d.includes = The(overrides.includes, c.includes)
      /\ d.origins = Over([k \in edited |-> Editor], c.origins)
  BY <1>1 DEF ApplyConfigurationOverrides, IsConfiguration
<1>3. \A x : /\ The({}, x) = x
             /\ \A s : s # {} => The(s, x) = The(s, 0)
  BY DEF The
<1>4. Decides(d, ScalarLayers(layers, overrides.scalars), "scalars", "origins")
  <2>0. ScalarLayers(layers, overrides.scalars) = all
    BY DEF ScalarLayers
  <2> HIDE DEF cleared, kept
  <2>1. \A i \in 1 .. n : Lacks(below[i], layers[i], cleared)
    BY <1>1, WithoutLacks
  <2>2. DOMAIN below = 1 .. n
    BY <1>1
  <2>3. n \in Nat
    BY DEF Stands
  <2> DEFINE R == {below[i] : i \in 1 .. n} \cup {top}
  <2>4. below \in Seq(R) /\ top \in R
    <3>1. \A i \in 1 .. n : below[i] \in R
      OBVIOUS
    <3>2. below = [i \in 1 .. n |-> below[i]]
      BY <1>1
    <3> HIDE DEF below, R
    <3>3. below \in [1 .. n -> R]
      BY <3>1, <3>2
    <3>4. below \in Seq(R)
      BY <2>3, <3>3
    <3> QED
      BY <3>4 DEF R
  <2> HIDE DEF below, R, top
  <2>5. Len(below) = n
    BY <2>2, <2>3, <2>4
  <2>6. DOMAIN all = 1 .. n + 1 /\ all[n + 1] = top /\ \A i \in 1 .. n : all[i] = below[i]
    BY <2>3, <2>4, <2>5, AppendedIs
  <2>7. top.settings.scalars = set /\ top.origin = Editor
    BY EditorLayerIs DEF top
  <2> HIDE DEF all, set
  <2> DEFINE rest == [k \in DOMAIN c.scalars \ cleared |-> c.scalars[k]]
  <2>8. Tops(rest, c.origins, below, n, "scalars")
    BY <1>1, <2>1, <2>3, TopsOfKept
  <2> HIDE DEF rest
  <2>9. Tops(rest, c.origins, all, n, "scalars")
    BY <2>3, <2>6, <2>8, TopsOfTheSame
  <2>10. Tops(Over(set, rest), d.origins, all, n + 1, "scalars")
    <3>1. \A k \in DOMAIN set : d.origins[k] = Editor
      BY <1>2 DEF Over, set, kept
    <3>2. \A k \in DOMAIN rest \ DOMAIN set : d.origins[k] = c.origins[k]
      <4>1. ASSUME NEW k \in DOMAIN rest, k \notin DOMAIN set
            PROVE  k \in DOMAIN c.origins /\ k \notin edited
        BY <1>1, <4>1 DEF rest, set, kept, cleared
      <4> HIDE DEF edited
      <4> QED
        BY <1>2, <4>1 DEF Over
    <3> QED
      BY <2>3, <2>6, <2>7, <2>9, <3>1, <3>2, TopsOfMore
  <2>11. d.scalars = Over(set, rest)
    BY <1>2 DEF Over, set, rest, kept, cleared
  <2> QED
    BY <2>0, <2>3, <2>6, <2>10, <2>11, TopsDecide
<1> HIDE DEF d
<1>5. IF overrides.definitions = {} THEN Decides(d, layers, "definitions", "definitionOrigins")
      ELSE /\ d.definitions = The(overrides.definitions, 0)
           /\ \A k \in DOMAIN d.definitions : d.definitionOrigins[k] = Editor
  <2>1. CASE overrides.definitions = {}
    <3>1. d.definitions = c.definitions /\ d.definitionOrigins = c.definitionOrigins
      BY <1>2, <1>3, <2>1
    <3> QED
      BY <1>1, <2>1, <3>1, TopsDecide DEF Stands
  <2>2. CASE overrides.definitions # {}
    BY <1>2, <1>3, <2>2
  <2> QED
    BY <2>1, <2>2
<1>6. IF overrides.mappings = {} THEN Decides(d, layers, "mappings", "origins")
      ELSE d.mappings = The(overrides.mappings, 0)
  <2>1. CASE overrides.mappings = {}
    <3>1. d.mappings = c.mappings
      BY <1>2, <1>3, <2>1
    <3>2. n \in Nat
      BY DEF Stands
    <3>3. Tops(d.mappings, d.origins, layers, n, "mappings")
      BY <1>1, <3>1, <3>2, TopsOfOtherOrigins
    <3> QED
      BY <1>1, <2>1, <3>2, <3>3, TopsDecide
  <2>2. CASE overrides.mappings # {}
    BY <1>2, <1>3, <2>2
  <2> QED
    BY <2>1, <2>2
<1>7. IF overrides.includes = {} THEN InSearchOrder(d.includes, layers)
      ELSE d.includes = The(overrides.includes, 0)
  <2>1. CASE overrides.includes = {}
    <3>1. d.includes = c.includes
      BY <1>2, <1>3, <2>1
    <3>2. c.includes \in Seq(Path)
      BY <1>1 DEF OrderedAbove
    <3>3. \A l \in 1 .. n : layers[l].settings.includes \in Seq(Path)
      BY <1>1 DEF IsLayer, IsSettings
    <3>4. n \in Nat
      BY DEF Stands
    <3> QED
      BY <1>1, <2>1, <3>1, <3>2, <3>3, <3>4, OrderedIsSearched
  <2>2. CASE overrides.includes # {}
    BY <1>2, <1>3, <2>2
  <2> QED
    BY <2>1, <2>2
<1> QED
  BY <1>4, <1>5, <1>6, <1>7 DEF HighestLayerWins, d

-----------------------------------------------------------------------------
\* For all layers, variants and editor settings: what the configuration says is of
\* the highest layer that says something, the editor's above the variant's above the
\* files' above the client's, and so are the origins that it reports (merge_configurations,
\* apply_variant, apply_configuration_overrides and Server::configuration_for).
THEOREM ConfigurationCorrect ==
  ASSUME NEW Path, NEW Layer, \A x \in Layer : IsLayer(x, Path), NEW layers \in Seq(Layer),
         NEW Variant, \A v \in Variant : IsSettings(v.settings, Path),
         NEW variants \in Seq(Variant), NEW pipelines, NEW state
  PROVE  HighestLayerWins(
           EditorOnTop(ClientDefault(MergeLayers(layers, variants, pipelines), state.proposed),
                       state),
           LayersBelow(layers, variants, state), state.overrides)
<1> DEFINE client == ClientLayer(The(state.proposed, 0))
           name == The(state.variant, 0)
           variant == VariantLayer(variants, name)
           unused == state.variant = {} \/ Selection(variants, name) # "applied"
           T == Layer \cup {client, variant}
           first == IF state.proposed = {} THEN <<>> ELSE <<client>>
           last == IF unused THEN <<>> ELSE <<variant>>
           lower == first \o layers
           all == lower \o last
           n == Len(layers)
           m == Len(lower)
           files == MergeLayers(layers, variants, pipelines)
           c == ClientDefault(files, state.proposed)
           d == IF state.variant = {} THEN c ELSE ApplyVariant(c, name)
<1>1. LayersBelow(layers, variants, state) = all
  BY DEF LayersBelow
<1>2. layers \in Seq(T) /\ client \in T /\ variant \in T
  <2> HIDE DEF client, variant
  <2>1. Layer \subseteq T
    OBVIOUS
  <2> QED
    BY <2>1
<1>3. first \in Seq(T) /\ last \in Seq(T)
  <2> HIDE DEF T, client, variant, unused
  <2> QED
    BY <1>2
<1>4. n \in Nat /\ DOMAIN layers = 1 .. n /\ \A i \in 1 .. n : IsLayer(layers[i], Path)
  OBVIOUS
<1>5. Stands(files, layers, n, Path) /\ files.variants = variants
  BY <1>4, MergedStands
<1> HIDE DEF files, T, client, variant, unused, n
<1>6. lower \in Seq(T) /\ Stands(c, lower, m, Path) /\ c.variants = variants
  <2>1. CASE state.proposed = {}
    <3>1. first = <<>>
      BY <2>1
    <3>2. lower = layers
      BY <1>2, <3>1
    <3>3. c = files
      BY <2>1 DEF ClientDefault
    <3> QED
      BY <1>2, <1>5, <3>2, <3>3 DEF n
  <2>2. CASE state.proposed # {}
    <3>1. first = <<client>> /\ Len(first) = 1 /\ first[1] = client
      BY <2>2
    <3> HIDE DEF first
    <3>2. /\ lower \in Seq(T) /\ Len(lower) = n + 1 /\ DOMAIN lower = 1 .. n + 1
          /\ lower[1] = client /\ \A l \in 1 .. n : lower[l + 1] = layers[l]
      <4>1. /\ lower \in Seq(T) /\ Len(lower) = 1 + n /\ DOMAIN lower = 1 .. 1 + n
            /\ \A l \in 1 .. 1 : lower[l] = first[l]
            /\ \A l \in 1 .. n : lower[1 + l] = layers[l]
        BY <1>2, <1>3, <3>1, JoinedAre DEF n
      <4> HIDE DEF lower
      <4>2. 1 + n = n + 1 /\ 1 \in 1 .. 1 /\ \A l \in 1 .. n : 1 + l = l + 1
        BY <1>4
      <4> QED
        BY <3>1, <4>1, <4>2
    <3> HIDE DEF lower
    <3> DEFINE proposed == state.proposed
               version == The(proposed, 0)
    <3>3. proposed # {} /\ LiesUnder(ClientLayer(version), lower, layers, n)
      BY <2>2, <3>2 DEF client, LiesUnder
    <3>4. c = ClientDefault(files, proposed)
      OBVIOUS
    <3> HIDE DEF proposed, c
    <3>5. Stands(c, lower, n + 1, Path) /\ c.variants = files.variants
      BY <1>4, <1>5, <3>3, <3>4, DefaultStands
    <3> QED
      BY <1>5, <3>2, <3>5
  <2> QED
    BY <2>1, <2>2
<1> HIDE DEF c, lower, first
<1>7. Stands(d, all, Len(all), Path)
  <2>1. CASE unused
    <3>1. last = <<>>
      BY <2>1
    <3>2. all = lower
      BY <1>6, <3>1
    <3>3. d = c
      BY <1>6, <2>1 DEF unused, ApplyVariant
    <3> QED
      BY <1>6, <3>2, <3>3
  <2>2. CASE ~unused
    <3>1. last = <<variant>> /\ Len(last) = 1 /\ last[1] = variant
      BY <2>2
    <3> HIDE DEF last
    <3>2. m \in Nat /\ DOMAIN lower = 1 .. m
      BY <1>6
    <3>3. /\ Len(all) = m + 1 /\ DOMAIN all = 1 .. m + 1
          /\ all[m + 1] = variant /\ \A l \in 1 .. m : all[l] = lower[l]
      BY <1>3, <1>6, <3>1, <3>2
    <3> HIDE DEF all, m
    <3>4. Selection(c.variants, name) = "applied" /\ d = ApplyVariant(c, name)
      BY <1>6, <2>2 DEF unused
    <3> HIDE DEF d, name
    <3> DEFINE s == VariantSettings(c.variants, name)
    <3>5. IsSettings(s, Path)
      BY <1>6, <3>4, AppliedExists
    <3>6. /\ all[m + 1].settings = s /\ all[m + 1].origin = <<"variant", name>>
          /\ DOMAIN all[m + 1] = {"settings", "origin"}
      BY <1>6, <3>3 DEF variant, VariantLayer
    <3> HIDE DEF s
    <3>7. Stands(ApplyVariant(c, name), all, m + 1, Path)
      BY <1>6, <3>2, <3>3, <3>4, <3>5, <3>6, VariantStands DEF s
    <3> QED
      BY <3>3, <3>4, <3>7
  <2> QED
    BY <2>1, <2>2
<1> HIDE DEF all
<1>8. EditorOnTop(c, state) = ApplyConfigurationOverrides(d, state.overrides)
  BY DEF EditorOnTop
<1> HIDE DEF d
<1>9. Len(all) \in Nat
  BY <1>7 DEF Stands
<1>10. HighestLayerWins(ApplyConfigurationOverrides(d, state.overrides), all, state.overrides)
  BY <1>7, <1>9, OverridesWin
<1> QED
  BY <1>1, <1>8, <1>10 DEF c, files

-----------------------------------------------------------------------------
(* The compiler's arguments.  Scanned is a recursive function, from the     *)
(* last argument to the first.                                             *)

OptionKeys(argument) == {k \in DOMAIN Option : Option[k] = argument.option}
ScanStep(arguments, i, from) ==
  IF i > Len(arguments) THEN Nothing
  ELSE IF /\ OptionKeys(arguments[i]) # {} /\ arguments[i].attached = Empty
          /\ i < Len(arguments)
  THEN Over(from[i + 2], Only(CHOOSE k \in OptionKeys(arguments[i]) : TRUE,
                              arguments[i + 1].attached))
  ELSE IF OptionKeys(arguments[i]) # {} /\ arguments[i].attached # Empty
  THEN Over(from[i + 1], Only(CHOOSE k \in OptionKeys(arguments[i]) : TRUE,
                              arguments[i].attached))
  ELSE from[i + 1]

IsScan(from, arguments, first) ==
  from = [i \in first .. Len(arguments) + 1 |-> ScanStep(arguments, i, from)]

\* A step asks only for what is behind it.
LEMMA StepLooksAhead ==
  ASSUME NEW arguments, Len(arguments) \in Nat, NEW i \in 1 .. Len(arguments) + 1,
         NEW f, NEW g, \A j \in i + 1 .. Len(arguments) + 1 : f[j] = g[j]
  PROVE  ScanStep(arguments, i, f) = ScanStep(arguments, i, g)
<1>1. i <= Len(arguments) => f[i + 1] = g[i + 1]
  OBVIOUS
<1>2. i < Len(arguments) => f[i + 2] = g[i + 2]
  OBVIOUS
<1> QED
  BY <1>1, <1>2 DEF ScanStep

LEMMA ScanExists ==
  ASSUME NEW arguments, Len(arguments) \in Nat
  PROVE  \E from : IsScan(from, arguments, 1)
<1> DEFINE n == Len(arguments)
           B == {m \in 0 .. n : ~ \E from : IsScan(from, arguments, n + 1 - m)}
<1>1. B = {}
  <2>1. SUFFICES ASSUME B # {} PROVE FALSE
    OBVIOUS
  <2>2. PICK m \in B : \A k \in B : m <= k
    <3>1. B \subseteq Nat
      OBVIOUS
    <3> HIDE DEF B
    <3> QED
      BY <2>1, <3>1, LeastNumber
  <2> DEFINE first == n + 1 - m
  <2>3. /\ m \in 0 .. n /\ first \in 1 .. n + 1
        /\ ~ \E from : IsScan(from, arguments, first)
    BY <2>2
  <2>4. PICK h : \A i \in first + 1 .. n + 1 : h[i] = ScanStep(arguments, i, h)
    <3>1. CASE m = 0
      <4>1. first + 1 .. n + 1 = {}
        BY <3>1
      <4> QED
        BY <4>1
    <3>2. CASE m # 0
      <4>1. m - 1 \in 0 .. n /\ m - 1 \notin B /\ n + 1 - (m - 1) = first + 1
        BY <2>2, <2>3, <3>2
      <4>2. PICK h : IsScan(h, arguments, first + 1)
        BY <4>1
      <4> HIDE DEF first
      <4>3. \A i \in first + 1 .. n + 1 : h[i] = ScanStep(arguments, i, h)
        BY <4>2 DEF IsScan
      <4> QED
        BY <4>3
    <3> QED
      BY <3>1, <3>2
  <2> DEFINE g == [i \in first .. n + 1 |->
                     IF i = first THEN ScanStep(arguments, first, h) ELSE h[i]]
  <2> HIDE DEF first
  <2>5. \A j \in first + 1 .. n + 1 : g[j] = h[j]
    BY <2>3
  <2>6. ASSUME NEW i \in first .. n + 1 PROVE g[i] = ScanStep(arguments, i, g)
    <3>1. i \in 1 .. n + 1 /\ \A j \in i + 1 .. n + 1 : g[j] = h[j]
      BY <2>3, <2>5
    <3>2. g[i] = ScanStep(arguments, i, h)
      BY <2>3, <2>4
    <3> HIDE DEF g
    <3> QED
      BY <3>1, <3>2, StepLooksAhead
  <2>7. g = [i \in first .. n + 1 |-> g[i]]
    OBVIOUS
  <2> HIDE DEF g
  <2>8. IsScan(g, arguments, first)
    BY <2>6, <2>7 DEF IsScan
  <2> QED
    BY <2>3, <2>8
<1>2. n \in 0 .. n /\ n + 1 - n = 1
  OBVIOUS
<1> QED
  BY <1>1, <1>2

LEMMA ScannedIs ==
  ASSUME NEW arguments, Len(arguments) \in Nat
  PROVE  \E from : /\ Scanned(arguments) = from[1]
                   /\ \A i \in 1 .. Len(arguments) + 1 : from[i] = ScanStep(arguments, i, from)
<1> DEFINE from == CHOOSE from : IsScan(from, arguments, 1)
<1>1. Scanned(arguments) = from[1]
  BY DEF Scanned, IsScan, ScanStep, OptionKeys
<1>2. IsScan(from, arguments, 1)
  BY ScanExists
<1> HIDE DEF from
<1> QED
  BY <1>1, <1>2 DEF IsScan

-----------------------------------------------------------------------------
\* An argument that gives an option, whose value is of its own or follows.
Gives(arguments, key, i) ==
  /\ arguments[i].option = Option[key]
  /\ arguments[i].attached # Empty \/ i < Len(arguments)

\* What follows an option without a value of its own is a value, and no option.
ValuesFollow(arguments) ==
  \A i \in 1 .. Len(arguments) :
    i < Len(arguments) /\ OptionKeys(arguments[i]) # {} /\ arguments[i].attached = Empty =>
      OptionKeys(arguments[i + 1]) = {} /\ arguments[i + 1].attached # Empty

SaysWhatIsGiven(said, arguments, i) ==
  /\ DOMAIN said = {k \in DOMAIN Option : \E j \in i .. Len(arguments) : Gives(arguments, k, j)}
  /\ \A k \in DOMAIN said : said[k] # Empty

LEMMA OptionIsOfOneKey ==
  ASSUME NEW argument, OptionKeys(argument) # {}
  PROVE  /\ (CHOOSE k \in OptionKeys(argument) : TRUE) \in DOMAIN Option
         /\ OptionKeys(argument) = {CHOOSE k \in OptionKeys(argument) : TRUE}
<1>1. \A k, l \in OptionKeys(argument) : k = l
  BY DEF OptionKeys, Option
<1> QED
  BY <1>1 DEF OptionKeys

LEMMA OverOnly ==
  ASSUME NEW said, NEW key, NEW value
  PROVE  /\ DOMAIN Over(said, Only(key, value)) = DOMAIN said \cup {key}
         /\ \A k \in DOMAIN said : Over(said, Only(key, value))[k] = said[k]
         /\ key \notin DOMAIN said => Over(said, Only(key, value))[key] = value
BY DEF Over, Only

LEMMA StepSays ==
  ASSUME NEW arguments, Len(arguments) \in Nat, ValuesFollow(arguments),
         NEW i \in 1 .. Len(arguments), NEW from,
         SaysWhatIsGiven(from[i + 1], arguments, i + 1),
         i < Len(arguments) => SaysWhatIsGiven(from[i + 2], arguments, i + 2)
  PROVE  SaysWhatIsGiven(ScanStep(arguments, i, from), arguments, i)
<1> DEFINE n == Len(arguments)
           a == arguments[i]
           key == CHOOSE k \in OptionKeys(a) : TRUE
           given(j) == {k \in DOMAIN Option : \E l \in j .. n : Gives(arguments, k, l)}
<1>1. ~(i > n) /\ i \in Nat /\ n \in Nat
  OBVIOUS
<1>2. \A k \in DOMAIN Option : (\E l \in i .. n : Gives(arguments, k, l))
                                <=> Gives(arguments, k, i) \/ \E l \in i + 1 .. n : Gives(arguments, k, l)
  <2>1. i .. n = {i} \cup (i + 1 .. n)
    BY <1>1
  <2> QED
    BY <2>1
<1>3. given(i) = {k \in DOMAIN Option : Gives(arguments, k, i)} \cup given(i + 1)
  BY <1>2
<1>4. CASE OptionKeys(a) # {} /\ a.attached = Empty /\ i < n
  <2>1. ScanStep(arguments, i, from) = Over(from[i + 2], Only(key, arguments[i + 1].attached))
    BY <1>1, <1>4 DEF ScanStep
  <2>2. OptionKeys(arguments[i + 1]) = {} /\ arguments[i + 1].attached # Empty
    BY <1>4 DEF ValuesFollow
  <2>3. {k \in DOMAIN Option : Gives(arguments, k, i)} = {key}
    BY <1>4, OptionIsOfOneKey DEF Gives, OptionKeys
  <2>4. given(i + 1) = given(i + 2)
    <3>1. i + 1 .. n = {i + 1} \cup (i + 2 .. n)
      BY <1>1, <1>4
    <3>2. \A k \in DOMAIN Option : ~Gives(arguments, k, i + 1)
      BY <2>2 DEF Gives, OptionKeys
    <3> QED
      BY <3>1, <3>2
  <2>5. DOMAIN from[i + 2] = given(i + 2) /\ \A k \in DOMAIN from[i + 2] : from[i + 2][k] # Empty
    BY <1>4 DEF SaysWhatIsGiven
  <2> DEFINE said == Over(from[i + 2], Only(key, arguments[i + 1].attached))
  <2> HIDE DEF said, given, key
  <2>6. DOMAIN said = DOMAIN from[i + 2] \cup {key} /\ \A k \in DOMAIN said : said[k] # Empty
    <3> DEFINE value == arguments[i + 1].attached
               before == from[i + 2]
    <3> HIDE DEF value, before
    <3>1. /\ DOMAIN said = DOMAIN before \cup {key}
          /\ \A k \in DOMAIN before : said[k] = before[k]
          /\ key \notin DOMAIN before => said[key] = value
      BY OverOnly DEF said, before, value
    <3>2. value # Empty /\ \A k \in DOMAIN before : before[k] # Empty
      BY <2>2, <2>5 DEF before, value
    <3>3. DOMAIN said = DOMAIN before \cup {key} /\ \A k \in DOMAIN said : said[k] # Empty
      BY <3>1, <3>2
    <3> QED
      BY <3>3 DEF before
  <2>7. DOMAIN said = given(i)
    BY <1>3, <2>3, <2>4, <2>5, <2>6
  <2> QED
    BY <2>1, <2>6, <2>7 DEF SaysWhatIsGiven, said, given, key
<1>5. CASE OptionKeys(a) # {} /\ a.attached # Empty
  <2>1. ScanStep(arguments, i, from) = Over(from[i + 1], Only(key, a.attached))
    BY <1>1, <1>5 DEF ScanStep
  <2>2. {k \in DOMAIN Option : Gives(arguments, k, i)} = {key}
    BY <1>5, OptionIsOfOneKey DEF Gives, OptionKeys
  <2>3. DOMAIN from[i + 1] = given(i + 1) /\ \A k \in DOMAIN from[i + 1] : from[i + 1][k] # Empty
    BY DEF SaysWhatIsGiven
  <2> DEFINE said == Over(from[i + 1], Only(key, a.attached))
  <2> HIDE DEF said, given, key
  <2>4. DOMAIN said = DOMAIN from[i + 1] \cup {key} /\ \A k \in DOMAIN said : said[k] # Empty
    <3> DEFINE value == arguments[i].attached
               before == from[i + 1]
    <3> HIDE DEF value, before
    <3>1. /\ DOMAIN said = DOMAIN before \cup {key}
          /\ \A k \in DOMAIN before : said[k] = before[k]
          /\ key \notin DOMAIN before => said[key] = value
      BY OverOnly DEF said, before, value
    <3>2. value # Empty /\ \A k \in DOMAIN before : before[k] # Empty
      BY <1>5, <2>3 DEF before, value
    <3>3. DOMAIN said = DOMAIN before \cup {key} /\ \A k \in DOMAIN said : said[k] # Empty
      BY <3>1, <3>2
    <3> QED
      BY <3>3 DEF before
  <2>5. DOMAIN said = given(i)
    BY <1>3, <2>2, <2>3, <2>4
  <2> QED
    BY <2>1, <2>4, <2>5 DEF SaysWhatIsGiven, said, given, key
<1>6. CASE ~(OptionKeys(a) # {} /\ (a.attached # Empty \/ i < n))
  <2>1. ScanStep(arguments, i, from) = from[i + 1]
    BY <1>1, <1>6 DEF ScanStep
  <2>2. {k \in DOMAIN Option : Gives(arguments, k, i)} = {}
    BY <1>6 DEF Gives, OptionKeys
  <2> QED
    BY <1>3, <2>1, <2>2 DEF SaysWhatIsGiven
<1> QED
  BY <1>4, <1>5, <1>6

LEMMA ScannedSays ==
  ASSUME NEW arguments, Len(arguments) \in Nat, ValuesFollow(arguments)
  PROVE  SaysWhatIsGiven(Scanned(arguments), arguments, 1)
<1> DEFINE n == Len(arguments)
<1>1. PICK from : /\ Scanned(arguments) = from[1]
                  /\ \A i \in 1 .. n + 1 : from[i] = ScanStep(arguments, i, from)
  BY ScannedIs
<1> DEFINE B == {m \in 0 .. n : ~SaysWhatIsGiven(from[n + 1 - m], arguments, n + 1 - m)}
<1>2. B = {}
  <2>1. SUFFICES ASSUME B # {} PROVE FALSE
    OBVIOUS
  <2>2. PICK m \in B : \A k \in B : m <= k
    <3>1. B \subseteq Nat
      OBVIOUS
    <3> HIDE DEF B
    <3> QED
      BY <2>1, <3>1, LeastNumber
  <2> DEFINE i == n + 1 - m
  <2>3. m \in 0 .. n /\ i \in 1 .. n + 1 /\ ~SaysWhatIsGiven(from[i], arguments, i)
    BY <2>2
  <2>4. from[i] = ScanStep(arguments, i, from)
    BY <1>1, <2>3
  <2>5. CASE m = 0
    <3>1. i = n + 1
      BY <2>3, <2>5
    <3>2. i > n /\ i .. n = {}
      BY <3>1
    <3>3. from[i] = Nothing
      BY <2>4, <3>2 DEF ScanStep
    <3> QED
      BY <2>3, <3>2, <3>3 DEF SaysWhatIsGiven, Nothing
  <2>6. CASE m # 0
    <3>1. m - 1 \in 0 .. n /\ m - 1 \notin B /\ n + 1 - (m - 1) = i + 1 /\ i \in 1 .. n
      BY <2>2, <2>3, <2>6
    <3>2. SaysWhatIsGiven(from[i + 1], arguments, i + 1)
      BY <3>1
    <3>3. i < n => SaysWhatIsGiven(from[i + 2], arguments, i + 2)
      <4>1. SUFFICES ASSUME i < n PROVE SaysWhatIsGiven(from[i + 2], arguments, i + 2)
        OBVIOUS
      <4>2. m - 2 \in 0 .. n /\ n + 1 - (m - 2) = i + 2 /\ ~(m <= m - 2)
        BY <2>3, <4>1
      <4>3. m - 2 \notin B
        BY <2>2, <4>2
      <4> QED
        BY <4>2, <4>3
    <3> HIDE DEF i
    <3> QED
      BY <2>3, <2>4, <3>1, <3>2, <3>3, StepSays
  <2> QED
    BY <2>5, <2>6
<1>3. n \in 0 .. n /\ n + 1 - n = 1
  OBVIOUS
<1>4. SaysWhatIsGiven(from[1], arguments, 1)
  BY <1>2, <1>3
<1> QED
  BY <1>1, <1>4

\* The end of a list is scanned as if it were all of it.
LEMMA ScannedBehind ==
  ASSUME NEW all, NEW rest, NEW k \in Nat, Len(rest) \in Nat, Len(all) = k + Len(rest),
         \A i \in 1 .. Len(rest) : all[k + i] = rest[i],
         NEW f, \A i \in 1 .. Len(all) + 1 : f[i] = ScanStep(all, i, f)
  PROVE  f[k + 1] = Scanned(rest)
<1> DEFINE n == Len(rest)
<1>1. PICK from : /\ Scanned(rest) = from[1]
                  /\ \A i \in 1 .. n + 1 : from[i] = ScanStep(rest, i, from)
  BY ScannedIs
<1> DEFINE B == {m \in 0 .. n : f[k + (n + 1 - m)] # from[n + 1 - m]}
<1>2. B = {}
  <2>1. SUFFICES ASSUME B # {} PROVE FALSE
    OBVIOUS
  <2>2. PICK m \in B : \A j \in B : m <= j
    <3>1. B \subseteq Nat
      OBVIOUS
    <3> HIDE DEF B
    <3> QED
      BY <2>1, <3>1, LeastNumber
  <2> DEFINE i == n + 1 - m
             p == k + i
  <2>3. m \in 0 .. n /\ i \in 1 .. n + 1 /\ f[p] # from[i]
    BY <2>2
  <2>4. p \in 1 .. Len(all) + 1
    BY <2>3
  <2>5. f[p] = ScanStep(all, p, f) /\ from[i] = ScanStep(rest, i, from)
    BY <1>1, <2>3, <2>4
  <2>6. i <= n => f[p + 1] = from[i + 1]
    <3>1. SUFFICES ASSUME i <= n PROVE f[p + 1] = from[i + 1]
      OBVIOUS
    <3>2. m - 1 \in 0 .. n /\ n + 1 - (m - 1) = i + 1 /\ k + (i + 1) = p + 1 /\ ~(m <= m - 1)
      BY <2>3, <3>1
    <3>3. m - 1 \notin B
      BY <2>2, <3>2
    <3> QED
      BY <3>2, <3>3
  <2>7. i < n => f[p + 2] = from[i + 2]
    <3>1. SUFFICES ASSUME i < n PROVE f[p + 2] = from[i + 2]
      OBVIOUS
    <3>2. m - 2 \in 0 .. n /\ n + 1 - (m - 2) = i + 2 /\ k + (i + 2) = p + 2 /\ ~(m <= m - 2)
      BY <2>3, <3>1
    <3>3. m - 2 \notin B
      BY <2>2, <3>2
    <3> QED
      BY <3>2, <3>3
  <2>8. /\ i <= n => all[p] = rest[i]
        /\ i < n => all[p + 1] = rest[i + 1]
    <3>1. i <= n => i \in 1 .. n
      BY <2>3
    <3>2. i < n => i + 1 \in 1 .. n /\ k + (i + 1) = p + 1 /\ i <= n
      BY <2>3
    <3>3. \A j \in 1 .. n : all[k + j] = rest[j]
      OBVIOUS
    <3> HIDE DEF i, n
    <3>4. i <= n => all[p] = rest[i]
      BY <3>1, <3>3
    <3>5. i < n => all[p + 1] = rest[i + 1]
      <4> HIDE DEF p
      <4> QED
        BY <3>2, <3>3
    <3> QED
      BY <3>4, <3>5
  <2>9. (p > Len(all) <=> i > n) /\ (p < Len(all) <=> i < n) /\ (i > n <=> ~(i <= n))
    BY <2>3
  <2> HIDE DEF i, p
  <2>10. ScanStep(all, p, f) = ScanStep(rest, i, from)
    <3>1. CASE i > n
      BY <2>9, <3>1 DEF ScanStep
    <3>2. CASE i <= n
      <4>1. ~(p > Len(all)) /\ ~(i > n) /\ all[p] = rest[i] /\ f[p + 1] = from[i + 1]
        BY <2>6, <2>8, <2>9, <3>2
      <4>2. CASE i < n
        <5>1. all[p + 1] = rest[i + 1] /\ f[p + 2] = from[i + 2] /\ p < Len(all)
          BY <2>7, <2>8, <2>9, <4>2
        <5> QED
          BY <4>1, <4>2, <5>1 DEF ScanStep
      <4>3. CASE ~(i < n)
        <5>1. ~(p < Len(all))
          BY <2>9, <4>3
        <5> QED
          BY <4>1, <4>3, <5>1 DEF ScanStep
      <4> QED
        BY <4>2, <4>3
    <3> QED
      BY <2>9, <3>1, <3>2
  <2> QED
    BY <2>3, <2>5, <2>10
<1>3. n \in 0 .. n /\ n + 1 - n = 1
  OBVIOUS
<1> QED
  BY <1>1, <1>2, <1>3

\* An option with a value behind it.
LEMMA PairScanned ==
  ASSUME NEW all, Len(all) \in Nat, NEW p \in Nat, p + 2 <= Len(all),
         NEW key \in DOMAIN Option, NEW value,
         all[p + 1] = Argument(Option[key], Empty), all[p + 2] = Plain(value),
         NEW f, \A i \in 1 .. Len(all) + 1 : f[i] = ScanStep(all, i, f)
  PROVE  f[p + 1] = Over(f[p + 3], Only(key, value))
<1>1. p + 1 \in 1 .. Len(all) + 1 /\ ~(p + 1 > Len(all)) /\ p + 1 < Len(all)
      /\ (p + 1) + 1 = p + 2 /\ (p + 1) + 2 = p + 3
  OBVIOUS
<1>2. all[p + 1].option = Option[key] /\ all[p + 1].attached = Empty /\ all[p + 2].attached = value
  BY DEF Argument, Plain
<1>3. OptionKeys(all[p + 1]) = {key}
  BY <1>2 DEF OptionKeys, Option
<1>4. f[p + 1] = ScanStep(all, p + 1, f)
  BY <1>1
<1>5. ScanStep(all, p + 1, f) = Over(f[(p + 1) + 2], Only(CHOOSE k \in {key} : TRUE, all[(p + 1) + 1].attached))
  BY <1>1, <1>2, <1>3 DEF ScanStep
<1> QED
  BY <1>1, <1>2, <1>4, <1>5

Pair(c, key) == IF key \in DOMAIN c.scalars /\ c.scalars[key] # Empty
                THEN <<Argument(Option[key], Empty), Plain(c.scalars[key])>> ELSE <<>>
Additional(c) == IF "additionalArguments" \in DOMAIN c.scalars
                 THEN c.scalars["additionalArguments"] ELSE <<>>

\* What is scanned of a list behind the pair of a key.
LEMMA PairBefore ==
  ASSUME NEW T, NEW rest \in Seq(T), NEW c, NEW key \in DOMAIN Option,
         Pair(c, key) \in Seq(T)
  PROVE  LET said == Scanned(rest)
             more == Scanned(Pair(c, key) \o rest)
         IN /\ key \in DOMAIN c.scalars /\ c.scalars[key] # Empty =>
                 more = Over(said, Only(key, c.scalars[key]))
            /\ ~(key \in DOMAIN c.scalars /\ c.scalars[key] # Empty) => more = said
<1>1. CASE key \in DOMAIN c.scalars /\ c.scalars[key] # Empty
  <2> DEFINE pair == Pair(c, key)
             all == pair \o rest
  <2>1. /\ Len(pair) = 2 /\ pair[1] = Argument(Option[key], Empty)
        /\ pair[2] = Plain(c.scalars[key])
    BY <1>1 DEF Pair
  <2> HIDE DEF pair
  <2>2. /\ Len(rest) \in Nat /\ Len(all) = 2 + Len(rest)
        /\ all[1] = pair[1] /\ all[2] = pair[2]
        /\ \A i \in 1 .. Len(rest) : all[2 + i] = rest[i]
    <3>1. pair \in Seq(T)
      BY DEF pair
    <3>2. /\ Len(rest) \in Nat /\ Len(pair \o rest) = Len(pair) + Len(rest)
          /\ \A i \in 1 .. Len(pair) : (pair \o rest)[i] = pair[i]
          /\ \A i \in 1 .. Len(rest) : (pair \o rest)[Len(pair) + i] = rest[i]
      BY <3>1, JoinedAre
    <3>3. 1 \in 1 .. Len(pair) /\ 2 \in 1 .. Len(pair)
      BY <2>1
    <3> QED
      BY <2>1, <3>2, <3>3
  <2> HIDE DEF all
  <2>3. PICK f : Scanned(all) = f[1] /\ \A i \in 1 .. Len(all) + 1 : f[i] = ScanStep(all, i, f)
    BY <2>2, ScannedIs
  <2>4. f[2 + 1] = Scanned(rest)
    BY <2>2, <2>3, ScannedBehind
  <2>5. f[0 + 1] = Over(f[0 + 3], Only(key, c.scalars[key]))
    <3>1. all[0 + 1] = Argument(Option[key], Empty) /\ all[0 + 2] = Plain(c.scalars[key])
          /\ 0 + 2 <= Len(all) /\ Len(all) \in Nat
      BY <2>1, <2>2
    <3> DEFINE value == c.scalars[key]
    <3> HIDE DEF value
    <3>2. all[0 + 1] = Argument(Option[key], Empty) /\ all[0 + 2] = Plain(value)
      BY <3>1 DEF value
    <3>3. f[0 + 1] = Over(f[0 + 3], Only(key, value))
      <4> DEFINE p == 0
      <4>1. /\ Len(all) \in Nat /\ p \in Nat /\ p + 2 <= Len(all)
            /\ all[p + 1] = Argument(Option[key], Empty) /\ all[p + 2] = Plain(value)
            /\ \A i \in 1 .. Len(all) + 1 : f[i] = ScanStep(all, i, f)
        BY <2>3, <3>1, <3>2
      <4> HIDE DEF p
      <4>2. f[p + 1] = Over(f[p + 3], Only(key, value))
        BY <4>1, PairScanned
      <4> QED
        BY <4>2 DEF p
    <3> QED
      BY <3>3 DEF value
  <2>6. Scanned(all) = Over(Scanned(rest), Only(key, c.scalars[key]))
    BY <2>3, <2>4, <2>5
  <2> QED
    BY <1>1, <2>6 DEF all, pair
<1>2. CASE ~(key \in DOMAIN c.scalars /\ c.scalars[key] # Empty)
  <2>1. Pair(c, key) = <<>>
    BY <1>2 DEF Pair
  <2>2. Pair(c, key) \o rest = rest
    BY <2>1
  <2> QED
    BY <1>2, <2>2
<1> QED
  BY <1>1, <1>2

LEMMA ArgumentsScanned ==
  ASSUME NEW c, NEW A, Additional(c) \in Seq(A)
  PROVE  LET said == Scanned(Additional(c))
             all == Scanned(CompilerArguments(c))
         IN \A key \in DOMAIN Option :
              EffectiveShaderTarget(c)[key] =
                IF key \in DOMAIN said THEN said[key]
                ELSE IF key \in DOMAIN c.scalars THEN c.scalars[key] ELSE Empty
<1> DEFINE first == Pair(c, "targetProfile")
           second == Pair(c, "entryPoint")
           rest == Additional(c)
           T == A \cup {Argument(Option["targetProfile"], Empty), Plain(c.scalars["targetProfile"]),
                        Argument(Option["entryPoint"], Empty), Plain(c.scalars["entryPoint"])}
           has(key) == key \in DOMAIN c.scalars /\ c.scalars[key] # Empty
<1>1. first \in Seq(T) /\ second \in Seq(T) /\ rest \in Seq(T)
  <2>1. rest \in Seq(T)
    OBVIOUS
  <2>2. first \in Seq(T)
    <3> DEFINE x == Argument(Option["targetProfile"], Empty)
               y == Plain(c.scalars["targetProfile"])
    <3>1. x \in T /\ y \in T /\ first \in {<<x, y>>, <<>>}
      BY DEF Pair
    <3> HIDE DEF x, y, T, first
    <3>2. <<x, y>> \in Seq(T) /\ <<>> \in Seq(T)
      BY <3>1
    <3> QED
      BY <3>1, <3>2
  <2>3. second \in Seq(T)
    <3> DEFINE x == Argument(Option["entryPoint"], Empty)
               y == Plain(c.scalars["entryPoint"])
    <3>1. x \in T /\ y \in T /\ second \in {<<x, y>>, <<>>}
      BY DEF Pair
    <3> HIDE DEF x, y, T, second
    <3>2. <<x, y>> \in Seq(T) /\ <<>> \in Seq(T)
      BY <3>1
    <3> QED
      BY <3>1, <3>2
  <2> QED
    BY <2>1, <2>2, <2>3
<1>2. CompilerArguments(c) = (first \o second) \o rest
  BY DEF CompilerArguments, Pair, Additional
<1>3. (first \o second) \o rest = first \o (second \o rest)
  <2> HIDE DEF T, first, second, rest
  <2> QED
    BY <1>1
<1> DEFINE said == Scanned(rest)
           more == Scanned(second \o rest)
           all == Scanned(first \o (second \o rest))
<1>4. DOMAIN Option = {"entryPoint", "targetProfile"}
  BY DEF Option
<1>5. more = IF has("entryPoint") THEN Over(said, Only("entryPoint", c.scalars["entryPoint"])) ELSE said
  <2> HIDE DEF T, rest
  <2> QED
    BY <1>1, <1>4, PairBefore
<1>6. all = IF has("targetProfile")
            THEN Over(more, Only("targetProfile", c.scalars["targetProfile"])) ELSE more
  <2>1. second \o rest \in Seq(T)
    <3> HIDE DEF T, second, rest
    <3> QED
      BY <1>1
  <2> DEFINE behind == second \o rest
  <2>2. "targetProfile" \in DOMAIN Option /\ behind \in Seq(T)
        /\ Pair(c, "targetProfile") \in Seq(T)
    BY <1>1, <1>4, <2>1
  <2> HIDE DEF T, behind
  <2>3. /\ has("targetProfile") => Scanned(first \o behind)
                  = Over(Scanned(behind), Only("targetProfile", c.scalars["targetProfile"]))
        /\ ~has("targetProfile") => Scanned(first \o behind) = Scanned(behind)
    BY <2>2, PairBefore
  <2> QED
    BY <2>3 DEF behind
<1>7. EffectiveShaderTarget(c) = Over(all, NoTarget)
  BY <1>2, <1>3 DEF EffectiveShaderTarget
<1>8. DOMAIN NoTarget = DOMAIN Option /\ \A key \in DOMAIN Option : NoTarget[key] = Empty
  BY DEF NoTarget, Option
<1> HIDE DEF all, more, said, first, second, rest, T
<1>9. ASSUME NEW key \in DOMAIN Option
      PROVE  /\ key \in DOMAIN all <=> key \in DOMAIN said \/ has(key)
             /\ key \in DOMAIN said => all[key] = said[key]
             /\ key \notin DOMAIN said /\ has(key) => all[key] = c.scalars[key]
  <2>1. /\ key \in DOMAIN more <=> key \in DOMAIN said \/ (key = "entryPoint" /\ has(key))
        /\ key \in DOMAIN said => more[key] = said[key]
        /\ key \notin DOMAIN said /\ has(key) /\ key = "entryPoint" => more[key] = c.scalars[key]
    <3>1. CASE has("entryPoint")
      <4> DEFINE value == c.scalars["entryPoint"]
      <4>1. more = Over(said, Only("entryPoint", value))
        BY <1>5, <3>1
      <4> HIDE DEF value
      <4>2. /\ DOMAIN more = DOMAIN said \cup {"entryPoint"}
            /\ \A k \in DOMAIN said : more[k] = said[k]
            /\ "entryPoint" \notin DOMAIN said => more["entryPoint"] = value
        BY <4>1 DEF Over, Only
      <4> QED
        BY <3>1, <4>2 DEF value
    <3>2. CASE ~has("entryPoint")
      BY <1>5, <3>2
    <3> QED
      BY <3>1, <3>2
  <2>2. key = "entryPoint" \/ key = "targetProfile"
    BY <1>4
  <2>3. CASE has("targetProfile")
    <3>1. /\ DOMAIN all = DOMAIN more \cup {"targetProfile"}
          /\ \A k \in DOMAIN more : all[k] = more[k]
          /\ "targetProfile" \notin DOMAIN more =>
               all["targetProfile"] = c.scalars["targetProfile"]
      <4> DEFINE value == c.scalars["targetProfile"]
      <4>1. all = Over(more, Only("targetProfile", value))
        BY <1>6, <2>3
      <4> HIDE DEF value
      <4>2. /\ DOMAIN all = DOMAIN more \cup {"targetProfile"}
            /\ \A k \in DOMAIN more : all[k] = more[k]
            /\ "targetProfile" \notin DOMAIN more => all["targetProfile"] = value
        BY <4>1 DEF Over, Only
      <4> QED
        BY <4>2 DEF value
    <3> HIDE DEF has
    <3> QED
      BY <2>1, <2>2, <2>3, <3>1
  <2>4. CASE ~has("targetProfile")
    <3>1. all = more
      BY <1>6, <2>4
    <3> HIDE DEF has
    <3> QED
      BY <2>1, <2>2, <2>4, <3>1
  <2> QED
    BY <2>3, <2>4
<1>10. \A key \in DOMAIN Option :
         EffectiveShaderTarget(c)[key] = IF key \in DOMAIN all THEN all[key] ELSE Empty
  <2>1. /\ DOMAIN Over(all, NoTarget) = DOMAIN all \cup DOMAIN Option
        /\ \A k \in DOMAIN all \cup DOMAIN Option :
             Over(all, NoTarget)[k] = IF k \in DOMAIN all THEN all[k] ELSE NoTarget[k]
    BY <1>8 DEF Over
  <2> QED
    BY <1>7, <1>8, <2>1
<1>11. \A key \in DOMAIN Option :
         EffectiveShaderTarget(c)[key] =
           IF key \in DOMAIN said THEN said[key]
           ELSE IF key \in DOMAIN c.scalars THEN c.scalars[key] ELSE Empty
  BY <1>9, <1>10
<1> QED
  BY <1>11 DEF said, rest

\* The origin that is shown of an entry point, or of a profile, is of the value that
\* is shown, whatever other arguments there are and however often the option is given:
\* the two functions that look for it in the arguments agree (effective_shader_target,
\* has_compiler_option).  In the additional arguments, a value follows each option
\* that has none of its own, or nothing does.
THEOREM TargetsCorrect ==
  ASSUME NEW c, "scalars" \in DOMAIN c, NEW A,
         Additional(c) \in Seq(A), ValuesFollow(Additional(c)),
         NEW key \in DOMAIN Option
  PROVE  TargetIsExplained(c, key)
<1> DEFINE said == Scanned(Additional(c))
           d == [c EXCEPT !.scalars = [k \in DOMAIN @ \ DOMAIN Option |-> @[k]]]
           own == IF key \in DOMAIN c.scalars THEN c.scalars[key] ELSE Empty
<1>1. /\ DOMAIN d.scalars = DOMAIN c.scalars \ DOMAIN Option
      /\ \A k \in DOMAIN d.scalars : d.scalars[k] = c.scalars[k]
  OBVIOUS
<1>2. "additionalArguments" \notin DOMAIN Option
  BY DEF Option
<1> HIDE DEF d
<1>3. Additional(d) = Additional(c)
  BY <1>1, <1>2 DEF Additional
<1>4. EffectiveShaderTarget(c)[key] = IF key \in DOMAIN said THEN said[key] ELSE own
  BY ArgumentsScanned
<1>5. EffectiveShaderTarget(d)[key] = IF key \in DOMAIN said THEN said[key] ELSE Empty
  BY <1>1, <1>3, ArgumentsScanned
<1>6. SaysWhatIsGiven(said, Additional(c), 1) /\ DOMAIN Additional(c) = 1 .. Len(Additional(c))
  BY ScannedSays
<1>7. key \in DOMAIN said <=> \E j \in DOMAIN Additional(c) : Gives(Additional(c), key, j)
  BY <1>6 DEF SaysWhatIsGiven
<1>8. key \in DOMAIN said <=> HasCompilerOption(Additional(c), Option[key])
  BY <1>7 DEF HasCompilerOption, Gives
<1>9. OriginKey(c, key) = IF key \in DOMAIN said THEN "additionalArguments" ELSE key
  <2>1. CASE "additionalArguments" \in DOMAIN c.scalars
    BY <1>8, <2>1 DEF OriginKey, Additional
  <2>2. CASE "additionalArguments" \notin DOMAIN c.scalars
    <3>1. Additional(c) = <<>>
      BY <2>2 DEF Additional
    <3>2. key \notin DOMAIN said
      BY <1>7, <3>1
    <3> QED
      BY <2>2, <3>2 DEF OriginKey
  <2> QED
    BY <2>1, <2>2
<1>10. key \in DOMAIN said => said[key] # Empty
  BY <1>6 DEF SaysWhatIsGiven
<1>11. key # "additionalArguments"
  BY <1>2
<1>12. /\ OriginKey(c, key) = key => EffectiveShaderTarget(c)[key] = own
       /\ OriginKey(c, key) # key =>
            /\ EffectiveShaderTarget(c)[key] = EffectiveShaderTarget(d)[key]
            /\ EffectiveShaderTarget(d)[key] # Empty
  BY <1>4, <1>5, <1>9, <1>10, <1>11
<1> QED
  BY <1>12 DEF TargetIsExplained, d

=============================================================================
