--------------------------- MODULE IdleWaitProofs ---------------------------
(***************************************************************************)
(* Proof that wait_idle covers the work that came before it, for every     *)
(* number of workers, waiters and submissions and every capacity.          *)
(***************************************************************************)
EXTENDS IdleWait, FiniteSetTheorems, TLAPS

Working(w) == thread[w] = "working"

\* Every submission is at one place, or over.
OnePlace ==
  /\ \A w, v \in Worker : w # v => queue[w] \cap queue[v] = {}
  /\ \A w, v \in Worker : Working(w) => current[w] \in Task /\ current[w] \notin queue[v]
  /\ \A w, v \in Worker : Working(w) /\ Working(v) /\ w # v => current[w] # current[v]
  /\ \A w, v \in Worker : ~Unlocked(w) /\ ~Unlocked(v) /\ w # v => entering[w] # entering[v]
  /\ \A w \in Worker : ~Unlocked(w) => entering[w] \in 1 .. calls \ Unfinished

\* outstanding_ is the number of them that are queued or worked on.
Counted == outstanding = Cardinality(Unfinished)

\* What a waiter waits for is never submitted again.
OwedIsEarlier ==
  /\ \A x \in Waiter : owed[x] \subseteq 1 .. calls
  /\ \A x \in Waiter : \A w \in Worker : ~Unlocked(w) => entering[w] \notin owed[x]

IInv ==
  /\ TypeOK
  /\ Unfinished \subseteq 1 .. calls
  /\ OnePlace
  /\ Counted
  /\ OwedIsEarlier
  /\ WaitCoversEarlierWork

-----------------------------------------------------------------------------
LEMMA UnfinishedFinite ==
  ASSUME NEW S \in SUBSET (1 .. calls), calls \in Nat
  PROVE  IsFiniteSet(S) /\ Cardinality(S) \in Nat
<1>1. IsFiniteSet(1 .. calls)
  BY FS_Interval
<1> QED
  BY <1>1, FS_Subset, FS_CardinalityType

LEMMA InitIdle == Init => IInv
<1> SUFFICES ASSUME Init PROVE IInv
  OBVIOUS
<1>1. Unfinished = {}
  BY DEF Init, Unfinished
<1>2. Counted
  BY <1>1, FS_EmptySet DEF Init, Counted
<1>3. TypeOK
  BY IdleAssumption DEF Init, TypeOK, Task, NoTask
<1>4. OnePlace /\ OwedIsEarlier /\ WaitCoversEarlierWork
  BY DEF Init, OnePlace, OwedIsEarlier, WaitCoversEarlierWork, Working, Unlocked
<1> QED
  BY <1>1, <1>2, <1>3, <1>4 DEF IInv

\* The next task to be submitted.
LEMMA NextTask ==
  ASSUME IInv, calls < MaxTasks
  PROVE  /\ calls + 1 \in Task /\ calls \in Nat /\ calls + 1 \in 0 .. MaxTasks
         /\ calls + 1 \notin 1 .. calls /\ 1 .. calls \subseteq 1 .. (calls + 1)
         /\ calls + 1 \in 1 .. (calls + 1) /\ calls + 1 # NoTask
BY IdleAssumption DEF IInv, TypeOK, Task, NoTask

LEMMA RoomKeeps ==
  ASSUME IInv, NEW w \in Worker, SubmitWithRoom(w) PROVE IInv'
<1> DEFINE t == calls + 1
<1>1. /\ t \in Task /\ calls \in Nat /\ t \in 0 .. MaxTasks /\ t \notin 1 .. calls
      /\ 1 .. calls \subseteq 1 .. t /\ t \in 1 .. t /\ calls' = t
  BY NextTask DEF SubmitWithRoom
<1>2. /\ queue' = [queue EXCEPT ![w] = @ \cup {t}]
      /\ outstanding' = outstanding + 1
      /\ UNCHANGED <<entering, thread, current, canceller, waiter, idle, owed>>
  BY DEF SubmitWithRoom, waitVars
<1> HIDE DEF t
<1>3. \A v \in Worker : queue'[v] = IF v = w THEN queue[v] \cup {t} ELSE queue[v]
  BY <1>2 DEF IInv, TypeOK
<1>4. Unfinished' = Unfinished \cup {t}
  BY <1>1, <1>2, <1>3 DEF Unfinished
<1>5. t \notin Unfinished /\ Unfinished' \subseteq 1 .. calls'
  BY <1>1, <1>4 DEF IInv
<1>6. Counted'
  BY <1>1, <1>2, <1>4, <1>5, UnfinishedFinite, FS_AddElement DEF IInv, Counted
<1>7. TypeOK'
  BY <1>1, <1>2 DEF IInv, TypeOK
<1>8. OnePlace'
  BY <1>1, <1>2, <1>3, <1>4, <1>5 DEF IInv, OnePlace, Working, Unlocked, Unfinished, TypeOK
<1>9. OwedIsEarlier' /\ WaitCoversEarlierWork'
  BY <1>1, <1>2, <1>4 DEF IInv, OwedIsEarlier, WaitCoversEarlierWork, Unlocked
<1> QED
  BY <1>5, <1>6, <1>7, <1>8, <1>9 DEF IInv

\* Queued tasks leave a queue.
LEMMA LeavingFacts ==
  ASSUME IInv, NEW w \in Worker, NEW S \in SUBSET queue[w],
         queue' = [queue EXCEPT ![w] = @ \ S]
  PROVE  /\ S \subseteq Unfinished /\ Cardinality(S) \in Nat
         /\ \A v \in Worker : queue'[v] = queue[v] \ S
         /\ queue' \in [Worker -> SUBSET Task]
         /\ \A v \in Worker : Working(v) => current[v] \notin S
         /\ Cardinality(Unfinished \ S) = Cardinality(Unfinished) - Cardinality(S)
<1>1. \A v \in Worker : queue[v] \in SUBSET Task
  BY DEF IInv, TypeOK
<1>2. S \subseteq Unfinished
  BY <1>1 DEF Unfinished
<1>3. \A v \in Worker : queue'[v] = IF v = w THEN queue[v] \ S ELSE queue[v]
  BY DEF IInv, TypeOK
<1>4. \A v \in Worker : v # w => queue[v] \ S = queue[v]
  BY DEF IInv, OnePlace
<1>5. \A v \in Worker : Working(v) => current[v] \notin S
  BY DEF IInv, OnePlace
<1>6. IsFiniteSet(Unfinished) /\ S \in SUBSET (1 .. calls) /\ calls \in Nat
  BY <1>2, UnfinishedFinite DEF IInv, TypeOK
<1>7. Cardinality(S) \in Nat /\ Unfinished \cap S = S
  BY <1>2, <1>6, UnfinishedFinite
<1>8. Cardinality(Unfinished \ S) = Cardinality(Unfinished) - Cardinality(S)
  BY <1>6, <1>7, FS_Difference
<1>9. queue' \in [Worker -> SUBSET Task]
  BY <1>1 DEF IInv, TypeOK
<1> QED
  BY <1>2, <1>3, <1>4, <1>5, <1>7, <1>8, <1>9

LEMMA ReplacingKeeps ==
  ASSUME IInv, NEW w \in Worker, SubmitReplacing(w) PROVE IInv'
<1> DEFINE t == calls + 1
<1>1. /\ t \in Task /\ calls \in Nat /\ t \in 0 .. MaxTasks /\ t \notin 1 .. calls
      /\ 1 .. calls \subseteq 1 .. t /\ t \in 1 .. t /\ calls' = t
  BY NextTask DEF SubmitReplacing
<1>2. /\ outstanding' = outstanding
      /\ UNCHANGED <<entering, thread, current, canceller, waiter, idle, owed>>
  BY DEF SubmitReplacing, waitVars
<1>3. PICK old \in queue[w] : queue' = [queue EXCEPT ![w] = (@ \ {old}) \cup {t}]
  BY DEF SubmitReplacing
<1> HIDE DEF t
<1>4. \A v \in Worker : queue'[v] = IF v = w THEN (queue[v] \ {old}) \cup {t} ELSE queue[v]
  BY <1>3 DEF IInv, TypeOK
<1>5. /\ old \in Unfinished
      /\ \A v \in Worker : v # w => old \notin queue[v]
      /\ \A v \in Worker : Working(v) => current[v] # old
  BY DEF IInv, OnePlace, TypeOK, Unfinished
<1>6. t \notin Unfinished
  BY <1>1 DEF IInv
<1>7. Unfinished' = (Unfinished \ {old}) \cup {t}
  BY <1>1, <1>2, <1>4, <1>5 DEF Unfinished, Working
<1>8. Unfinished' \subseteq 1 .. calls'
  BY <1>1, <1>7 DEF IInv
<1>9. Counted'
  <2>1. IsFiniteSet(Unfinished) /\ IsFiniteSet(Unfinished \ {old})
        /\ Cardinality(Unfinished) \in Nat
    BY <1>1, UnfinishedFinite, FS_Subset DEF IInv
  <2>2. Cardinality(Unfinished \ {old}) = Cardinality(Unfinished) - 1
    BY <1>5, <2>1, FS_RemoveElement
  <2>3. Cardinality(Unfinished') = Cardinality(Unfinished \ {old}) + 1
    BY <1>6, <1>7, <2>1, FS_AddElement
  <2> QED
    BY <1>2, <2>1, <2>2, <2>3 DEF IInv, Counted
<1>10. TypeOK'
  BY <1>1, <1>2, <1>3 DEF IInv, TypeOK
<1>11. OnePlace'
  <2>1. \A v \in Worker : /\ t \notin queue[v]
                          /\ Working(v) => current[v] # t
    BY <1>1, <1>6 DEF IInv, TypeOK, Unfinished, Working
  <2>2. \A v, u \in Worker : v # u => queue'[v] \cap queue'[u] = {}
    <3>1. \A v, u \in Worker : v # u => queue[v] \cap queue[u] = {}
      BY DEF IInv, OnePlace
    <3>2. ASSUME NEW v \in Worker, NEW u \in Worker, v # u, u # w
          PROVE  queue'[v] \cap queue'[u] = {}
      <4>1. queue'[v] \subseteq queue[v] \cup {t} /\ queue'[u] = queue[u]
        BY <1>4, <3>2
      <4> QED
        BY <2>1, <3>1, <3>2, <4>1
    <3> QED
      BY <3>2
  <2>3. \A v, u \in Worker : Working(v) => current[v] \in Task /\ current[v] \notin queue'[u]
    BY <1>4, <2>1 DEF IInv, OnePlace
  <2>4. \A v \in Worker : ~Unlocked(v) => entering[v] \in 1 .. calls' \ Unfinished'
    BY <1>1, <1>7 DEF IInv, OnePlace
  <2> QED
    BY <1>2, <2>2, <2>3, <2>4 DEF IInv, OnePlace, Working, Unlocked
<1>12. OwedIsEarlier' /\ WaitCoversEarlierWork'
  BY <1>1, <1>2, <1>7 DEF IInv, OwedIsEarlier, WaitCoversEarlierWork, Unlocked
<1> QED
  BY <1>8, <1>9, <1>10, <1>11, <1>12 DEF IInv

LEMMA EvictKeeps ==
  ASSUME IInv, NEW w \in Worker, SubmitEvict(w) PROVE IInv'
<1> DEFINE t == calls + 1
<1>1. /\ t \in Task /\ calls \in Nat /\ t \in 0 .. MaxTasks /\ t \notin 1 .. calls
      /\ 1 .. calls \subseteq 1 .. t /\ t \in 1 .. t /\ calls' = t
  BY NextTask DEF SubmitEvict
<1>2. /\ outstanding' = outstanding - 1
      /\ entering' = [entering EXCEPT ![w] = t]
      /\ UNCHANGED <<thread, current, canceller, waiter, idle, owed>>
  BY DEF SubmitEvict, waitVars
<1>3. PICK old \in queue[w] : queue' = [queue EXCEPT ![w] = @ \ {old}]
  BY DEF SubmitEvict
<1> HIDE DEF t
<1> DEFINE S == {old}
<1>4. /\ S \subseteq Unfinished /\ Cardinality(S) = 1
      /\ \A v \in Worker : queue'[v] = queue[v] \ S
      /\ queue' \in [Worker -> SUBSET Task]
      /\ \A v \in Worker : Working(v) => current[v] \notin S
      /\ Cardinality(Unfinished \ S) = Cardinality(Unfinished) - Cardinality(S)
  <2>1. S \in SUBSET queue[w] /\ queue' = [queue EXCEPT ![w] = @ \ S]
    BY <1>3
  <2>2. Cardinality(S) = 1
    BY FS_Singleton
  <2> HIDE DEF S
  <2> QED
    BY <2>1, <2>2, LeavingFacts
<1> HIDE DEF S
<1>5. Unfinished' = Unfinished \ S
  BY <1>2, <1>4 DEF Unfinished, Working
<1>6. Unfinished' \subseteq 1 .. calls' /\ t \notin Unfinished'
  BY <1>1, <1>5 DEF IInv
<1>7. Counted' /\ outstanding' \in Nat
  <2>1. Unfinished' \in SUBSET (1 .. calls) /\ calls \in Nat
    BY <1>1, <1>5 DEF IInv
  <2>2. Cardinality(Unfinished') \in Nat
    BY <2>1, UnfinishedFinite
  <2> QED
    BY <1>2, <1>4, <1>5, <2>2 DEF IInv, Counted
<1>8. TypeOK'
  BY <1>1, <1>2, <1>4, <1>7 DEF IInv, TypeOK
<1>9. \A v \in Worker : entering'[v] = IF v = w THEN t ELSE entering[v]
  BY <1>2 DEF IInv, TypeOK
<1>10. OnePlace'
  BY <1>1, <1>2, <1>4, <1>5, <1>6, <1>9
  DEF IInv, OnePlace, Working, Unlocked, TypeOK
<1>11. OwedIsEarlier' /\ WaitCoversEarlierWork'
  BY <1>1, <1>2, <1>5, <1>9 DEF IInv, OwedIsEarlier, WaitCoversEarlierWork, Unlocked
<1> QED
  BY <1>6, <1>7, <1>8, <1>10, <1>11 DEF IInv

LEMMA InsertKeeps ==
  ASSUME IInv, NEW w \in Worker, SubmitInsert(w) PROVE IInv'
<1> DEFINE e == entering[w]
<1>1. /\ e \in 1 .. calls /\ e \in Task /\ e \notin Unfinished
      /\ \A x \in Waiter : e \notin owed[x]
      /\ \A v \in Worker : v # w /\ ~Unlocked(v) => entering[v] # e
  BY DEF SubmitInsert, IInv, OnePlace, OwedIsEarlier, TypeOK, Unlocked
<1>2. /\ queue' = [queue EXCEPT ![w] = @ \cup {e}]
      /\ entering' = [entering EXCEPT ![w] = NoTask]
      /\ outstanding' = outstanding + 1 /\ calls' = calls
      /\ UNCHANGED <<thread, current, canceller, waiter, idle, owed>>
  BY DEF SubmitInsert, waitVars
<1> HIDE DEF e
<1>3. \A v \in Worker : /\ queue'[v] = IF v = w THEN queue[v] \cup {e} ELSE queue[v]
                        /\ entering'[v] = IF v = w THEN NoTask ELSE entering[v]
  BY <1>2 DEF IInv, TypeOK
<1>4. Unfinished' = Unfinished \cup {e}
  BY <1>1, <1>2, <1>3 DEF Unfinished
<1>5. Unfinished' \subseteq 1 .. calls'
  BY <1>1, <1>2, <1>4 DEF IInv
<1>6. Counted'
  BY <1>1, <1>2, <1>4, UnfinishedFinite, FS_AddElement DEF IInv, Counted, TypeOK
<1>7. TypeOK'
  BY <1>1, <1>2 DEF IInv, TypeOK
<1>8. OnePlace'
  BY <1>1, <1>2, <1>3, <1>4 DEF IInv, OnePlace, Working, Unlocked, Unfinished, TypeOK
<1>9. OwedIsEarlier' /\ WaitCoversEarlierWork'
  BY <1>1, <1>2, <1>3, <1>4 DEF IInv, OwedIsEarlier, WaitCoversEarlierWork, Unlocked
<1> QED
  BY <1>5, <1>6, <1>7, <1>8, <1>9 DEF IInv

LEMMA TakeKeeps ==
  ASSUME IInv, NEW w \in Worker, Take(w) PROVE IInv'
<1>1. /\ thread[w] = "waiting" /\ thread' = [thread EXCEPT ![w] = "working"]
      /\ UNCHANGED <<calls, entering, canceller, waiter, idle, owed>>
  BY DEF Take, waitVars
<1>2. outstanding' = outstanding
  BY DEF Take, CountedOut, IInv, TypeOK
<1>3. PICK t \in queue[w] : /\ queue' = [queue EXCEPT ![w] = @ \ {t}]
                            /\ current' = [current EXCEPT ![w] = t]
  BY DEF Take
<1>4. t \in Task
  BY DEF IInv, TypeOK
<1>5. \A v \in Worker : /\ queue'[v] = IF v = w THEN queue[v] \ {t} ELSE queue[v]
                        /\ thread'[v] = IF v = w THEN "working" ELSE thread[v]
                        /\ current'[v] = IF v = w THEN t ELSE current[v]
  BY <1>1, <1>3 DEF IInv, TypeOK
<1>6. Unfinished' = Unfinished
  BY <1>1, <1>4, <1>5 DEF Unfinished
<1>7. Counted' /\ OwedIsEarlier' /\ WaitCoversEarlierWork' /\ Unfinished' \subseteq 1 .. calls'
  BY <1>1, <1>2, <1>6
  DEF IInv, Counted, OwedIsEarlier, WaitCoversEarlierWork, Unlocked
<1>8. TypeOK'
  BY <1>1, <1>2, <1>3, <1>4 DEF IInv, TypeOK
<1>9. OnePlace'
  <2>1. \A v \in Worker : /\ v # w => t \notin queue[v]
                          /\ Working(v) => current[v] # t /\ v # w
    BY <1>1 DEF IInv, OnePlace, Working
  <2>2. \A v, u \in Worker : v # u => queue'[v] \cap queue'[u] = {}
    BY <1>5 DEF IInv, OnePlace
  <2>3. \A v, u \in Worker : thread'[v] = "working" =>
          current'[v] \in Task /\ current'[v] \notin queue'[u]
    BY <1>4, <1>5, <2>1 DEF IInv, OnePlace, Working
  <2>4. \A v, u \in Worker : thread'[v] = "working" /\ thread'[u] = "working" /\ v # u
          => current'[v] # current'[u]
    <3>1. \A v, u \in Worker : Working(v) /\ Working(u) /\ v # u => current[v] # current[u]
      BY DEF IInv, OnePlace
    <3>2. \A v \in Worker : v # w /\ thread'[v] = "working" =>
            Working(v) /\ current'[v] = current[v] /\ current[v] # t
      BY <1>5, <2>1 DEF Working
    <3>3. current'[w] = t
      BY <1>5
    <3> QED
      BY <3>1, <3>2, <3>3
  <2> QED
    BY <1>1, <1>6, <2>2, <2>3, <2>4 DEF IInv, OnePlace, Working, Unlocked
<1> QED
  BY <1>7, <1>8, <1>9 DEF IInv

LEMMA SettleKeeps ==
  ASSUME IInv, NEW w \in Worker, Settle(w) PROVE IInv'
<1> DEFINE t == current[w]
<1>1. /\ thread[w] = "working" /\ thread' = [thread EXCEPT ![w] = "settled"]
      /\ UNCHANGED <<calls, queue, entering, current, canceller, waiter, idle, owed>>
  BY DEF Settle, waitVars
<1>2. outstanding' = outstanding - 1
  BY DEF Settle, CountedOut
<1>3. /\ t \in Task /\ t \in Unfinished /\ \A v \in Worker : t \notin queue[v]
      /\ \A v \in Worker : Working(v) /\ v # w => current[v] # t
  BY <1>1 DEF IInv, OnePlace, Working, Unfinished
<1>4. \A v \in Worker : thread'[v] = IF v = w THEN "settled" ELSE thread[v]
  BY <1>1 DEF IInv, TypeOK
<1>5. Unfinished' = Unfinished \ {t}
  BY <1>1, <1>3, <1>4 DEF Unfinished, Working
<1> HIDE DEF t
<1>6. Counted' /\ outstanding' \in Nat
  <2>1. IsFiniteSet(Unfinished) /\ Cardinality(Unfinished') \in Nat
        /\ Cardinality(Unfinished) \in Nat
    BY <1>5, UnfinishedFinite DEF IInv, TypeOK
  <2>2. Cardinality(Unfinished \ {t}) = Cardinality(Unfinished) - 1
    BY <1>3, <2>1, FS_RemoveElement
  <2> QED
    BY <1>2, <1>5, <2>1, <2>2 DEF IInv, Counted
<1>7. TypeOK'
  BY <1>1, <1>6 DEF IInv, TypeOK
<1>8. OnePlace'
  BY <1>1, <1>4, <1>5 DEF IInv, OnePlace, Working, Unlocked
<1>9. OwedIsEarlier' /\ WaitCoversEarlierWork' /\ Unfinished' \subseteq 1 .. calls'
  BY <1>1, <1>5 DEF IInv, OwedIsEarlier, WaitCoversEarlierWork, Unlocked
<1> QED
  BY <1>6, <1>7, <1>8, <1>9 DEF IInv

LEMMA DiscardKeeps ==
  ASSUME IInv, NEW w \in Worker, Discard(w) PROVE IInv'
<1>1. /\ canceller' = "discarded"
      /\ UNCHANGED <<calls, entering, thread, current, waiter, idle, owed>>
  BY DEF Discard, waitVars
<1>2. PICK S \in SUBSET queue[w] : /\ queue' = [queue EXCEPT ![w] = @ \ S]
                                   /\ outstanding' = outstanding - Cardinality(S)
  BY DEF Discard
<1>3. /\ S \subseteq Unfinished /\ Cardinality(S) \in Nat
      /\ \A v \in Worker : queue'[v] = queue[v] \ S
      /\ queue' \in [Worker -> SUBSET Task]
      /\ \A v \in Worker : Working(v) => current[v] \notin S
      /\ Cardinality(Unfinished \ S) = Cardinality(Unfinished) - Cardinality(S)
  BY <1>2, LeavingFacts
<1>4. Unfinished' = Unfinished \ S
  BY <1>1, <1>3 DEF Unfinished, Working
<1>5. Counted' /\ outstanding' \in Nat
  <2>1. Cardinality(Unfinished') \in Nat
    BY <1>4, UnfinishedFinite DEF IInv, TypeOK
  <2> QED
    BY <1>2, <1>3, <1>4, <2>1 DEF IInv, Counted
<1>6. TypeOK'
  BY <1>1, <1>3, <1>5 DEF IInv, TypeOK
<1>7. OnePlace'
  BY <1>1, <1>3, <1>4 DEF IInv, OnePlace, Working, Unlocked
<1>8. OwedIsEarlier' /\ WaitCoversEarlierWork' /\ Unfinished' \subseteq 1 .. calls'
  BY <1>1, <1>4 DEF IInv, OwedIsEarlier, WaitCoversEarlierWork, Unlocked
<1> QED
  BY <1>5, <1>6, <1>7, <1>8 DEF IInv

\* Notifications let parked waiters test again.
LEMMA NotifyKeeps ==
  ASSUME IInv, NotifyDiscarded \/ \E w \in Worker : NotifySettled(w) PROVE IInv'
<1>1. /\ UNCHANGED <<calls, queue, entering, current, outstanding, idle, owed>>
      /\ waiter' = WakeAll
  BY DEF NotifyDiscarded, NotifySettled, NotifyAll
<1>2. /\ thread' \in [Worker -> {"waiting", "working", "settled"}]
      /\ canceller' \in {"outside", "discarded"}
      /\ \A v \in Worker : thread'[v] = "working" <=> thread[v] = "working"
  BY DEF NotifyDiscarded, NotifySettled, IInv, TypeOK
<1>3. /\ waiter' \in [Waiter -> {"outside", "locking", "testing", "parking",
                                 "parked", "returned"}]
      /\ \A x \in Waiter : waiter'[x] = "returned" => waiter[x] = "returned"
  BY <1>1 DEF WakeAll, IInv, TypeOK
<1>4. Unfinished' = Unfinished
  BY <1>1, <1>2 DEF Unfinished
<1>5. TypeOK'
  BY <1>1, <1>2, <1>3 DEF IInv, TypeOK
<1>6. OnePlace' /\ OwedIsEarlier' /\ Counted' /\ Unfinished' \subseteq 1 .. calls'
  BY <1>1, <1>2, <1>4 DEF IInv, OnePlace, OwedIsEarlier, Counted, Working, Unlocked
<1>7. WaitCoversEarlierWork'
  BY <1>1, <1>3, <1>4 DEF IInv, WaitCoversEarlierWork
<1> QED
  BY <1>4, <1>5, <1>6, <1>7 DEF IInv

\* A waiter leaves only when it has read zero, which is when nothing is unfinished.
LEMMA WaiterKeeps ==
  ASSUME IInv, NEW x \in Waiter, CallWait(x) \/ WaitStep(x) \/ WakeSpuriously(x)
  PROVE  IInv'
<1>1. UNCHANGED work
  BY DEF CallWait, WaitStep, Lock, Test, Park, WakeSpuriously
<1>2. Unfinished' = Unfinished
  BY <1>1 DEF work, Unfinished
<1>3. OnePlace' /\ Counted' /\ Unfinished' \subseteq 1 .. calls'
  BY <1>1, <1>2 DEF work, IInv, OnePlace, Counted, Working, Unlocked
<1>4. owed' = IF CallWait(x) THEN [owed EXCEPT ![x] = Unfinished] ELSE owed
  BY DEF CallWait, WaitStep, Lock, Test, Park, WakeSpuriously
<1>5. TypeOK'
  <2>1. Unfinished \in SUBSET Task
    BY DEF Unfinished
  <2> QED
    BY <1>1, <2>1
    DEF work, IInv, TypeOK, CallWait, WaitStep, Lock, Test, Park, WakeSpuriously
<1>6. OwedIsEarlier'
  <2>1. \A y \in Waiter : owed'[y] \in {owed[y], Unfinished}
    BY <1>4 DEF IInv, TypeOK
  <2> QED
    BY <1>1, <2>1 DEF work, IInv, OwedIsEarlier, OnePlace, Unlocked
<1>7. WaitCoversEarlierWork'
  <2>0. IsFiniteSet(Unfinished)
    BY UnfinishedFinite DEF IInv, TypeOK
  <2>1. outstanding = 0 => Unfinished = {}
    BY <2>0, FS_EmptySet DEF IInv, Counted
  <2>2. \A y \in Waiter : waiter'[y] = "returned" =>
          /\ waiter[y] = "returned" \/ outstanding = 0
          /\ owed'[y] = owed[y]
    BY DEF IInv, TypeOK, CallWait, WaitStep, Lock, Test, Park, WakeSpuriously
  <2> QED
    BY <1>2, <2>1, <2>2 DEF IInv, WaitCoversEarlierWork
<1> QED
  BY <1>2, <1>3, <1>5, <1>6, <1>7 DEF IInv

LEMMA StutterKeeps ==
  ASSUME IInv, UNCHANGED vars PROVE IInv'
<1>1. Unfinished' = Unfinished
  BY DEF vars, waitVars, Unfinished
<1> QED
  BY <1>1
  DEF vars, waitVars, IInv, TypeOK, OnePlace, Counted, OwedIsEarlier,
      WaitCoversEarlierWork, Working, Unlocked

\* wait_idle of scheduler.cpp returns only when all the work that was unfinished at
\* its call is over, although outstanding_ may touch zero while an eviction is under
\* way: for any number of workers, waiters and submissions.
THEOREM IdleSafety == Spec => []Safety
<1>1. Init => IInv
  BY InitIdle
<1>2. IInv /\ [Next]_vars => IInv'
  BY RoomKeeps, ReplacingKeeps, EvictKeeps, InsertKeeps, TakeKeeps, SettleKeeps,
     DiscardKeeps, NotifyKeeps, WaiterKeeps, StutterKeeps
  DEF Next, Submit, WorkerStep
<1>3. IInv => Safety
  BY DEF IInv, Safety
<1> QED
  BY <1>1, <1>2, <1>3, PTL DEF Spec

=============================================================================
