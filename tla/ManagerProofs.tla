---------------------------- MODULE ManagerProofs ----------------------------
(***************************************************************************)
(* Proofs that the cache of a worker agrees with that of its child, that   *)
(* it is bounded, and that a failed recovery is not repeated: for every    *)
(* number of roots, entries, calls and failures, whatever the queue holds. *)
(***************************************************************************)
EXTENDS Manager, FiniteSetTheorems, NaturalsInduction, WellFoundedInduction, TLAPS

IsEntry(e) ==
  e = [key |-> e.key, arguments |-> e.arguments, version |-> e.version, epoch |-> e.epoch,
       generation |-> e.generation, resident |-> e.resident, attempted |-> e.attempted]

\* The entries of a cache, which is a function on the roots.
IsCache(c) ==
  /\ c = [r \in Root |-> c[r]]
  /\ \A r \in Root : c[r] = NoEntry \/ (IsEntry(c[r]) /\ c[r].resident \in BOOLEAN)

\* The candidate is an entry that the child has not got yet, and exists while its
\* analysis is asked for.
CandidateIsNew ==
  /\ candidate = NoEntry \/ (IsEntry(candidate) /\ candidate.resident = FALSE)
  /\ step \in {"resolved", "analysing"} => candidate # NoEntry
  /\ candidate # NoEntry => step \in {"resolved", "analysing", "failed"}

Coherent == ~crashed /\ step # "failed" => child = [r \in Root |-> Held(r)]

\* There is one entry too many only from the reply of the child to the eviction.
Bounded ==
  step \notin {"evicting", "failed"} => Cardinality(Occupied(entries)) <= MaxEntries

RecoveriesFollow ==
  recoveries # {} => step \in {"completing", "excusing", "recovering", "resubmitting"}

IInv ==
  /\ IsCache(entries)
  /\ child = [r \in Root |-> child[r]]
  /\ CandidateIsNew
  /\ Coherent
  /\ Bounded
  /\ RecoveriesFollow

-----------------------------------------------------------------------------
LEMMA EntryFacts ==
  ASSUME NEW e, IsEntry(e), NEW a, NEW b
  PROVE  /\ e # NoEntry
         /\ /\ IsEntry([e EXCEPT !.attempted = a])
            /\ [e EXCEPT !.attempted = a].resident = e.resident
            /\ Unit([e EXCEPT !.attempted = a]) = Unit(e)
         /\ /\ IsEntry([e EXCEPT !.resident = b])
            /\ [e EXCEPT !.resident = b].resident = b
            /\ Unit([e EXCEPT !.resident = b]) = Unit(e)
         /\ /\ IsEntry([e EXCEPT !.resident = b, !.attempted = a])
            /\ [e EXCEPT !.resident = b, !.attempted = a].resident = b
            /\ Unit([e EXCEPT !.resident = b, !.attempted = a]) = Unit(e)
<1>1. PICK k, g, v, p, n, d, t :
        e = [key |-> k, arguments |-> g, version |-> v, epoch |-> p, generation |-> n,
             resident |-> d, attempted |-> t]
  BY DEF IsEntry
<1>2. DOMAIN e = {"key", "arguments", "version", "epoch", "generation", "resident", "attempted"}
      /\ DOMAIN NoEntry = {"resident"}
  BY <1>1 DEF NoEntry
<1>3. e # NoEntry
  BY <1>2
<1>4. [e EXCEPT !.attempted = a] =
        [key |-> k, arguments |-> g, version |-> v, epoch |-> p, generation |-> n,
         resident |-> d, attempted |-> a]
  BY <1>1
<1>5. [e EXCEPT !.resident = b] =
        [key |-> k, arguments |-> g, version |-> v, epoch |-> p, generation |-> n,
         resident |-> b, attempted |-> t]
  BY <1>1
<1>6. [e EXCEPT !.resident = b, !.attempted = a] =
        [key |-> k, arguments |-> g, version |-> v, epoch |-> p, generation |-> n,
         resident |-> b, attempted |-> a]
  <2>1. [e EXCEPT !.resident = b, !.attempted = a]
          = [[e EXCEPT !.resident = b] EXCEPT !.attempted = a]
    OBVIOUS
  <2> DEFINE f == [key |-> k, arguments |-> g, version |-> v, epoch |-> p, generation |-> n,
                   resident |-> b, attempted |-> t]
  <2>2. [f EXCEPT !.attempted = a] =
          [key |-> k, arguments |-> g, version |-> v, epoch |-> p, generation |-> n,
           resident |-> b, attempted |-> a]
    OBVIOUS
  <2> QED
    BY <1>5, <2>1, <2>2
<1>7. e.resident = d /\ Unit(e) = [key |-> k, arguments |-> g]
  BY <1>1 DEF Unit
<1> QED
  BY <1>3, <1>4, <1>5, <1>6, <1>7 DEF IsEntry, Unit

LEMMA NoEntryFacts == NoEntry.resident = FALSE
BY DEF NoEntry

\* Caches that hold entries of fewer roots hold no more entries.
LEMMA FewerEntries ==
  ASSUME NEW c, NEW d, Occupied(d) \subseteq Occupied(c)
  PROVE  /\ IsFiniteSet(Occupied(c)) /\ Cardinality(Occupied(c)) \in Nat
         /\ Cardinality(Occupied(d)) \in Nat
         /\ Cardinality(Occupied(d)) <= Cardinality(Occupied(c))
<1>1. IsFiniteSet(Occupied(c))
  BY ManagerAssumption, FS_Subset DEF Occupied
<1>2. Occupied(d) \in SUBSET Occupied(c) /\ IsFiniteSet(Occupied(d))
  BY <1>1, FS_Subset
<1> QED
  BY <1>1, <1>2, FS_Subset, FS_CardinalityType

LEMMA InitManager == Init => IInv
<1> SUFFICES ASSUME Init PROVE IInv
  OBVIOUS
<1>1. Occupied(entries) = {}
  BY DEF Init, Occupied
<1>2. Cardinality(Occupied(entries)) = 0
  BY <1>1, FS_EmptySet
<1>3. Bounded
  BY <1>2, ManagerAssumption DEF Bounded
<1>4. IsCache(entries) /\ child = [r \in Root |-> child[r]]
  BY DEF Init, IsCache
<1>5. CandidateIsNew /\ RecoveriesFollow
  BY DEF Init, CandidateIsNew, RecoveriesFollow
<1>6. \A r \in Root : Held(r) = NoUnit
  BY NoEntryFacts DEF Init, Held
<1>7. Coherent
  BY <1>6 DEF Init, Coherent
<1> QED
  BY <1>3, <1>4, <1>5, <1>7 DEF IInv

-----------------------------------------------------------------------------
\* The caches stay as they are.
LEMMA CachesStay ==
  ASSUME IInv, UNCHANGED <<entries, child>>,
         crashed' = crashed \/ crashed' = TRUE,
         CandidateIsNew', RecoveriesFollow',
         step = "failed" => step' = "failed",
         step = "evicting" => step' \in {"evicting", "failed"} \/ ~Crowded(entries)
  PROVE  IInv'
<1>1. IsCache(entries)' /\ (child = [r \in Root |-> child[r]])'
  BY DEF IInv, IsCache
<1>3. Coherent'
  BY DEF IInv, Coherent, Held
<1>4. Bounded'
  <2>1. Cardinality(Occupied(entries)) \in Nat
    BY FewerEntries
  <2>2. ~Crowded(entries) => Cardinality(Occupied(entries)) <= MaxEntries
    BY <2>1, ManagerAssumption DEF Crowded
  <2>3. Occupied(entries)' = Occupied(entries)
    BY DEF Occupied
  <2> QED
    BY <2>2, <2>3 DEF IInv, Bounded
<1> QED
  BY <1>1, <1>3, <1>4 DEF IInv

LEMMA CallersKeep ==
  ASSUME IInv,
         \/ \E r \in Root, version \in Version, arguments \in Arguments :
              Analyze(r, version, arguments)
         \/ \E r \in Document : Query(r) \/ Forget(r)
         \/ CancelQuery \/ CancelRoot \/ SubmitErasure \/ Crash
  PROVE  IInv'
<1> DEFINE Undisturbed == /\ UNCHANGED <<entries, child, step, candidate, recoveries>>
                          /\ crashed' = crashed \/ crashed' = TRUE
<1>1. Undisturbed
  <2>1. CASE \E r \in Root, version \in Version, arguments \in Arguments :
               Analyze(r, version, arguments)
    BY <2>1 DEF Analyze, cacheVars, failureVars
  <2>2. CASE \E r \in Document : Query(r) \/ Forget(r)
    BY <2>2 DEF Query, Forget, cacheVars, failureVars
  <2>3. CASE CancelQuery \/ CancelRoot \/ SubmitErasure \/ Crash
    BY <2>3 DEF CancelQuery, CancelRoot, SubmitErasure, Crash, cacheVars, failureVars
  <2> QED
    BY <2>1, <2>2, <2>3
<1>2. CandidateIsNew' /\ RecoveriesFollow'
  BY <1>1 DEF IInv, CandidateIsNew, RecoveriesFollow
<1> QED
  BY <1>1, <1>2, CachesStay

\* The job returns, or begins.
LEMMA JobsKeep ==
  ASSUME IInv,
         \/ Pop \/ Abandon \/ ReportCompilation \/ Report \/ Throw \/ Recovered
         \/ Refuse \/ Answer
  PROVE  IInv'
<1>1. /\ UNCHANGED <<entries, child, crashed>>
      /\ step \notin {"failed", "evicting", "analysing"}
      /\ step' \notin {"failed", "evicting", "resolved", "analysing"}
      /\ \/ candidate' = NoEntry /\ recoveries' = {}
         \/ step = "idle" /\ UNCHANGED <<candidate, recoveries>>
  BY DEF Pop, Abandon, ReportCompilation, Report, Throw, Recovered, Refuse, Answer, Return, cacheVars,
         failureVars
<1>2. candidate' = NoEntry /\ recoveries' = {}
  BY <1>1 DEF IInv, CandidateIsNew, RecoveriesFollow
<1>3. CandidateIsNew' /\ RecoveriesFollow'
  BY <1>1, <1>2 DEF CandidateIsNew, RecoveriesFollow
<1> QED
  BY <1>1, <1>3, CachesStay

\* The job goes on.
LEMMA StepsKeep ==
  ASSUME IInv,
         \/ Fits \/ Publish \/ Clear \/ Compile \/ CompleteFailed \/ PublishUnavailable
         \/ ChooseRecovery \/ SubmitRecovery \/ Ask
  PROVE  IInv'
<1>1. /\ UNCHANGED <<entries, child, crashed>>
      /\ step \notin {"failed", "resolved", "analysing"}
      /\ step = "evicting" => ~Crowded(entries)
      /\ step' \notin {"resolved", "analysing"}
      /\ candidate' = NoEntry \/ UNCHANGED candidate
      /\ \/ recoveries' = {}
         \/ /\ UNCHANGED recoveries
            /\ \/ step \notin {"completing", "excusing", "recovering", "resubmitting"}
               \/ step' \in {"excusing", "recovering"}
         \/ step' \in {"recovering", "resubmitting"}
  BY DEF Fits, Publish, Clear, Compile, CompleteFailed, PublishUnavailable, ChooseRecovery,
         SubmitRecovery, Ask, Return, cacheVars, failureVars
<1>2. candidate' = NoEntry
  BY <1>1 DEF IInv, CandidateIsNew
<1>3. RecoveriesFollow'
  BY <1>1 DEF IInv, RecoveriesFollow
<1>4. CandidateIsNew'
  BY <1>1, <1>2 DEF CandidateIsNew
<1> QED
  BY <1>1, <1>3, <1>4, CachesStay

\* A request to the child fails.
LEMMA FailuresKeep ==
  ASSUME IInv, AnalyseFails \/ EvictFails \/ CompileFails
  PROVE  IInv'
<1>1. /\ UNCHANGED <<entries, child, crashed, candidate, recoveries>>
      /\ step \in {"analysing", "evicting", "compiling"} /\ step' = "failed"
  BY DEF AnalyseFails, EvictFails, CompileFails, Fail, cacheVars
<1>2. CandidateIsNew' /\ RecoveriesFollow'
  BY <1>1 DEF IInv, CandidateIsNew, RecoveriesFollow
<1> QED
  BY <1>1, <1>2, CachesStay

LEMMA ResolveKeeps == ASSUME IInv, Resolve \/ Describe PROVE IInv'
<1>1. UNCHANGED <<entries, child, crashed>> /\ step \in {"resolving", "resolved"}
  BY DEF Resolve, Describe, cacheVars
<1>2. recoveries' = {}
  BY <1>1 DEF Resolve, Describe, Return, failureVars, IInv, RecoveriesFollow
<1>3. CandidateIsNew'
  <2>1. CASE Resolve /\ token # "live"
    BY <2>1 DEF Resolve, Return, CandidateIsNew
  <2>2. CASE Resolve /\ token = "live"
    <3>1. PICK sources \in Sources :
            candidate' = [key |-> <<running.version, running.arguments, sources>>,
                          arguments |-> running.arguments,
                          version |-> running.version, epoch |-> running.epoch,
                          generation |-> running.generation, resident |-> FALSE,
                          attempted |-> running.kind = "recovery"]
      BY <2>2 DEF Resolve
    <3>2. IsEntry(candidate') /\ candidate'.resident = FALSE
      BY <3>1 DEF IsEntry
    <3>3. candidate' # NoEntry
      BY <3>2, EntryFacts
    <3>4. step' = "resolved"
      BY <2>2 DEF Resolve
    <3> QED
      BY <3>2, <3>3, <3>4 DEF CandidateIsNew
  <2>3. CASE Describe
    BY <2>3 DEF Describe, failureVars, IInv, CandidateIsNew
  <2> QED
    BY <2>1, <2>2, <2>3
<1>4. RecoveriesFollow'
  BY <1>2 DEF RecoveriesFollow
<1> QED
  BY <1>1, <1>3, <1>4, CachesStay

-----------------------------------------------------------------------------
\* Entries come and go.

\* The last analysis of the root may be tried again.
LEMMA StartKeeps == ASSUME IInv, Start PROVE IInv'
<1>1. /\ step = "starting" /\ step' = "resolving"
      /\ UNCHANGED <<child, crashed, candidate, recoveries>>
      /\ \/ UNCHANGED entries
         \/ /\ Here \in Root => Cached(Here)
            /\ entries' = [entries EXCEPT ![Here].attempted = FALSE]
  BY DEF Start, failureVars
<1>2. CandidateIsNew' /\ RecoveriesFollow'
  BY <1>1 DEF IInv, CandidateIsNew, RecoveriesFollow
<1>3. \A r \in Root :
        entries'[r] = entries[r]
        \/ (Cached(r) /\ entries'[r] = [entries[r] EXCEPT !.attempted = FALSE])
  BY <1>1 DEF IInv, IsCache
<1>4. \A r \in Root : /\ entries'[r] = NoEntry <=> entries[r] = NoEntry
                      /\ entries'[r].resident = entries[r].resident
                      /\ entries'[r] = NoEntry \/ IsEntry(entries'[r])
                      /\ entries[r] # NoEntry => Unit(entries'[r]) = Unit(entries[r])
  <2> SUFFICES ASSUME NEW r \in Root
               PROVE  /\ entries'[r] = NoEntry <=> entries[r] = NoEntry
                      /\ entries'[r].resident = entries[r].resident
                      /\ entries'[r] = NoEntry \/ IsEntry(entries'[r])
                      /\ entries[r] # NoEntry => Unit(entries'[r]) = Unit(entries[r])
    OBVIOUS
  <2>1. entries[r] = NoEntry \/ IsEntry(entries[r])
    BY DEF IInv, IsCache
  <2>2. CASE entries'[r] = entries[r]
    BY <2>1, <2>2
  <2>3. CASE Cached(r) /\ entries'[r] = [entries[r] EXCEPT !.attempted = FALSE]
    <3>1. IsEntry(entries[r]) /\ entries[r] # NoEntry
      BY <2>1, <2>3 DEF Cached
    <3>a. LET f == [entries[r] EXCEPT !.attempted = FALSE] IN
          IsEntry(f) /\ f.resident = entries[r].resident /\ Unit(f) = Unit(entries[r])
      BY <3>1, EntryFacts
    <3>2. /\ IsEntry(entries'[r]) /\ entries'[r].resident = entries[r].resident
          /\ Unit(entries'[r]) = Unit(entries[r])
      BY <2>3, <3>a
    <3>3. entries'[r] # NoEntry
      BY <3>2, EntryFacts
    <3> QED
      BY <3>1, <3>2, <3>3
  <2> QED
    BY <1>3, <2>2, <2>3
<1>5. entries' = [r \in Root |-> entries'[r]]
  BY <1>1 DEF IInv, IsCache
<1>6. IsCache(entries)'
  BY <1>4, <1>5 DEF IInv, IsCache
<1>7. \A r \in Root : Held(r)' = Held(r)
  BY <1>4, NoEntryFacts DEF Held
<1>8. Coherent'
  BY <1>1, <1>7 DEF IInv, Coherent
<1>9. Occupied(entries') = Occupied(entries)
  BY <1>4 DEF Occupied
<1>10. Bounded'
  BY <1>1, <1>9 DEF IInv, Bounded, Occupied
<1> QED
  BY <1>1, <1>2, <1>6, <1>8, <1>10 DEF IInv

\* The child holds what the parent expected, or is reset.
LEMMA RepliesKeep == ASSUME IInv, AnalyseReplies PROVE IInv'
<1>1. CASE ChildKind # ExpectedKind
  <2>1. /\ UNCHANGED <<entries, child, crashed, candidate, recoveries>>
        /\ step = "analysing" /\ step' = "failed"
    BY <1>1 DEF AnalyseReplies
  <2>2. CandidateIsNew' /\ RecoveriesFollow'
    BY <2>1 DEF IInv, CandidateIsNew, RecoveriesFollow
  <2> QED
    BY <2>1, <2>2, CachesStay
<1>2. CASE ChildKind = ExpectedKind
  <2> DEFINE e == [candidate EXCEPT !.resident = TRUE, !.attempted = FALSE]
  <2>1. /\ child' = [child EXCEPT ![Here] = Unit(candidate)]
        /\ entries' = [entries EXCEPT ![Here] = e]
        /\ candidate' = NoEntry /\ step = "analysing" /\ step' = "evicting"
        /\ ~crashed /\ UNCHANGED <<crashed, recoveries>>
    BY <1>2 DEF AnalyseReplies, failureVars
  <2>2. IsEntry(candidate)
    BY <2>1 DEF IInv, CandidateIsNew
  <2>3. IsEntry(e) /\ e.resident = TRUE /\ Unit(e) = Unit(candidate) /\ e # NoEntry
    <3>1. IsEntry(e) /\ e.resident = TRUE /\ Unit(e) = Unit(candidate)
      <4> DEFINE f == [candidate EXCEPT !.resident = TRUE]
      <4>1. IsEntry(f) /\ f.resident = TRUE /\ Unit(f) = Unit(candidate)
        BY <2>2, EntryFacts
      <4>2. e = [f EXCEPT !.attempted = FALSE]
        OBVIOUS
      <4> HIDE DEF e, f
      <4>3. LET g == [f EXCEPT !.attempted = FALSE] IN
            IsEntry(g) /\ g.resident = f.resident /\ Unit(g) = Unit(f)
        BY <4>1, EntryFacts
      <4> QED
        BY <4>1, <4>2, <4>3
    <3> QED
      BY <3>1, EntryFacts
  <2> HIDE DEF e
  <2>4. \A r \in Root : /\ entries'[r] = IF r = Here THEN e ELSE entries[r]
                        /\ child'[r] = IF r = Here THEN Unit(e) ELSE child[r]
    <3>1. \A r \in Root : entries'[r] = IF r = Here THEN e ELSE entries[r]
      BY <2>1 DEF IInv, IsCache
    <3>2. \A r \in Root : child'[r] = IF r = Here THEN Unit(candidate) ELSE child[r]
      BY <2>1 DEF IInv
    <3> QED
      BY <2>3, <3>1, <3>2
  <2>5. /\ entries' = [r \in Root |-> entries'[r]]
        /\ child' = [r \in Root |-> child'[r]]
    BY <2>1 DEF IInv, IsCache
  <2>6. IsCache(entries)'
    BY <2>3, <2>4, <2>5 DEF IInv, IsCache
  <2>7. \A r \in Root : child[r] = Held(r)
    BY <2>1 DEF IInv, Coherent
  <2>8. \A r \in Root : child'[r] = Held(r)'
    BY <2>3, <2>4, <2>7 DEF Held
  <2>9. Coherent'
    BY <2>5, <2>8 DEF Coherent
  <2>10. CandidateIsNew' /\ RecoveriesFollow' /\ Bounded'
    BY <2>1 DEF IInv, CandidateIsNew, RecoveriesFollow, Bounded
  <2> QED
    BY <2>5, <2>6, <2>9, <2>10 DEF IInv
<1> QED
  BY <1>1, <1>2

\* An entry leaves both caches.
LEMMA EntryLeaves ==
  ASSUME IInv, NEW v, CandidateIsNew', RecoveriesFollow',
         step # "failed", step' \in {"evicting", "idle"}, step = "evicting" => step' = "evicting",
         UNCHANGED crashed,
         entries' = [entries EXCEPT ![v] = NoEntry],
         \/ child' = [child EXCEPT ![v] = NoUnit]
         \/ (UNCHANGED child /\ (v \in Root => ~entries[v].resident))
  PROVE  IInv'
<1>1. \A r \in Root : entries'[r] = IF r = v THEN NoEntry ELSE entries[r]
  BY DEF IInv, IsCache
<1>2. /\ entries' = [r \in Root |-> entries'[r]]
      /\ child' = [r \in Root |-> child'[r]]
  BY DEF IInv, IsCache
<1>3. IsCache(entries)'
  BY <1>1, <1>2 DEF IInv, IsCache
<1>4. Coherent'
  <2> SUFFICES ASSUME ~crashed, NEW r \in Root
               PROVE  child'[r] = Held(r)'
    BY <1>2 DEF Coherent
  <2>1. child[r] = Held(r)
    BY DEF IInv, Coherent
  <2>2. child'[r] = IF r = v THEN NoUnit ELSE child[r]
    BY <2>1 DEF IInv, Held
  <2> QED
    BY <1>1, <2>1, <2>2, NoEntryFacts DEF Held
<1>5. Occupied(entries') \subseteq Occupied(entries)
  BY <1>1 DEF Occupied
<1>6. Cardinality(Occupied(entries')) <= Cardinality(Occupied(entries))
      /\ Cardinality(Occupied(entries)) \in Nat /\ Cardinality(Occupied(entries')) \in Nat
  BY <1>5, FewerEntries
<1>7. Bounded'
  BY <1>6, ManagerAssumption DEF IInv, Bounded, Occupied
<1> QED
  BY <1>2, <1>3, <1>4, <1>7 DEF IInv

LEMMA EvictKeeps == ASSUME IInv, Evict PROVE IInv'
<1>1. PICK victim \in Root \ {Here} :
        /\ Cached(victim)
        /\ child' = IF entries[victim].resident THEN ChildForgets(victim) ELSE child
        /\ entries' = [entries EXCEPT ![victim] = NoEntry]
  BY DEF Evict
<1>2. step = "evicting" /\ step' = "evicting" /\ UNCHANGED <<crashed, candidate, recoveries>>
  BY DEF Evict, failureVars
<1>3. CandidateIsNew' /\ RecoveriesFollow'
  BY <1>2 DEF IInv, CandidateIsNew, RecoveriesFollow
<1>4. \/ child' = [child EXCEPT ![victim] = NoUnit]
      \/ UNCHANGED child /\ ~entries[victim].resident
  BY <1>1 DEF ChildForgets
<1> QED
  BY <1>1, <1>2, <1>3, <1>4, EntryLeaves

LEMMA EraseEntryKeeps == ASSUME IInv, EraseEntry PROVE IInv'
<1>1. /\ step = "erasing" /\ step' = "idle" /\ candidate' = NoEntry /\ recoveries' = {}
      /\ UNCHANGED crashed
      /\ entries' = [entries EXCEPT ![Here] = NoEntry]
      /\ child' = IF Cached(Here) /\ entries[Here].resident THEN ChildForgets(Here) ELSE child
  BY DEF EraseEntry, Return
<1>2. CandidateIsNew' /\ RecoveriesFollow'
  BY <1>1 DEF CandidateIsNew, RecoveriesFollow
<1>3. \/ child' = [child EXCEPT ![Here] = NoUnit]
      \/ UNCHANGED child /\ (Here \in Root => ~entries[Here].resident)
  BY <1>1, NoEntryFacts DEF ChildForgets, Cached
<1> QED
  BY <1>1, <1>2, <1>3, EntryLeaves

-----------------------------------------------------------------------------
\* Everything is lost.

LEMMA InvalidatedFacts ==
  ASSUME IInv, NEW spared
  PROVE  LET c == Invalidated(spared) IN
         /\ IsCache(c)
         /\ Occupied(c) = Occupied(entries)
         /\ \A r \in Root : ~c[r].resident
<1> DEFINE c == Invalidated(spared)
<1>1. c = [r \in Root |-> c[r]]
  BY DEF Invalidated
<1>2. ASSUME NEW r \in Root
      PROVE  /\ c[r] = NoEntry \/ IsEntry(c[r])
             /\ c[r].resident = FALSE
             /\ c[r] = NoEntry <=> entries[r] = NoEntry
  <2>1. entries[r] = NoEntry \/ IsEntry(entries[r])
    BY DEF IInv, IsCache
  <2>2. CASE entries[r] = NoEntry
    <3>1. c[r] = NoEntry
      BY <2>2 DEF Invalidated, Cached
    <3> QED
      BY <2>2, <3>1, NoEntryFacts
  <2>3. CASE entries[r] # NoEntry
    <3> DEFINE f == [entries[r] EXCEPT !.resident = FALSE]
    <3>1. IsEntry(f) /\ f.resident = FALSE
      BY <2>1, <2>3, EntryFacts
    <3>2. [entries[r] EXCEPT !.resident = FALSE, !.attempted = TRUE] = [f EXCEPT !.attempted = TRUE]
      OBVIOUS
    <3>3. c[r] = f \/ c[r] = [f EXCEPT !.attempted = TRUE]
      BY <2>3, <3>2 DEF Invalidated, Cached
    <3> HIDE DEF c, f
    <3>4. LET g == [f EXCEPT !.attempted = TRUE] IN IsEntry(g) /\ g.resident = f.resident
      BY <3>1, EntryFacts
    <3>5. IsEntry(c[r]) /\ c[r].resident = FALSE
      BY <3>1, <3>3, <3>4
    <3>6. c[r] # NoEntry
      BY <3>5, EntryFacts
    <3> QED
      BY <2>3, <3>5, <3>6
  <2> QED
    BY <2>2, <2>3
<1> HIDE DEF c
<1>3. IsCache(c)
  BY <1>1, <1>2 DEF IsCache
<1>4. Occupied(c) = Occupied(entries)
  BY <1>2 DEF Occupied
<1> QED
  BY <1>2, <1>3, <1>4 DEF c

\* A cache that holds no unit agrees with a fresh child.
LEMMA LostKeeps ==
  ASSUME IsCache(entries'), \A r \in Root : ~entries'[r].resident,
         FreshChild, CandidateIsNew', RecoveriesFollow',
         Cardinality(Occupied(entries')) <= MaxEntries
  PROVE  IInv'
<1>1. IsCache(entries)'
  BY DEF IsCache
<1>2. child' = [r \in Root |-> NoUnit] /\ crashed' = FALSE
  BY DEF FreshChild
<1>3. child' = [r \in Root |-> child'[r]]
  BY <1>2
<1>4. \A r \in Root : child'[r] = Held(r)'
  BY <1>2 DEF Held
<1>5. Coherent'
  BY <1>3, <1>4 DEF Coherent
<1>6. Bounded'
  BY DEF Bounded, Occupied
<1> QED
  BY <1>1, <1>3, <1>5, <1>6 DEF IInv

\* What is kept of a cache that holds no unit.
LEMMA KeptFacts ==
  ASSUME NEW cache, IsCache(cache), \A r \in Root : ~cache[r].resident, NEW k \in Kept(cache)
  PROVE  /\ IsCache(k) /\ \A r \in Root : ~k[r].resident
         /\ Cardinality(Occupied(k)) <= MaxEntries
<1>1. CASE Crowded(cache)
  <2>1. PICK gone \in SUBSET (Root \ {Here}) :
          k = [r \in Root |-> IF r \in gone THEN NoEntry ELSE cache[r]]
    BY <1>1 DEF Kept
  <2>2. Cardinality(Occupied(k)) = MaxEntries
    BY <1>1 DEF Kept
  <2>3. \A r \in Root : k[r] = NoEntry \/ k[r] = cache[r]
    BY <2>1
  <2>4. IsCache(k)
    BY <2>1, <2>3 DEF IsCache
  <2>5. \A r \in Root : ~k[r].resident
    BY <2>3, NoEntryFacts
  <2> QED
    BY <2>2, <2>4, <2>5, ManagerAssumption
<1>2. CASE ~Crowded(cache)
  <2>1. k = cache
    BY <1>2 DEF Kept
  <2>2. Cardinality(Occupied(cache)) \in Nat
    BY FewerEntries
  <2> QED
    BY <1>2, <2>1, <2>2, ManagerAssumption DEF Crowded
<1> QED
  BY <1>1, <1>2

LEMMA HandlingKeeps == ASSUME IInv, HandleFailure PROVE IInv'
<1>1. /\ step = "failed" /\ step' \in {"recovering", "completing"} /\ candidate' = NoEntry
      /\ FreshChild /\ (FailedWithout \/ FailedWith)
  BY DEF HandleFailure, ResetCandidate
<1>2. CandidateIsNew' /\ RecoveriesFollow'
  BY <1>1 DEF CandidateIsNew, RecoveriesFollow
<1>3. PICK cache, all : IsCache(cache) /\ (\A r \in Root : ~cache[r].resident)
                        /\ KeepRecoverable(cache, all)
  <2>1. CASE FailedWithout
    <3> DEFINE c == Invalidated({})
    <3>1. KeepRecoverable(c, RecoveriesOf(Recovers({})))
      BY <2>1 DEF FailedWithout
    <3>2. IsCache(c) /\ (\A r \in Root : ~c[r].resident)
      BY InvalidatedFacts
    <3> QED
      BY <3>1, <3>2
  <2>2. CASE FailedWith
    <3> DEFINE c == Invalidated({Here})
               f == [candidate EXCEPT !.attempted = TRUE]
               d == [c EXCEPT ![Here] = f]
    <3>1. PICK all : KeepRecoverable(d, all)
      BY <2>2 DEF FailedWith
    <3>2. IsEntry(candidate) /\ candidate.resident = FALSE
      BY <2>2 DEF FailedWith, IInv, CandidateIsNew
    <3>3. IsEntry(f) /\ f.resident = FALSE
      BY <3>2, EntryFacts
    <3>4. IsCache(c) /\ (\A r \in Root : ~c[r].resident)
      BY InvalidatedFacts
    <3> HIDE DEF c, f
    <3>5. /\ d = [r \in Root |-> d[r]]
          /\ \A r \in Root : d[r] = IF r = Here THEN f ELSE c[r]
      BY <3>4 DEF IsCache
    <3> HIDE DEF d
    <3>6. IsCache(d) /\ (\A r \in Root : ~d[r].resident)
      BY <3>3, <3>4, <3>5 DEF IsCache
    <3> QED
      BY <3>1, <3>6
  <2> QED
    BY <1>1, <2>1, <2>2
<1>4. PICK kept \in Kept(cache) : entries' = kept
  BY <1>3 DEF KeepRecoverable
<1>5. /\ IsCache(entries') /\ \A r \in Root : ~entries'[r].resident
      /\ Cardinality(Occupied(entries')) <= MaxEntries
  BY <1>3, <1>4, KeptFacts
<1> QED
  BY <1>1, <1>2, <1>5, LostKeeps

LEMMA AnswerFailsKeeps == ASSUME IInv, AnswerFails PROVE IInv'
<1>1. PICK spared : entries' = Invalidated(spared)
  BY DEF AnswerFails
<1>2. /\ step = "querying" /\ step' = "recovering" /\ FreshChild /\ UNCHANGED candidate
  BY DEF AnswerFails
<1>3. CandidateIsNew' /\ RecoveriesFollow'
  BY <1>2 DEF IInv, CandidateIsNew, RecoveriesFollow
<1>4. /\ IsCache(entries') /\ \A r \in Root : ~entries'[r].resident
      /\ Occupied(entries') = Occupied(entries)
  BY <1>1, InvalidatedFacts
<1>5. Cardinality(Occupied(entries')) <= MaxEntries
  BY <1>2, <1>4 DEF IInv, Bounded
<1> QED
  BY <1>2, <1>3, <1>4, <1>5, LostKeeps

LEMMA EraseFailsKeeps == ASSUME IInv, EraseFails PROVE IInv'
<1> DEFINE c == Invalidated({Here})
<1>1. /\ step = "erasing" /\ step' = "recovering" /\ FreshChild /\ UNCHANGED candidate
      /\ entries' = [c EXCEPT ![Here] = NoEntry]
  BY DEF EraseFails
<1>2. CandidateIsNew' /\ RecoveriesFollow'
  BY <1>1 DEF IInv, CandidateIsNew, RecoveriesFollow
<1>3. /\ IsCache(c) /\ \A r \in Root : ~c[r].resident
      /\ Occupied(c) = Occupied(entries)
  BY InvalidatedFacts
<1> HIDE DEF c
<1>4. /\ entries' = [r \in Root |-> entries'[r]]
      /\ \A r \in Root : entries'[r] = IF r = Here THEN NoEntry ELSE c[r]
  BY <1>1, <1>3 DEF IsCache
<1>5. IsCache(entries') /\ \A r \in Root : ~entries'[r].resident
  BY <1>3, <1>4, NoEntryFacts DEF IsCache
<1>6. Occupied(entries') \subseteq Occupied(entries)
  BY <1>3, <1>4 DEF Occupied
<1>7. Cardinality(Occupied(entries)) <= MaxEntries
  BY <1>1 DEF IInv, Bounded
<1>8. Cardinality(Occupied(entries')) <= MaxEntries
  BY <1>6, <1>7, FewerEntries, ManagerAssumption
<1> QED
  BY <1>1, <1>2, <1>5, <1>8, LostKeeps

-----------------------------------------------------------------------------
LEMMA StepManager == IInv /\ [Next]_vars => IInv'
<1> SUFFICES ASSUME IInv, [Next]_vars PROVE IInv'
  OBVIOUS
<1>1. CASE UNCHANGED vars
  BY <1>1 DEF vars, failureVars, cacheVars, IInv, IsCache, CandidateIsNew, Coherent, Held,
              Bounded, RecoveriesFollow
<1>2. CASE Next
  BY <1>2, CallersKeep, JobsKeep, StepsKeep, FailuresKeep, ResolveKeeps, StartKeeps,
     RepliesKeep, EvictKeeps, EraseEntryKeeps, HandlingKeeps, AnswerFailsKeeps, EraseFailsKeeps
     DEF Next, EraseStep, WorkerStep, AnalysisStep, FailureStep
<1> QED
  BY <1>1, <1>2

LEMMA CachesFollow == IInv => CachesAreTrue
<1> SUFFICES ASSUME IInv PROVE CachesAreTrue
  OBVIOUS
<1>1. CacheCoherent
  BY DEF IInv, Coherent, CacheCoherent
<1>2. {r \in Root : Cached(r)} = Occupied(entries)
  BY DEF Cached, Occupied
<1>3. CacheBounded
  BY <1>2 DEF IInv, Bounded, CacheBounded
<1> QED
  BY <1>1, <1>3 DEF CachesAreTrue

\* Whatever was evicted, erased, cancelled or lost half way, a worker knows what
\* its child has cached, and caches no more than its share.
THEOREM CachesCorrect == Spec => []CachesAreTrue
<1> QED
  BY InitManager, StepManager, CachesFollow, PTL DEF Spec

\* The analyses that a failure asks for are of other roots, if what failed was a
\* recovery already.
LEMMA HandlingRecoversOnce ==
  ASSUME HandleFailure, running.kind = "recovery", candidate # NoEntry,
         NEW j \in recoveries'
  PROVE  j.root # Here
<1>1. FailedWith
  BY DEF HandleFailure, FailedWithout
<1>2. j \in RecoveriesOf(Recovers({Here}))
  BY <1>1 DEF FailedWith, KeepRecoverable, Tried
<1>3. PICK r \in Root \ {Here} : j = Recovery(r, entries[r])
  BY <1>2 DEF RecoveriesOf, Recovers
<1> QED
  BY <1>3 DEF Recovery

\* A root whose recovery kills the child again is not recovered by that: a bad
\* shader cannot keep a worker busy for ever.
THEOREM RecoveryOnce == Spec => RecoveredOnce
<1> DEFINE Once == running.kind = "recovery" /\ candidate # NoEntry
                     => \A j \in recoveries' : j.root # Here
<1>1. ASSUME IInv, [Next]_vars PROVE [Once]_vars
  <2> SUFFICES ASSUME Next, running.kind = "recovery", candidate # NoEntry,
                      NEW j \in recoveries'
               PROVE  j.root # Here
    BY <1>1
  <2>1. step \in {"resolved", "analysing", "failed"} /\ recoveries = {}
    BY <1>1 DEF IInv, CandidateIsNew, RecoveriesFollow
  <2>2. CASE HandleFailure
    BY <2>2, HandlingRecoversOnce
  <2>3. CASE \/ \E r \in Root, version \in Version, arguments \in Arguments :
                  Analyze(r, version, arguments)
             \/ \E r \in Document : Query(r) \/ Forget(r)
             \/ CancelQuery \/ CancelRoot \/ SubmitErasure \/ Crash
             \/ Abandon \/ Describe \/ AnalyseReplies \/ AnalyseFails
    <3> DEFINE NoneAdded == recoveries' = recoveries \/ recoveries' = {}
    <3>1. CASE \E r \in Root, version \in Version, arguments \in Arguments :
                 Analyze(r, version, arguments)
      <4>1. NoneAdded
        BY <3>1 DEF Analyze, failureVars
      <4> QED
        BY <2>1, <4>1
    <3>2. CASE \E r \in Document : Query(r) \/ Forget(r)
      <4>1. NoneAdded
        BY <3>2 DEF Query, Forget, failureVars
      <4> QED
        BY <2>1, <4>1
    <3>3. CASE CancelQuery \/ CancelRoot \/ SubmitErasure \/ Crash
      <4>1. NoneAdded
        BY <3>3 DEF CancelQuery, CancelRoot, SubmitErasure, Crash, failureVars
      <4> QED
        BY <2>1, <4>1
    <3>4. CASE Abandon \/ Describe \/ AnalyseReplies \/ AnalyseFails
      <4>1. NoneAdded
        BY <3>4 DEF Abandon, Describe, AnalyseReplies, AnalyseFails, Return, Fail, failureVars
      <4> QED
        BY <2>1, <4>1
    <3> QED
      BY <2>3, <3>1, <3>2, <3>3, <3>4
  <2>4. CASE \/ Pop \/ Start \/ Resolve \/ Evict \/ EvictFails \/ Fits \/ Publish \/ Clear \/ Compile
             \/ CompileFails \/ ReportCompilation \/ Report \/ Throw \/ CompleteFailed
             \/ PublishUnavailable \/ ChooseRecovery \/ SubmitRecovery \/ Recovered
             \/ Refuse \/ Ask \/ Answer \/ AnswerFails \/ EraseEntry \/ EraseFails
    BY <2>1, <2>4 DEF Pop, Start, Resolve, Evict, EvictFails, Fits, Publish, Clear, Compile,
                      CompileFails, ReportCompilation, Report, Throw, CompleteFailed,
                      PublishUnavailable, ChooseRecovery, SubmitRecovery, Recovered, Refuse, Ask,
                      Answer, AnswerFails, EraseEntry, EraseFails
  <2> QED
    BY <2>2, <2>3, <2>4 DEF Next, EraseStep, WorkerStep, AnalysisStep, FailureStep
<1> HIDE DEF Once
<1>2. Spec => [][Once]_vars
  BY <1>1, InitManager, StepManager, PTL DEF Spec
<1> QED
  BY <1>2 DEF RecoveredOnce, Once

-----------------------------------------------------------------------------
(* What callers and the worker share.                                       *)

\* Work was admitted under an epoch of its root, and if the root has it still,
\* the root is open.
TrueOf(r, e) ==
  /\ e.epoch \in Nat /\ e.epoch <= epochs[r]
  /\ e.generation \in 0 .. MaxCalls
  /\ e.epoch = epochs[r] => asked[r] # NoJob

IsJob(j) ==
  /\ j.kind \in {"analysis", "recovery", "query", "erase"}
  /\ Background(j) => j.root \in Root /\ TrueOf(j.root, j)

IsRecovery(j) ==
  /\ j = [kind |-> j.kind, root |-> j.root, version |-> j.version,
          arguments |-> j.arguments, epoch |-> j.epoch, generation |-> j.generation]
  /\ j.kind \in {"recovery", "chosen"}
  /\ j.root \in Root /\ TrueOf(j.root, j)

CallersFit ==
  /\ calls \in 0 .. MaxCalls
  /\ erasing \in Document \cup {None}
  /\ eraseStep \in {"idle", "cancelling", "submitting"}
  /\ eraseStep # "idle" => erasing \in Document
  /\ asked = [r \in Root |-> asked[r]]

SharedFits ==
  /\ epochs \in [Root -> Nat]
  /\ metadata \in [Root -> Nat]
  /\ unavailable \in [Root -> 0 .. MaxCalls]

QueueFits ==
  /\ queue \in Seq({queue[i] : i \in DOMAIN queue})
  /\ Len(queue) <= Capacity
  /\ \A i \in DOMAIN queue : IsJob(queue[i])

\* The steps of an analysis or a recovery.
WorkSteps == Steps \ {"idle", "recovering", "resubmitting", "asking", "querying", "erasing"}
WorkerFits ==
  /\ faults \in 0 .. MaxFaults
  /\ token \in {"live", "internal", "external"}
  /\ step \in Steps
  /\ failure \in Codes
  /\ crashed \in BOOLEAN
  /\ step = "idle" <=> running = NoJob
  /\ step # "idle" => IsJob(running)
  /\ step \in WorkSteps => Background(running)

WorkIsTrue ==
  /\ candidate # NoEntry => TrueOf(Here, candidate)
  /\ \A r \in Root : entries[r] # NoEntry => TrueOf(r, entries[r])
  /\ \A j \in recoveries : IsRecovery(j)

OutputsFit ==
  /\ published \in [Root -> 0 .. MaxCalls]
  /\ compiled \in [Root -> 0 .. MaxCalls]
  /\ lost \subseteq 0 .. MaxCalls

SharedInv ==
  /\ CallersFit
  /\ SharedFits
  /\ QueueFits
  /\ WorkerFits
  /\ WorkIsTrue
  /\ OutputsFit
  /\ MetadataIsCurrent

-----------------------------------------------------------------------------
(* The operators on the queue.                                              *)

LEMMA LeastNumber ==
  ASSUME NEW T, T \subseteq Nat, T # {}
  PROVE  \E n \in T : \A m \in T : n <= m
<1>1. PICK n \in T : \A m \in T : ~(<<m, n>> \in OpToRel(<, Nat))
  BY NatLessThanWellFounded, WFMin, Zenon
<1>2. ASSUME NEW m \in T PROVE n <= m
  <2>1. n \in Nat /\ m \in Nat
    OBVIOUS
  <2>2. ~(m < n)
    BY <1>1, <2>1 DEF OpToRel
  <2> QED
    BY <2>1, <2>2
<1> QED
  BY <1>2

LEMMA MinIsLeast ==
  ASSUME NEW T, T \subseteq Nat, T # {}
  PROVE  Min(T) \in T
<1>1. \E n \in T : \A m \in T : n <= m
  BY LeastNumber
<1> QED
  BY <1>1 DEF Min

\* A search returns a place of the sequence, or zero.
LEMMA SearchFacts ==
  ASSUME NEW T, NEW q \in Seq(T), NEW r
  PROVE  OfRoot(q, r) \in 0 .. Len(q) /\ FirstBackground(q) \in 0 .. Len(q)
<1>1. Len(q) \in Nat /\ 1 .. Len(q) \subseteq Nat
  OBVIOUS
<1> DEFINE I == {i \in 1 .. Len(q) : Background(q[i]) /\ q[i].root = r}
           J == {i \in 1 .. Len(q) : Background(q[i])}
<1>2. OfRoot(q, r) = IF I # {} THEN Min(I) ELSE 0
  BY DEF OfRoot, FirstWhere, SelectInSeq
<1>3. FirstBackground(q) = IF J # {} THEN Min(J) ELSE 0
  BY DEF FirstBackground, FirstWhere, SelectInSeq
<1>4. I \subseteq 1 .. Len(q) /\ J \subseteq 1 .. Len(q) /\ I \subseteq Nat /\ J \subseteq Nat
  BY <1>1
<1> HIDE DEF I, J
<1>5. I # {} => Min(I) \in 1 .. Len(q)
  BY <1>4, MinIsLeast
<1>6. J # {} => Min(J) \in 1 .. Len(q)
  BY <1>4, MinIsLeast
<1> QED
  BY <1>1, <1>2, <1>3, <1>5, <1>6

LEMMA PlacesIn ==
  ASSUME NEW T, NEW q \in Seq(T), NEW e \in T
  PROVE  /\ \A i \in 1 .. Len(q) + 1 : /\ InsertAt(q, i, e) \in Seq(T)
                                       /\ Len(InsertAt(q, i, e)) = Len(q) + 1
         /\ \A i \in 1 .. Len(q) : /\ RemoveAt(q, i) \in Seq(T)
                                   /\ Len(RemoveAt(q, i)) = Len(q) - 1
                                   /\ ReplaceAt(q, i, e) \in Seq(T)
                                   /\ Len(ReplaceAt(q, i, e)) = Len(q)
<1>1. Len(q) \in Nat
  OBVIOUS
<1>2. ASSUME NEW i \in 1 .. Len(q) + 1
      PROVE  InsertAt(q, i, e) \in Seq(T) /\ Len(InsertAt(q, i, e)) = Len(q) + 1
  <2> DEFINE a == SubSeq(q, 1, i - 1)
             b == SubSeq(q, i, Len(q))
  <2>1. a \in Seq(T) /\ Len(a) = i - 1
    BY <1>1
  <2>2. b \in Seq(T) /\ Len(b) = Len(q) - i + 1
    BY <1>1
  <2> HIDE DEF a, b
  <2>3. a \o <<e>> \in Seq(T) /\ Len(a \o <<e>>) = i
    BY <1>1, <2>1
  <2>4. a \o <<e>> \o b \in Seq(T) /\ Len(a \o <<e>> \o b) = i + Len(q) - i + 1
    BY <1>1, <2>2, <2>3
  <2>5. InsertAt(q, i, e) = a \o <<e>> \o b
    BY DEF InsertAt, a, b
  <2>6. i + Len(q) - i + 1 = Len(q) + 1
    BY <1>1
  <2> QED
    BY <2>4, <2>5, <2>6
<1>3. ASSUME NEW i \in 1 .. Len(q)
      PROVE  RemoveAt(q, i) \in Seq(T) /\ Len(RemoveAt(q, i)) = Len(q) - 1
  <2> DEFINE a == SubSeq(q, 1, i - 1)
             b == SubSeq(q, i + 1, Len(q))
  <2>1. a \in Seq(T) /\ Len(a) = i - 1
    BY <1>1
  <2>2. b \in Seq(T) /\ Len(b) = Len(q) - i
    BY <1>1
  <2> HIDE DEF a, b
  <2>3. a \o b \in Seq(T) /\ Len(a \o b) = i - 1 + Len(q) - i
    BY <1>1, <2>1, <2>2
  <2>4. RemoveAt(q, i) = a \o b
    BY DEF RemoveAt, a, b
  <2>5. i - 1 + Len(q) - i = Len(q) - 1
    BY <1>1
  <2> QED
    BY <2>3, <2>4, <2>5
<1>4. ASSUME NEW i \in 1 .. Len(q)
      PROVE  ReplaceAt(q, i, e) \in Seq(T) /\ Len(ReplaceAt(q, i, e)) = Len(q)
  BY DEF ReplaceAt
<1> QED
  BY <1>2, <1>3, <1>4

\* A submission brings in the job and nothing else, and respects the capacity.
LEMMA SubmittedFacts ==
  ASSUME NEW T, queue \in Seq(T), Len(queue) <= Capacity, NEW j \in T
  PROVE  Submitted(j) \in Seq(T) /\ Len(Submitted(j)) <= Capacity
<1> DEFINE n == Len(queue)
           o == OfRoot(queue, j.root)
           f == FirstBackground(queue)
<1>1. n \in Nat /\ Capacity \in Nat \ {0} /\ o \in 0 .. n /\ f \in 0 .. n
  BY SearchFacts, ManagerAssumption
<1>2. ASSUME NEW q \in Seq(T)
      PROVE  Inserted(q, j) \in Seq(T) /\ Len(Inserted(q, j)) = Len(q) + 1
  <2>1. /\ Len(q) \in Nat /\ OfRoot(q, j.root) \in 0 .. Len(q)
        /\ FirstBackground(q) \in 0 .. Len(q)
    BY SearchFacts
  <2>2. Append(q, j) \in Seq(T) /\ Len(Append(q, j)) = Len(q) + 1
    OBVIOUS
  <2>3. \A i \in 1 .. Len(q) + 1 : /\ InsertAt(q, i, j) \in Seq(T)
                                   /\ Len(InsertAt(q, i, j)) = Len(q) + 1
    BY PlacesIn
  <2>4. /\ OfRoot(q, j.root) # 0 => OfRoot(q, j.root) + 1 \in 1 .. Len(q) + 1
        /\ FirstBackground(q) # 0 => FirstBackground(q) \in 1 .. Len(q) + 1
    BY <2>1
  <2> QED
    BY <2>2, <2>3, <2>4 DEF Inserted
<1>3. CASE ~Admitted(j)
  BY <1>3 DEF Submitted
<1>4. CASE Admitted(j) /\ Coalesces(j)
  <2>1. o \in 1 .. n
    BY <1>1, <1>4 DEF Coalesces
  <2> HIDE DEF o
  <2>2. ReplaceAt(queue, o, j) \in Seq(T) /\ Len(ReplaceAt(queue, o, j)) = n
    BY <2>1, PlacesIn
  <2> QED
    BY <1>4, <2>2 DEF Submitted, o
<1>5. CASE Admitted(j) /\ ~Coalesces(j) /\ Full
  <2>1. f \in 1 .. n
    BY <1>1, <1>5 DEF Admitted, Refused
  <2> DEFINE q == RemoveAt(queue, f)
  <2>2. q \in Seq(T) /\ Len(q) = n - 1
    BY <2>1, PlacesIn
  <2>3. Submitted(j) = Inserted(q, j)
    BY <1>5 DEF Submitted
  <2> HIDE DEF q
  <2> QED
    BY <1>1, <1>2, <2>2, <2>3
<1>6. CASE Admitted(j) /\ ~Coalesces(j) /\ ~Full
  <2>1. Submitted(j) = Inserted(queue, j) /\ n < Capacity
    BY <1>1, <1>6 DEF Submitted, Full
  <2> QED
    BY <1>1, <1>2, <2>1
<1> QED
  BY <1>3, <1>4, <1>5, <1>6

\* Without is a recursive function: it exists, and its values are of the queue.
IsKept(g, q, r, n) ==
  g = [i \in 0 .. n |->
         IF i = 0 THEN <<>>
         ELSE IF q[i].root = r THEN g[i - 1] ELSE Append(g[i - 1], q[i])]

LEMMA KeptExists ==
  ASSUME NEW q, NEW r, NEW n \in Nat
  PROVE  \E g : IsKept(g, q, r, n)
<1> DEFINE B == {m \in Nat : ~ \E g : IsKept(g, q, r, m)}
<1>1. SUFFICES ASSUME B # {} PROVE FALSE
  BY <1>1
<1>2. PICK m \in B : \A k \in B : m <= k
  <2>1. B \subseteq Nat
    OBVIOUS
  <2> HIDE DEF B
  <2> QED
    BY <1>1, <2>1, LeastNumber
<1>3. m \in Nat /\ ~ \E g : IsKept(g, q, r, m)
  BY <1>2
<1>4. CASE m = 0
  <2> DEFINE g == [i \in 0 .. 0 |-> <<>>]
  <2>1. \A i \in 0 .. 0 : i = 0
    OBVIOUS
  <2>2. IsKept(g, q, r, 0)
    BY <2>1 DEF IsKept
  <2> QED
    BY <1>3, <1>4, <2>2
<1>5. CASE m # 0
  <2>1. m - 1 \in Nat /\ m - 1 \notin B
    BY <1>2, <1>3, <1>5
  <2>2. PICK h : IsKept(h, q, r, m - 1)
    BY <2>1
  <2> DEFINE g == [i \in 0 .. m |->
                     IF i < m THEN h[i]
                     ELSE IF q[i].root = r THEN h[i - 1] ELSE Append(h[i - 1], q[i])]
  <2>3. ASSUME NEW i \in 0 .. m
        PROVE  g[i] = IF i = 0 THEN <<>>
                      ELSE IF q[i].root = r THEN g[i - 1] ELSE Append(g[i - 1], q[i])
    <3>1. CASE i = m
      <4>1. g[i - 1] = h[i - 1] /\ i # 0
        BY <1>3, <1>5, <3>1
      <4>2. g[i] = IF q[i].root = r THEN h[i - 1] ELSE Append(h[i - 1], q[i])
        BY <3>1
      <4> QED
        BY <4>1, <4>2
    <3>2. CASE i # m
      <4>1. i \in 0 .. m - 1 /\ g[i] = h[i]
        BY <1>3, <3>2
      <4>2. i # 0 => g[i - 1] = h[i - 1]
        BY <1>3, <3>2, <4>1
      <4>3. h[i] = IF i = 0 THEN <<>>
                   ELSE IF q[i].root = r THEN h[i - 1] ELSE Append(h[i - 1], q[i])
        BY <2>2, <4>1 DEF IsKept
      <4> QED
        BY <4>1, <4>2, <4>3
    <3> QED
      BY <3>1, <3>2
  <2>4. g = [i \in 0 .. m |-> g[i]]
    OBVIOUS
  <2> HIDE DEF g
  <2>5. IsKept(g, q, r, m)
    BY <2>3, <2>4 DEF IsKept
  <2> QED
    BY <1>3, <2>5
<1> QED
  BY <1>4, <1>5

LEMMA KeptFits ==
  ASSUME NEW T, NEW q \in Seq(T), NEW r, NEW g, IsKept(g, q, r, Len(q))
  PROVE  g[Len(q)] \in Seq(T) /\ Len(g[Len(q)]) <= Len(q)
<1> DEFINE n == Len(q)
           B == {i \in 0 .. n : ~(g[i] \in Seq(T) /\ Len(g[i]) <= i)}
<1>1. n \in Nat
  OBVIOUS
<1>2. SUFFICES ASSUME B # {} PROVE FALSE
  BY <1>1, <1>2
<1>3. PICK m \in B : \A k \in B : m <= k
  <2>1. B \subseteq Nat
    BY <1>1
  <2> HIDE DEF B
  <2> QED
    BY <1>2, <2>1, LeastNumber
<1>4. g[m] = IF m = 0 THEN <<>>
             ELSE IF q[m].root = r THEN g[m - 1] ELSE Append(g[m - 1], q[m])
  BY <1>3 DEF IsKept
<1>5. m # 0
  <2>1. <<>> \in Seq(T) /\ Len(<<>>) <= 0
    OBVIOUS
  <2> QED
    BY <1>3, <1>4, <2>1
<1>6. m - 1 \in 0 .. n /\ m - 1 \notin B /\ m \in 1 .. n
  BY <1>1, <1>3, <1>5
<1>7. g[m - 1] \in Seq(T) /\ Len(g[m - 1]) <= m - 1 /\ q[m] \in T
  BY <1>6
<1>8. g[m] = g[m - 1] \/ g[m] = Append(g[m - 1], q[m])
  BY <1>4, <1>5
<1>9. g[m] \in Seq(T) /\ Len(g[m]) <= m
  <2>1. CASE g[m] = g[m - 1]
    <3>1. Len(g[m - 1]) \in Nat
      BY <1>7
    <3> QED
      BY <1>6, <1>7, <2>1, <3>1
  <2>2. CASE g[m] = Append(g[m - 1], q[m])
    <3>1. g[m] \in Seq(T) /\ Len(g[m]) = Len(g[m - 1]) + 1 /\ Len(g[m - 1]) \in Nat
      BY <1>7, <2>2
    <3> QED
      BY <1>6, <1>7, <3>1
  <2> QED
    BY <1>8, <2>1, <2>2
<1> QED
  BY <1>3, <1>9

LEMMA WithoutFacts ==
  ASSUME NEW T, NEW q \in Seq(T), NEW r
  PROVE  Without(q, r) \in Seq(T) /\ Len(Without(q, r)) <= Len(q)
<1> DEFINE g == CHOOSE g : IsKept(g, q, r, Len(q))
<1>1. Without(q, r) = g[Len(q)]
  BY DEF Without, IsKept
<1>2. IsKept(g, q, r, Len(q))
  <2>1. Len(q) \in Nat
    OBVIOUS
  <2> QED
    BY <2>1, KeptExists
<1> HIDE DEF g
<1> QED
  BY <1>1, <1>2, KeptFits

\* A sequence of jobs is one of its own elements.
LEMMA OfItsElements ==
  ASSUME NEW T, NEW q \in Seq(T)
  PROVE  /\ q \in Seq({q[i] : i \in DOMAIN q})
         /\ \A i \in DOMAIN q : q[i] \in T
<1>1. DOMAIN q = 1 .. Len(q) /\ Len(q) \in Nat /\ q = [i \in 1 .. Len(q) |-> q[i]]
  OBVIOUS
<1> QED
  BY <1>1

-----------------------------------------------------------------------------
(* Epochs only grow, and a root is forgotten with its epoch.                *)

Advance ==
  \A r \in Root : \/ epochs'[r] = epochs[r] /\ (asked[r] # NoJob => asked'[r] # NoJob)
                  \/ epochs'[r] = epochs[r] + 1

LEMMA Advances ==
  ASSUME SharedInv, Advance
  PROVE  /\ \A r \in Root : \A e : TrueOf(r, e) => TrueOf(r, e)'
         /\ \A j : IsJob(j) => IsJob(j)'
         /\ \A j : IsRecovery(j) => IsRecovery(j)'
<1>1. \A r \in Root : epochs[r] \in Nat
  BY DEF SharedInv, SharedFits
<1>2. ASSUME NEW r \in Root, NEW e, TrueOf(r, e) PROVE TrueOf(r, e)'
  <2>1. e.epoch \in Nat /\ e.epoch <= epochs[r] /\ e.generation \in 0 .. MaxCalls
        /\ (e.epoch = epochs[r] => asked[r] # NoJob)
    BY <1>2 DEF TrueOf
  <2>2. CASE epochs'[r] = epochs[r] /\ (asked[r] # NoJob => asked'[r] # NoJob)
    BY <2>1, <2>2 DEF TrueOf
  <2>3. CASE epochs'[r] = epochs[r] + 1
    <3>1. e.epoch <= epochs'[r] /\ e.epoch # epochs'[r]
      BY <1>1, <2>1, <2>3
    <3> QED
      BY <2>1, <3>1 DEF TrueOf
  <2> QED
    BY <2>2, <2>3 DEF Advance
<1>3. ASSUME NEW j, IsJob(j) PROVE IsJob(j)'
  BY <1>2, <1>3 DEF IsJob, Background
<1>4. ASSUME NEW j, IsRecovery(j) PROVE IsRecovery(j)'
  BY <1>2, <1>4 DEF IsRecovery
<1> QED
  BY <1>2, <1>3, <1>4

\* The work at hand is of the root of the running job.
LEMMA HereIsRoot ==
  ASSUME IInv, SharedInv, step \in WorkSteps \/ candidate # NoEntry
  PROVE  /\ Here \in Root /\ Background(running) /\ TrueOf(Here, running)
         /\ step \in WorkSteps
<1>1. step \in WorkSteps
  BY DEF IInv, CandidateIsNew, WorkSteps, Steps
<1>2. step # "idle"
  BY <1>1 DEF WorkSteps
<1> QED
  BY <1>1, <1>2 DEF SharedInv, WorkerFits, IsJob, Here

\* What a step leaves as it is remains true.
LEMMA WorkStays ==
  ASSUME IInv, SharedInv, Advance, UNCHANGED <<running, candidate, entries, recoveries>>
  PROVE  WorkIsTrue'
<1>1. ASSUME candidate # NoEntry PROVE TrueOf(Here, candidate)'
  <2>1. Here \in Root /\ TrueOf(Here, candidate)
    BY <1>1, HereIsRoot DEF SharedInv, WorkIsTrue
  <2>2. PICK r, e : r = Here /\ e = candidate
    OBVIOUS
  <2>3. TrueOf(r, e)'
    BY <2>1, <2>2, Advances
  <2> QED
    BY <2>2, <2>3 DEF TrueOf, Here
<1>2. \A r \in Root : entries[r] # NoEntry => TrueOf(r, entries[r])'
  BY Advances DEF SharedInv, WorkIsTrue
<1>3. \A j \in recoveries : IsRecovery(j)'
  BY Advances DEF SharedInv, WorkIsTrue
<1> QED
  BY <1>1, <1>2, <1>3 DEF WorkIsTrue

LEMMA WorkerStays ==
  ASSUME SharedInv, Advance, UNCHANGED <<running, step, failure>>,
         faults' \in 0 .. MaxFaults, token' \in {"live", "internal", "external"},
         crashed' \in BOOLEAN
  PROVE  WorkerFits'
<1>1. step # "idle" => IsJob(running)'
  BY Advances DEF SharedInv, WorkerFits
<1> QED
  BY <1>1 DEF SharedInv, WorkerFits, Background

LEMMA QueueChanges ==
  ASSUME NEW T, queue' \in Seq(T), Len(queue') <= Capacity, \A j \in T : IsJob(j)'
  PROVE  QueueFits'
BY OfItsElements DEF QueueFits

Queued == {queue[i] : i \in DOMAIN queue}

LEMMA QueueStays ==
  ASSUME SharedInv, Advance, UNCHANGED queue
  PROVE  QueueFits'
<1>1. queue \in Seq(Queued) /\ Len(queue) <= Capacity /\ \A j \in Queued : IsJob(j)
  BY DEF SharedInv, QueueFits, Queued
<1> QED
  BY <1>1, Advances, QueueChanges

LEMMA QueueGrows ==
  ASSUME SharedInv, Advance, NEW job, queue' = Submitted(job), Admitted(job) => IsJob(job)'
  PROVE  QueueFits'
<1>1. queue \in Seq(Queued) /\ Len(queue) <= Capacity /\ \A j \in Queued : IsJob(j)
  BY DEF SharedInv, QueueFits, Queued
<1>2. CASE ~Admitted(job)
  <2>1. queue' = queue
    BY <1>2 DEF Submitted
  <2> QED
    BY <2>1, QueueStays
<1>3. CASE Admitted(job)
  <2> DEFINE T == Queued \cup {job}
  <2>1. queue \in Seq(T) /\ job \in T
    <3>1. \A i \in DOMAIN queue : queue[i] \in T
      BY DEF Queued
    <3> QED
      BY <1>1, <3>1
  <2>2. \A j \in T : IsJob(j)'
    BY <1>1, <1>3, Advances
  <2> HIDE DEF T
  <2>3. queue' \in Seq(T) /\ Len(queue') <= Capacity
    BY <1>1, <2>1, SubmittedFacts
  <2> QED
    BY <2>2, <2>3, QueueChanges
<1> QED
  BY <1>2, <1>3

LEMMA TokenFits ==
  ASSUME SharedInv, NEW r
  PROVE  CancelledOf(r) \in {"live", "internal", "external"}
BY DEF SharedInv, WorkerFits, CancelledOf, Cancelled

\* What a submission drops is the job itself or one of the queue.
LEMMA DroppedIsJob ==
  ASSUME SharedInv, NEW job, NEW g \in Displaced(job)
  PROVE  g = job \/ IsJob(g)
<1>1. queue \in Seq(Queued) /\ \A i \in DOMAIN queue : IsJob(queue[i])
  BY DEF SharedInv, QueueFits, Queued
<1>2. /\ Len(queue) \in Nat /\ DOMAIN queue = 1 .. Len(queue)
      /\ OfRoot(queue, job.root) \in 0 .. Len(queue)
      /\ FirstBackground(queue) \in 0 .. Len(queue)
  BY <1>1, SearchFacts
<1>3. CASE Outdated(job) \/ Refused(job)
  BY <1>3 DEF Displaced
<1>4. CASE ~Outdated(job) /\ ~Refused(job) /\ Coalesces(job)
  <2>1. g = queue[OfRoot(queue, job.root)] /\ OfRoot(queue, job.root) # 0
    BY <1>4 DEF Displaced, Coalesces
  <2>2. OfRoot(queue, job.root) \in DOMAIN queue
    BY <1>2, <2>1
  <2> QED
    BY <1>1, <2>1, <2>2
<1>5. CASE ~Outdated(job) /\ ~Refused(job) /\ ~Coalesces(job)
  <2>1. g = queue[FirstBackground(queue)] /\ Full
    BY <1>5 DEF Displaced
  <2>2. FirstBackground(queue) # 0
    BY <1>5, <2>1 DEF Refused
  <2>3. FirstBackground(queue) \in DOMAIN queue
    BY <1>2, <2>2
  <2> QED
    BY <1>1, <2>1, <2>3
<1> QED
  BY <1>3, <1>4, <1>5

LEMMA LosesFit ==
  ASSUME SharedInv, NEW job, Loses(job),
         job.kind = "analysis" => job.generation \in 0 .. MaxCalls
  PROVE  lost' \subseteq 0 .. MaxCalls
<1>1. ASSUME NEW g \in Unreplaced(job) PROVE g.generation \in 0 .. MaxCalls
  <2>1. g \in Displaced(job) /\ g.kind = "analysis"
    BY DEF Unreplaced
  <2>2. CASE g = job
    BY <2>1, <2>2
  <2>3. CASE IsJob(g)
    BY <2>1, <2>3 DEF IsJob, Background, TrueOf
  <2> QED
    BY <2>1, <2>2, <2>3, DroppedIsJob
<1>2. lost \subseteq 0 .. MaxCalls
  BY DEF SharedInv, OutputsFit
<1> QED
  BY <1>1, <1>2 DEF Loses

-----------------------------------------------------------------------------
LEMMA InitShared == Init => SharedInv
<1> SUFFICES ASSUME Init PROVE SharedInv
  OBVIOUS
<1>1. CallersFit /\ SharedFits /\ OutputsFit
  BY ManagerAssumption DEF Init, CallersFit, SharedFits, OutputsFit
<1>2. QueueFits
  BY ManagerAssumption DEF Init, QueueFits
<1>3. WorkerFits
  <2>1. 0 \in 0 .. MaxFaults
    BY ManagerAssumption
  <2>2. "idle" \in Steps /\ "idle" \notin WorkSteps /\ None \in Codes
    BY DEF WorkSteps, Steps, Codes
  <2> QED
    BY <2>1, <2>2 DEF Init, WorkerFits
<1>4. WorkIsTrue /\ MetadataIsCurrent
  BY DEF Init, WorkIsTrue, MetadataIsCurrent, Root
<1> QED
  BY <1>1, <1>2, <1>3, <1>4 DEF SharedInv

LEMMA AnalyzeKeeps ==
  ASSUME IInv, SharedInv, NEW r \in Root, NEW version \in Version, NEW arguments \in Arguments,
         Analyze(r, version, arguments)
  PROVE  SharedInv'
<1>0. PICK job : job = [kind |-> "analysis", root |-> r, version |-> version,
                        arguments |-> arguments, epoch |-> epochs[r] + 1,
                        generation |-> calls + 1]
  OBVIOUS
<1>1. /\ calls < MaxCalls /\ calls' = calls + 1 /\ asked' = [asked EXCEPT ![r] = job]
      /\ queue' = Submitted(job) /\ Loses(job)
      /\ token' = IF Admitted(job) THEN CancelledOf(r) ELSE token
      /\ IF Admitted(job)
         THEN /\ epochs' = [epochs EXCEPT ![r] = @ + 1]
              /\ metadata' = IF r \in Document
                             THEN [metadata EXCEPT ![r] = epochs[r] + 1] ELSE metadata
         ELSE UNCHANGED <<epochs, metadata>>
      /\ UNCHANGED <<faults, erasing, eraseStep, unavailable, running, step, candidate, failure,
                     recoveries, entries, child, crashed, published, compiled>>
  BY <1>0 DEF Analyze, failureVars, cacheVars, outputs
<1>2. calls \in Nat /\ calls + 1 \in 0 .. MaxCalls
  BY <1>1, ManagerAssumption DEF SharedInv, CallersFit
<1>3. job # NoJob /\ job.kind = "analysis" /\ job.root = r /\ job.epoch = epochs[r] + 1
      /\ job.generation = calls + 1
  <2>1. job.kind = "analysis" /\ NoJob.kind = "none"
    BY <1>0 DEF NoJob, None
  <2>2. job # NoJob
    BY <2>1
  <2> QED
    BY <1>0, <2>2
<1>4. /\ asked' = [x \in Root |-> asked'[x]]
      /\ \A x \in Root : asked'[x] = IF x = r THEN job ELSE asked[x]
  BY <1>1 DEF SharedInv, CallersFit
<1>5. /\ epochs' \in [Root -> Nat] /\ metadata' \in [Root -> Nat]
      /\ \A x \in Root : epochs'[x] = IF x = r /\ Admitted(job) THEN epochs[x] + 1 ELSE epochs[x]
      /\ \A x \in Document :
           metadata'[x] = IF x = r /\ Admitted(job) THEN epochs[x] + 1 ELSE metadata[x]
  <2>1. epochs \in [Root -> Nat] /\ metadata \in [Root -> Nat] /\ Document \subseteq Root
    BY DEF SharedInv, SharedFits, Root
  <2>2. CASE Admitted(job)
    <3>1. epochs' = [epochs EXCEPT ![r] = epochs[r] + 1] /\ epochs[r] + 1 \in Nat
      BY <1>1, <2>1, <2>2
    <3>2. \/ r \in Document /\ metadata' = [metadata EXCEPT ![r] = epochs[r] + 1]
          \/ r \notin Document /\ metadata' = metadata
      BY <1>1, <2>2
    <3> QED
      BY <2>1, <2>2, <3>1, <3>2
  <2>3. CASE ~Admitted(job)
    BY <1>1, <2>1, <2>3
  <2> QED
    BY <2>2, <2>3
<1>6. Advance
  BY <1>3, <1>4, <1>5 DEF Advance
<1>7. CallersFit'
  BY <1>1, <1>2, <1>4 DEF SharedInv, CallersFit
<1>8. SharedFits' /\ OutputsFit'
  <2>1. lost' \subseteq 0 .. MaxCalls
    BY <1>1, <1>2, <1>3, LosesFit
  <2> QED
    BY <1>1, <1>5, <2>1 DEF SharedInv, SharedFits, OutputsFit
<1>9. QueueFits'
  <2>1. Admitted(job) => IsJob(job)'
    <3>1. Admitted(job) => epochs'[r] = job.epoch /\ job.epoch \in Nat
      BY <1>3, <1>5 DEF SharedInv, SharedFits
    <3>2. asked'[r] # NoJob
      BY <1>3, <1>4
    <3> QED
      BY <1>2, <1>3, <3>1, <3>2 DEF IsJob, TrueOf, Background
  <2> QED
    BY <1>1, <1>6, <2>1, QueueGrows
<1>10. WorkerFits'
  <2>1. token' \in {"live", "internal", "external"}
    BY <1>1, TokenFits DEF SharedInv, WorkerFits
  <2>2. faults' \in 0 .. MaxFaults /\ crashed' \in BOOLEAN
    BY <1>1 DEF SharedInv, WorkerFits
  <2> QED
    BY <1>1, <1>6, <2>1, <2>2, WorkerStays
<1>11. WorkIsTrue'
  BY <1>1, <1>6, WorkStays
<1>12. MetadataIsCurrent'
  BY <1>3, <1>4, <1>5 DEF SharedInv, MetadataIsCurrent, Root
<1> QED
  BY <1>7, <1>8, <1>9, <1>10, <1>11, <1>12 DEF SharedInv

LEMMA ForgetKeeps ==
  ASSUME IInv, SharedInv, NEW r \in Document, Forget(r)
  PROVE  SharedInv'
<1>1. /\ erasing' = r /\ eraseStep' = "cancelling" /\ asked' = [asked EXCEPT ![r] = NoJob]
      /\ epochs' = [epochs EXCEPT ![r] = @ + 1]
      /\ metadata' = [metadata EXCEPT ![r] = 0] /\ unavailable' = [unavailable EXCEPT ![r] = 0]
      /\ UNCHANGED <<calls, faults, queue, running, token, step, candidate, failure, recoveries,
                     entries, child, crashed, published, compiled, lost>>
  BY DEF Forget, failureVars, cacheVars, outputs
<1>2. r \in Root
  BY DEF Root
<1>3. /\ asked' = [x \in Root |-> asked'[x]]
      /\ \A x \in Root : asked'[x] = IF x = r THEN NoJob ELSE asked[x]
  BY <1>1 DEF SharedInv, CallersFit
<1>4. /\ epochs' \in [Root -> Nat] /\ metadata' \in [Root -> Nat]
      /\ \A x \in Root : /\ epochs'[x] = IF x = r THEN epochs[x] + 1 ELSE epochs[x]
                         /\ metadata'[x] = IF x = r THEN 0 ELSE metadata[x]
  BY <1>1, <1>2 DEF SharedInv, SharedFits
<1>5. unavailable' \in [Root -> 0 .. MaxCalls]
  <2>1. 0 \in 0 .. MaxCalls /\ unavailable \in [Root -> 0 .. MaxCalls]
    BY ManagerAssumption DEF SharedInv, SharedFits
  <2> QED
    BY <1>1, <2>1
<1>6. Advance
  BY <1>3, <1>4 DEF Advance
<1>7. CallersFit'
  BY <1>1, <1>3 DEF SharedInv, CallersFit
<1>8. SharedFits' /\ OutputsFit'
  BY <1>1, <1>4, <1>5 DEF SharedInv, SharedFits, OutputsFit
<1>9. QueueFits' /\ WorkIsTrue'
  BY <1>1, <1>6, QueueStays, WorkStays
<1>10. WorkerFits'
  BY <1>1, <1>6, WorkerStays DEF SharedInv, WorkerFits
<1>11. MetadataIsCurrent'
  BY <1>3, <1>4 DEF SharedInv, MetadataIsCurrent, Root
<1> QED
  BY <1>7, <1>8, <1>9, <1>10, <1>11 DEF SharedInv

\* The other callers leave epochs and metadata as they are.
LEMMA OtherCallersKeep ==
  ASSUME IInv, SharedInv,
         (\E r \in Document : Query(r)) \/ CancelQuery \/ CancelRoot \/ SubmitErasure \/ Crash
  PROVE  SharedInv'
<1>1. UNCHANGED <<asked, epochs, metadata, unavailable, running, step, candidate, failure,
                  recoveries, entries, published, compiled>>
  BY DEF Query, CancelQuery, CancelRoot, SubmitErasure, Crash, callerVars, sharedVars,
         failureVars, cacheVars, outputs
<1>2. Advance
  BY <1>1 DEF Advance
<1>3. CallersFit'
  <2>1. \/ UNCHANGED <<calls, erasing, eraseStep>>
        \/ calls < MaxCalls /\ calls' = calls + 1 /\ UNCHANGED <<erasing, eraseStep>>
        \/ /\ eraseStep = "cancelling" /\ eraseStep' = "submitting"
           /\ UNCHANGED <<calls, erasing>>
        \/ erasing' = None /\ eraseStep' = "idle" /\ UNCHANGED calls
    BY DEF Query, CancelQuery, CancelRoot, SubmitErasure, Crash, callerVars
  <2> QED
    BY <1>1, <2>1, ManagerAssumption DEF SharedInv, CallersFit
<1>4. SharedFits' /\ MetadataIsCurrent' /\ WorkIsTrue'
  BY <1>1, <1>2, WorkStays DEF SharedInv, SharedFits, MetadataIsCurrent
<1>7. OutputsFit'
  <2>1. CASE CancelQuery \/ CancelRoot \/ Crash
    <3>1. UNCHANGED lost
      BY <2>1 DEF CancelQuery, CancelRoot, Crash, outputs
    <3> QED
      BY <1>1, <3>1 DEF SharedInv, OutputsFit
  <2>2. CASE (\E r \in Document : Query(r)) \/ SubmitErasure
    <3>1. \E job : job.kind \in {"query", "erase"} /\ Loses(job)
      <4>1. CASE \E r \in Document : Query(r)
        <5>1. PICK job : job.kind = "query" /\ Loses(job)
          BY <4>1 DEF Query
        <5> QED
          BY <5>1
      <4>2. CASE SubmitErasure
        <5>1. PICK job : job.kind = "erase" /\ Loses(job)
          BY <4>2 DEF SubmitErasure
        <5> QED
          BY <5>1
      <4> QED
        BY <2>2, <4>1, <4>2
    <3>2. lost' \subseteq 0 .. MaxCalls
      BY <3>1, LosesFit
    <3> QED
      BY <1>1, <3>2 DEF SharedInv, OutputsFit
  <2> QED
    BY <2>1, <2>2
<1>5. WorkerFits'
  <2>1. token' \in {"live", "internal", "external"}
    BY TokenFits DEF SharedInv, WorkerFits, Query, CancelQuery, CancelRoot, SubmitErasure, Crash
  <2>2. faults' \in 0 .. MaxFaults /\ crashed' \in BOOLEAN
    <3>1. \/ UNCHANGED <<faults, crashed>>
          \/ faults < MaxFaults /\ faults' = faults + 1 /\ crashed' = TRUE
      BY DEF Query, CancelQuery, CancelRoot, SubmitErasure, Crash, cacheVars
    <3>2. faults \in 0 .. MaxFaults /\ MaxFaults \in Nat /\ crashed \in BOOLEAN
      BY ManagerAssumption DEF SharedInv, WorkerFits
    <3>3. faults < MaxFaults => faults + 1 \in 0 .. MaxFaults
      BY <3>2
    <3>4. crashed' \in BOOLEAN
      BY <3>1, <3>2
    <3> QED
      BY <3>1, <3>2, <3>3, <3>4
  <2> QED
    BY <1>1, <1>2, <2>1, <2>2, WorkerStays
<1>6. QueueFits'
  <2>1. CASE CancelQuery \/ Crash
    <3>1. UNCHANGED queue
      BY <2>1 DEF CancelQuery, Crash
    <3> QED
      BY <1>2, <3>1, QueueStays
  <2>2. CASE \E r \in Document : Query(r)
    <3>1. PICK job : job.kind = "query" /\ queue' = Submitted(job)
      BY <2>2 DEF Query
    <3>2. IsJob(job)'
      BY <3>1 DEF IsJob, Background
    <3> QED
      BY <1>2, <3>1, <3>2, QueueGrows
  <2>3. CASE SubmitErasure
    <3>1. PICK job : job.kind = "erase" /\ queue' = Submitted(job)
      BY <2>3 DEF SubmitErasure
    <3>2. IsJob(job)'
      BY <3>1 DEF IsJob, Background
    <3> QED
      BY <1>2, <3>1, <3>2, QueueGrows
  <2>4. CASE CancelRoot
    <3>1. queue' = Without(queue, erasing)
      BY <2>4 DEF CancelRoot
    <3>2. queue \in Seq(Queued) /\ Len(queue) <= Capacity /\ \A j \in Queued : IsJob(j)
      BY DEF SharedInv, QueueFits, Queued
    <3>3. queue' \in Seq(Queued) /\ Len(queue') <= Len(queue)
      BY <3>1, <3>2, WithoutFacts
    <3>4. Len(queue') <= Capacity
      <4>1. Len(queue') \in Nat /\ Len(queue) \in Nat
        BY <3>2, <3>3
      <4> QED
        BY <3>2, <3>3, <4>1, ManagerAssumption
    <3> QED
      BY <1>2, <3>2, <3>3, <3>4, Advances, QueueChanges
  <2> QED
    BY <2>1, <2>2, <2>3, <2>4
<1> QED
  BY <1>3, <1>4, <1>5, <1>6, <1>7 DEF SharedInv

-----------------------------------------------------------------------------
(* The steps of the worker.                                                 *)

LEMMA WorkerActs ==
  ASSUME SharedInv, WorkerStep
  PROVE  UNCHANGED <<calls, asked, erasing, eraseStep, epochs>> /\ Advance /\ CallersFit'
<1>1. CASE Pop \/ AnalysisStep
  BY <1>1 DEF AnalysisStep, Pop, Abandon, Start, Resolve, Describe, AnalyseReplies, AnalyseFails,
     Evict, EvictFails, Fits, Publish, Clear, Compile, CompileFails, ReportCompilation, Report, Throw,
     Fail, FailsWith, callerVars, sharedVars, SharedInv, CallersFit, Advance
<1>2. CASE FailureStep \/ Refuse \/ Ask \/ Answer \/ AnswerFails \/ EraseEntry \/ EraseFails
  BY <1>2 DEF FailureStep, HandleFailure, CompleteFailed, PublishUnavailable, ChooseRecovery,
     SubmitRecovery, Recovered, Refuse, Ask, Answer, AnswerFails, EraseEntry, EraseFails,
     callerVars, sharedVars, SharedInv, CallersFit, Advance
<1> QED
  BY <1>1, <1>2 DEF WorkerStep

\* Only work of the newest epoch of an open root writes what is shared.
LEMMA WorkerShares ==
  ASSUME IInv, SharedInv, WorkerStep
  PROVE  SharedFits' /\ MetadataIsCurrent'
<1>1. UNCHANGED <<asked, epochs>>
  BY WorkerActs
<1>2. \/ UNCHANGED metadata
      \/ step \in {"resolved", "publishing"} /\ metadata' = NewMetadata
  <2>1. CASE Describe \/ Publish
    BY <2>1 DEF Describe, Publish
  <2>2. CASE ~Describe /\ ~Publish
    BY <2>2 DEF WorkerStep, AnalysisStep, Pop, Abandon, Start, Resolve, AnalyseReplies,
       AnalyseFails, Evict, EvictFails, Fits, Clear, Compile, CompileFails, ReportCompilation,
       Report, Throw, Fail, FailureStep, HandleFailure, CompleteFailed, PublishUnavailable,
       ChooseRecovery, SubmitRecovery, Recovered, Refuse, Ask, Answer, AnswerFails, EraseEntry,
       EraseFails, sharedVars
  <2> QED
    BY <2>1, <2>2
<1>3. \/ UNCHANGED unavailable
      \/ /\ step \in {"clearing", "excusing"}
         /\ \/ unavailable' = [unavailable EXCEPT ![Here] = 0]
            \/ unavailable' = [unavailable EXCEPT ![Here] = running.generation]
  <2>1. CASE Clear \/ PublishUnavailable
    BY <2>1 DEF Clear, PublishUnavailable
  <2>2. CASE ~Clear /\ ~PublishUnavailable
    BY <2>2 DEF WorkerStep, AnalysisStep, Pop, Abandon, Start, Resolve, AnalyseReplies,
       AnalyseFails, Evict, EvictFails, Fits, Publish, Describe, Compile, CompileFails,
       ReportCompilation, Report, Throw, Fail, FailureStep, HandleFailure, CompleteFailed,
       ChooseRecovery, SubmitRecovery, Recovered, Refuse, Ask, Answer, AnswerFails, EraseEntry,
       EraseFails, sharedVars
  <2> QED
    BY <2>1, <2>2
<1>4. epochs \in [Root -> Nat] /\ metadata \in [Root -> Nat]
      /\ unavailable \in [Root -> 0 .. MaxCalls] /\ Document \subseteq Root
  BY DEF SharedInv, SharedFits, Root
<1>5. step \in WorkSteps => /\ Here \in Root /\ running.epoch \in Nat
                            /\ running.generation \in 0 .. MaxCalls
                            /\ running.epoch = epochs[Here] => asked[Here] # NoJob
  BY HereIsRoot DEF TrueOf
<1>6. {"resolved", "publishing", "clearing", "excusing"} \subseteq WorkSteps
  BY DEF WorkSteps, Steps
<1>7. metadata' \in [Root -> Nat] /\ MetadataIsCurrent'
  <2>1. CASE UNCHANGED metadata
    BY <1>1, <1>4, <2>1 DEF SharedInv, MetadataIsCurrent
  <2>2. CASE ~UNCHANGED metadata
    <3>1. /\ metadata' = [metadata EXCEPT ![Here] = running.epoch]
          /\ running.epoch = epochs[Here] /\ step \in WorkSteps
      BY <1>2, <1>6, <2>2 DEF NewMetadata, WritesMetadata, Current
    <3>2. /\ metadata' \in [Root -> Nat]
          /\ \A r \in Root : metadata'[r] = IF r = Here THEN epochs[Here] ELSE metadata[r]
      BY <1>4, <1>5, <3>1
    <3> QED
      BY <1>1, <1>4, <1>5, <3>1, <3>2 DEF SharedInv, MetadataIsCurrent
  <2> QED
    BY <2>1, <2>2
<1>8. unavailable' \in [Root -> 0 .. MaxCalls]
  <2>1. 0 \in 0 .. MaxCalls
    BY ManagerAssumption
  <2> QED
    BY <1>3, <1>4, <1>5, <1>6, <2>1
<1> QED
  BY <1>1, <1>4, <1>7, <1>8 DEF SharedFits

LEMMA WorkerQueues ==
  ASSUME IInv, SharedInv, WorkerStep
  PROVE  QueueFits'
<1>1. Advance /\ UNCHANGED <<asked, epochs>>
  BY WorkerActs
<1>2. CASE Pop
  <2>1. queue # <<>> /\ queue' = Tail(queue)
    BY <1>2 DEF Pop
  <2>2. queue \in Seq(Queued) /\ Len(queue) <= Capacity /\ \A j \in Queued : IsJob(j)
    BY DEF SharedInv, QueueFits, Queued
  <2>3. queue' \in Seq(Queued) /\ Len(queue') = Len(queue) - 1 /\ Len(queue) \in Nat
    BY <2>1, <2>2
  <2>4. Len(queue') <= Capacity
    BY <2>2, <2>3, ManagerAssumption
  <2> QED
    BY <1>1, <2>2, <2>3, <2>4, Advances, QueueChanges
<1>3. CASE SubmitRecovery
  <2>1. PICK j \in recoveries : queue' = Submitted([j EXCEPT !.kind = "recovery"])
    BY <1>3 DEF SubmitRecovery
  <2>2. IsRecovery(j)
    BY DEF SharedInv, WorkIsTrue
  <2>3. PICK job : job = [j EXCEPT !.kind = "recovery"]
    OBVIOUS
  <2>4. /\ job.kind = "recovery" /\ job.root = j.root /\ job.epoch = j.epoch
        /\ job.generation = j.generation
    BY <2>2, <2>3 DEF IsRecovery
  <2>5. IsJob(job)'
    BY <1>1, <2>2, <2>4 DEF IsRecovery, IsJob, TrueOf, Background
  <2> QED
    BY <1>1, <2>1, <2>3, <2>5, QueueGrows
<1>4. CASE ~Pop /\ ~SubmitRecovery
  <2>1. UNCHANGED queue
    BY <1>4 DEF WorkerStep, AnalysisStep, Abandon, Start, Resolve, AnalyseReplies, Describe,
       Publish, Clear, PublishUnavailable,
       AnalyseFails, Evict, EvictFails, Fits, Compile, CompileFails, ReportCompilation,
       Report, Throw, Fail, FailureStep, HandleFailure, CompleteFailed,
       ChooseRecovery, Recovered, Refuse, Ask, Answer, AnswerFails, EraseEntry,
       EraseFails, sharedVars
  <2> QED
    BY <1>1, <2>1, QueueStays
<1> QED
  BY <1>2, <1>3, <1>4

LEMMA WorkerOutputs ==
  ASSUME IInv, SharedInv, WorkerStep
  PROVE  OutputsFit'
<1>1. \/ UNCHANGED compiled
      \/ step \in WorkSteps /\ compiled' = [compiled EXCEPT ![Here] = running.generation]
  <2>1. CASE ReportCompilation \/ CompleteFailed
    BY <2>1 DEF ReportCompilation, CompleteFailed, WorkSteps, Steps
  <2>2. CASE ~ReportCompilation /\ ~CompleteFailed
    BY <2>2 DEF WorkerStep, AnalysisStep, Pop, Abandon, Start, Resolve, AnalyseReplies, Describe,
       Publish, Clear, PublishUnavailable, SubmitRecovery,
       AnalyseFails, Evict, EvictFails, Fits, Compile, CompileFails,
       Report, Throw, Fail, FailureStep, HandleFailure,
       ChooseRecovery, Recovered, Refuse, Ask, Answer, AnswerFails, EraseEntry,
       EraseFails, outputs
  <2> QED
    BY <2>1, <2>2
<1>2. \/ UNCHANGED published
      \/ step \in WorkSteps /\ published' = [published EXCEPT ![Here] = running.generation]
  <2>1. CASE Report \/ PublishUnavailable
    BY <2>1 DEF Report, PublishUnavailable, WorkSteps, Steps
  <2>2. CASE ~Report /\ ~PublishUnavailable
    BY <2>2 DEF WorkerStep, AnalysisStep, Pop, Abandon, Start, Resolve, AnalyseReplies, Describe,
       Publish, Clear, SubmitRecovery,
       AnalyseFails, Evict, EvictFails, Fits, Compile, CompileFails, ReportCompilation,
       Throw, Fail, FailureStep, HandleFailure, CompleteFailed,
       ChooseRecovery, Recovered, Refuse, Ask, Answer, AnswerFails, EraseEntry,
       EraseFails, outputs
  <2> QED
    BY <2>1, <2>2
<1>3. step \in WorkSteps => running.generation \in 0 .. MaxCalls
  BY HereIsRoot DEF TrueOf
<1>4. published \in [Root -> 0 .. MaxCalls] /\ compiled \in [Root -> 0 .. MaxCalls]
  BY DEF SharedInv, OutputsFit
<1>5. published' \in [Root -> 0 .. MaxCalls]
  BY <1>2, <1>3, <1>4
<1>6. compiled' \in [Root -> 0 .. MaxCalls]
  BY <1>1, <1>3, <1>4
<1>7. lost' \subseteq 0 .. MaxCalls
  <2>1. lost \subseteq 0 .. MaxCalls
    BY DEF SharedInv, OutputsFit
  <2>2. CASE SubmitRecovery
    <3>1. PICK j \in recoveries : Loses([j EXCEPT !.kind = "recovery"])
      BY <2>2 DEF SubmitRecovery
    <3>2. PICK job : job = [j EXCEPT !.kind = "recovery"]
      OBVIOUS
    <3>3. job.kind = "recovery"
      BY <3>2 DEF SharedInv, WorkIsTrue, IsRecovery
    <3> QED
      BY <3>1, <3>2, <3>3, LosesFit
  <2>3. CASE Throw
    <3>1. step \in WorkSteps /\ lost' = lost \cup {running.generation}
      BY <2>3 DEF Throw, WorkSteps, Steps
    <3> QED
      BY <1>3, <2>1, <3>1
  <2>4. CASE ~SubmitRecovery /\ ~Throw
    <3>1. UNCHANGED lost
      BY <2>4 DEF WorkerStep, AnalysisStep, Pop, Abandon, Start, Resolve, AnalyseReplies, Describe,
         Publish, Clear, PublishUnavailable, AnalyseFails, Evict, EvictFails, Fits, Compile,
         CompileFails, ReportCompilation, Report, Fail, FailureStep, HandleFailure, CompleteFailed,
         ChooseRecovery, Recovered, Refuse, Ask, Answer, AnswerFails, EraseEntry, EraseFails,
         outputs
    <3> QED
      BY <2>1, <3>1
  <2> QED
    BY <2>2, <2>3, <2>4
<1> QED
  BY <1>5, <1>6, <1>7 DEF OutputsFit

\* A job begins, goes on or is over.
LEMMA WorkerGoesOn ==
  ASSUME IInv, SharedInv, WorkerStep
  PROVE  WorkerFits'
<1>1. Advance
  BY WorkerActs
<1>2. faults' \in 0 .. MaxFaults /\ token' \in {"live", "internal", "external"}
      /\ crashed' \in BOOLEAN /\ failure' \in Codes
  <2>1. faults' = faults \/ (faults < MaxFaults /\ faults' = faults + 1)
    BY DEF WorkerStep, AnalysisStep, Pop, Abandon, Start, Resolve, AnalyseReplies, Describe,
       Publish, Clear, PublishUnavailable, SubmitRecovery, AnalyseFails, FailsWith, Evict,
       EvictFails, Fits, Compile, CompileFails, ReportCompilation, Report, Throw, FailureStep,
       HandleFailure, CompleteFailed, ChooseRecovery, Recovered, Refuse, Ask, Answer, AnswerFails,
       EraseEntry, EraseFails
  <2>2. token' = token \/ token' = "live"
    BY DEF WorkerStep, AnalysisStep, Pop, Abandon, Start, Resolve, AnalyseReplies, Describe,
       Publish, Clear, PublishUnavailable, SubmitRecovery, AnalyseFails, Fail, Evict,
       EvictFails, Fits, Compile, CompileFails, ReportCompilation, Report, Throw, FailureStep,
       HandleFailure, CompleteFailed, ChooseRecovery, Recovered, Refuse, Ask, Answer, AnswerFails,
       EraseEntry, EraseFails, Return
  <2>3. crashed' = crashed \/ crashed' = FALSE
    BY DEF WorkerStep, AnalysisStep, Pop, Abandon, Start, Resolve, AnalyseReplies, Describe,
       Publish, Clear, PublishUnavailable, SubmitRecovery, AnalyseFails, Fail, Evict,
       EvictFails, Fits, Compile, CompileFails, ReportCompilation, Report, Throw, FailureStep,
       HandleFailure, CompleteFailed, ChooseRecovery, Recovered, Refuse, Ask, Answer, AnswerFails,
       EraseEntry, EraseFails, FreshChild, cacheVars
  <2>4. failure' = failure \/ failure' \in Codes
    BY DEF WorkerStep, AnalysisStep, Pop, Abandon, Start, Resolve, AnalyseReplies, Describe,
       Publish, Clear, PublishUnavailable, SubmitRecovery, AnalyseFails, Fail, Evict,
       EvictFails, Fits, Compile, CompileFails, ReportCompilation, Report, Throw, FailureStep,
       HandleFailure, CompleteFailed, ChooseRecovery, Recovered, Refuse, Ask, Answer, AnswerFails,
       EraseEntry, EraseFails, Return, failureVars, Codes
  <2>5. faults \in 0 .. MaxFaults /\ MaxFaults \in Nat
        /\ token \in {"live", "internal", "external"} /\ crashed \in BOOLEAN /\ failure \in Codes
    BY ManagerAssumption DEF SharedInv, WorkerFits
  <2>6. faults < MaxFaults => faults + 1 \in 0 .. MaxFaults
    BY <2>5
  <2> QED
    BY <2>1, <2>2, <2>3, <2>4, <2>5, <2>6
<1>3. \/ running' = NoJob /\ step' = "idle"
      \/ /\ UNCHANGED running /\ step \in WorkSteps
         /\ step' \in WorkSteps \cup {"recovering"}
      \/ UNCHANGED running /\ step # "idle" /\ step' \in {"recovering", "resubmitting", "querying"}
      \/ /\ step = "idle" /\ queue # <<>> /\ running' = Head(queue)
         /\ \/ Background(Head(queue)) /\ step' = "starting"
            \/ step' \in {"asking", "erasing"}
  <2>1. CASE Pop
    BY <2>1 DEF Pop
  <2>2. CASE AnalysisStep
    BY <2>2 DEF AnalysisStep, Abandon, Start, Resolve, AnalyseReplies, Describe, Publish, Clear,
       AnalyseFails, Fail, Evict, EvictFails, Fits, Compile, CompileFails, ReportCompilation,
       Report, Throw, Return, WorkSteps, Steps
  <2>3. CASE FailureStep
    BY <2>3 DEF FailureStep, HandleFailure, CompleteFailed, PublishUnavailable, ChooseRecovery,
       SubmitRecovery, Recovered, Return, WorkSteps, Steps
  <2>4. CASE Refuse \/ Ask \/ Answer \/ AnswerFails \/ EraseEntry \/ EraseFails
    BY <2>4 DEF Refuse, Ask, Answer, AnswerFails, EraseEntry, EraseFails, Return
  <2> QED
    BY <2>1, <2>2, <2>3, <2>4 DEF WorkerStep
<1>4. /\ "idle" \notin WorkSteps /\ "starting" \in WorkSteps /\ WorkSteps \subseteq Steps
      /\ {"recovering", "resubmitting", "querying", "asking", "erasing"} \cap WorkSteps = {}
      /\ {"idle", "recovering", "resubmitting", "querying", "asking", "erasing"} \subseteq Steps
  BY DEF WorkSteps, Steps
<1>5. ~IsJob(NoJob)
  BY DEF IsJob, NoJob, None
<1>6. CASE running' = NoJob /\ step' = "idle"
  BY <1>2, <1>4, <1>6 DEF WorkerFits
<1>7. CASE /\ UNCHANGED running /\ step # "idle" /\ step' # "idle" /\ step' \in Steps
           /\ step' \in WorkSteps => step \in WorkSteps
  <2>1. IsJob(running) /\ IsJob(running)'
    BY <1>1, <1>7, Advances DEF SharedInv, WorkerFits
  <2>2. step' \in WorkSteps => Background(running)'
    BY <1>7 DEF SharedInv, WorkerFits, Background
  <2>3. running' # NoJob
    BY <1>5, <1>7, <2>1
  <2> QED
    BY <1>2, <1>7, <2>1, <2>2, <2>3 DEF WorkerFits
<1>8. CASE /\ queue # <<>> /\ running' = Head(queue)
           /\ \/ Background(Head(queue)) /\ step' = "starting"
              \/ step' \in {"asking", "erasing"}
  <2>1. PICK j : j = Head(queue)
    OBVIOUS
  <2>2. IsJob(j)
    <3>1. queue \in Seq(Queued) /\ 1 \in DOMAIN queue /\ Head(queue) = queue[1]
      BY <1>8 DEF SharedInv, QueueFits, Queued
    <3> QED
      BY <2>1, <3>1 DEF SharedInv, QueueFits
  <2>3. IsJob(j)' /\ running' = j
    BY <1>1, <1>8, <2>1, <2>2, Advances
  <2>4. IsJob(running)'
    BY <2>3 DEF IsJob, TrueOf, Background
  <2>5. running' # NoJob
    BY <1>5, <2>2, <2>3
  <2>6. step' \in WorkSteps => Background(running)'
    BY <1>4, <1>8, <2>1, <2>3 DEF Background
  <2> QED
    BY <1>2, <1>4, <1>8, <2>4, <2>5, <2>6 DEF WorkerFits
<1> QED
  BY <1>3, <1>4, <1>6, <1>7, <1>8

-----------------------------------------------------------------------------
(* What is cached, or left to recover, is of work that was admitted.        *)

Same(e, f) == f.epoch = e.epoch /\ f.generation = e.generation

LEMMA FieldsStay ==
  ASSUME NEW e, IsEntry(e), NEW a, NEW b
  PROVE  /\ Same(e, [e EXCEPT !.attempted = a])
         /\ Same(e, [e EXCEPT !.resident = b])
         /\ Same(e, [e EXCEPT !.resident = b, !.attempted = a])
<1>1. PICK k, g, v, p, n, d, t :
        e = [key |-> k, arguments |-> g, version |-> v, epoch |-> p, generation |-> n,
             resident |-> d, attempted |-> t]
  BY DEF IsEntry
<1>2. Same(e, [e EXCEPT !.attempted = a])
  BY <1>1 DEF Same
<1>3. Same(e, [e EXCEPT !.resident = b])
  BY <1>1 DEF Same
<1>4. [e EXCEPT !.resident = b, !.attempted = a]
        = [[e EXCEPT !.resident = b] EXCEPT !.attempted = a]
  OBVIOUS
<1>5. Same(e, [[e EXCEPT !.resident = b] EXCEPT !.attempted = a])
  <2> DEFINE f == [key |-> k, arguments |-> g, version |-> v, epoch |-> p, generation |-> n,
                   resident |-> b, attempted |-> t]
  <2>1. [e EXCEPT !.resident = b] = f
    BY <1>1
  <2>2. Same(e, [f EXCEPT !.attempted = a])
    BY <1>1 DEF Same
  <2> QED
    BY <2>1, <2>2
<1> QED
  BY <1>2, <1>3, <1>4, <1>5

LEMMA InvalidatedFollows ==
  ASSUME IInv, NEW spared, NEW r \in Root, Invalidated(spared)[r] # NoEntry
  PROVE  entries[r] # NoEntry /\ Same(entries[r], Invalidated(spared)[r])
<1>1. entries[r] # NoEntry
  BY DEF Invalidated, Cached
<1>2. IsEntry(entries[r])
  BY <1>1 DEF IInv, IsCache
<1>3. \/ Invalidated(spared)[r] = [entries[r] EXCEPT !.resident = FALSE, !.attempted = TRUE]
      \/ Invalidated(spared)[r] = [entries[r] EXCEPT !.resident = FALSE]
  BY <1>1 DEF Invalidated, Cached
<1>4. PICK e : e = entries[r]
  OBVIOUS
<1>5. /\ Same(e, [e EXCEPT !.resident = FALSE])
      /\ Same(e, [e EXCEPT !.resident = FALSE, !.attempted = TRUE])
  <2>1. IsEntry(e)
    BY <1>2, <1>4
  <2> QED
    BY <2>1, FieldsStay
<1>6. CASE Invalidated(spared)[r] = [e EXCEPT !.resident = FALSE, !.attempted = TRUE]
  BY <1>1, <1>4, <1>5, <1>6
<1>7. CASE Invalidated(spared)[r] = [e EXCEPT !.resident = FALSE]
  BY <1>1, <1>4, <1>5, <1>7
<1> QED
  BY <1>3, <1>4, <1>6, <1>7

LEMMA KeptFollows ==
  ASSUME NEW cache, NEW k \in Kept(cache), NEW r \in Root, k[r] # NoEntry
  PROVE  k[r] = cache[r]
BY DEF Kept

FromCache(r, e) ==
  \/ entries[r] # NoEntry /\ Same(entries[r], e)
  \/ r = Here /\ candidate # NoEntry /\ Same(candidate, e)

LEMMA EntriesFollow ==
  ASSUME IInv, WorkerStep, NEW r \in Root, entries'[r] # NoEntry
  PROVE  FromCache(r, entries'[r])
<1>1. CASE UNCHANGED entries
  BY <1>1 DEF FromCache, Same
<1>2. CASE Start
  <2>1. CASE entries' = [entries EXCEPT ![Here].attempted = FALSE] /\ r = Here /\ Cached(Here)
    <3>1. entries'[r] = [entries[r] EXCEPT !.attempted = FALSE]
      BY <2>1 DEF IInv, IsCache
    <3>2. IsEntry(entries[r]) /\ entries[r] # NoEntry
      BY <2>1 DEF IInv, IsCache, Cached
    <3>3. PICK e : e = entries[r]
      OBVIOUS
    <3>4. Same(e, [e EXCEPT !.attempted = FALSE])
      <4>1. IsEntry(e)
        BY <3>2, <3>3
      <4> QED
        BY <4>1, FieldsStay
    <3> QED
      BY <3>1, <3>2, <3>3, <3>4 DEF FromCache
  <2>2. CASE entries'[r] = entries[r]
    BY <2>2 DEF FromCache, Same
  <2> QED
    BY <1>2, <2>1, <2>2 DEF Start, IInv, IsCache
<1>3. CASE AnalyseReplies /\ ~UNCHANGED entries
  <2>1. /\ step = "analysing"
        /\ entries' = [entries EXCEPT ![Here] =
                         [candidate EXCEPT !.resident = TRUE, !.attempted = FALSE]]
    BY <1>3 DEF AnalyseReplies
  <2>2. IsEntry(candidate) /\ candidate # NoEntry
    BY <2>1 DEF IInv, CandidateIsNew
  <2>3. Same(candidate, [candidate EXCEPT !.resident = TRUE, !.attempted = FALSE])
    BY <2>2, FieldsStay
  <2>4. CASE r = Here
    <3>1. entries'[r] = [candidate EXCEPT !.resident = TRUE, !.attempted = FALSE]
      BY <2>1, <2>4 DEF IInv, IsCache
    <3> QED
      BY <2>2, <2>3, <2>4, <3>1 DEF FromCache
  <2>5. CASE r # Here
    BY <2>1, <2>5 DEF IInv, IsCache, FromCache, Same
  <2> QED
    BY <2>4, <2>5
<1>4. CASE Evict \/ EraseEntry
  <2>1. PICK v : entries' = [entries EXCEPT ![v] = NoEntry]
    BY <1>4 DEF Evict, EraseEntry
  <2>2. entries'[r] = entries[r]
    BY <2>1 DEF IInv, IsCache
  <2> QED
    BY <2>2 DEF FromCache, Same
<1>5. CASE HandleFailure
  <2>1. CASE FailedWithout
    <3>1. PICK c : c = Invalidated({})
      OBVIOUS
    <3>2. entries' \in Kept(c)
      BY <2>1, <3>1 DEF FailedWithout, KeepRecoverable
    <3>3. entries'[r] = c[r]
      BY <3>2, KeptFollows
    <3> QED
      BY <3>1, <3>3, InvalidatedFollows DEF FromCache
  <2>2. CASE FailedWith
    <3>1. PICK c, f, d : /\ c = Invalidated({Here}) /\ f = [candidate EXCEPT !.attempted = TRUE]
                         /\ d = [c EXCEPT ![Here] = f]
      OBVIOUS
    <3>2. entries' \in Kept(d)
      BY <2>2, <3>1 DEF FailedWith, KeepRecoverable
    <3>3. entries'[r] = d[r]
      BY <3>2, KeptFollows
    <3>4. IsEntry(candidate) /\ candidate # NoEntry
      BY <2>2 DEF FailedWith, IInv, CandidateIsNew
    <3>5. Same(candidate, f)
      BY <3>1, <3>4, FieldsStay
    <3>6. c = [x \in Root |-> c[x]]
      BY <3>1 DEF Invalidated
    <3>7. d[r] = IF r = Here THEN f ELSE c[r]
      BY <3>1, <3>6
    <3>8. CASE r = Here
      BY <3>3, <3>4, <3>5, <3>7, <3>8 DEF FromCache
    <3>9. CASE r # Here
      <4>1. entries'[r] = Invalidated({Here})[r]
        BY <3>1, <3>3, <3>7, <3>9
      <4> QED
        BY <4>1, InvalidatedFollows DEF FromCache
    <3> QED
      BY <3>8, <3>9
  <2> QED
    BY <1>5, <2>1, <2>2 DEF HandleFailure
<1>6. CASE AnswerFails
  <2>1. PICK spared : entries' = Invalidated(spared)
    BY <1>6 DEF AnswerFails
  <2> QED
    BY <2>1, InvalidatedFollows DEF FromCache
<1>7. CASE EraseFails
  <2>1. PICK c : c = Invalidated({Here}) /\ entries' = [c EXCEPT ![Here] = NoEntry]
    BY <1>7 DEF EraseFails
  <2>2. c = [x \in Root |-> c[x]]
    BY <2>1 DEF Invalidated
  <2>3. entries'[r] = Invalidated({Here})[r]
    BY <2>1, <2>2
  <2> QED
    BY <2>3, InvalidatedFollows DEF FromCache
<1>8. CASE /\ ~Start /\ ~AnalyseReplies /\ ~Evict /\ ~EraseEntry /\ ~HandleFailure
           /\ ~AnswerFails /\ ~EraseFails
  <2>1. UNCHANGED entries
    BY <1>8 DEF WorkerStep, AnalysisStep, Pop, Abandon, Resolve, Describe, AnalyseFails,
       EvictFails, Fits, Publish, Clear, Compile, CompileFails, ReportCompilation, Report, Throw,
       FailureStep, CompleteFailed, PublishUnavailable, ChooseRecovery, SubmitRecovery,
       Recovered, Refuse, Ask, Answer, Fail, cacheVars
  <2> QED
    BY <1>1, <2>1
<1> QED
  BY <1>1, <1>2, <1>3, <1>4, <1>5, <1>6, <1>7, <1>8

RecoversWork(j) ==
  \/ j \in recoveries
  \/ \E i \in recoveries : j = [i EXCEPT !.kind = "chosen"]
  \/ \E r \in Root : entries[r] # NoEntry /\ j = Recovery(r, entries[r])
  \/ candidate # NoEntry /\ j = Recovery(Here, candidate)

LEMMA RecoveriesAre ==
  ASSUME IInv, WorkerStep, NEW j \in recoveries'
  PROVE  RecoversWork(j)
<1>1. CASE HandleFailure
  <2>1. \E roots : j \in RecoveriesOf(Recovers(roots)) \cup {Recovery(Here, candidate)}
                   /\ (candidate = NoEntry => j \in RecoveriesOf(Recovers(roots)))
    BY <1>1 DEF HandleFailure, FailedWithout, FailedWith, KeepRecoverable
  <2> QED
    BY <2>1 DEF RecoveriesOf, Recovers, Cached, RecoversWork
<1>2. CASE AnswerFails \/ EraseFails
  <2>1. \E roots : j \in RecoveriesOf(Recovers(roots))
    BY <1>2 DEF AnswerFails, EraseFails
  <2> QED
    BY <2>1 DEF RecoveriesOf, Recovers, Cached, RecoversWork
<1>3. CASE ChooseRecovery \/ SubmitRecovery
  BY <1>3 DEF ChooseRecovery, SubmitRecovery, RecoversWork
<1>4. CASE ~HandleFailure /\ ~AnswerFails /\ ~EraseFails /\ ~ChooseRecovery /\ ~SubmitRecovery
  <2>1. recoveries' = recoveries \/ recoveries' = {}
    BY <1>4 DEF WorkerStep, AnalysisStep, Pop, Start, Abandon, Resolve, Describe, AnalyseReplies,
       AnalyseFails, Evict, EraseEntry,
       EvictFails, Fits, Publish, Clear, Compile, CompileFails, ReportCompilation, Report, Throw,
       FailureStep, CompleteFailed, PublishUnavailable,
       Recovered, Refuse, Ask, Answer, Fail, Return, failureVars
  <2> QED
    BY <2>1 DEF RecoversWork
<1> QED
  BY <1>1, <1>2, <1>3, <1>4

LEMMA WorkerWorks ==
  ASSUME IInv, SharedInv, WorkerStep
  PROVE  WorkIsTrue'
<1>1. Advance /\ UNCHANGED <<asked, epochs>>
  BY WorkerActs
<1>2. ASSUME NEW r \in Root, NEW e, NEW f, Same(e, f), TrueOf(r, e) PROVE TrueOf(r, f)
  BY <1>2 DEF Same, TrueOf
<1>3. candidate # NoEntry => Here \in Root /\ TrueOf(Here, candidate)
  BY HereIsRoot DEF SharedInv, WorkIsTrue
<1>4. ASSUME NEW r \in Root, entries'[r] # NoEntry PROVE TrueOf(r, entries[r])'
  <2>1. PICK e : e = entries'[r]
    OBVIOUS
  <2>2. FromCache(r, e)
    BY <1>4, <2>1, EntriesFollow
  <2>3. TrueOf(r, e)
    BY <1>2, <1>3, <2>2 DEF FromCache, SharedInv, WorkIsTrue
  <2> QED
    BY <1>1, <2>1, <2>3 DEF TrueOf
<1>5. ASSUME NEW j \in recoveries' PROVE IsRecovery(j)'
  <2>1. RecoversWork(j)
    BY RecoveriesAre
  <2>2. IsRecovery(j)
    <3>1. CASE j \in recoveries
      BY <3>1 DEF SharedInv, WorkIsTrue
    <3>2. ASSUME NEW i \in recoveries, j = [i EXCEPT !.kind = "chosen"] PROVE IsRecovery(j)
      <4>1. IsRecovery(i)
        BY DEF SharedInv, WorkIsTrue
      <4>2. j = [kind |-> "chosen", root |-> i.root, version |-> i.version,
                 arguments |-> i.arguments, epoch |-> i.epoch, generation |-> i.generation]
        BY <3>2, <4>1 DEF IsRecovery
      <4> QED
        BY <4>1, <4>2 DEF IsRecovery, TrueOf
    <3>3. ASSUME NEW r \in Root, NEW e, TrueOf(r, e), j = Recovery(r, e) PROVE IsRecovery(j)
      BY <3>3 DEF Recovery, IsRecovery, TrueOf
    <3>4. \A r \in Root : entries[r] # NoEntry => TrueOf(r, entries[r])
      BY DEF SharedInv, WorkIsTrue
    <3> QED
      BY <1>3, <2>1, <3>1, <3>2, <3>3, <3>4 DEF RecoversWork
  <2> QED
    BY <1>1, <2>2, Advances
<1>6. ASSUME candidate' # NoEntry PROVE TrueOf(Here, candidate)'
  <2>1. CASE Resolve
    <3>1. step = "resolving" /\ running' = running
      BY <1>6, <2>1 DEF Resolve, Return
    <3>2. /\ candidate'.epoch = running.epoch /\ candidate'.generation = running.generation
      BY <1>6, <2>1 DEF Resolve, Return
    <3>3. TrueOf(Here, running)
      BY <3>1, HereIsRoot DEF WorkSteps, Steps
    <3> QED
      BY <1>1, <3>1, <3>2, <3>3 DEF TrueOf, Here
  <2>2. CASE ~Resolve /\ ~Pop
    <3>1. UNCHANGED <<candidate, running>>
      BY <1>6, <2>2 DEF WorkerStep, AnalysisStep, Start, Abandon, Describe, AnalyseReplies,
       AnalyseFails, Evict, EraseEntry, HandleFailure, ResetCandidate, AnswerFails, EraseFails,
       EvictFails, Fits, Publish, Clear, Compile, CompileFails, ReportCompilation, Report, Throw,
       FailureStep, CompleteFailed, PublishUnavailable, ChooseRecovery, SubmitRecovery,
       Recovered, Refuse, Ask, Answer, Fail, Return, failureVars
    <3> QED
      BY <1>1, <1>3, <1>6, <3>1 DEF TrueOf, Here
  <2>3. CASE Pop
    <3>1. step = "idle" /\ candidate' = candidate
      BY <2>3 DEF Pop, failureVars
    <3> QED
      BY <1>6, <3>1 DEF IInv, CandidateIsNew
  <2> QED
    BY <2>1, <2>2, <2>3
<1> QED
  BY <1>4, <1>5, <1>6 DEF WorkIsTrue

LEMMA StepShared == ASSUME IInv, SharedInv, [Next]_vars PROVE SharedInv'
<1>1. CASE UNCHANGED vars
  <2>1. UNCHANGED <<calls, faults, asked, erasing, eraseStep, epochs, metadata, unavailable,
                    queue, running, token, step, candidate, failure, recoveries, entries, child,
                    crashed, published, compiled, lost>>
    BY <1>1 DEF vars
  <2>2. Advance
    BY <2>1 DEF Advance
  <2>3. QueueFits' /\ WorkIsTrue'
    BY <2>1, <2>2, QueueStays, WorkStays
  <2>4. WorkerFits'
    BY <2>1, <2>2, WorkerStays DEF SharedInv, WorkerFits
  <2>5. CallersFit' /\ SharedFits' /\ OutputsFit' /\ MetadataIsCurrent'
    BY <2>1 DEF SharedInv, CallersFit, SharedFits, OutputsFit, MetadataIsCurrent
  <2> QED
    BY <2>3, <2>4, <2>5 DEF SharedInv
<1>2. CASE WorkerStep
  BY <1>2, WorkerActs, WorkerShares, WorkerQueues, WorkerOutputs, WorkerGoesOn, WorkerWorks
     DEF SharedInv
<1> QED
  BY <1>1, <1>2, AnalyzeKeeps, ForgetKeeps, OtherCallersKeep DEF Next, EraseStep

LEMMA SharedFollows == ASSUME IInv, SharedInv PROVE SharedStateIsTrue
<1>1. \A r \in Root : entries[r].resident => Cached(r)
  BY NoEntryFacts DEF Cached
<1>2. candidate # NoEntry => step \in {"resolved", "analysing", "failed"}
  BY DEF IInv, CandidateIsNew
<1>3. TypeOK
  BY <1>1, <1>2 DEF SharedInv, CallersFit, SharedFits, QueueFits, WorkerFits, OutputsFit, TypeOK
<1> QED
  BY <1>3 DEF SharedInv, SharedStateIsTrue

\* The metadata of a root is that of its newest admitted submission, and a root
\* that was erased has none: no analysis that comes late, no recovery and no
\* failure brings it back, whatever the queue drops, replaces or refuses
\* (analyze, erase, the worker's updates of the metadata).
THEOREM SharedCorrect == Spec => []SharedStateIsTrue
<1>1. Init => IInv /\ SharedInv
  BY InitManager, InitShared
<1>2. IInv /\ SharedInv /\ [Next]_vars => IInv' /\ SharedInv'
  BY StepManager, StepShared
<1>3. IInv /\ SharedInv => SharedStateIsTrue
  BY SharedFollows
<1> QED
  BY <1>1, <1>2, <1>3, PTL DEF Spec

=============================================================================
