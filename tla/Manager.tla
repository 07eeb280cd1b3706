------------------------------- MODULE Manager -------------------------------
(***************************************************************************)
(* The analysis manager of src/src/analysis/manager.cpp with one scheduler *)
(* worker: the thread that runs analyses, recoveries, queries and erasures *)
(* of its roots, its cache entries and the cache of its child process, and *)
(* the callers that submit to its queue and share the root metadata.       *)
(* The child is what WorkerProcess.tla makes of it: a request succeeds or  *)
(* fails, and every failure ends in a fresh child.  Barriers, include      *)
(* metadata, metrics, byte limits and shutdown() are left out; the queue   *)
(* of Scheduler.tla is written here as a sequence.                         *)
(***************************************************************************)
EXTENDS Integers, FiniteSets, SequencesExt

CONSTANTS
  Document,     \* the roots that publish diagnostics
  Stage,        \* the roots of pipeline stages, which request a compilation
  Fatal,        \* the stages whose compilation always kills the child
  Version,      \* the versions of a document
  Arguments,    \* the compiler arguments a root may be analysed with
  Sources,      \* what the includes of a root may resolve to
  Capacity,     \* the capacity of the queue
  MaxEntries,   \* max_translation_units, the share of this worker
  MaxCalls,     \* bound: how many analyses and queries are asked for
  MaxFaults     \* bound: how many requests, or jobs, fail by themselves

Root == Document \cup Stage
None == "none"

ASSUME ManagerAssumption ==
  /\ Document \cap Stage = {}
  /\ Root # {} /\ IsFiniteSet(Root) /\ Sources # {} /\ Arguments # {}
  /\ Fatal \subseteq Stage
  /\ Version \subseteq Nat /\ Version # {}
  /\ Capacity \in Nat \ {0}
  /\ MaxEntries \in Nat \ {0}
  /\ MaxCalls \in Nat
  /\ MaxFaults \in Nat

VARIABLES
  calls,        \* how many analyses and queries have been asked for
  faults,       \* how many requests and jobs have failed by themselves
  asked,        \* the last analysis asked for of each open root
  erasing,      \* the root erase() is at work on
  eraseStep,    \* its next step
  epochs,       \* root_epochs
  metadata,     \* metadata: the epoch of the submission that wrote it
  unavailable,  \* unavailable_generations
  queue,        \* the queue of the scheduler worker
  running,      \* the job the worker runs
  token,        \* the cancellation token of that job
  step,         \* the step the worker is about to take
  candidate,    \* candidate
  failure,      \* the code of the WorkerProcessError being handled
  recoveries,   \* the recoveries left to schedule
  entries,      \* WorkerState::entries
  child,        \* what the child process caches
  crashed,      \* the child is dead, and nobody has noticed
  published,    \* the generation each root last published for
  compiled,     \* the generation each stage last completed
  lost          \* the generations that were dropped without a word

vars == <<calls, faults, asked, erasing, eraseStep, epochs, metadata,
          unavailable, queue, running, token, step, candidate, failure,
          recoveries, entries, child, crashed, published, compiled, lost>>
callerVars == <<calls, asked, erasing, eraseStep>>
sharedVars == <<epochs, metadata, unavailable>>
cacheVars == <<entries, child, crashed>>
failureVars == <<candidate, failure, recoveries>>
outputs == <<published, compiled, lost>>

-----------------------------------------------------------------------------
(* Jobs and the queue.                                                     *)

NoJob == [kind |-> None]
Background(j) == j.kind \in {"analysis", "recovery"}

\* A recovery is submitted one version behind the analysis it repeats.  Fault:
\* with the same version.
SameOrder(j) == j.version
Order(j) == IF j.kind = "recovery" THEN j.version - 1 ELSE j.version

FirstWhere(q, Test(_)) == SelectInSeq(q, Test)
OfRoot(q, r) == FirstWhere(q, LAMBDA j : Background(j) /\ j.root = r)
FirstBackground(q) == FirstWhere(q, Background)

\* Queries and erasures go behind the pending analysis of their root, or in
\* front of every analysis.
Inserted(q, j) ==
  IF Background(j) THEN Append(q, j)
  ELSE IF OfRoot(q, j.root) # 0 THEN InsertAt(q, OfRoot(q, j.root) + 1, j)
  ELSE IF FirstBackground(q) # 0 THEN InsertAt(q, FirstBackground(q), j)
  ELSE Append(q, j)

\* What is left of a queue once the jobs of a root have left it.
Without(q, r) ==
  LET kept[i \in 0 .. Len(q)] ==
        IF i = 0 THEN <<>>
        ELSE IF q[i].root = r THEN kept[i - 1]
        ELSE Append(kept[i - 1], q[i])
  IN  kept[Len(q)]

Full == Len(queue) >= Capacity

\* Dropped without an error: an older version is pending already.
Outdated(j) == /\ Background(j)
               /\ OfRoot(queue, j.root) # 0
               /\ Order(j) < Order(queue[OfRoot(queue, j.root)])
Coalesces(j) == Background(j) /\ OfRoot(queue, j.root) # 0 /\ ~Outdated(j)
Refused(j) == /\ ~Coalesces(j) /\ ~Outdated(j)
              /\ Full
              /\ FirstBackground(queue) = 0
Admitted(j) == ~Outdated(j) /\ ~Refused(j)

Submitted(j) ==
  IF ~Admitted(j) THEN queue
  ELSE IF Coalesces(j) THEN ReplaceAt(queue, OfRoot(queue, j.root), j)
  ELSE IF Full
  THEN Inserted(RemoveAt(queue, FirstBackground(queue)), j)
  ELSE Inserted(queue, j)

\* The job that a submission drops: itself, the one it replaces, or the first
\* analysis of the queue.
Displaced(j) ==
  IF Outdated(j) \/ Refused(j) THEN {j}
  ELSE IF Coalesces(j) THEN {queue[OfRoot(queue, j.root)]}
  ELSE IF Full THEN {queue[FirstBackground(queue)]}
  ELSE {}

\* A recovery from before an erase(), of a higher version than the analysis of
\* the document that was opened anew.
LeftOver(j, analysis) ==
  \E other \in ToSet(queue) \cup {j} :
    /\ other.kind = "recovery"
    /\ other.root = analysis.root
    /\ other.version > analysis.version

\* The analyses that are dropped with nothing newer to take their place: for
\* want of room, or for a recovery that is left over.
Unreplaced(j) ==
  {g \in Displaced(j) :
     /\ g.kind = "analysis"
     /\ Coalesces(j) \/ Outdated(j) => LeftOver(j, g)}
Loses(j) == lost' = lost \cup {g.generation : g \in Unreplaced(j)}

\* The token of the running job, once cancelled for the given reason.
Cancelled(why) == IF token = "live" THEN why ELSE token
CancelledOf(r) ==
  IF running # NoJob /\ running.root = r THEN Cancelled("internal") ELSE token

-----------------------------------------------------------------------------
(* The callers.                                                            *)

\* analyze(): the epoch moves when the submission is admitted, under the lock
\* of the queue.
Analyze(r, version, arguments) ==
  LET job == [kind |-> "analysis", root |-> r, version |-> version,
              arguments |-> arguments, epoch |-> epochs[r] + 1,
              generation |-> calls + 1]
  IN  /\ calls < MaxCalls
      /\ eraseStep = "idle"
      /\ asked[r] # NoJob => version >= asked[r].version
      /\ calls' = calls + 1
      /\ asked' = [asked EXCEPT ![r] = job]
      /\ queue' = Submitted(job)
      /\ Loses(job)
      /\ token' = IF Admitted(job) THEN CancelledOf(r) ELSE token
      /\ IF Admitted(job)
         THEN /\ epochs' = [epochs EXCEPT ![r] = @ + 1]
              /\ metadata' = IF r \in Document
                             THEN [metadata EXCEPT ![r] = epochs[r] + 1]
                             ELSE metadata
         ELSE UNCHANGED <<epochs, metadata>>
      /\ UNCHANGED <<faults, erasing, eraseStep, unavailable, running, step,
                     failureVars, cacheVars, published, compiled>>

Query(r) ==
  LET job == [kind |-> "query", root |-> r, version |-> asked[r].version] IN
  /\ calls < MaxCalls
  /\ asked[r] # NoJob
  /\ calls' = calls + 1
  /\ queue' = Submitted(job)
  /\ Loses(job)
  /\ UNCHANGED <<faults, asked, erasing, eraseStep, sharedVars, running, token,
                 step, failureVars, cacheVars, published, compiled>>

\* The client cancels the query, or its deadline passes.
CancelQuery ==
  /\ running.kind = "query"
  /\ token = "live"
  /\ token' = "external"
  /\ UNCHANGED <<callerVars, faults, sharedVars, queue, running, step,
                 failureVars, cacheVars, outputs>>

\* erase(): the root is forgotten, its work cancelled, and its erasure queued.
Forget(r) ==
  /\ eraseStep = "idle"
  /\ asked[r] # NoJob
  /\ erasing' = r
  /\ eraseStep' = "cancelling"
  /\ asked' = [asked EXCEPT ![r] = NoJob]
  /\ epochs' = [epochs EXCEPT ![r] = @ + 1]
  /\ metadata' = [metadata EXCEPT ![r] = 0]
  /\ unavailable' = [unavailable EXCEPT ![r] = 0]
  /\ UNCHANGED <<calls, faults, queue, running, token, step, failureVars,
                 cacheVars, outputs>>

CancelRoot ==
  /\ eraseStep = "cancelling"
  /\ queue' = Without(queue, erasing)
  /\ token' = CancelledOf(erasing)
  /\ eraseStep' = "submitting"
  /\ UNCHANGED <<calls, faults, asked, erasing, sharedVars, running, step,
                 failureVars, cacheVars, outputs>>

SubmitErasure ==
  LET job == [kind |-> "erase", root |-> erasing] IN
  /\ eraseStep = "submitting"
  /\ queue' = Submitted(job)
  /\ Loses(job)
  /\ erasing' = None
  /\ eraseStep' = "idle"
  /\ UNCHANGED <<calls, faults, asked, sharedVars, running, token, step,
                 failureVars, cacheVars, published, compiled>>

-----------------------------------------------------------------------------
(* The cache of the worker and of its child.                               *)

NoEntry == [resident |-> FALSE]
Cached(r) == entries[r] # NoEntry
Here == running.root
Current == epochs[Here] = running.epoch /\ token = "live"

Unit(e) == [key |-> e.key, arguments |-> e.arguments]
NoUnit == [key |-> <<>>, arguments |-> None]
Held(r) == IF entries[r].resident THEN Unit(entries[r]) ELSE NoUnit

\* How the parent, and the child, would serve an analysis.
Kind(unit, have) ==
  IF have.key = unit.key THEN "cache_hit"
  ELSE IF have.arguments = unit.arguments THEN "reparsed"
  ELSE "parsed"
ExpectedKind == Kind(Unit(candidate), Held(Here))
ChildKind == Kind(Unit(candidate), child[Here])

\* A request to the child fails: because the child is dead, because the token
\* is cancelled, or by itself.
FailsWith(code) ==
  \/ crashed /\ code = "exited" /\ UNCHANGED faults
  \/ token # "live" /\ code = "cancelled" /\ UNCHANGED faults
  \/ /\ faults < MaxFaults
     /\ code \in {"exited", "timed_out", "worker_error"}
     /\ faults' = faults + 1

Fail(code) ==
  /\ failure' = code
  /\ step' = "failed"
  /\ UNCHANGED <<callerVars, sharedVars, queue, running, token, candidate,
                 recoveries, cacheVars, outputs>>

\* The job is over.
Return ==
  /\ running' = NoJob
  /\ token' = "live"
  /\ step' = "idle"
  /\ candidate' = NoEntry
  /\ failure' = None
  /\ recoveries' = {}

Crash ==
  /\ ~crashed
  /\ faults < MaxFaults
  /\ faults' = faults + 1
  /\ crashed' = TRUE
  /\ UNCHANGED <<callerVars, sharedVars, queue, running, token, step,
                 failureVars, entries, child, outputs>>

-----------------------------------------------------------------------------
(* An analysis, step by step.                                              *)

\* A job whose token is cancelled while it is queued never gets here.
Pop ==
  /\ step = "idle"
  /\ queue # <<>>
  /\ running' = Head(queue)
  /\ queue' = Tail(queue)
  /\ step' = CASE Background(Head(queue)) -> "starting"
               [] Head(queue).kind = "query" -> "asking"
               [] OTHER -> "erasing"
  /\ UNCHANGED <<callerVars, faults, sharedVars, token, failureVars, cacheVars,
                 outputs>>

Abandon ==
  /\ step \in {"starting", "resolved", "publishing", "clearing", "compiled"}
  /\ token # "live"
  /\ Return
  /\ UNCHANGED <<callerVars, faults, sharedVars, queue, cacheVars, outputs>>

\* An analysis that was asked for may be recovered again.
Start ==
  /\ step = "starting"
  /\ token = "live"
  /\ entries' = IF running.kind = "analysis" /\ Cached(Here)
                THEN [entries EXCEPT ![Here].attempted = FALSE] ELSE entries
  /\ step' = "resolving"
  /\ UNCHANGED <<callerVars, faults, sharedVars, queue, running, token,
                 failureVars, child, crashed, outputs>>

Resolve ==
  /\ step = "resolving"
  /\ IF token # "live"
     THEN Return
     ELSE /\ \E sources \in Sources :
               candidate' = [key |-> <<running.version, running.arguments, sources>>,
                             arguments |-> running.arguments,
                             version |-> running.version, epoch |-> running.epoch,
                             generation |-> running.generation, resident |-> FALSE,
                             attempted |-> running.kind = "recovery"]
          /\ step' = "resolved"
          /\ UNCHANGED <<running, token, failure, recoveries>>
  /\ UNCHANGED <<callerVars, faults, sharedVars, queue, cacheVars, outputs>>

\* Fault: whatever the epoch.
WritesWhenLive == token = "live"
WritesMetadata == Current
NewMetadata == IF Here \in Document /\ WritesMetadata
               THEN [metadata EXCEPT ![Here] = running.epoch] ELSE metadata

Describe ==
  /\ step = "resolved"
  /\ metadata' = NewMetadata
  /\ step' = "analysing"
  /\ UNCHANGED <<callerVars, faults, epochs, unavailable, queue, running, token,
                 failureVars, cacheVars, outputs>>

\* A reply agrees with what the parent expects, or the child is reset.
AnalyseReplies ==
  /\ step = "analysing"
  /\ ~crashed
  /\ IF ChildKind = ExpectedKind
     THEN /\ child' = [child EXCEPT ![Here] = Unit(candidate)]
          /\ entries' = [entries EXCEPT ![Here] =
                           [candidate EXCEPT !.resident = TRUE, !.attempted = FALSE]]
          /\ candidate' = NoEntry
          /\ step' = "evicting"
          /\ UNCHANGED failure
     ELSE /\ failure' = "malformed"
          /\ step' = "failed"
          /\ UNCHANGED <<candidate, child, entries>>
  /\ UNCHANGED <<callerVars, faults, sharedVars, queue, running, token,
                 recoveries, crashed, outputs>>

AnalyseFails ==
  /\ step = "analysing"
  /\ \E code \in {"exited", "timed_out", "worker_error", "cancelled"} :
       FailsWith(code) /\ Fail(code)

\* Fault: one entry too many.
Occupied(c) == {r \in Root : c[r] # NoEntry}
CrowdedTooLate(c) == Cardinality(Occupied(c)) > MaxEntries + 1
Crowded(c) == Cardinality(Occupied(c)) > MaxEntries

\* Entries other than that of the current root leave, here and in the child.
\* Fault: the child keeps what it has cached.
ChildKeeps(victim) == child
ChildForgets(victim) == [child EXCEPT ![victim] = NoUnit]
Evict ==
  /\ step = "evicting"
  /\ Crowded(entries)
  /\ \E victim \in Root \ {Here} :
       /\ Cached(victim)
       /\ entries[victim].resident => ~crashed
       /\ child' = IF entries[victim].resident THEN ChildForgets(victim) ELSE child
       /\ entries' = [entries EXCEPT ![victim] = NoEntry]
  /\ UNCHANGED <<callerVars, faults, sharedVars, queue, running, token, step,
                 failureVars, crashed, outputs>>

EvictFails ==
  /\ step = "evicting"
  /\ Crowded(entries)
  /\ \E code \in {"exited", "timed_out", "cancelled"} :
       FailsWith(code) /\ Fail(code)

Fits ==
  /\ step = "evicting"
  /\ ~Crowded(entries)
  /\ step' = "publishing"
  /\ UNCHANGED <<callerVars, faults, sharedVars, queue, running, token,
                 failureVars, cacheVars, outputs>>

Publish ==
  /\ step = "publishing"
  /\ IF Current
     THEN /\ metadata' = NewMetadata
          /\ step' = "clearing"
          /\ UNCHANGED <<running, token, failureVars>>
     ELSE Return /\ UNCHANGED metadata
  /\ UNCHANGED <<callerVars, faults, epochs, unavailable, queue, cacheVars,
                 outputs>>

Clear ==
  /\ step = "clearing"
  /\ token = "live"
  /\ unavailable' = [unavailable EXCEPT ![Here] = 0]
  /\ step' = IF Here \in Stage THEN "compiling" ELSE "reporting"
  /\ UNCHANGED <<callerVars, faults, epochs, metadata, queue, running, token,
                 failureVars, cacheVars, outputs>>

Compile ==
  /\ step = "compiling"
  /\ ~crashed
  /\ Here \notin Fatal
  /\ step' = "compiled"
  /\ UNCHANGED <<callerVars, faults, sharedVars, queue, running, token,
                 failureVars, cacheVars, outputs>>

CompileFails ==
  /\ step = "compiling"
  /\ \/ Here \in Fatal /\ Fail("exited") /\ UNCHANGED faults
     \/ \E code \in {"exited", "timed_out", "worker_error", "cancelled"} :
          FailsWith(code) /\ Fail(code)

\* The callbacks: compilation, and diagnostics.
ReportCompilation ==
  /\ step = "compiled"
  /\ token = "live"
  /\ compiled' = [compiled EXCEPT ![Here] = running.generation]
  /\ Return
  /\ UNCHANGED <<callerVars, faults, sharedVars, queue, cacheVars, published,
                 lost>>

Report ==
  /\ step = "reporting"
  /\ published' = [published EXCEPT ![Here] = running.generation]
  /\ Return
  /\ UNCHANGED <<callerVars, faults, sharedVars, queue, cacheVars, compiled,
                 lost>>

\* The includes cannot be resolved, or a callback throws: an exception that is
\* only logged.  What is cached stays, and nothing is reported.
Throw ==
  /\ \/ step = "resolving"
     \/ step = "reporting"
     \/ step = "compiled" /\ token = "live"
  /\ faults < MaxFaults
  /\ faults' = faults + 1
  /\ lost' = lost \cup {running.generation}
  /\ Return
  /\ UNCHANGED <<callerVars, sharedVars, queue, cacheVars, published, compiled>>

-----------------------------------------------------------------------------
(* Failure and recovery.                                                   *)

Recovery(r, e) ==
  [kind |-> "recovery", root |-> r, version |-> e.version,
   arguments |-> e.arguments, epoch |-> e.epoch, generation |-> e.generation]

\* The roots to recover once the child is reset.
Recovers(spared) == {r \in Root \ spared : Cached(r) /\ ~entries[r].attempted}

\* invalidate_worker(): every entry loses its translation unit.
Invalidated(spared) ==
  [r \in Root |->
     IF ~Cached(r) THEN NoEntry
     ELSE IF r \in Recovers(spared)
     THEN [entries[r] EXCEPT !.resident = FALSE, !.attempted = TRUE]
     ELSE [entries[r] EXCEPT !.resident = FALSE]]
RecoveriesOf(roots) == {Recovery(r, entries[r]) : r \in roots}

FreshChild ==
  /\ child' = [r \in Root |-> NoUnit]
  /\ crashed' = FALSE

\* The analysis that failed is kept for another attempt, unless it was one.
\* Fault: even if it was one.
TriedNever(code) == code # "exited"
Tried(code) == running.kind = "recovery" \/ code # "exited"

\* enforce_limits() once more: all is lost already, entries only leave.
Kept(cache) ==
  IF Crowded(cache)
  THEN {c \in {[r \in Root |-> IF r \in gone THEN NoEntry ELSE cache[r]] :
                 gone \in SUBSET (Root \ {Here})} :
          Cardinality(Occupied(c)) = MaxEntries}
  ELSE {cache}
KeepRecoverable(cache, all) ==
  \E kept \in Kept(cache) :
    /\ entries' = kept
    /\ recoveries' = {j \in all : kept[j.root] # NoEntry}

FailedWithout ==
  /\ candidate = NoEntry
  /\ KeepRecoverable(Invalidated({}), RecoveriesOf(Recovers({})))

\* The candidate is the entry of the root from now on, tried once.
FailedWith ==
  /\ candidate # NoEntry
  /\ KeepRecoverable(
       [Invalidated({Here}) EXCEPT ![Here] = [candidate EXCEPT !.attempted = TRUE]],
       RecoveriesOf(Recovers({Here}))
         \cup (IF Tried(failure) THEN {} ELSE {Recovery(Here, candidate)}))

\* Fault: the candidate is not reset.
CandidateStays == UNCHANGED candidate
ResetCandidate == candidate' = NoEntry
HandleFailure ==
  /\ step = "failed"
  /\ Background(running)
  /\ FailedWithout \/ FailedWith
  /\ FreshChild
  /\ ResetCandidate
  /\ step' = IF failure = "cancelled" \/ token # "live"
             THEN "recovering" ELSE "completing"
  /\ UNCHANGED <<callerVars, faults, sharedVars, queue, running, token, failure,
                 outputs>>

\* A stage that will not be analysed again completes without a result.
RecoveringCurrent ==
  \E j \in recoveries : j.root = Here /\ j.epoch = running.epoch
CompleteFailed ==
  /\ step = "completing"
  /\ compiled' = IF Here \in Stage /\ ~RecoveringCurrent /\ Current
                 THEN [compiled EXCEPT ![Here] = running.generation] ELSE compiled
  /\ step' = "excusing"
  /\ UNCHANGED <<callerVars, faults, sharedVars, queue, running, token,
                 failureVars, cacheVars, published, lost>>

\* publish_unavailable(), once for a generation.
Excuses == /\ Here \in Document
           /\ Current
           /\ unavailable[Here] # running.generation
PublishUnavailable ==
  /\ step = "excusing"
  /\ IF Excuses
     THEN /\ unavailable' = [unavailable EXCEPT ![Here] = running.generation]
          /\ published' = [published EXCEPT ![Here] = running.generation]
     ELSE UNCHANGED <<unavailable, published>>
  /\ step' = "recovering"
  /\ UNCHANGED <<callerVars, faults, epochs, metadata, queue, running, token,
                 failureVars, cacheVars, compiled, lost>>

\* schedule_recoveries(): the epoch is tested under metadata_mutex, and the
\* recovery submitted after it is released.
ChooseRecovery ==
  /\ step = "recovering"
  /\ \E j \in recoveries :
       IF epochs[j.root] = j.epoch
       THEN /\ step' = "resubmitting"
            /\ recoveries' = (recoveries \ {j}) \cup {[j EXCEPT !.kind = "chosen"]}
       ELSE /\ recoveries' = recoveries \ {j}
            /\ UNCHANGED step
  /\ UNCHANGED <<callerVars, faults, sharedVars, queue, running, token,
                 candidate, failure, cacheVars, outputs>>

SubmitRecovery ==
  /\ step = "resubmitting"
  /\ \E j \in recoveries :
       /\ j.kind = "chosen"
       /\ queue' = Submitted([j EXCEPT !.kind = "recovery"])
       /\ Loses([j EXCEPT !.kind = "recovery"])
       /\ recoveries' = recoveries \ {j}
  /\ step' = "recovering"
  /\ UNCHANGED <<callerVars, faults, sharedVars, running, token, candidate,
                 failure, cacheVars, published, compiled>>

Recovered ==
  /\ step = "recovering"
  /\ recoveries = {}
  /\ Return
  /\ UNCHANGED <<callerVars, faults, sharedVars, queue, cacheVars, outputs>>

-----------------------------------------------------------------------------
(* Queries and erasures.                                                   *)

Answerable == /\ token = "live"
              /\ Cached(Here)
              /\ entries[Here].version = running.version
              /\ entries[Here].resident

Refuse ==
  /\ step = "asking"
  /\ ~Answerable
  /\ Return
  /\ UNCHANGED <<callerVars, faults, sharedVars, queue, cacheVars, outputs>>

Ask ==
  /\ step = "asking"
  /\ Answerable
  /\ step' = "querying"
  /\ UNCHANGED <<callerVars, faults, sharedVars, queue, running, token,
                 failureVars, cacheVars, outputs>>

Answer ==
  /\ step = "querying"
  /\ ~crashed
  /\ Return
  /\ UNCHANGED <<callerVars, faults, sharedVars, queue, cacheVars, outputs>>

\* A superseded query leaves its own root to the analysis that replaced it.
AnswerFails ==
  /\ step = "querying"
  /\ \E code \in {"exited", "timed_out", "worker_error", "cancelled"} :
       LET spared == IF code = "cancelled" /\ token = "internal"
                     THEN {Here} ELSE {}
       IN  /\ FailsWith(code)
           /\ entries' = Invalidated(spared)
           /\ recoveries' = RecoveriesOf(Recovers(spared))
  /\ FreshChild
  /\ step' = "recovering"
  /\ UNCHANGED <<callerVars, sharedVars, queue, running, token, candidate,
                 failure, outputs>>

EraseEntry ==
  /\ step = "erasing"
  /\ Cached(Here) /\ entries[Here].resident => ~crashed
  /\ entries' = [entries EXCEPT ![Here] = NoEntry]
  /\ child' = IF Cached(Here) /\ entries[Here].resident
              THEN ChildForgets(Here) ELSE child
  /\ Return
  /\ UNCHANGED <<callerVars, faults, sharedVars, queue, crashed, outputs>>

EraseFails ==
  /\ step = "erasing"
  /\ Cached(Here) /\ entries[Here].resident
  /\ \E code \in {"exited", "timed_out", "cancelled"} : FailsWith(code)
  /\ entries' = [Invalidated({Here}) EXCEPT ![Here] = NoEntry]
  /\ recoveries' = RecoveriesOf(Recovers({Here}))
  /\ FreshChild
  /\ step' = "recovering"
  /\ UNCHANGED <<callerVars, sharedVars, queue, running, token, candidate,
                 failure, outputs>>

-----------------------------------------------------------------------------
Init ==
  /\ calls = 0
  /\ faults = 0
  /\ asked = [r \in Root |-> NoJob]
  /\ erasing = None
  /\ eraseStep = "idle"
  /\ epochs = [r \in Root |-> 0]
  /\ metadata = [r \in Root |-> 0]
  /\ unavailable = [r \in Root |-> 0]
  /\ queue = <<>>
  /\ running = NoJob
  /\ token = "live"
  /\ step = "idle"
  /\ candidate = NoEntry
  /\ failure = None
  /\ recoveries = {}
  /\ entries = [r \in Root |-> NoEntry]
  /\ child = [r \in Root |-> NoUnit]
  /\ crashed = FALSE
  /\ published = [r \in Root |-> 0]
  /\ compiled = [r \in Root |-> 0]
  /\ lost = {}

AnalysisStep ==
  \/ Abandon \/ Start \/ Resolve \/ Describe \/ AnalyseReplies \/ AnalyseFails
  \/ Evict \/ EvictFails \/ Fits \/ Publish \/ Clear \/ Compile \/ CompileFails
  \/ ReportCompilation \/ Report \/ Throw
FailureStep ==
  \/ HandleFailure \/ CompleteFailed \/ PublishUnavailable
  \/ ChooseRecovery \/ SubmitRecovery \/ Recovered
WorkerStep ==
  \/ Pop \/ AnalysisStep \/ FailureStep
  \/ Refuse \/ Ask \/ Answer \/ AnswerFails \/ EraseEntry \/ EraseFails
EraseStep == CancelRoot \/ SubmitErasure

Next ==
  \/ \E r \in Root, version \in Version, arguments \in Arguments :
       Analyze(r, version, arguments)
  \/ \E r \in Document : Query(r) \/ Forget(r)
  \/ CancelQuery \/ EraseStep \/ Crash \/ WorkerStep

Spec == Init /\ [][Next]_vars

\* The worker thread runs; every request to the child ends, by WorkerProcess.
FairSpec == Spec /\ WF_vars(WorkerStep) /\ WF_vars(EraseStep)

-----------------------------------------------------------------------------
Steps == {"idle", "starting", "resolving", "resolved", "analysing", "evicting",
          "publishing", "clearing", "compiling", "compiled", "reporting",
          "failed", "completing", "excusing", "recovering", "resubmitting",
          "asking", "querying", "erasing"}
Codes == {None, "exited", "timed_out", "worker_error", "cancelled", "malformed"}

TypeOK ==
  /\ calls \in 0 .. MaxCalls
  /\ faults \in 0 .. MaxFaults
  /\ erasing \in Document \cup {None}
  /\ eraseStep \in {"idle", "cancelling", "submitting"}
  /\ epochs \in [Root -> Nat]
  /\ metadata \in [Root -> Nat]
  /\ unavailable \in [Root -> 0 .. MaxCalls]
  /\ Len(queue) <= Capacity
  /\ token \in {"live", "internal", "external"}
  /\ step \in Steps
  /\ failure \in Codes
  /\ candidate # NoEntry => step \in {"resolved", "analysing", "failed"}
  /\ step = "idle" <=> running = NoJob
  /\ \A r \in Root : entries[r].resident => Cached(r)
  /\ crashed \in BOOLEAN
  /\ published \in [Root -> 0 .. MaxCalls]
  /\ compiled \in [Root -> 0 .. MaxCalls]
  /\ lost \subseteq 0 .. MaxCalls

\* The parent's idea of what the child has cached is exact, whatever has been
\* evicted, erased, cancelled or lost: between two requests a resident entry is
\* the unit the child holds, and the child holds no other.
CacheCoherent ==
  ~crashed /\ step # "failed" =>
    \A r \in Root : child[r] = Held(r)

\* The cache of the worker is bounded between two jobs.
CacheBounded ==
  step = "idle" => Cardinality({r \in Root : Cached(r)}) <= MaxEntries

\* The public metadata of a root is that of its newest admitted submission, and
\* a root that was erased has none: no analysis that is late, and no recovery,
\* brings it back.
MetadataIsCurrent ==
  \A r \in Document : /\ metadata[r] \in {0, epochs[r]}
                      /\ asked[r] = NoJob => metadata[r] = 0

\* A recovery whose analysis fails is not submitted again by that failure.
RecoveredOnce ==
  [][running.kind = "recovery" /\ candidate # NoEntry
       => \A j \in recoveries' : j.root # Here]_vars

\* An analysis that was asked for has been neither reported nor lost.
Owed(r) == asked[r] # NoJob /\ asked[r].generation \notin {published[r]} \cup lost

\* Every analysis that is asked for is reported, as diagnostics or as
\* unavailable, unless a newer one or erase() follows it, and unless it is lost:
\* dropped from a full queue, ended by an exception that is only logged, or taken
\* for older than a recovery from before an erase(), because the document was
\* opened anew with a lower version.  A recovery of the same version never takes
\* the place of an analysis.  Callers ask no more than MaxCalls times, so that
\* nothing is owed in the end.
DocumentReported == \A r \in Document : []<>~Owed(r)

\* Every compilation a stage asks for is completed, with or without a result.
StageReported ==
  \A r \in Stage : []<>(asked[r] = NoJob \/ compiled[r] = asked[r].generation)

\* The cache of the worker agrees with the child's and is bounded, whatever has
\* failed half way.
CachesAreTrue == CacheCoherent /\ CacheBounded

\* What callers and the worker share is well-formed, and belongs to the newest
\* submission of each root that is open.
SharedStateIsTrue == TypeOK /\ MetadataIsCurrent

=============================================================================
