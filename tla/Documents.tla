------------------------------ MODULE Documents ------------------------------
(***************************************************************************)
(* Open documents, their diagnostics and the validation of a pipeline, in  *)
(* src/src/lsp/server.cpp: the main thread and an executor thread change   *)
(* documents and configuration and submit analyses; the callbacks of the   *)
(* analysis manager store what they report and publish it to the client.   *)
(* The manager is what Manager.tla makes of it: the newest analysis of a   *)
(* root is pending or running and calls back, one that was superseded may  *)
(* still call back or not, and a full queue refuses or forgets.  There is  *)
(* one pipeline, of which a document is at most one stage.                 *)
(***************************************************************************)
EXTENDS Integers, FiniteSets, SequencesExt

CONSTANTS
  Document,      \* the documents of the workspace
  Staged,        \* those that are a stage of the pipeline
  Editable,      \* those the client opens
  Opened,        \* the versions a client gives a document it opens
  MaxVersion,    \* bound: the last version of a document
  MaxEvents,     \* bound: how many notifications and requests arrive
  MaxRevisions,  \* bound: how often the configuration changes
  MaxFaults      \* bound: how many analyses fail, find the queue full, or are not
                 \* described because the configuration cannot be read

ASSUME DocumentsAssumption ==
  /\ Document # {} /\ Staged \subseteq Document /\ Editable \subseteq Document
  /\ MaxVersion \in Nat /\ Opened \subseteq 1 .. MaxVersion
  /\ MaxEvents \in Nat /\ MaxRevisions \in Nat
  /\ MaxFaults \in Nat

Thread == {"main", "executor"}
None == "none"

\* The identities that are analysed: a document for its diagnostics, and the
\* same file as a stage for its compilation.
Root == {"document", "stage"} \X Document
DocumentRoot(d) == <<"document", d>>
StageRoot(d) == <<"stage", d>>

VARIABLES
  documents,     \* documents_: open, version, and a number for the text
  configured,    \* the configuration file declares the pipeline
  unseen,        \* that file has changed, and the server has not been told
  revision,      \* effective_context_revision_
  generations,   \* analysis_generations_
  records,       \* diagnostics_by_identity_
  unavailable,   \* unavailable_by_identity_
  pipelineDiagnostics, \* pipeline_diagnostics_by_identity_, of the pipeline
  pipelineGeneration,  \* pipeline_generations_
  pending,       \* pending_pipeline_validations_
  requests,      \* pipeline_stage_requests_: the generation of each
  validated,     \* completed validations on their way to be published
  shown,         \* what the client shows of each document
  queued,        \* the pending analysis of each root
  running,       \* the running one
  submission,    \* the thread that holds analysis_submission_mutex_
  thread,        \* what each thread is doing
  lost,          \* documents whose newest analysis was not described, refused,
                 \* forgotten or ended by an exception, or which did_close gave
                 \* up before it cleared them
  texts,         \* how many texts there have been
  events, failures, refusals  \* counted towards their bounds

vars == <<documents, configured, unseen, revision, generations, records,
          unavailable, pipelineDiagnostics, pipelineGeneration, pending,
          requests, validated, shown, queued, running, submission, thread,
          lost, texts, events, failures, refusals>>
configurationVars == <<configured, unseen, revision>>
diagnosticsVars == <<generations, records, unavailable, shown>>
pipelineVars == <<pipelineDiagnostics, pipelineGeneration, pending, requests,
                  validated>>
workVars == <<queued, running>>
clientVars == <<documents, texts, events>>
faultVars == <<lost, failures, refusals>>

NoWork == [version |-> 0]
NoRecord == [version |-> 0]
NoValidation == [generation |-> 0]
Nothing == [version |-> 0, compiler |-> 0, pipeline |-> 0]

\* What stands for an analysis-unavailable diagnostic in place of a text.
Unavailable == -1

-----------------------------------------------------------------------------
(* The analysis manager.                                                   *)

\* A pending analysis of a newer version stays, and nobody is told.  Fault: of
\* the same version as well.
OutdatedBySame(root, work) == queued[root] # NoWork /\ work.version <= queued[root].version
Outdated(root, work) == queued[root] # NoWork /\ work.version < queued[root].version

\* The newest submission of a root is pending, the running one superseded.
Queued(root, work) ==
  IF Outdated(root, work) THEN queued ELSE [queued EXCEPT ![root] = work]
Superseded(root) ==
  IF running[root] = NoWork THEN running
  ELSE [running EXCEPT ![root].live = FALSE]
Runs(root, work) == IF Outdated(root, work) THEN running ELSE Superseded(root)

Refuses == failures + refusals < MaxFaults /\ refusals' = refusals + 1
Fails == failures + refusals < MaxFaults /\ failures' = failures + 1

Begin(root) ==
  /\ running[root] = NoWork
  /\ queued[root] # NoWork
  /\ running' = [running EXCEPT ![root] = queued[root]]
  /\ queued' = [queued EXCEPT ![root] = NoWork]
  /\ UNCHANGED <<clientVars, configurationVars, diagnosticsVars, pipelineVars,
                 submission, thread, faultVars>>

\* A superseded analysis ends without a callback.
Drop(root) ==
  /\ running[root] # NoWork
  /\ ~running[root].live
  /\ running' = [running EXCEPT ![root] = NoWork]
  /\ UNCHANGED <<clientVars, configurationVars, diagnosticsVars, pipelineVars,
                 queued, submission, thread, faultVars>>

\* The documents whose newest analysis the given work of a root is.
Concerned(root, work) ==
  {d \in Document : root = DocumentRoot(d) /\ work.generation = generations[d]}

\* Queries of other roots push a pending analysis out of a full queue, or it is
\* dropped for a recovery that is left over (Manager, LeftOver).
Forget(root) ==
  /\ queued[root] # NoWork
  /\ Refuses
  /\ lost' = lost \cup Concerned(root, queued[root])
  /\ queued' = [queued EXCEPT ![root] = NoWork]
  /\ UNCHANGED <<clientVars, configurationVars, diagnosticsVars, pipelineVars,
                 running, submission, thread, failures>>

\* An exception ends an analysis, and is only logged.
Throw(root) ==
  /\ running[root] # NoWork
  /\ Fails
  /\ lost' = lost \cup Concerned(root, running[root])
  /\ running' = [running EXCEPT ![root] = NoWork]
  /\ UNCHANGED <<clientVars, configurationVars, diagnosticsVars, pipelineVars,
                 queued, submission, thread, refusals>>

-----------------------------------------------------------------------------
(* The client: notifications on the main thread, requests on the other.    *)

Resting == [at |-> "resting"]
NoClose == [document |-> None]
Handler(roots) == [at |-> "next", roots |-> roots, closing |-> NoClose]

\* The documents whose metadata says, or cannot deny, that they include d.
Tracked == {d \in Document : documents[d].open}
Affected(d) == {SetToSeq(set) : set \in SUBSET (Tracked \ {d})}
OpenDocuments == SetToSeq(Tracked)

Arrives(c) ==
  /\ thread[c] = Resting
  /\ events < MaxEvents
  /\ events' = events + 1

DidOpen(d) ==
  /\ Arrives("main")
  /\ ~documents[d].open
  /\ texts' = texts + 1
  /\ \E version \in Opened :
       documents' = [documents EXCEPT ![d] =
                       [open |-> TRUE, version |-> version, text |-> texts + 1]]
  /\ \E others \in Affected(d) :
       thread' = [thread EXCEPT !["main"] = Handler(<<d>> \o others)]
  /\ UNCHANGED <<configurationVars, diagnosticsVars, pipelineVars, workVars,
                 submission, faultVars>>

DidChange(d) ==
  /\ Arrives("main")
  /\ documents[d].open
  /\ documents[d].version < MaxVersion
  /\ texts' = texts + 1
  /\ documents' = [documents EXCEPT ![d].version = @ + 1, ![d].text = texts + 1]
  /\ \E others \in Affected(d) :
       thread' = [thread EXCEPT !["main"] = Handler(<<d>> \o others)]
  /\ UNCHANGED <<configurationVars, diagnosticsVars, pipelineVars, workVars,
                 submission, faultVars>>

\* did_close reads the configuration and the affected roots first; of a
\* configuration that cannot be read it takes no pipeline.
DidClose(d) ==
  /\ Arrives("main")
  /\ documents[d].open
  /\ \E others \in Affected(d), read \in BOOLEAN :
       thread' = [thread EXCEPT !["main"] =
                    [at |-> "closing", roots |-> others,
                     closing |-> [document |-> d,
                                  validates |-> read /\ configured /\ d \in Staged]]]
  /\ UNCHANGED <<documents, texts, configurationVars, diagnosticsVars,
                 pipelineVars, workVars, submission, faultVars>>

\* Fault: the generation stays.
SameGeneration(d) == generations
NextGeneration(d) == [generations EXCEPT ![d] = @ + 1]

\* The document is closed and its root erased from the manager.
CloseDocument ==
  LET d == thread["main"].closing.document IN
  /\ thread["main"].at = "closing"
  /\ submission = None
  /\ documents' = [documents EXCEPT ![d].open = FALSE]
  /\ generations' = NextGeneration(d)
  /\ records' = [records EXCEPT ![d] = NoRecord]
  /\ unavailable' = [unavailable EXCEPT ![d] = 0]
  /\ queued' = [queued EXCEPT ![DocumentRoot(d)] = NoWork]
  /\ running' = Superseded(DocumentRoot(d))
  /\ thread' = [thread EXCEPT !["main"].at = "next"]
  /\ UNCHANGED <<texts, events, configurationVars, shown, pipelineVars,
                 submission, faultVars>>

\* The last of did_close, once the affected roots have been submitted and the
\* pipeline's validation scheduled.
ClearDiagnostics ==
  /\ thread["main"].at = "clearing"
  /\ shown' = [shown EXCEPT ![thread["main"].closing.document] = Nothing]
  /\ lost' = lost \ {thread["main"].closing.document}
  /\ thread' = [thread EXCEPT !["main"] = Resting]
  /\ UNCHANGED <<clientVars, configurationVars, generations, records,
                 unavailable, pipelineVars, workVars, submission, failures,
                 refusals>>

\* The configuration file changes on disk, and the notification follows.
ChangeFile ==
  /\ ~unseen /\ revision < MaxRevisions
  /\ events < MaxEvents
  /\ events' = events + 1
  /\ configured' = ~configured
  /\ unseen' = TRUE
  /\ UNCHANGED <<documents, texts, revision, diagnosticsVars, pipelineVars,
                 workVars, submission, thread, faultVars>>

DidChangeWatchedFiles ==
  /\ thread["main"] = Resting
  /\ unseen
  /\ unseen' = FALSE
  /\ revision' = revision + 1
  /\ thread' = [thread EXCEPT !["main"] = Handler(OpenDocuments)]
  /\ UNCHANGED <<clientVars, configured, diagnosticsVars, pipelineVars,
                 workVars, submission, faultVars>>

\* By notification, or by the command on an executor thread.
DidChangeActiveVariant(c) ==
  /\ Arrives(c)
  /\ revision < MaxRevisions
  /\ revision' = revision + 1
  /\ thread' = [thread EXCEPT ![c] = Handler(OpenDocuments)]
  /\ UNCHANGED <<documents, texts, configured, unseen, diagnosticsVars,
                 pipelineVars, workVars, submission, faultVars>>

\* Every language feature analyses its document first.
Request(d) ==
  /\ Arrives("executor")
  /\ documents[d].open
  /\ thread' = [thread EXCEPT !["executor"] = Handler(<<d>>)]
  /\ UNCHANGED <<documents, texts, configurationVars, diagnosticsVars,
                 pipelineVars, workVars, submission, faultVars>>

-----------------------------------------------------------------------------
(* analyze_and_publish, under analysis_submission_mutex_.                  *)

Subject(c) == Head(thread[c].roots)

\* A document that has been closed meanwhile ends the handler.
RefuseClosed(c) ==
  /\ thread[c].at = "next"
  /\ thread[c].roots # <<>>
  /\ submission = None
  /\ ~documents[Subject(c)].open
  /\ thread' = [thread EXCEPT ![c] = Resting]
  /\ UNCHANGED <<clientVars, configurationVars, diagnosticsVars, pipelineVars,
                 workVars, submission, faultVars>>

\* Diagnostics of a pipeline the document is no stage of any more are removed,
\* and its record with them, so that the next result is published.  Fault: the
\* record stays.
Removes(d) == ~configured /\ pipelineDiagnostics[d] # NoValidation
KeptRecords(d) == records
RemainingRecords(d) ==
  IF Removes(d) THEN [records EXCEPT ![d] = NoRecord] ELSE records

RemainingDiagnostics(d) ==
  IF Removes(d) THEN [pipelineDiagnostics EXCEPT ![d] = NoValidation]
  ELSE pipelineDiagnostics

\* It is described under a new generation, in the configuration there is.
Describes(c) ==
  /\ thread[c].at = "next"
  /\ thread[c].roots # <<>>
  /\ submission = None
  /\ documents[Subject(c)].open
  /\ generations' = [generations EXCEPT ![Subject(c)] = @ + 1]

Describe(c) ==
  LET d == Subject(c) IN
  /\ Describes(c)
  /\ submission' = c
  /\ records' = RemainingRecords(d)
  /\ pipelineDiagnostics' = RemainingDiagnostics(d)
  /\ lost' = lost \ {d}
  /\ thread' = [thread EXCEPT ![c] =
       [at |-> "submitting", roots |-> @.roots, closing |-> @.closing,
        validates |-> configured /\ d \in Staged,
        work |-> [version |-> documents[d].version, text |-> documents[d].text,
                  generation |-> generations[d] + 1, live |-> TRUE]]]
  /\ UNCHANGED <<clientVars, configurationVars, unavailable, shown,
                 pipelineGeneration, pending, requests, validated, workVars,
                 failures, refusals>>

\* An exception ends the handler, whatever it had left to do: what it was
\* about is lost, and what did_close would have cleared stays on display.
Abandoned(c) == {d \in Document : thread[c].closing # NoClose /\ thread[c].closing.document = d}
Abandons(c, documentsOf) ==
  /\ lost' = lost \cup documentsOf \cup Abandoned(c)
  /\ thread' = [thread EXCEPT ![c] = Resting]

\* The configuration cannot be read, before the pipelines that are gone are
\* removed or after.
DescribeFails(c) ==
  LET d == Subject(c) IN
  /\ Describes(c)
  /\ Fails
  /\ \/ UNCHANGED <<records, pipelineDiagnostics>>
     \/ /\ records' = RemainingRecords(d)
        /\ pipelineDiagnostics' = RemainingDiagnostics(d)
  /\ Abandons(c, {d})
  /\ UNCHANGED <<clientVars, configurationVars, unavailable, shown,
                 pipelineGeneration, pending, requests, validated, workVars,
                 submission, refusals>>

\* The mutex is held until the validation is scheduled.  Fault: it is not.
ReleasedAtOnce(c) == None
HeldAfter(c) == IF thread[c].validates THEN c ELSE None

Submit(c) ==
  LET root == DocumentRoot(Subject(c)) IN
  /\ thread[c].at = "submitting"
  /\ \/ /\ Refuses
        /\ submission' = None
        /\ Abandons(c, {Subject(c)})
        /\ UNCHANGED workVars
     \/ /\ queued' = Queued(root, thread[c].work)
        /\ running' = Runs(root, thread[c].work)
        /\ thread' = [thread EXCEPT ![c] =
             [at |-> IF @.validates THEN "capturing" ELSE "next",
              roots |-> Tail(@.roots), closing |-> @.closing]]
        /\ submission' = HeldAfter(c)
        /\ UNCHANGED <<lost, refusals>>
  /\ UNCHANGED <<clientVars, configurationVars, diagnosticsVars, pipelineVars,
                 failures>>

\* The handler is over, or did_close goes on: its own validation of the pipeline
\* is scheduled without the mutex.
Finish(c) ==
  /\ thread[c].at = "next"
  /\ thread[c].roots = <<>>
  /\ thread' = [thread EXCEPT ![c] =
       IF @.closing = NoClose THEN Resting
       ELSE [at |-> IF @.closing.validates THEN "capturing" ELSE "clearing",
             roots |-> <<>>, closing |-> @.closing]]
  /\ UNCHANGED <<clientVars, configurationVars, diagnosticsVars, pipelineVars,
                 workVars, submission, faultVars>>

-----------------------------------------------------------------------------
(* schedule_pipeline_validations.                                          *)

\* The text a stage is compiled from: that of its open document, or the file's,
\* which has version 0.
Snapshot(d) ==
  IF documents[d].open
  THEN [version |-> documents[d].version, text |-> documents[d].text]
  ELSE [version |-> 0, text |-> 0]

Capture(c) ==
  /\ thread[c].at = "capturing"
  /\ thread' = [thread EXCEPT ![c] =
       [at |-> "registering", roots |-> @.roots, closing |-> @.closing,
        snapshots |-> [d \in Staged |-> Snapshot(d)]]]
  /\ UNCHANGED <<clientVars, configurationVars, diagnosticsVars, pipelineVars,
                 workVars, submission, faultVars>>

\* The configuration of a stage cannot be read.
CaptureFails(c) ==
  /\ thread[c].at = "capturing"
  /\ Fails
  /\ Abandons(c, {})
  /\ submission' = IF submission = c THEN None ELSE submission
  /\ UNCHANGED <<clientVars, configurationVars, diagnosticsVars, pipelineVars,
                 workVars, refusals>>

Register(c) ==
  LET generation == pipelineGeneration + 1 IN
  /\ thread[c].at = "registering"
  /\ pipelineGeneration' = generation
  /\ requests' = [d \in Staged |-> generation]
  /\ pending' = [generation |-> generation, revision |-> revision,
                 snapshots |-> thread[c].snapshots, waits |-> Staged]
  /\ thread' = [thread EXCEPT ![c] =
       [at |-> "staging", roots |-> @.roots, closing |-> @.closing,
        snapshots |-> @.snapshots, generation |-> generation,
        stages |-> SetToSeq(Staged)]]
  /\ UNCHANGED <<clientVars, configurationVars, diagnosticsVars,
                 pipelineDiagnostics, validated, workVars, submission, faultVars>>

\* pipeline_analysis_completed for a stage, as far as the first unlock.  Only
\* the newest request of a stage counts; a change of context or version ends
\* the validation, and the last stage completes it.
StageCompletes(d, work) ==
  LET left == pending.waits \ {d} IN
  IF requests[d] # work.generation
  THEN UNCHANGED <<requests, pending, validated>>
  ELSE /\ requests' = [requests EXCEPT ![d] = 0]
       /\ IF pending.generation # work.generation
          THEN UNCHANGED <<pending, validated>>
          ELSE IF \/ pending.revision # revision
                  \/ pending.snapshots[d].version # work.version
          THEN pending' = NoValidation /\ UNCHANGED validated
          ELSE IF left # {}
          THEN pending' = [pending EXCEPT !.waits = left] /\ UNCHANGED validated
          ELSE /\ pending' = NoValidation
               /\ validated' = validated \cup
                    {[generation |-> pending.generation,
                      snapshots |-> pending.snapshots]}

\* A stage that is refused completes at once, without a result.
SubmitStage(c) ==
  /\ thread[c].at = "staging"
  /\ LET d == Head(thread[c].stages)
         work == [version |-> thread[c].snapshots[d].version,
                  text |-> thread[c].snapshots[d].text,
                  generation |-> thread[c].generation, live |-> TRUE]
     IN  \/ /\ Refuses
            /\ StageCompletes(d, work)
            /\ UNCHANGED workVars
         \/ /\ queued' = Queued(StageRoot(d), work)
            /\ running' = Runs(StageRoot(d), work)
            /\ UNCHANGED <<refusals, requests, pending, validated>>
  /\ IF Len(thread[c].stages) > 1
     THEN /\ thread' = [thread EXCEPT ![c].stages = Tail(@)]
          /\ UNCHANGED submission
     ELSE /\ thread' = [thread EXCEPT ![c] =
               [at |-> IF submission = c THEN "next" ELSE "clearing",
                roots |-> @.roots, closing |-> @.closing]]
          /\ submission' = IF submission = c THEN None ELSE submission
  /\ UNCHANGED <<clientVars, configurationVars, diagnosticsVars,
                 pipelineDiagnostics, pipelineGeneration, lost, failures>>

-----------------------------------------------------------------------------
(* The callbacks of the manager, each under state_mutex_.                  *)

\* Only the result of the newest submission of an open document is taken.
Accepts(d, work) ==
  /\ documents[d].open
  /\ documents[d].version = work.version
  /\ generations[d] = work.generation

\* publish_diagnostics adds what is known of the pipeline.
Shows(d, compiler, diagnostics) ==
  [version |-> documents[d].version, compiler |-> compiler,
   pipeline |-> diagnostics[d].generation]

\* The same diagnostics of the same version are not published again.
Unchanged(d, work) == /\ unavailable[d] = 0
                      /\ records[d].version = documents[d].version
                      /\ records[d].text = work.text

AnalysisCompleted(d) ==
  LET work == running[DocumentRoot(d)] IN
  /\ work # NoWork
  /\ running' = [running EXCEPT ![DocumentRoot(d)] = NoWork]
  /\ IF Accepts(d, work)
     THEN /\ unavailable' = [unavailable EXCEPT ![d] = 0]
          /\ records' = [records EXCEPT ![d] =
                           [version |-> work.version, text |-> work.text,
                            generation |-> work.generation]]
          /\ shown' = IF Unchanged(d, work) THEN shown
                      ELSE [shown EXCEPT ![d] =
                              Shows(d, work.text, pipelineDiagnostics)]
     ELSE UNCHANGED <<unavailable, records, shown>>
  /\ UNCHANGED <<clientVars, configurationVars, generations, pipelineVars,
                 queued, submission, thread, faultVars>>

AnalysisUnavailable(d) ==
  LET work == running[DocumentRoot(d)] IN
  /\ work # NoWork
  /\ Fails
  /\ running' = [running EXCEPT ![DocumentRoot(d)] = NoWork]
  /\ IF Accepts(d, work) /\ unavailable[d] # work.generation
     THEN /\ unavailable' = [unavailable EXCEPT ![d] = work.generation]
          /\ records' = [records EXCEPT ![d] = NoRecord]
          /\ shown' = [shown EXCEPT ![d] =
                         [version |-> work.version, compiler |-> Unavailable,
                          pipeline |-> 0]]
     ELSE UNCHANGED <<unavailable, records, shown>>
  /\ UNCHANGED <<clientVars, configurationVars, generations, pipelineVars,
                 queued, submission, thread, lost, refusals>>

StageCompleted(d) ==
  LET work == running[StageRoot(d)] IN
  /\ work # NoWork
  /\ running' = [running EXCEPT ![StageRoot(d)] = NoWork]
  /\ StageCompletes(d, work)
  /\ UNCHANGED <<clientVars, configurationVars, diagnosticsVars,
                 pipelineDiagnostics, pipelineGeneration, queued, submission,
                 thread, faultVars>>

\* The rest of pipeline_analysis_completed, after the issues are computed without
\* the lock.  Fault: whatever the generation.
AlwaysNewest(v) == TRUE
Newest(v) == v.generation = pipelineGeneration

\* The compiler's diagnostics are repeated if they are of this version.
Repeated(d) == IF records[d].version = documents[d].version THEN records[d].text ELSE 0

\* It is published for the open documents it is current for.  Fault: for closed
\* ones as well.
DisplaysClosed(d, v) ==
  d \in Staged /\ documents[d].version = v.snapshots[d].version
Displays(d, v) == documents[d].open /\ DisplaysClosed(d, v)

PublishValidation ==
  \E v \in validated :
    /\ validated' = validated \ {v}
    /\ IF Newest(v)
       THEN /\ pipelineDiagnostics' =
                 [d \in Document |-> IF d \in Staged THEN v ELSE NoValidation]
            /\ shown' =
                 [d \in Document |->
                    IF Displays(d, v)
                    THEN Shows(d, Repeated(d), pipelineDiagnostics')
                    ELSE shown[d]]
       ELSE UNCHANGED <<pipelineDiagnostics, shown>>
    /\ UNCHANGED <<clientVars, configurationVars, generations, records,
                   unavailable, pipelineGeneration, pending, requests, workVars,
                   submission, thread, faultVars>>

-----------------------------------------------------------------------------
Init ==
  /\ documents = [d \in Document |-> [open |-> FALSE, version |-> 0, text |-> 0]]
  /\ configured \in BOOLEAN
  /\ unseen = FALSE
  /\ revision = 0
  /\ generations = [d \in Document |-> 0]
  /\ records = [d \in Document |-> NoRecord]
  /\ unavailable = [d \in Document |-> 0]
  /\ pipelineDiagnostics = [d \in Document |-> NoValidation]
  /\ pipelineGeneration = 0
  /\ pending = NoValidation
  /\ requests = [d \in Staged |-> 0]
  /\ validated = {}
  /\ shown = [d \in Document |-> Nothing]
  /\ queued = [root \in Root |-> NoWork]
  /\ running = [root \in Root |-> NoWork]
  /\ submission = None
  /\ thread = [c \in Thread |-> Resting]
  /\ lost = {}
  /\ texts = 0
  /\ events = 0
  /\ failures = 0
  /\ refusals = 0

ClientStep ==
  \/ \E d \in Editable : DidOpen(d) \/ DidChange(d) \/ DidClose(d) \/ Request(d)
  \/ ChangeFile \/ DidChangeWatchedFiles
  \/ \E c \in Thread : DidChangeActiveVariant(c)
ThreadStep ==
  \/ CloseDocument \/ ClearDiagnostics
  \/ \E c \in Thread :
       \/ RefuseClosed(c) \/ Describe(c) \/ DescribeFails(c) \/ Submit(c)
       \/ Finish(c) \/ Capture(c) \/ CaptureFails(c) \/ Register(c)
       \/ SubmitStage(c)
WorkStep ==
  \/ \E root \in Root : Begin(root) \/ Drop(root) \/ Forget(root) \/ Throw(root)
  \/ \E d \in Document :
       AnalysisCompleted(d) \/ AnalysisUnavailable(d) \/ StageCompleted(d)
  \/ PublishValidation

Next == ClientStep \/ ThreadStep \/ WorkStep
Spec == Init /\ [][Next]_vars

-----------------------------------------------------------------------------
States == {"resting", "next", "closing", "clearing", "submitting",
           "capturing", "registering", "staging"}

TypeOK ==
  /\ \A d \in Document :
       /\ documents[d].open \in BOOLEAN
       /\ documents[d].version \in 0 .. MaxVersion
       /\ documents[d].text \in 0 .. texts
       /\ records[d].version <= documents[d].version \/ ~documents[d].open
       /\ shown[d].compiler \in -1 .. texts
       /\ shown[d].pipeline \in 0 .. pipelineGeneration
       /\ unavailable[d] \in 0 .. generations[d]
  /\ pending.generation \in {0, pipelineGeneration}
  /\ \A c \in Thread : thread[c].at \in States
  /\ \A c \in Thread :
       \/ thread[c].at = "submitting"
       \/ /\ thread[c].at \in {"capturing", "registering", "staging"}
          /\ thread[c].closing = NoClose
       => submission = c
  /\ thread["executor"].at \notin {"closing", "clearing"}

Quiet == /\ \A c \in Thread : thread[c] = Resting
         /\ \A root \in Root : queued[root] = NoWork /\ running[root] = NoWork
         /\ validated = {}

\* What is recorded for the version a document has is of the text it has,
\* although a client that reopens a document may use its versions again.
RecordIsOfThisText ==
  \A d \in Document :
    documents[d].open /\ records[d].version = documents[d].version =>
      records[d].text = documents[d].text

\* The client shows what the server has on record: unchanged results that are
\* not sent again are still on display, the pipeline's publications repeat them,
\* and nothing of a pipeline that was removed is left beside them.
RecordIsShown ==
  \A d \in Document :
    /\ documents[d].open
    /\ records[d] # NoRecord
    /\ records[d].version = documents[d].version
    => /\ shown[d].version = records[d].version
       /\ shown[d].compiler = records[d].text
       /\ pipelineDiagnostics[d] = NoValidation => shown[d].pipeline = 0

\* A validation is never replaced by an older one.
NewestValidationStays ==
  [][\A d \in Document :
       \/ pipelineDiagnostics'[d] = NoValidation
       \/ pipelineDiagnostics'[d].generation >= pipelineDiagnostics[d].generation]_vars

\* By the time all is quiet, the newest analysis of every open document has been
\* reported: the analysis of the newest generation there is, unless describing it
\* failed, the queue refused it or forgot it, or an exception ended it.
NewestIsReported ==
  Quiet =>
    \A d \in Document \ lost :
      documents[d].open =>
        \/ records[d].version # 0 /\ records[d].generation = generations[d]
        \/ unavailable[d] = generations[d]

\* Once did_close is over, the client shows nothing of the document, unless an
\* exception ended did_close before it cleared the document's diagnostics.
ClosedShowsNothing ==
  thread["main"] = Resting =>
    \A d \in Document \ lost : ~documents[d].open => shown[d] = Nothing

\* The generation in unavailable_by_identity_ is the one whose diagnostic is on
\* display, until an analysis succeeds.
\* The code does not: README, Divergences.
UnavailableIsDisplayed ==
  \A d \in Document :
    documents[d].open /\ unavailable[d] # 0 => shown[d].compiler = Unavailable

\* When all is quiet, what an open stage shows of the pipeline was found in the
\* texts its stages have: those of the open documents, and the saved contents of
\* the others.
\* The code does not: README, Divergences.
StagesAreCurrent ==
  Quiet /\ configured /\ ~unseen /\ failures + refusals = 0 =>
    \A d \in Staged :
      documents[d].open =>
        /\ pipelineDiagnostics[d] # NoValidation
        /\ \A stage \in Staged :
             pipelineDiagnostics[d].snapshots[stage] = Snapshot(stage)

\* What the server has on record of a document is of its text, and on display.
RecordsAreTrue == TypeOK /\ RecordIsOfThisText /\ RecordIsShown

\* What is owed to the client is done when the threads rest, for every document
\* nothing of which was lost: the newest analysis is reported, and closed documents
\* are cleared.
NothingIsOwed == NewestIsReported /\ ClosedShowsNothing

=============================================================================
