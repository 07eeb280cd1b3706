--------------------------- MODULE DocumentsProofs ---------------------------
(***************************************************************************)
(* Proofs that what the server has on record of a document is of the text  *)
(* the document has, and on display, that the validation of a pipeline is  *)
(* never replaced by an older one, and that what is owed to the client is  *)
(* done once all is quiet: for any documents, stages, numbers of events,   *)
(* failures and refused submissions.  Below: that the validation finds     *)
(* what does not fit between stages, and nothing else.                     *)
(***************************************************************************)
EXTENDS Documents, Reflection, FiniteSetTheorems, WellFoundedInduction, TLAPS

IsWork(w) ==
  w = [version |-> w.version, text |-> w.text, generation |-> w.generation, live |-> w.live]

\* An analysis of a document.  Only that of the newest generation can be
\* accepted, and if it is of the version there is, it is of the text there is.
TrueWork(w, document, generation, n) ==
  w # NoWork =>
    /\ IsWork(w)
    /\ w.text \in 0 .. n
    /\ w.generation \in 1 .. generation
    /\ w.generation = generation =>
         /\ document.open
         /\ w.version \in 1 .. document.version
         /\ w.version = document.version => w.text = document.text

TrueRecord(r, document, n) ==
  r # NoRecord =>
    /\ document.open
    /\ r.version \in 1 .. document.version
    /\ r.text \in 0 .. n
    /\ r.version = document.version => r.text = document.text

OnDisplay(s, r, document, v) ==
  r # NoRecord /\ r.version = document.version =>
    /\ s.version = r.version
    /\ s.compiler = r.text
    /\ v = NoValidation => s.pipeline = 0

IsDocument(document, n) ==
  /\ document \in [open : BOOLEAN, version : 0 .. MaxVersion, text : 0 .. n]
  /\ document.open => document.version # 0

DocumentsAreTrue ==
  /\ texts \in Nat
  /\ documents = [d \in Document |-> documents[d]]
  /\ \A d \in Document : IsDocument(documents[d], texts)

RecordsFollow ==
  /\ records = [d \in Document |-> records[d]]
  /\ unavailable = [d \in Document |-> unavailable[d]]
  /\ \A d \in Document : /\ TrueRecord(records[d], documents[d], texts)
                         /\ unavailable[d] \in 0 .. generations[d]

WorkFollows ==
  /\ generations \in [Document -> Nat]
  /\ queued = [root \in Root |-> queued[root]]
  /\ running = [root \in Root |-> running[root]]
  /\ \A d \in Document :
       /\ TrueWork(queued[DocumentRoot(d)], documents[d], generations[d], texts)
       /\ TrueWork(running[DocumentRoot(d)], documents[d], generations[d], texts)

\* A thread that holds an analysis submits it next.
SubmissionsFollow ==
  \A c \in Thread, d \in Document :
    thread[c].at = "submitting" /\ Subject(c) = d =>
      /\ thread[c].work # NoWork
      /\ TrueWork(thread[c].work, documents[d], generations[d], texts)

IsValidation(v, generation) == v # NoValidation /\ v.generation \in 0 .. generation

PipelineFollows ==
  /\ pipelineGeneration \in Nat
  /\ pending.generation \in {0, pipelineGeneration}
  /\ \A v \in validated : IsValidation(v, pipelineGeneration)
  /\ pipelineDiagnostics = [d \in Document |-> pipelineDiagnostics[d]]
  /\ \A d \in Document :
       \/ pipelineDiagnostics[d] = NoValidation
       \/ d \in Staged /\ IsValidation(pipelineDiagnostics[d], pipelineGeneration)

ShownFollows ==
  /\ shown = [d \in Document |-> shown[d]]
  /\ \A d \in Document :
       /\ OnDisplay(shown[d], records[d], documents[d], pipelineDiagnostics[d])
       /\ shown[d].compiler \in -1 .. texts
       /\ shown[d].pipeline \in 0 .. pipelineGeneration

Holds(t) ==
  \/ t.at = "submitting"
  \/ t.at \in {"capturing", "registering", "staging"} /\ t.closing = NoClose

\* What a thread does next, and whether it holds the mutex for that.
IsThread(c, t, holder) ==
  /\ t.at \in States
  /\ Holds(t) => holder = c
  /\ t.at = "closing" => t = [at |-> "closing", roots |-> t.roots, closing |-> t.closing]
  /\ t.at = "staging" =>
       t = [at |-> "staging", roots |-> t.roots, closing |-> t.closing,
            snapshots |-> t.snapshots, generation |-> t.generation, stages |-> t.stages]
  /\ t.at = "clearing" => t.closing # NoClose
  /\ t.at \in {"resting", "closing"} \/ c = "main" \/ t.closing = NoClose
  /\ c = "executor" => t.at \notin {"closing", "clearing"}

\* The document did_close is about stays closed until it is over.
StaysClosed(t, docs) ==
  \A d \in Document :
    t.at \notin {"resting", "closing"} /\ t.closing # NoClose /\ t.closing.document = d
      => ~docs[d].open

ThreadsFollow ==
  /\ thread = [c \in Thread |-> thread[c]]
  /\ \A c \in Thread : IsThread(c, thread[c], submission)
  /\ StaysClosed(thread["main"], documents)

IInv ==
  /\ DocumentsAreTrue
  /\ RecordsFollow
  /\ WorkFollows
  /\ SubmissionsFollow
  /\ PipelineFollows
  /\ ShownFollows
  /\ ThreadsFollow

-----------------------------------------------------------------------------
LEMMA Roots ==
  \A d, e \in Document : /\ DocumentRoot(d) \in Root /\ StageRoot(d) \in Root
                         /\ DocumentRoot(d) = DocumentRoot(e) <=> d = e
BY DEF DocumentRoot, StageRoot, Root

LEMMA OtherRoots ==
  \A d, e : /\ DocumentRoot(d) # StageRoot(e)
            /\ DocumentRoot(d) = DocumentRoot(e) <=> d = e
BY DEF DocumentRoot, StageRoot

\* Texts are added, versions go up, generations too; a document is reopened only
\* when all work on it is of generations gone by.
LEMMA WorkStays ==
  ASSUME NEW w, NEW document, NEW generation, NEW n, NEW document2, NEW generation2, NEW n2,
         generation \in Nat, generation2 \in Nat, generation <= generation2,
         n \in Nat, n2 \in Nat, n <= n2,
         IsDocument(document, n), IsDocument(document2, n2),
         \/ document2 = document
         \/ generation2 > generation
         \/ ~document.open
         \/ (document2.open /\ document2.version > document.version),
         TrueWork(w, document, generation, n)
  PROVE  TrueWork(w, document2, generation2, n2)
<1> SUFFICES ASSUME w # NoWork
             PROVE  TrueWork(w, document2, generation2, n2)
  BY DEF TrueWork
<1>1. IsWork(w) /\ w.text \in 0 .. n /\ w.generation \in 1 .. generation
  BY DEF TrueWork
<1>2. w.text \in 0 .. n2 /\ w.generation \in 1 .. generation2
  BY <1>1
<1>3. ASSUME w.generation = generation2
      PROVE  /\ document2.open
             /\ w.version \in 1 .. document2.version
             /\ w.version = document2.version => w.text = document2.text
  <2>1. w.generation = generation /\ generation = generation2
    BY <1>1, <1>3
  <2>2. /\ document.open
        /\ w.version \in 1 .. document.version
        /\ w.version = document.version => w.text = document.text
    BY <2>1 DEF TrueWork
  <2>3. document.version \in Nat /\ document2.version \in Nat
    BY DEF IsDocument
  <2> QED
    BY <2>1, <2>2, <2>3
<1> QED
  BY <1>1, <1>2, <1>3 DEF TrueWork

LEMMA RecordStays ==
  ASSUME NEW r, NEW document, NEW n, NEW document2, NEW n2,
         n \in Nat, n2 \in Nat, n <= n2,
         IsDocument(document, n), IsDocument(document2, n2),
         \/ document2 = document
         \/ ~document.open
         \/ (document2.open /\ document2.version > document.version),
         TrueRecord(r, document, n)
  PROVE  TrueRecord(r, document2, n2)
<1> SUFFICES ASSUME r # NoRecord
             PROVE  TrueRecord(r, document2, n2)
  BY DEF TrueRecord
<1>1. /\ document.open /\ r.version \in 1 .. document.version /\ r.text \in 0 .. n
      /\ r.version = document.version => r.text = document.text
  BY DEF TrueRecord
<1>2. document.version \in Nat /\ document2.version \in Nat
  BY DEF IsDocument
<1> QED
  BY <1>1, <1>2 DEF TrueRecord

\* What is on display stays what is recorded when the document moves on.
LEMMA DisplayStays ==
  ASSUME NEW s, NEW r, NEW v, NEW document, NEW n, NEW document2, NEW n2,
         n \in Nat, n2 \in Nat,
         IsDocument(document, n), IsDocument(document2, n2),
         \/ document2 = document
         \/ ~document.open
         \/ (document2.open /\ document2.version > document.version),
         TrueRecord(r, document, n), OnDisplay(s, r, document, v)
  PROVE  OnDisplay(s, r, document2, v)
<1>1. document.version \in Nat /\ document2.version \in Nat
  BY DEF IsDocument
<1> QED
  BY <1>1 DEF TrueRecord, OnDisplay

LEMMA NothingFacts == /\ NoWork.version = 0 /\ NoRecord.version = 0 /\ NoValidation.generation = 0
                      /\ Nothing.compiler = 0 /\ Nothing.pipeline = 0
                      /\ Resting.at = "resting"
BY DEF NoWork, NoRecord, NoValidation, Nothing, Resting

LEMMA LiveFacts ==
  ASSUME NEW w, IsWork(w), NEW b
  PROVE  LET u == [w EXCEPT !.live = b] IN
         /\ IsWork(u) /\ u.version = w.version /\ u.text = w.text /\ u.generation = w.generation
<1>1. PICK v, t, g, l : w = [version |-> v, text |-> t, generation |-> g, live |-> l]
  BY DEF IsWork
<1>2. [w EXCEPT !.live = b] = [version |-> v, text |-> t, generation |-> g, live |-> b]
  BY <1>1
<1>3. w.version = v /\ w.text = t /\ w.generation = g
  BY <1>1
<1> QED
  BY <1>2, <1>3 DEF IsWork

LEMMA InitDocuments == Init => IInv
<1> SUFFICES ASSUME Init PROVE IInv
  OBVIOUS
<1>1. DocumentsAreTrue
  BY DocumentsAssumption DEF Init, DocumentsAreTrue, IsDocument
<1>2. RecordsFollow
  BY DEF Init, RecordsFollow, TrueRecord
<1>3. WorkFollows
  BY Roots DEF Init, WorkFollows, TrueWork
<1>4. thread = [c \in Thread |-> Resting] /\ \A c \in Thread : thread[c].at = "resting"
  BY NothingFacts DEF Init
<1>5. SubmissionsFollow
  BY <1>4 DEF SubmissionsFollow
<1>6. PipelineFollows
  BY NothingFacts DEF Init, PipelineFollows
<1>7. ShownFollows
  BY NothingFacts DEF Init, ShownFollows, OnDisplay
<1>8. ThreadsFollow
  <2>1. "main" \in Thread
    BY DEF Thread
  <2> QED
    BY <1>4, <2>1 DEF ThreadsFollow, IsThread, Holds, States, StaysClosed
<1> QED
  BY <1>1, <1>2, <1>3, <1>5, <1>6, <1>7, <1>8 DEF IInv

-----------------------------------------------------------------------------
(* One thread moves.                                                       *)

WorkMoves ==
  \A d \in Document : \A w :
    TrueWork(w, documents[d], generations[d], texts)
      => TrueWork(w, documents'[d], generations'[d], texts')

LEMMA ThreadMoves ==
  ASSUME IInv, NEW c \in Thread, NEW t,
         thread' = [thread EXCEPT ![c] = t],
         IsThread(c, t, submission'),
         submission' = submission \/ submission \notin Thread \ {c},
         WorkMoves,
         \A d \in Document :
           t.at = "submitting" /\ Head(t.roots) = d =>
             t.work # NoWork /\ TrueWork(t.work, documents'[d], generations'[d], texts'),
         IF c = "main" THEN StaysClosed(t, documents') ELSE UNCHANGED documents
  PROVE  ThreadsFollow' /\ SubmissionsFollow'
<1>1. /\ thread' = [e \in Thread |-> thread'[e]]
      /\ \A e \in Thread : thread'[e] = IF e = c THEN t ELSE thread[e]
  BY DEF IInv, ThreadsFollow
<1>2. ASSUME NEW e \in Thread PROVE IsThread(e, thread'[e], submission')
  <2>1. CASE e = c
    BY <1>1, <2>1
  <2>2. CASE e # c
    <3>1. thread'[e] = thread[e] /\ IsThread(e, thread[e], submission)
      BY <1>1, <2>2 DEF IInv, ThreadsFollow
    <3>2. Holds(thread[e]) => submission' = e
      BY <2>2, <3>1 DEF IsThread
    <3> QED
      BY <3>1, <3>2 DEF IsThread
  <2> QED
    BY <2>1, <2>2
<1>3. StaysClosed(thread["main"], documents)'
  <2>1. "main" \in Thread
    BY DEF Thread
  <2>2. CASE c = "main"
    <3>1. thread'["main"] = t
      BY <1>1, <2>1, <2>2
    <3> QED
      BY <2>2, <3>1 DEF StaysClosed
  <2>3. CASE c # "main"
    <3>1. thread'["main"] = thread["main"] /\ documents' = documents
      BY <1>1, <2>1, <2>3
    <3> QED
      BY <3>1 DEF IInv, ThreadsFollow, StaysClosed
  <2> QED
    BY <2>2, <2>3
<1>4. ThreadsFollow'
  BY <1>1, <1>2, <1>3 DEF ThreadsFollow
<1>5. ASSUME NEW e \in Thread, NEW d \in Document,
             thread'[e].at = "submitting", Head(thread'[e].roots) = d
      PROVE  /\ thread'[e].work # NoWork
             /\ TrueWork(thread'[e].work, documents'[d], generations'[d], texts')
  <2>1. CASE e = c
    BY <1>1, <1>5, <2>1
  <2>2. CASE e # c
    <3>1. thread'[e] = thread[e]
      BY <1>1, <2>2
    <3>2. /\ thread[e].work # NoWork
          /\ TrueWork(thread[e].work, documents[d], generations[d], texts)
      BY <1>5, <3>1 DEF IInv, SubmissionsFollow, Subject
    <3> QED
      BY <3>1, <3>2 DEF WorkMoves
  <2> QED
    BY <2>1, <2>2
<1>6. SubmissionsFollow'
  BY <1>5 DEF SubmissionsFollow, Subject
<1> QED
  BY <1>4, <1>6

LEMMA ThreadsStay ==
  ASSUME IInv, UNCHANGED <<thread, submission, documents>>, WorkMoves
  PROVE  ThreadsFollow' /\ SubmissionsFollow'
<1>1. ThreadsFollow'
  BY DEF IInv, ThreadsFollow, StaysClosed
<1>2. ASSUME NEW e \in Thread, NEW d \in Document,
             thread'[e].at = "submitting", Head(thread'[e].roots) = d
      PROVE  /\ thread'[e].work # NoWork
             /\ TrueWork(thread'[e].work, documents'[d], generations'[d], texts')
  BY <1>2 DEF IInv, SubmissionsFollow, Subject, WorkMoves
<1> QED
  BY <1>1, <1>2 DEF SubmissionsFollow, Subject

LEMMA NoWorkMoves ==
  ASSUME UNCHANGED <<documents, generations, texts>>
  PROVE  WorkMoves
BY DEF WorkMoves

\* The forms a thread takes.
LEMMA ThreadForms ==
  ASSUME NEW c \in Thread, NEW holder
  PROVE  /\ IsThread(c, Resting, holder)
         /\ \A roots, docs : /\ IsThread(c, Handler(roots), holder)
                             /\ StaysClosed(Handler(roots), docs)
         /\ \A docs : StaysClosed(Resting, docs)
BY DEF IsThread, Resting, Handler, Holds, States, StaysClosed

\* The rest of the state, when it does not change.
LEMMA RestStays ==
  ASSUME IInv, UNCHANGED <<documents, texts, diagnosticsVars, pipelineVars, workVars>>,
         ThreadsFollow', SubmissionsFollow'
  PROVE  IInv'
BY DEF diagnosticsVars, pipelineVars, workVars, IInv, DocumentsAreTrue, RecordsFollow, WorkFollows,
       PipelineFollows, ShownFollows

\* Handlers begin and end.
LEMMA BeginKeeps ==
  ASSUME IInv,
         \/ DidChangeWatchedFiles
         \/ \E c \in Thread : DidChangeActiveVariant(c) \/ RefuseClosed(c)
         \/ \E d \in Editable : Request(d)
  PROVE  IInv'
<1>1. PICK c, t :
        /\ c \in Thread
        /\ thread' = [thread EXCEPT ![c] = t]
        /\ t = Resting \/ \E roots : t = Handler(roots)
        /\ UNCHANGED <<documents, texts, submission, diagnosticsVars, pipelineVars, workVars>>
  <2>1. "main" \in Thread /\ "executor" \in Thread
    BY DEF Thread
  <2>2. CASE DidChangeWatchedFiles
    BY <2>1, <2>2 DEF DidChangeWatchedFiles, clientVars
  <2>3. ASSUME NEW c \in Thread, DidChangeActiveVariant(c)
        PROVE  /\ thread' = [thread EXCEPT ![c] = Handler(OpenDocuments)]
               /\ UNCHANGED <<documents, texts, submission, diagnosticsVars, pipelineVars, workVars>>
    BY <2>3 DEF DidChangeActiveVariant
  <2>4. ASSUME NEW c \in Thread, RefuseClosed(c)
        PROVE  /\ thread' = [thread EXCEPT ![c] = Resting]
               /\ UNCHANGED <<documents, texts, submission, diagnosticsVars, pipelineVars, workVars>>
    BY <2>4 DEF RefuseClosed, clientVars
  <2>5. ASSUME NEW d \in Editable, Request(d)
        PROVE  /\ thread' = [thread EXCEPT !["executor"] = Handler(<<d>>)]
               /\ UNCHANGED <<documents, texts, submission, diagnosticsVars, pipelineVars, workVars>>
    BY <2>5 DEF Request
  <2> QED
    BY <2>1, <2>2, <2>3, <2>4, <2>5
<1>2. WorkMoves
  BY <1>1, NoWorkMoves DEF diagnosticsVars
<1>3. IsThread(c, t, submission') /\ StaysClosed(t, documents') /\ t.at # "submitting"
  <2>1. Resting.at # "submitting" /\ \A roots : Handler(roots).at # "submitting"
    BY DEF Resting, Handler
  <2> QED
    BY <1>1, <2>1, ThreadForms
<1>4. ThreadsFollow' /\ SubmissionsFollow'
  BY <1>1, <1>2, <1>3, ThreadMoves
<1> QED
  BY <1>1, <1>4, RestStays

-----------------------------------------------------------------------------
(* Documents are opened, edited and closed.                                *)

\* A document gets a new text: when it was closed, or in a higher version.
LEMMA TextIsNew ==
  ASSUME IInv, NEW d \in Document, NEW document,
         documents' = [documents EXCEPT ![d] = document],
         texts' = texts + 1,
         IsDocument(document, texts'),
         ~documents[d].open \/ (document.open /\ document.version > documents[d].version),
         UNCHANGED <<diagnosticsVars, pipelineVars, workVars>>
  PROVE  /\ WorkMoves
         /\ DocumentsAreTrue' /\ RecordsFollow' /\ WorkFollows' /\ PipelineFollows'
         /\ ShownFollows'
<1>1. texts \in Nat /\ texts' \in Nat /\ texts <= texts'
  BY DEF IInv, DocumentsAreTrue
<1>2. /\ documents' = [e \in Document |-> documents'[e]]
      /\ \A e \in Document : documents'[e] = IF e = d THEN document ELSE documents[e]
  BY DEF IInv, DocumentsAreTrue
<1>3. \A e \in Document : IsDocument(documents[e], texts) /\ IsDocument(documents[e], texts')
  BY <1>1 DEF IInv, DocumentsAreTrue, IsDocument
<1>4. \A e \in Document : IsDocument(documents'[e], texts')
  BY <1>2, <1>3
<1>5. DocumentsAreTrue'
  BY <1>1, <1>2, <1>4 DEF DocumentsAreTrue
<1>6. /\ UNCHANGED <<generations, records, unavailable, shown, pipelineDiagnostics,
                     pipelineGeneration, pending, validated, queued, running>>
      /\ \A e \in Document : generations[e] \in Nat /\ generations'[e] \in Nat
  BY DEF diagnosticsVars, pipelineVars, workVars, IInv, WorkFollows
<1>7. \A e \in Document :
        \/ documents'[e] = documents[e]
        \/ ~documents[e].open
        \/ (documents'[e].open /\ documents'[e].version > documents[e].version)
  BY <1>2
<1>8. WorkMoves
  <2> SUFFICES ASSUME NEW e \in Document, NEW w, TrueWork(w, documents[e], generations[e], texts)
               PROVE  TrueWork(w, documents'[e], generations'[e], texts')
    BY DEF WorkMoves
  <2>1. generations[e] \in Nat /\ generations'[e] \in Nat /\ generations[e] <= generations'[e]
    BY <1>6
  <2> QED
    BY <1>1, <1>3, <1>4, <1>7, <2>1, WorkStays
<1>9. ASSUME NEW e \in Document
      PROVE  /\ TrueRecord(records[e], documents'[e], texts')
             /\ OnDisplay(shown[e], records[e], documents'[e], pipelineDiagnostics[e])
  <2>1. /\ TrueRecord(records[e], documents[e], texts)
        /\ OnDisplay(shown[e], records[e], documents[e], pipelineDiagnostics[e])
    BY DEF IInv, RecordsFollow, ShownFollows
  <2>2. TrueRecord(records[e], documents'[e], texts')
    BY <1>1, <1>3, <1>4, <1>7, <2>1, RecordStays
  <2>3. OnDisplay(shown[e], records[e], documents'[e], pipelineDiagnostics[e])
    BY <1>1, <1>3, <1>4, <1>7, <2>1, DisplayStays
  <2> QED
    BY <2>2, <2>3
<1>10. RecordsFollow'
  BY <1>6, <1>9 DEF IInv, RecordsFollow
<1>11. WorkFollows'
  BY <1>6, <1>8 DEF IInv, WorkFollows, WorkMoves
<1>12. PipelineFollows'
  BY <1>6 DEF IInv, PipelineFollows
<1>13. \A e \in Document : shown[e].compiler \in -1 .. texts'
  BY <1>1 DEF IInv, ShownFollows
<1>14. ShownFollows'
  BY <1>6, <1>9, <1>13 DEF IInv, ShownFollows
<1> QED
  BY <1>5, <1>8, <1>10, <1>11, <1>12, <1>14

LEMMA TextKeeps ==
  ASSUME IInv, NEW d \in Editable, DidOpen(d) \/ DidChange(d)
  PROVE  IInv'
<1>1. d \in Document
  BY DocumentsAssumption
<1>2. texts \in Nat /\ documents = [e \in Document |-> documents[e]] /\ IsDocument(documents[d], texts)
  BY <1>1 DEF IInv, DocumentsAreTrue
<1>3. PICK document :
        /\ documents' = [documents EXCEPT ![d] = document]
        /\ IsDocument(document, texts + 1)
        /\ ~documents[d].open \/ (document.open /\ document.version > documents[d].version)
  <2>1. CASE DidOpen(d)
    <3>1. PICK version \in Opened :
            documents' = [documents EXCEPT ![d] =
                            [open |-> TRUE, version |-> version, text |-> texts + 1]]
      BY <2>1 DEF DidOpen
    <3>2. ~documents[d].open
      BY <2>1 DEF DidOpen
    <3>3. IsDocument([open |-> TRUE, version |-> version, text |-> texts + 1], texts + 1)
      BY <1>2, DocumentsAssumption DEF IsDocument
    <3> QED
      BY <3>1, <3>2, <3>3
  <2>2. CASE DidChange(d)
    <3> DEFINE document == [documents[d] EXCEPT !.version = @ + 1, !.text = texts + 1]
    <3>1. documents' = [documents EXCEPT ![d] = document]
      <4>1. documents' = [documents EXCEPT ![d].version = @ + 1, ![d].text = texts + 1]
        BY <2>2 DEF DidChange
      <4> QED
        BY <1>1, <1>2, <4>1
    <3>2. documents[d].open /\ documents[d].version < MaxVersion
      BY <2>2 DEF DidChange
    <3>3. PICK o \in BOOLEAN, v \in 0 .. MaxVersion, t \in 0 .. texts :
            documents[d] = [open |-> o, version |-> v, text |-> t]
      BY <1>2 DEF IsDocument
    <3>4. document = [open |-> o, version |-> v + 1, text |-> texts + 1]
      <4> DEFINE f == [documents[d] EXCEPT !.version = @ + 1]
      <4>1. f = [open |-> o, version |-> v + 1, text |-> t]
        BY <3>3
      <4>2. document = [f EXCEPT !.text = texts + 1]
        OBVIOUS
      <4> HIDE DEF document, f
      <4> QED
        BY <4>1, <4>2
    <3>5. documents[d].open = o /\ documents[d].version = v
      BY <3>3
    <3> HIDE DEF document
    <3>6. IsDocument(document, texts + 1)
      BY <1>2, <3>2, <3>4, <3>5, DocumentsAssumption DEF IsDocument
    <3>7. document.open /\ document.version > documents[d].version
      BY <3>2, <3>4, <3>5
    <3> QED
      BY <3>1, <3>6, <3>7
  <2> QED
    BY <2>1, <2>2
<1>4. /\ texts' = texts + 1 /\ UNCHANGED <<submission, diagnosticsVars, pipelineVars, workVars>>
      /\ \E roots : thread' = [thread EXCEPT !["main"] = Handler(roots)]
  BY DEF DidOpen, DidChange
<1>5. /\ WorkMoves
      /\ DocumentsAreTrue' /\ RecordsFollow' /\ WorkFollows' /\ PipelineFollows' /\ ShownFollows'
  BY <1>1, <1>3, <1>4, TextIsNew
<1>6. ThreadsFollow' /\ SubmissionsFollow'
  <2>1. PICK roots : thread' = [thread EXCEPT !["main"] = Handler(roots)]
    BY <1>4
  <2>2. "main" \in Thread /\ Handler(roots).at # "submitting"
    BY DEF Thread, Handler
  <2>3. IsThread("main", Handler(roots), submission') /\ StaysClosed(Handler(roots), documents')
    BY <2>2, ThreadForms
  <2> QED
    BY <1>4, <1>5, <2>1, <2>2, <2>3, ThreadMoves
<1> QED
  BY <1>5, <1>6 DEF IInv

LEMMA CloseBegins ==
  ASSUME IInv, NEW d \in Editable, DidClose(d)
  PROVE  IInv'
<1>1. PICK others, v :
        thread' = [thread EXCEPT !["main"] =
                     [at |-> "closing", roots |-> others,
                      closing |-> [document |-> d, validates |-> v]]]
  BY DEF DidClose
<1>2. UNCHANGED <<documents, texts, submission, diagnosticsVars, pipelineVars, workVars>>
  BY DEF DidClose
<1> DEFINE t == [at |-> "closing", roots |-> others,
                 closing |-> [document |-> d, validates |-> v]]
<1>3. /\ IsThread("main", t, submission') /\ StaysClosed(t, documents')
      /\ t.at # "submitting" /\ "main" \in Thread
  BY DEF IsThread, StaysClosed, Holds, States, Thread
<1>4. WorkMoves
  BY <1>2, NoWorkMoves DEF diagnosticsVars
<1> HIDE DEF t
<1>5. ThreadsFollow' /\ SubmissionsFollow'
  BY <1>1, <1>2, <1>3, <1>4, ThreadMoves DEF t
<1> QED
  BY <1>2, <1>5, RestStays

LEMMA FileKeeps == ASSUME IInv, ChangeFile PROVE IInv'
<1>1. UNCHANGED <<documents, texts, submission, thread, diagnosticsVars, pipelineVars, workVars>>
  BY DEF ChangeFile
<1>2. WorkMoves
  BY <1>1, NoWorkMoves DEF diagnosticsVars
<1> QED
  BY <1>1, <1>2, ThreadsStay, RestStays

\* A running analysis that is superseded stays what it is.
LEMMA SupersededStays ==
  ASSUME IInv, NEW root, running' = Superseded(root) \/ UNCHANGED running
  PROVE  /\ running' = [r \in Root |-> running'[r]]
         /\ \A e \in Document : \A document, generation, n :
              TrueWork(running[DocumentRoot(e)], document, generation, n)
                => TrueWork(running'[DocumentRoot(e)], document, generation, n)
<1>1. running = [r \in Root |-> running[r]]
  BY DEF IInv, WorkFollows
<1>2. running' = [r \in Root |-> running'[r]]
  BY <1>1 DEF Superseded
<1>3. ASSUME NEW e \in Document, NEW document, NEW generation, NEW n,
             TrueWork(running[DocumentRoot(e)], document, generation, n)
      PROVE  TrueWork(running'[DocumentRoot(e)], document, generation, n)
  <2> DEFINE w == running[DocumentRoot(e)]
             u == [w EXCEPT !.live = FALSE]
  <2>1. running'[DocumentRoot(e)] = w \/ (w # NoWork /\ running'[DocumentRoot(e)] = u)
    <3>1. DocumentRoot(e) \in Root
      BY Roots
    <3>2. CASE UNCHANGED running
      BY <3>2
    <3>3. CASE running' = Superseded(root) /\ running[root] = NoWork
      BY <3>3 DEF Superseded
    <3>4. CASE running' = Superseded(root) /\ running[root] # NoWork
      <4>1. running' = [running EXCEPT ![root].live = FALSE]
        BY <3>4 DEF Superseded
      <4>2. CASE DocumentRoot(e) = root
        BY <1>1, <3>1, <3>4, <4>1, <4>2
      <4>3. CASE DocumentRoot(e) # root
        BY <1>1, <3>1, <4>1, <4>3
      <4> QED
        BY <4>2, <4>3
    <3> QED
      BY <3>2, <3>3, <3>4
  <2>2. CASE running'[DocumentRoot(e)] = w
    BY <1>3, <2>2
  <2>3. CASE w # NoWork /\ running'[DocumentRoot(e)] = u
    <3>1. IsWork(w)
      BY <1>3, <2>3 DEF TrueWork
    <3>2. IsWork(u) /\ u.version = w.version /\ u.text = w.text /\ u.generation = w.generation
      BY <3>1, LiveFacts
    <3> HIDE DEF u
    <3> QED
      BY <1>3, <2>3, <3>2 DEF TrueWork
  <2> QED
    BY <2>1, <2>2, <2>3
<1> QED
  BY <1>2, <1>3

LEMMA CloseKeeps == ASSUME IInv, CloseDocument PROVE IInv'
<1> DEFINE d == thread["main"].closing.document
<1>1. /\ thread["main"].at = "closing"
      /\ documents' = [documents EXCEPT ![d].open = FALSE]
      /\ generations' = [generations EXCEPT ![d] = @ + 1]
      /\ records' = [records EXCEPT ![d] = NoRecord]
      /\ unavailable' = [unavailable EXCEPT ![d] = 0]
      /\ queued' = [queued EXCEPT ![DocumentRoot(d)] = NoWork]
      /\ running' = Superseded(DocumentRoot(d))
      /\ thread' = [thread EXCEPT !["main"].at = "next"]
      /\ UNCHANGED <<texts, shown, pipelineVars, submission>>
  BY DEF CloseDocument, NextGeneration
<1> HIDE DEF d
<1>2. texts \in Nat /\ documents = [e \in Document |-> documents[e]]
      /\ generations \in [Document -> Nat]
  BY DEF IInv, DocumentsAreTrue, WorkFollows
<1>3. \A e \in Document : IsDocument(documents[e], texts)
  BY DEF IInv, DocumentsAreTrue
<1>4. \A e \in Document :
        documents'[e] = IF e = d THEN [documents[e] EXCEPT !.open = FALSE] ELSE documents[e]
  BY <1>1, <1>2
<1>5. ASSUME NEW e \in Document
      PROVE  IsDocument(documents'[e], texts) /\ (e = d => ~documents'[e].open)
  <2>1. PICK o \in BOOLEAN, v \in 0 .. MaxVersion, t \in 0 .. texts :
          documents[e] = [open |-> o, version |-> v, text |-> t]
    BY <1>3 DEF IsDocument
  <2>2. [documents[e] EXCEPT !.open = FALSE] = [open |-> FALSE, version |-> v, text |-> t]
    <3>1. \A b : [[open |-> o, version |-> v, text |-> t] EXCEPT !.open = b]
                  = [open |-> b, version |-> v, text |-> t]
      OBVIOUS
    <3> QED
      BY <2>1, <3>1
  <2>3. CASE e = d
    <3>1. documents'[e] = [open |-> FALSE, version |-> v, text |-> t]
      BY <1>4, <2>2, <2>3
    <3> QED
      BY <3>1 DEF IsDocument
  <2>4. CASE e # d
    BY <1>3, <1>4, <2>4
  <2> QED
    BY <2>3, <2>4
<1>6. documents' = [e \in Document |-> documents'[e]]
  BY <1>1, <1>2
<1>7. DocumentsAreTrue'
  BY <1>1, <1>2, <1>5, <1>6 DEF DocumentsAreTrue
<1>8. /\ generations' \in [Document -> Nat]
      /\ \A e \in Document : generations'[e] = IF e = d THEN generations[e] + 1 ELSE generations[e]
  <2>1. generations' = [generations EXCEPT ![d] = @ + 1] /\ generations \in [Document -> Nat]
    BY <1>1, <1>2
  <2>2. ASSUME NEW e \in Document
        PROVE  generations'[e] = IF e = d THEN generations[e] + 1 ELSE generations[e]
    BY <2>1
  <2>3. \A e \in Document : generations[e] \in Nat
    BY <2>1
  <2>4. generations' = [e \in Document |-> generations'[e]]
    BY <2>1
  <2>5. \A e \in Document : generations'[e] \in Nat
    BY <2>2, <2>3
  <2> QED
    BY <2>2, <2>4, <2>5
<1>9. WorkMoves
  <2> SUFFICES ASSUME NEW e \in Document, NEW w, TrueWork(w, documents[e], generations[e], texts)
               PROVE  TrueWork(w, documents'[e], generations'[e], texts')
    BY DEF WorkMoves
  <2>1. /\ generations[e] \in Nat /\ generations'[e] \in Nat /\ generations[e] <= generations'[e]
        /\ documents'[e] = documents[e] \/ generations'[e] > generations[e]
    <3>1. generations[e] \in Nat
      BY <1>2
    <3>2. CASE e = d
      BY <1>8, <3>1, <3>2
    <3>3. CASE e # d
      <4>1. documents'[e] = documents[e]
        BY <1>4, <3>3
      <4>2. generations'[e] = generations[e]
        BY <1>8, <3>3
      <4> QED
        BY <3>1, <4>1, <4>2
    <3> QED
      BY <3>2, <3>3
  <2>2. texts' = texts /\ texts <= texts
    BY <1>1, <1>2
  <2> QED
    BY <1>2, <1>3, <1>5, <2>1, <2>2, WorkStays
<1>10. \A e \in Document : /\ records'[e] = IF e = d THEN NoRecord ELSE records[e]
                           /\ unavailable'[e] = IF e = d THEN 0 ELSE unavailable[e]
  BY <1>1 DEF IInv, RecordsFollow
<1>11. ASSUME NEW e \in Document
       PROVE  /\ TrueRecord(records'[e], documents'[e], texts')
              /\ unavailable'[e] \in 0 .. generations'[e]
              /\ OnDisplay(shown[e], records'[e], documents'[e], pipelineDiagnostics[e])
  <2>1. /\ TrueRecord(records[e], documents[e], texts)
        /\ unavailable[e] \in 0 .. generations[e]
        /\ OnDisplay(shown[e], records[e], documents[e], pipelineDiagnostics[e])
    BY DEF IInv, RecordsFollow, ShownFollows
  <2>2. CASE e = d
    BY <1>8, <1>10, <2>2 DEF TrueRecord, OnDisplay
  <2>3. CASE e # d
    BY <1>1, <1>4, <1>8, <1>10, <2>1, <2>3
  <2> QED
    BY <2>2, <2>3
<1>12. RecordsFollow'
  BY <1>1, <1>11 DEF IInv, RecordsFollow
<1>13. /\ queued' = [r \in Root |-> queued'[r]]
       /\ \A e \in Document : \/ queued'[DocumentRoot(e)] = NoWork
                              \/ queued'[DocumentRoot(e)] = queued[DocumentRoot(e)]
  BY <1>1, Roots DEF IInv, WorkFollows
<1>14. WorkFollows'
  <2>1. ASSUME NEW e \in Document
        PROVE  TrueWork(queued'[DocumentRoot(e)], documents'[e], generations'[e], texts')
    <3>1. TrueWork(queued[DocumentRoot(e)], documents'[e], generations'[e], texts')
      BY <1>9 DEF WorkMoves, IInv, WorkFollows
    <3> QED
      BY <1>13, <3>1 DEF TrueWork
  <2>2. ASSUME NEW e \in Document
        PROVE  TrueWork(running'[DocumentRoot(e)], documents'[e], generations'[e], texts')
    <3>1. TrueWork(running[DocumentRoot(e)], documents'[e], generations'[e], texts')
      BY <1>9 DEF WorkMoves, IInv, WorkFollows
    <3> QED
      BY <1>1, <3>1, SupersededStays
  <2>3. running' = [r \in Root |-> running'[r]]
    BY <1>1, SupersededStays
  <2> QED
    BY <1>8, <1>13, <2>1, <2>2, <2>3 DEF WorkFollows
<1>15. PipelineFollows'
  BY <1>1 DEF pipelineVars, IInv, PipelineFollows
<1>16. ShownFollows'
  BY <1>1, <1>11 DEF pipelineVars, IInv, ShownFollows
<1>17. ThreadsFollow' /\ SubmissionsFollow'
  <2> DEFINE t == [at |-> "next", roots |-> thread["main"].roots,
                   closing |-> thread["main"].closing]
  <2>1. "main" \in Thread
    BY DEF Thread
  <2>2. IsThread("main", thread["main"], submission)
    BY <2>1 DEF IInv, ThreadsFollow
  <2>3. thread["main"] = [at |-> "closing", roots |-> thread["main"].roots,
                          closing |-> thread["main"].closing]
    BY <1>1, <2>2 DEF IsThread
  <2>4. [thread["main"] EXCEPT !.at = "next"] = t
    BY <2>3
  <2>5. thread' = [thread EXCEPT !["main"] = t]
    BY <1>1, <2>4
  <2>6. IsThread("main", t, submission') /\ t.at # "submitting"
    BY DEF IsThread, Holds, States
  <2>7. StaysClosed(t, documents')
    BY <1>5 DEF StaysClosed, d
  <2> HIDE DEF t
  <2> QED
    BY <1>1, <1>9, <2>1, <2>5, <2>6, <2>7, ThreadMoves
<1> QED
  BY <1>7, <1>12, <1>14, <1>15, <1>16, <1>17 DEF IInv

LEMMA ClearKeeps == ASSUME IInv, ClearDiagnostics PROVE IInv'
<1> DEFINE d == thread["main"].closing.document
<1>1. /\ thread["main"].at = "clearing"
      /\ shown' = [shown EXCEPT ![d] = Nothing]
      /\ thread' = [thread EXCEPT !["main"] = Resting]
      /\ UNCHANGED <<documents, texts, generations, records, unavailable, pipelineVars, workVars,
                     submission>>
  BY DEF ClearDiagnostics, clientVars
<1> HIDE DEF d
<1>2. "main" \in Thread
  BY DEF Thread
<1>3. d \in Document => ~documents[d].open
  <2>1. IsThread("main", thread["main"], submission) /\ StaysClosed(thread["main"], documents)
    BY <1>2 DEF IInv, ThreadsFollow
  <2>2. thread["main"].closing # NoClose
    BY <1>1, <2>1 DEF IsThread
  <2> QED
    BY <1>1, <2>1, <2>2 DEF StaysClosed, d
<1>4. ThreadsFollow' /\ SubmissionsFollow'
  <2>1. IsThread("main", Resting, submission') /\ StaysClosed(Resting, documents')
    BY <1>2, ThreadForms
  <2>2. WorkMoves
    BY <1>1, NoWorkMoves
  <2>3. Resting.at # "submitting"
    BY DEF Resting
  <2> QED
    BY <1>1, <1>2, <2>1, <2>2, <2>3, ThreadMoves
<1>5. ASSUME NEW e \in Document
      PROVE  /\ OnDisplay(shown'[e], records[e], documents[e], pipelineDiagnostics[e])
             /\ shown'[e].compiler \in -1 .. texts
             /\ shown'[e].pipeline \in 0 .. pipelineGeneration
  <2>1. shown'[e] = IF e = d THEN Nothing ELSE shown[e]
    BY <1>1 DEF IInv, ShownFollows
  <2>2. CASE e = d
    <3>1. records[e] = NoRecord
      BY <1>3, <2>2 DEF IInv, RecordsFollow, TrueRecord
    <3>2. texts \in Nat /\ pipelineGeneration \in Nat
      BY DEF IInv, DocumentsAreTrue, PipelineFollows
    <3> QED
      BY <2>1, <2>2, <3>1, <3>2, NothingFacts DEF OnDisplay
  <2>3. CASE e # d
    BY <2>1, <2>3 DEF IInv, ShownFollows
  <2> QED
    BY <2>2, <2>3
<1>6. ShownFollows'
  BY <1>1, <1>5 DEF pipelineVars, IInv, ShownFollows
<1> QED
  BY <1>1, <1>4, <1>6 DEF pipelineVars, workVars, IInv, DocumentsAreTrue, RecordsFollow, WorkFollows,
     PipelineFollows

-----------------------------------------------------------------------------
(* Analyses are described and submitted.                                   *)

\* The generation of a document goes up, and the record of it goes with the
\* diagnostics of a pipeline that is gone, or both stay.
LEMMA DescribedStays ==
  ASSUME IInv, NEW c \in Thread, Describes(c),
         \/ UNCHANGED <<records, pipelineDiagnostics>>
         \/ /\ records' = RemainingRecords(Subject(c))
            /\ pipelineDiagnostics' = RemainingDiagnostics(Subject(c)),
         UNCHANGED <<documents, texts, unavailable, shown, pipelineGeneration, pending, validated,
                     queued, running>>
  PROVE  /\ WorkMoves
         /\ DocumentsAreTrue' /\ RecordsFollow' /\ WorkFollows' /\ PipelineFollows' /\ ShownFollows'
         /\ \A e \in Document :
              /\ generations[e] \in Nat
              /\ generations'[e] = IF e = Subject(c) THEN generations[e] + 1 ELSE generations[e]
<1> DEFINE d == Subject(c)
<1>1. generations' = [generations EXCEPT ![d] = @ + 1]
  BY DEF Describes
<1> HIDE DEF d
<1>2. \A e \in Document : /\ IsDocument(documents[e], texts) /\ texts \in Nat
                          /\ generations[e] \in Nat
  BY DEF IInv, DocumentsAreTrue, WorkFollows
<1>3. /\ generations' = [e \in Document |-> generations'[e]]
      /\ \A e \in Document : generations'[e] = IF e = d THEN generations[e] + 1 ELSE generations[e]
  BY <1>1 DEF IInv, WorkFollows
<1>4. WorkMoves
  <2> SUFFICES ASSUME NEW e \in Document, NEW w, TrueWork(w, documents[e], generations[e], texts)
               PROVE  TrueWork(w, documents'[e], generations'[e], texts')
    BY DEF WorkMoves
  <2>1. generations[e] \in Nat /\ generations'[e] \in Nat /\ generations[e] <= generations'[e]
    BY <1>2, <1>3
  <2>2. documents'[e] = documents[e] /\ texts' = texts /\ texts <= texts
    BY <1>2
  <2> QED
    BY <1>2, <2>1, <2>2, WorkStays
<1>5. WorkFollows'
  <2>1. generations' \in [Document -> Nat]
    <3>1. \A e \in Document : generations'[e] \in Nat
      BY <1>2, <1>3
    <3> QED
      BY <1>3, <3>1
  <2> QED
    BY <1>4, <2>1 DEF IInv, WorkFollows, WorkMoves
<1>6. /\ records' = [e \in Document |-> records'[e]]
      /\ pipelineDiagnostics' = [e \in Document |-> pipelineDiagnostics'[e]]
      /\ \A e \in Document :
           \/ records'[e] = records[e] /\ pipelineDiagnostics'[e] = pipelineDiagnostics[e]
           \/ records'[e] = NoRecord /\ pipelineDiagnostics'[e] = NoValidation
  BY DEF RemainingRecords, RemainingDiagnostics, IInv, RecordsFollow, PipelineFollows
<1>7. RecordsFollow'
  <2>1. ASSUME NEW e \in Document
        PROVE  TrueRecord(records'[e], documents[e], texts) /\ unavailable[e] \in 0 .. generations'[e]
    <3>1. TrueRecord(records[e], documents[e], texts) /\ unavailable[e] \in 0 .. generations[e]
      BY DEF IInv, RecordsFollow
    <3>2. /\ generations[e] \in Nat
          /\ generations'[e] = generations[e] \/ generations'[e] = generations[e] + 1
      BY <1>2, <1>3
    <3> QED
      BY <1>6, <3>1, <3>2 DEF TrueRecord
  <2> QED
    BY <1>6, <2>1 DEF IInv, RecordsFollow
<1>8. PipelineFollows'
  BY <1>6 DEF IInv, PipelineFollows
<1>9. ShownFollows'
  <2>1. ASSUME NEW e \in Document
        PROVE  OnDisplay(shown[e], records'[e], documents[e], pipelineDiagnostics'[e])
    BY <1>6 DEF IInv, ShownFollows, OnDisplay
  <2> QED
    BY <2>1 DEF IInv, ShownFollows
<1>10. DocumentsAreTrue'
  BY DEF IInv, DocumentsAreTrue
<1> QED
  BY <1>2, <1>3, <1>4, <1>5, <1>7, <1>8, <1>9, <1>10 DEF d

LEMMA DescribeKeeps == ASSUME IInv, NEW c \in Thread, Describe(c) PROVE IInv'
<1> DEFINE d == Subject(c)
           work == [version |-> documents[d].version, text |-> documents[d].text,
                    generation |-> generations[d] + 1, live |-> TRUE]
           t == [at |-> "submitting", roots |-> thread[c].roots, closing |-> thread[c].closing,
                 validates |-> configured /\ d \in Staged, work |-> work]
<1>1. /\ Describes(c) /\ thread[c].at = "next" /\ submission = None /\ documents[d].open
      /\ records' = RemainingRecords(d)
      /\ pipelineDiagnostics' = RemainingDiagnostics(d)
      /\ thread' = [thread EXCEPT ![c] = t]
      /\ submission' = c
      /\ UNCHANGED <<documents, texts, unavailable, shown, pipelineGeneration, pending, validated,
                     queued, running>>
  BY DEF Describe, Describes, clientVars, workVars, IInv, ThreadsFollow
<1>2. t.at = "submitting" /\ t.roots = thread[c].roots /\ t.closing = thread[c].closing
      /\ t.work = work
  OBVIOUS
<1>3. work.version = documents[d].version /\ work.text = documents[d].text
      /\ work.generation = generations[d] + 1 /\ IsWork(work)
  BY DEF IsWork
<1> HIDE DEF t, work, d
<1>4. /\ WorkMoves
      /\ DocumentsAreTrue' /\ RecordsFollow' /\ WorkFollows' /\ PipelineFollows' /\ ShownFollows'
      /\ \A e \in Document :
           /\ generations[e] \in Nat
           /\ generations'[e] = IF e = d THEN generations[e] + 1 ELSE generations[e]
  BY <1>1, DescribedStays DEF d
<1>5. \A e \in Document : IsDocument(documents[e], texts) /\ texts \in Nat
  BY DEF IInv, DocumentsAreTrue
<1>6. ThreadsFollow' /\ SubmissionsFollow'
  <2>1. IsThread(c, thread[c], submission)
    BY DEF IInv, ThreadsFollow
  <2>2. IsThread(c, t, submission')
    BY <1>1, <1>2, <2>1 DEF IsThread, Holds, States
  <2>3. IF c = "main" THEN StaysClosed(t, documents') ELSE UNCHANGED documents
    BY <1>1, <1>2 DEF IInv, ThreadsFollow, StaysClosed
  <2>4. ASSUME NEW e \in Document, Head(t.roots) = e
        PROVE  t.work # NoWork /\ TrueWork(t.work, documents'[e], generations'[e], texts')
    <3>1. e = d
      BY <1>2, <2>4 DEF Subject, d
    <3>2. documents[d].open /\ documents[d].version \in Nat /\ documents[d].version # 0
          /\ documents[d].text \in 0 .. texts
      BY <1>1, <1>5, <3>1 DEF IsDocument
    <3>3. TrueWork(work, documents[d], generations[d] + 1, texts)
      BY <1>3, <1>4, <1>5, <3>1, <3>2 DEF TrueWork
    <3>4. work # NoWork
      BY <1>3, <3>2, NothingFacts
    <3>5. generations'[e] = generations[d] + 1
      BY <1>4, <3>1
    <3> QED
      BY <1>1, <1>2, <3>1, <3>3, <3>4, <3>5
  <2>5. submission \notin Thread \ {c}
    BY <1>1 DEF Thread, None
  <2> QED
    BY <1>1, <1>4, <2>2, <2>3, <2>4, <2>5, ThreadMoves
<1> QED
  BY <1>4, <1>6 DEF IInv

LEMMA DescribeFailsKeeps == ASSUME IInv, NEW c \in Thread, DescribeFails(c) PROVE IInv'
<1>1. /\ Describes(c)
      /\ \/ UNCHANGED <<records, pipelineDiagnostics>>
         \/ /\ records' = RemainingRecords(Subject(c))
            /\ pipelineDiagnostics' = RemainingDiagnostics(Subject(c))
      /\ thread' = [thread EXCEPT ![c] = Resting]
      /\ UNCHANGED <<documents, texts, unavailable, shown, pipelineGeneration, pending, validated,
                     queued, running, submission>>
  BY DEF DescribeFails, Abandons, clientVars, workVars
<1>2. /\ WorkMoves
      /\ DocumentsAreTrue' /\ RecordsFollow' /\ WorkFollows' /\ PipelineFollows' /\ ShownFollows'
  BY <1>1, DescribedStays
<1>3. IsThread(c, Resting, submission') /\ StaysClosed(Resting, documents')
      /\ Resting.at # "submitting"
  BY ThreadForms, NothingFacts
<1>4. ThreadsFollow' /\ SubmissionsFollow'
  BY <1>1, <1>2, <1>3, ThreadMoves
<1> QED
  BY <1>2, <1>4 DEF IInv

LEMMA SubmitKeeps == ASSUME IInv, NEW c \in Thread, Submit(c) PROVE IInv'
<1> DEFINE root == DocumentRoot(Subject(c))
           work == thread[c].work
<1>1. /\ thread[c].at = "submitting"
      /\ UNCHANGED <<documents, texts, diagnosticsVars, pipelineVars>>
  BY DEF Submit, clientVars
<1>2. submission = c /\ IsThread(c, thread[c], submission) /\ None \notin Thread
  BY <1>1 DEF IInv, ThreadsFollow, IsThread, Holds, Thread, None
<1>3. WorkMoves
  BY <1>1, NoWorkMoves DEF diagnosticsVars
<1>4. ThreadsFollow' /\ SubmissionsFollow'
  <2>1. CASE submission' = None /\ thread' = [thread EXCEPT ![c] = Resting]
    <3>1. IsThread(c, Resting, submission') /\ StaysClosed(Resting, documents')
          /\ Resting.at # "submitting"
      BY ThreadForms, NothingFacts
    <3> QED
      BY <1>1, <1>2, <1>3, <2>1, <3>1, ThreadMoves
  <2>2. CASE /\ thread' = [thread EXCEPT ![c] =
                  [at |-> IF @.validates THEN "capturing" ELSE "next",
                   roots |-> Tail(@.roots), closing |-> @.closing]]
             /\ submission' = HeldAfter(c)
    <3> DEFINE t == [at |-> IF thread[c].validates THEN "capturing" ELSE "next",
                     roots |-> Tail(thread[c].roots), closing |-> thread[c].closing]
    <3>1. thread' = [thread EXCEPT ![c] = t]
      BY <2>2 DEF IInv, ThreadsFollow
    <3>2. /\ t.at = IF thread[c].validates THEN "capturing" ELSE "next"
          /\ t.closing = thread[c].closing
      OBVIOUS
    <3> HIDE DEF t
    <3>3. submission' = IF thread[c].validates THEN c ELSE None
      BY <2>2 DEF HeldAfter
    <3>4. IsThread(c, t, submission')
      BY <1>1, <1>2, <3>2, <3>3 DEF IsThread, Holds, States
    <3>5. IF c = "main" THEN StaysClosed(t, documents') ELSE UNCHANGED documents
      BY <1>1, <3>2 DEF IInv, ThreadsFollow, StaysClosed
    <3>6. t.at # "submitting" /\ (submission' = submission \/ submission \notin Thread \ {c})
      BY <1>2, <3>2
    <3> QED
      BY <1>3, <3>1, <3>4, <3>5, <3>6, ThreadMoves
  <2> QED
    BY <2>1, <2>2 DEF Submit, Abandons
<1>5. /\ queued' = Queued(root, work) \/ UNCHANGED queued
      /\ running' = Superseded(root) \/ UNCHANGED running
  BY DEF Submit, workVars, Runs
<1>6. /\ queued' = [r \in Root |-> queued'[r]]
      /\ \A e \in Document : \/ queued'[DocumentRoot(e)] = queued[DocumentRoot(e)]
                             \/ Subject(c) = e /\ queued'[DocumentRoot(e)] = work
  BY <1>5, OtherRoots, Roots DEF Queued, IInv, WorkFollows
<1>7. ASSUME NEW e \in Document
      PROVE  TrueWork(queued'[DocumentRoot(e)], documents[e], generations[e], texts)
  BY <1>1, <1>6 DEF IInv, WorkFollows, SubmissionsFollow
<1>8. ASSUME NEW e \in Document
      PROVE  TrueWork(running'[DocumentRoot(e)], documents[e], generations[e], texts)
  <2>1. TrueWork(running[DocumentRoot(e)], documents[e], generations[e], texts)
    BY DEF IInv, WorkFollows
  <2> QED
    BY <1>5, <2>1, SupersededStays
<1>9. running' = [r \in Root |-> running'[r]]
  BY <1>5, SupersededStays
<1>10. WorkFollows'
  BY <1>1, <1>6, <1>7, <1>8, <1>9 DEF diagnosticsVars, IInv, WorkFollows
<1> QED
  BY <1>1, <1>4, <1>10 DEF diagnosticsVars, pipelineVars, IInv, DocumentsAreTrue, RecordsFollow,
     PipelineFollows, ShownFollows

LEMMA FinishKeeps == ASSUME IInv, NEW c \in Thread, Finish(c) \/ Capture(c) PROVE IInv'
<1>1. UNCHANGED <<documents, texts, submission, diagnosticsVars, pipelineVars, workVars>>
  BY DEF Finish, Capture, clientVars
<1>2. WorkMoves
  BY <1>1, NoWorkMoves DEF diagnosticsVars
<1>3. IsThread(c, thread[c], submission)
  BY DEF IInv, ThreadsFollow
<1>4. ASSUME NEW t, thread' = [thread EXCEPT ![c] = t], IsThread(c, t, submission),
             t.at # "submitting", t = Resting \/ t.closing = thread[c].closing,
             thread[c].at \notin {"resting", "closing"}
      PROVE  IInv'
  <2>1. IF c = "main" THEN StaysClosed(t, documents') ELSE UNCHANGED documents
    BY <1>1, <1>4, NothingFacts DEF IInv, ThreadsFollow, StaysClosed
  <2>2. ThreadsFollow' /\ SubmissionsFollow'
    BY <1>1, <1>2, <1>4, <2>1, ThreadMoves
  <2> QED
    BY <1>1, <2>2, RestStays
<1>5. CASE Finish(c)
  <2>1. thread[c].at = "next"
    BY <1>5 DEF Finish
  <2>2. CASE thread[c].closing = NoClose
    <3>1. thread' = [thread EXCEPT ![c] = Resting]
      BY <1>5, <2>2 DEF Finish, IInv, ThreadsFollow
    <3>2. IsThread(c, Resting, submission) /\ Resting.at # "submitting"
      BY ThreadForms, NothingFacts
    <3> QED
      BY <1>4, <2>1, <3>1, <3>2
  <2>3. CASE thread[c].closing # NoClose
    <3> DEFINE t == [at |-> IF thread[c].closing.validates THEN "capturing" ELSE "clearing",
                     roots |-> <<>>, closing |-> thread[c].closing]
    <3>1. thread' = [thread EXCEPT ![c] = t]
      BY <1>5, <2>3 DEF Finish, IInv, ThreadsFollow
    <3>2. t.at \in {"capturing", "clearing"} /\ t.closing = thread[c].closing
      OBVIOUS
    <3> HIDE DEF t
    <3>3. IsThread(c, t, submission)
      BY <1>3, <2>1, <2>3, <3>2 DEF IsThread, Holds, States, Thread
    <3> QED
      BY <1>4, <2>1, <3>1, <3>2, <3>3
  <2> QED
    BY <2>2, <2>3
<1>6. CASE Capture(c)
  <2> DEFINE s == [d \in Staged |-> Snapshot(d)]
             t == [at |-> "registering", roots |-> thread[c].roots,
                   closing |-> thread[c].closing, snapshots |-> s]
  <2>1. thread[c].at = "capturing"
    BY <1>6 DEF Capture
  <2>2. thread' = [thread EXCEPT ![c] = t]
    BY <1>6 DEF Capture, IInv, ThreadsFollow
  <2>3. t.at = "registering" /\ t.closing = thread[c].closing
    OBVIOUS
  <2> HIDE DEF t
  <2>4. IsThread(c, t, submission)
    BY <1>3, <2>1, <2>3 DEF IsThread, Holds, States
  <2> QED
    BY <1>4, <2>1, <2>2, <2>3, <2>4
<1> QED
  BY <1>5, <1>6

LEMMA CaptureFailsKeeps == ASSUME IInv, NEW c \in Thread, CaptureFails(c) PROVE IInv'
<1>1. /\ UNCHANGED <<documents, texts, diagnosticsVars, pipelineVars, workVars>>
      /\ thread' = [thread EXCEPT ![c] = Resting]
      /\ submission' = IF submission = c THEN None ELSE submission
  BY DEF CaptureFails, Abandons, clientVars
<1>2. WorkMoves
  BY <1>1, NoWorkMoves DEF diagnosticsVars
<1>3. IsThread(c, Resting, submission') /\ StaysClosed(Resting, documents')
      /\ Resting.at # "submitting"
  BY ThreadForms, NothingFacts
<1>4. submission' = submission \/ submission \notin Thread \ {c}
  BY <1>1
<1>5. ThreadsFollow' /\ SubmissionsFollow'
  BY <1>1, <1>2, <1>3, <1>4, ThreadMoves
<1> QED
  BY <1>1, <1>5, RestStays

-----------------------------------------------------------------------------
(* The pipeline's validation is scheduled and its stages are submitted.    *)

LEMMA RegisterKeeps == ASSUME IInv, NEW c \in Thread, Register(c) PROVE IInv'
<1> DEFINE generation == pipelineGeneration + 1
           t == [at |-> "staging", roots |-> thread[c].roots, closing |-> thread[c].closing,
                 snapshots |-> thread[c].snapshots, generation |-> generation,
                 stages |-> SetToSeq(Staged)]
<1>1. /\ thread[c].at = "registering" /\ pipelineGeneration' = generation
      /\ thread' = [thread EXCEPT ![c] = t]
      /\ UNCHANGED <<documents, texts, submission, diagnosticsVars, pipelineDiagnostics, validated,
                     workVars>>
  BY DEF Register, clientVars, IInv, ThreadsFollow
<1>2. pending'.generation = generation
  BY DEF Register
<1>3. /\ t.at = "staging" /\ t.closing = thread[c].closing
      /\ t = [at |-> "staging", roots |-> t.roots, closing |-> t.closing,
              snapshots |-> t.snapshots, generation |-> t.generation, stages |-> t.stages]
  OBVIOUS
<1> HIDE DEF t
<1>4. IsThread(c, thread[c], submission)
  BY DEF IInv, ThreadsFollow
<1>5. IsThread(c, t, submission')
  BY <1>1, <1>3, <1>4 DEF IsThread, Holds, States
<1>6. IF c = "main" THEN StaysClosed(t, documents') ELSE UNCHANGED documents
  BY <1>1, <1>3 DEF IInv, ThreadsFollow, StaysClosed
<1>7. WorkMoves
  BY <1>1, NoWorkMoves DEF diagnosticsVars
<1>8. ThreadsFollow' /\ SubmissionsFollow'
  BY <1>1, <1>3, <1>5, <1>6, <1>7, ThreadMoves
<1>9. pipelineGeneration \in Nat /\ pipelineGeneration' = pipelineGeneration + 1
  BY <1>1 DEF IInv, PipelineFollows
<1>10. PipelineFollows'
  <2>1. \A v : IsValidation(v, pipelineGeneration) => IsValidation(v, pipelineGeneration')
    BY <1>9 DEF IsValidation
  <2> QED
    BY <1>1, <1>2, <1>9, <2>1 DEF IInv, PipelineFollows
<1>11. ShownFollows'
  BY <1>1, <1>9 DEF diagnosticsVars, IInv, ShownFollows
<1> QED
  BY <1>1, <1>8, <1>10, <1>11 DEF diagnosticsVars, workVars, IInv, DocumentsAreTrue, RecordsFollow,
     WorkFollows

\* A stage that completes may complete the validation.
LEMMA StageValidates ==
  ASSUME IInv, NEW d, NEW work, StageCompletes(d, work),
         UNCHANGED <<pipelineGeneration, pipelineDiagnostics>>
  PROVE  PipelineFollows'
<1>1. \/ UNCHANGED <<pending, validated>>
      \/ /\ pending' = NoValidation \/ pending' = [pending EXCEPT !.waits = pending.waits \ {d}]
         /\ UNCHANGED validated
      \/ /\ pending' = NoValidation
         /\ validated' = validated \cup {[generation |-> pending.generation,
                                          snapshots |-> pending.snapshots]}
  BY DEF StageCompletes
<1>2. pipelineGeneration \in Nat /\ pending.generation \in {0, pipelineGeneration}
  BY DEF IInv, PipelineFollows
<1>3. pending'.generation \in {0, pipelineGeneration}
  <2>1. [pending EXCEPT !.waits = pending.waits \ {d}].generation = pending.generation
    OBVIOUS
  <2> QED
    BY <1>1, <1>2, <2>1, NothingFacts
<1>4. IsValidation([generation |-> pending.generation, snapshots |-> pending.snapshots],
                   pipelineGeneration)
  <2> DEFINE v == [generation |-> pending.generation, snapshots |-> pending.snapshots]
  <2>1. DOMAIN v = {"generation", "snapshots"} /\ DOMAIN NoValidation = {"generation"}
    BY DEF NoValidation
  <2>2. v # NoValidation
    BY <2>1
  <2> QED
    BY <1>2, <2>2 DEF IsValidation
<1>5. \A v \in validated' : IsValidation(v, pipelineGeneration)
  BY <1>1, <1>4 DEF IInv, PipelineFollows
<1> QED
  BY <1>3, <1>5 DEF IInv, PipelineFollows

\* Analyses of stages are not those of documents.
LEMMA StageWork ==
  ASSUME IInv, NEW d, NEW work,
         queued' = Queued(StageRoot(d), work) \/ UNCHANGED queued,
         running' = Superseded(StageRoot(d)) \/ UNCHANGED running,
         UNCHANGED <<documents, texts, generations>>
  PROVE  WorkFollows'
<1>1. /\ queued' = [r \in Root |-> queued'[r]]
      /\ \A e \in Document : queued'[DocumentRoot(e)] = queued[DocumentRoot(e)]
  <2>1. queued = [r \in Root |-> queued[r]]
    BY DEF IInv, WorkFollows
  <2>2. queued' = queued \/ queued' = [queued EXCEPT ![StageRoot(d)] = work]
    BY DEF Queued
  <2>3. queued' = [r \in Root |-> queued'[r]]
    BY <2>1, <2>2
  <2>4. ASSUME NEW e \in Document
        PROVE  queued'[DocumentRoot(e)] = queued[DocumentRoot(e)]
    BY <2>1, <2>2, OtherRoots, Roots
  <2> QED
    BY <2>3, <2>4
<1>2. running' = [r \in Root |-> running'[r]]
  BY SupersededStays
<1>3. ASSUME NEW e \in Document
      PROVE  TrueWork(running'[DocumentRoot(e)], documents[e], generations[e], texts)
  <2>1. TrueWork(running[DocumentRoot(e)], documents[e], generations[e], texts)
    BY DEF IInv, WorkFollows
  <2> QED
    BY <2>1, SupersededStays
<1> QED
  BY <1>1, <1>2, <1>3 DEF IInv, WorkFollows

LEMMA StageKeeps == ASSUME IInv, NEW c \in Thread, SubmitStage(c) PROVE IInv'
<1> DEFINE d == Head(thread[c].stages)
           work == [version |-> thread[c].snapshots[d].version,
                    text |-> thread[c].snapshots[d].text,
                    generation |-> thread[c].generation, live |-> TRUE]
<1>1. /\ thread[c].at = "staging"
      /\ UNCHANGED <<documents, texts, diagnosticsVars, pipelineDiagnostics, pipelineGeneration>>
  BY DEF SubmitStage, clientVars
<1>2. \/ StageCompletes(d, work) /\ UNCHANGED workVars
      \/ /\ queued' = Queued(StageRoot(d), work)
         /\ running' = Runs(StageRoot(d), work)
         /\ UNCHANGED <<pending, validated>>
  BY DEF SubmitStage
<1> HIDE DEF d, work
<1>3. WorkFollows'
  <2>1. /\ queued' = Queued(StageRoot(d), work) \/ UNCHANGED queued
        /\ running' = Superseded(StageRoot(d)) \/ UNCHANGED running
    BY <1>2 DEF workVars, Runs
  <2>2. UNCHANGED <<documents, texts, generations>>
    BY <1>1 DEF diagnosticsVars
  <2> QED
    BY <2>1, <2>2, StageWork
<1>4. PipelineFollows'
  <2>1. CASE StageCompletes(d, work)
    BY <1>1, <2>1, StageValidates
  <2>2. CASE UNCHANGED <<pending, validated>>
    BY <1>1, <2>2 DEF IInv, PipelineFollows
  <2> QED
    BY <1>2, <2>1, <2>2
<1>5. IsThread(c, thread[c], submission) /\ None \notin Thread
  BY DEF IInv, ThreadsFollow, Thread, None
<1>6. thread[c] = [at |-> "staging", roots |-> thread[c].roots, closing |-> thread[c].closing,
                   snapshots |-> thread[c].snapshots, generation |-> thread[c].generation,
                   stages |-> thread[c].stages]
  BY <1>1, <1>5 DEF IsThread
<1>7. WorkMoves
  BY <1>1, NoWorkMoves DEF diagnosticsVars
<1>8. ThreadsFollow' /\ SubmissionsFollow'
  <2>1. CASE Len(thread[c].stages) > 1
    <3> DEFINE t == [at |-> "staging", roots |-> thread[c].roots, closing |-> thread[c].closing,
                     snapshots |-> thread[c].snapshots, generation |-> thread[c].generation,
                     stages |-> Tail(thread[c].stages)]
    <3>1. thread' = [thread EXCEPT ![c].stages = Tail(@)] /\ UNCHANGED submission
      BY <2>1 DEF SubmitStage
    <3>2. \A x : [thread[c] EXCEPT !.stages = x]
                 = [at |-> "staging", roots |-> thread[c].roots, closing |-> thread[c].closing,
                    snapshots |-> thread[c].snapshots, generation |-> thread[c].generation,
                    stages |-> x]
      <4>1. \A r, cl, sn, g, st, x :
              [[at |-> "staging", roots |-> r, closing |-> cl, snapshots |-> sn,
                generation |-> g, stages |-> st] EXCEPT !.stages = x]
              = [at |-> "staging", roots |-> r, closing |-> cl, snapshots |-> sn,
                 generation |-> g, stages |-> x]
        OBVIOUS
      <4> QED
        BY <1>6, <4>1
    <3>3. thread' = [thread EXCEPT ![c] = t]
      <4>1. thread' = [thread EXCEPT ![c] = [thread[c] EXCEPT !.stages = Tail(thread[c].stages)]]
        BY <3>1
      <4>2. [thread[c] EXCEPT !.stages = Tail(thread[c].stages)] = t
        BY <3>2
      <4> QED
        BY <4>1, <4>2
    <3>4. /\ t.at = "staging" /\ t.closing = thread[c].closing
          /\ t = [at |-> "staging", roots |-> t.roots, closing |-> t.closing,
                  snapshots |-> t.snapshots, generation |-> t.generation, stages |-> t.stages]
      OBVIOUS
    <3> HIDE DEF t
    <3>5. IsThread(c, t, submission')
      BY <1>1, <1>5, <3>1, <3>4 DEF IsThread, Holds, States
    <3>6. IF c = "main" THEN StaysClosed(t, documents') ELSE UNCHANGED documents
      BY <1>1, <3>4 DEF IInv, ThreadsFollow, StaysClosed
    <3> QED
      BY <1>7, <3>1, <3>3, <3>4, <3>5, <3>6, ThreadMoves
  <2>2. CASE ~(Len(thread[c].stages) > 1)
    <3> DEFINE t == [at |-> IF submission = c THEN "next" ELSE "clearing",
                     roots |-> thread[c].roots, closing |-> thread[c].closing]
    <3>1. /\ thread' = [thread EXCEPT ![c] = t]
          /\ submission' = IF submission = c THEN None ELSE submission
      BY <2>2 DEF SubmitStage, IInv, ThreadsFollow
    <3>2. /\ t.at = IF submission = c THEN "next" ELSE "clearing"
          /\ t.closing = thread[c].closing
      OBVIOUS
    <3> HIDE DEF t
    <3>3. submission # c => thread[c].closing # NoClose /\ c = "main"
      BY <1>1, <1>5 DEF IsThread, Holds
    <3>4. IsThread(c, t, submission')
      BY <1>1, <1>5, <3>1, <3>2, <3>3 DEF IsThread, Holds, States
    <3>5. IF c = "main" THEN StaysClosed(t, documents') ELSE UNCHANGED documents
      BY <1>1, <3>2 DEF IInv, ThreadsFollow, StaysClosed
    <3>6. t.at # "submitting" /\ (submission' = submission \/ submission \notin Thread \ {c})
      BY <1>5, <3>1, <3>2
    <3> QED
      BY <1>7, <3>1, <3>4, <3>5, <3>6, ThreadMoves
  <2> QED
    BY <2>1, <2>2
<1> QED
  BY <1>1, <1>3, <1>4, <1>8 DEF diagnosticsVars, IInv, DocumentsAreTrue, RecordsFollow, ShownFollows

-----------------------------------------------------------------------------
(* The analyses of the manager begin and end.                              *)

\* Whatever becomes of the analyses, each is one there was, or none.
LEMMA AnalysesStay ==
  ASSUME IInv,
         queued' = [r \in Root |-> queued'[r]],
         running' = [r \in Root |-> running'[r]],
         \A d \in Document :
           /\ queued'[DocumentRoot(d)] \in {NoWork, queued[DocumentRoot(d)]}
           /\ \/ running'[DocumentRoot(d)] = NoWork
              \/ running'[DocumentRoot(d)] = running[DocumentRoot(d)]
              \/ running'[DocumentRoot(d)] = queued[DocumentRoot(d)],
         UNCHANGED <<documents, texts, generations>>
  PROVE  WorkFollows'
<1>1. \A d \in Document : TrueWork(NoWork, documents[d], generations[d], texts)
  BY DEF TrueWork
<1>2. ASSUME NEW d \in Document
      PROVE  /\ TrueWork(queued'[DocumentRoot(d)], documents[d], generations[d], texts)
             /\ TrueWork(running'[DocumentRoot(d)], documents[d], generations[d], texts)
  BY <1>1 DEF IInv, WorkFollows
<1> QED
  BY <1>2 DEF IInv, WorkFollows

LEMMA WorkKeeps ==
  ASSUME IInv, NEW root \in Root,
         Begin(root) \/ Drop(root) \/ Forget(root) \/ Throw(root)
  PROVE  IInv'
<1>1. UNCHANGED <<documents, texts, submission, thread, diagnosticsVars, pipelineVars>>
  BY DEF Begin, Drop, Forget, Throw, clientVars
<1>2. /\ queued = [r \in Root |-> queued[r]]
      /\ running = [r \in Root |-> running[r]]
  BY DEF IInv, WorkFollows
<1>3. /\ queued' = [queued EXCEPT ![root] = NoWork] \/ queued' = queued
      /\ \/ running' = running
         \/ running' = [running EXCEPT ![root] = NoWork]
         \/ running' = [running EXCEPT ![root] = queued[root]]
  BY DEF Begin, Drop, Forget, Throw
<1>4. /\ queued' = [r \in Root |-> queued'[r]]
      /\ running' = [r \in Root |-> running'[r]]
  BY <1>2, <1>3
<1>5. ASSUME NEW d \in Document
      PROVE  /\ queued'[DocumentRoot(d)] \in {NoWork, queued[DocumentRoot(d)]}
             /\ \/ running'[DocumentRoot(d)] = NoWork
                \/ running'[DocumentRoot(d)] = running[DocumentRoot(d)]
                \/ running'[DocumentRoot(d)] = queued[DocumentRoot(d)]
  <2>1. DocumentRoot(d) \in Root
    BY Roots
  <2>2. queued'[DocumentRoot(d)] \in {NoWork, queued[DocumentRoot(d)]}
    BY <1>2, <1>3, <2>1
  <2>3. \/ running'[DocumentRoot(d)] = NoWork
        \/ running'[DocumentRoot(d)] = running[DocumentRoot(d)]
        \/ running'[DocumentRoot(d)] = queued[DocumentRoot(d)]
    BY <1>2, <1>3, <2>1
  <2> QED
    BY <2>2, <2>3
<1>6. UNCHANGED <<documents, texts, generations>>
  BY <1>1 DEF diagnosticsVars
<1>7. WorkFollows'
  BY <1>4, <1>5, <1>6, AnalysesStay
<1>8. ThreadsFollow' /\ SubmissionsFollow'
  BY <1>1, <1>6, NoWorkMoves, ThreadsStay
<1> QED
  BY <1>1, <1>7, <1>8 DEF diagnosticsVars, pipelineVars, IInv, DocumentsAreTrue, RecordsFollow,
     PipelineFollows, ShownFollows

\* What ends is forgotten.
LEMMA EndStays ==
  ASSUME IInv, NEW root \in Root, running' = [running EXCEPT ![root] = NoWork],
         UNCHANGED <<documents, texts, generations, queued>>
  PROVE  WorkFollows'
<1>1. queued = [r \in Root |-> queued[r]] /\ running = [r \in Root |-> running[r]]
  BY DEF IInv, WorkFollows
<1>2. running' = [r \in Root |-> running'[r]]
  BY <1>1
<1>3. ASSUME NEW d \in Document
      PROVE  running'[DocumentRoot(d)] \in {NoWork, running[DocumentRoot(d)]}
  BY <1>1, Roots
<1> QED
  BY <1>1, <1>2, <1>3, AnalysesStay

LEMMA StageCompletedKeeps ==
  ASSUME IInv, NEW d \in Document, StageCompleted(d)
  PROVE  IInv'
<1> DEFINE work == running[StageRoot(d)]
<1>1. /\ running' = [running EXCEPT ![StageRoot(d)] = NoWork]
      /\ StageCompletes(d, work)
      /\ UNCHANGED <<documents, texts, diagnosticsVars, pipelineDiagnostics, pipelineGeneration,
                     queued, submission, thread>>
  BY DEF StageCompleted, clientVars
<1> HIDE DEF work
<1>2. PipelineFollows'
  BY <1>1, StageValidates
<1>3. WorkFollows'
  BY <1>1, Roots, EndStays DEF diagnosticsVars
<1>4. ThreadsFollow' /\ SubmissionsFollow'
  BY <1>1, NoWorkMoves, ThreadsStay DEF diagnosticsVars
<1> QED
  BY <1>1, <1>2, <1>3, <1>4 DEF diagnosticsVars, IInv, DocumentsAreTrue, RecordsFollow, ShownFollows

-----------------------------------------------------------------------------
(* What is reported of a document is recorded and published.               *)

\* An analysis that is accepted is of the version and the text there is.
LEMMA AcceptedIsTrue ==
  ASSUME IInv, NEW d \in Document, NEW work, work = running[DocumentRoot(d)], work # NoWork,
         Accepts(d, work)
  PROVE  /\ work.version = documents[d].version /\ work.text = documents[d].text
         /\ documents[d].open /\ work.generation = generations[d]
         /\ work.version # 0 /\ work.version \in Nat /\ work.text \in 0 .. texts
<1>1. documents[d].open /\ documents[d].version = work.version /\ generations[d] = work.generation
  BY DEF Accepts
<1>2. TrueWork(work, documents[d], generations[d], texts)
  BY DEF IInv, WorkFollows
<1>3. work.version \in 1 .. documents[d].version /\ work.text \in 0 .. texts
      /\ (work.version = documents[d].version => work.text = documents[d].text)
  BY <1>1, <1>2 DEF TrueWork
<1>4. documents[d].version \in Nat
  BY DEF IInv, DocumentsAreTrue, IsDocument
<1> QED
  BY <1>1, <1>3, <1>4

\* A document's own record, and what is shown of it, change together.
LEMMA ReportKeeps ==
  ASSUME IInv, NEW d \in Document, NEW u, NEW r, NEW s,
         unavailable' = [unavailable EXCEPT ![d] = u],
         records' = [records EXCEPT ![d] = r],
         shown' = [shown EXCEPT ![d] = s],
         running' = [running EXCEPT ![DocumentRoot(d)] = NoWork],
         UNCHANGED <<documents, texts, generations, pipelineVars, queued, submission, thread>>,
         u \in 0 .. generations[d],
         TrueRecord(r, documents[d], texts),
         OnDisplay(s, r, documents[d], pipelineDiagnostics[d]),
         s.compiler \in -1 .. texts,
         s.pipeline \in 0 .. pipelineGeneration
  PROVE  IInv'
<1>1. WorkFollows'
  BY Roots, EndStays
<1>2. ThreadsFollow' /\ SubmissionsFollow'
  BY NoWorkMoves, ThreadsStay
<1>3. RecordsFollow'
  <2>1. /\ records' = [e \in Document |-> records'[e]]
        /\ unavailable' = [e \in Document |-> unavailable'[e]]
    BY DEF IInv, RecordsFollow
  <2>2. ASSUME NEW e \in Document
        PROVE  TrueRecord(records'[e], documents[e], texts) /\ unavailable'[e] \in 0 .. generations[e]
    BY DEF IInv, RecordsFollow
  <2> QED
    BY <2>1, <2>2 DEF RecordsFollow
<1>4. ShownFollows'
  <2>1. shown' = [e \in Document |-> shown'[e]]
    BY DEF IInv, ShownFollows
  <2>2. ASSUME NEW e \in Document
        PROVE  /\ OnDisplay(shown'[e], records'[e], documents[e], pipelineDiagnostics[e])
               /\ shown'[e].compiler \in -1 .. texts
               /\ shown'[e].pipeline \in 0 .. pipelineGeneration
    BY DEF IInv, RecordsFollow, ShownFollows
  <2> QED
    BY <2>1, <2>2 DEF ShownFollows, pipelineVars
<1> QED
  BY <1>1, <1>2, <1>3, <1>4 DEF pipelineVars, IInv, DocumentsAreTrue, PipelineFollows

\* A report that is not accepted changes nothing but the running analysis.
LEMMA RefusedKeeps ==
  ASSUME IInv, NEW d \in Document, running' = [running EXCEPT ![DocumentRoot(d)] = NoWork],
         UNCHANGED <<documents, texts, diagnosticsVars, pipelineVars, queued, submission, thread>>
  PROVE  IInv'
<1>1. WorkFollows'
  BY Roots, EndStays DEF diagnosticsVars
<1>2. ThreadsFollow' /\ SubmissionsFollow'
  BY NoWorkMoves, ThreadsStay DEF diagnosticsVars
<1> QED
  BY <1>1, <1>2 DEF diagnosticsVars, pipelineVars, IInv, DocumentsAreTrue, RecordsFollow,
     PipelineFollows, ShownFollows

LEMMA PipelineShown ==
  IInv => \A d \in Document : pipelineDiagnostics[d].generation \in 0 .. pipelineGeneration
BY NothingFacts DEF IInv, PipelineFollows, IsValidation

LEMMA CompletedKeeps ==
  ASSUME IInv, NEW d \in Document, AnalysisCompleted(d)
  PROVE  IInv'
<1> DEFINE work == running[DocumentRoot(d)]
           r == [version |-> work.version, text |-> work.text, generation |-> work.generation]
           s == Shows(d, work.text, pipelineDiagnostics)
<1>1. /\ work # NoWork
      /\ running' = [running EXCEPT ![DocumentRoot(d)] = NoWork]
      /\ UNCHANGED <<documents, texts, generations, pipelineVars, queued, submission, thread>>
  BY DEF AnalysisCompleted, clientVars
<1>2. CASE Accepts(d, work)
  <2>1. /\ unavailable' = [unavailable EXCEPT ![d] = 0]
        /\ records' = [records EXCEPT ![d] = r]
        /\ shown' = IF Unchanged(d, work) THEN shown ELSE [shown EXCEPT ![d] = s]
    BY <1>2 DEF AnalysisCompleted
  <2>2. r.version = work.version /\ r.text = work.text
    OBVIOUS
  <2>3. /\ s.version = documents[d].version /\ s.compiler = work.text
        /\ s.pipeline = pipelineDiagnostics[d].generation
    BY DEF Shows
  <2> HIDE DEF r, s, work
  <2>4. /\ work.version = documents[d].version /\ work.text = documents[d].text
        /\ documents[d].open
        /\ work.version # 0 /\ work.version \in Nat /\ work.text \in 0 .. texts
    BY <1>1, <1>2, AcceptedIsTrue DEF work
  <2>5. texts \in Nat /\ generations[d] \in Nat
    BY DEF IInv, DocumentsAreTrue, WorkFollows
  <2>6. TrueRecord(r, documents[d], texts)
    BY <2>2, <2>4 DEF TrueRecord
  <2>7. CASE Unchanged(d, work)
    <3>1. shown = [shown EXCEPT ![d] = shown[d]]
      BY DEF IInv, ShownFollows
    <3>2. shown' = [shown EXCEPT ![d] = shown[d]]
      BY <2>1, <2>7, <3>1
    <3>3. OnDisplay(shown[d], records[d], documents[d], pipelineDiagnostics[d])
          /\ shown[d].compiler \in -1 .. texts /\ shown[d].pipeline \in 0 .. pipelineGeneration
      BY DEF IInv, ShownFollows
    <3>4. records[d].version = documents[d].version /\ records[d].text = work.text
          /\ records[d] # NoRecord
      BY <2>4, <2>7, NothingFacts DEF Unchanged
    <3>5. OnDisplay(shown[d], r, documents[d], pipelineDiagnostics[d])
      BY <2>2, <2>4, <3>3, <3>4 DEF OnDisplay
    <3>6. 0 \in 0 .. generations[d]
      BY <2>5
    <3> QED
      BY <1>1, <2>1, <2>6, <3>2, <3>3, <3>5, <3>6, ReportKeeps
  <2>8. CASE ~Unchanged(d, work)
    <3>1. shown' = [shown EXCEPT ![d] = s]
      BY <2>1, <2>8
    <3>2. s.pipeline \in 0 .. pipelineGeneration
      BY <2>3, PipelineShown
    <3>3. s.compiler \in -1 .. texts
      BY <2>3, <2>4, <2>5
    <3>4. OnDisplay(s, r, documents[d], pipelineDiagnostics[d])
      BY <2>2, <2>3, <2>4, NothingFacts DEF OnDisplay
    <3>5. 0 \in 0 .. generations[d]
      BY <2>5
    <3> QED
      BY <1>1, <2>1, <2>6, <3>1, <3>2, <3>3, <3>4, <3>5, ReportKeeps
  <2> QED
    BY <2>7, <2>8
<1>3. CASE ~Accepts(d, work)
  <2>1. UNCHANGED <<unavailable, records, shown>>
    BY <1>3 DEF AnalysisCompleted
  <2> QED
    BY <1>1, <2>1, RefusedKeeps DEF diagnosticsVars
<1> QED
  BY <1>2, <1>3

LEMMA UnavailableKeeps ==
  ASSUME IInv, NEW d \in Document, AnalysisUnavailable(d)
  PROVE  IInv'
<1> DEFINE work == running[DocumentRoot(d)]
           s == [version |-> work.version, compiler |-> Unavailable, pipeline |-> 0]
           taken == Accepts(d, work) /\ unavailable[d] # work.generation
<1>1. /\ work # NoWork
      /\ running' = [running EXCEPT ![DocumentRoot(d)] = NoWork]
      /\ UNCHANGED <<documents, texts, generations, pipelineVars, queued, submission, thread>>
  BY DEF AnalysisUnavailable, clientVars
<1>2. CASE taken
  <2>1. /\ unavailable' = [unavailable EXCEPT ![d] = work.generation]
        /\ records' = [records EXCEPT ![d] = NoRecord]
        /\ shown' = [shown EXCEPT ![d] = s]
    BY <1>2 DEF AnalysisUnavailable
  <2>2. s.compiler = -1 /\ s.pipeline = 0
    BY DEF Unavailable
  <2> HIDE DEF s
  <2>3. texts \in Nat /\ generations[d] \in Nat /\ pipelineGeneration \in Nat
    BY DEF IInv, DocumentsAreTrue, WorkFollows, PipelineFollows
  <2>4. work.generation \in 0 .. generations[d]
    BY <1>2, <2>3 DEF Accepts
  <2>5. TrueRecord(NoRecord, documents[d], texts)
        /\ OnDisplay(s, NoRecord, documents[d], pipelineDiagnostics[d])
    BY DEF TrueRecord, OnDisplay
  <2>6. s.compiler \in -1 .. texts /\ s.pipeline \in 0 .. pipelineGeneration
    BY <2>2, <2>3
  <2> HIDE DEF work
  <2> QED
    BY <1>1, <2>1, <2>4, <2>5, <2>6, ReportKeeps DEF work
<1>3. CASE ~taken
  <2>1. UNCHANGED <<unavailable, records, shown>>
    BY <1>3 DEF AnalysisUnavailable
  <2> QED
    BY <1>1, <2>1, RefusedKeeps DEF diagnosticsVars
<1> QED
  BY <1>2, <1>3

-----------------------------------------------------------------------------
(* The validation of the pipeline is published.                            *)

LEMMA PublishKeeps == ASSUME IInv, PublishValidation PROVE IInv'
<1>1. PICK v \in validated :
        /\ validated' = validated \ {v}
        /\ IF Newest(v)
           THEN /\ pipelineDiagnostics' =
                     [d \in Document |-> IF d \in Staged THEN v ELSE NoValidation]
                /\ shown' = [d \in Document |->
                               IF Displays(d, v) THEN Shows(d, Repeated(d), pipelineDiagnostics')
                               ELSE shown[d]]
           ELSE UNCHANGED <<pipelineDiagnostics, shown>>
  BY DEF PublishValidation
<1>2. UNCHANGED <<documents, texts, generations, records, unavailable, pipelineGeneration, pending,
                  workVars, submission, thread>>
  BY DEF PublishValidation, clientVars
<1>3. pipelineGeneration \in Nat /\ IsValidation(v, pipelineGeneration) /\ texts \in Nat
  BY DEF IInv, PipelineFollows, DocumentsAreTrue
<1>4. /\ pipelineDiagnostics' = [d \in Document |-> pipelineDiagnostics'[d]]
      /\ shown' = [d \in Document |-> shown'[d]]
  BY <1>1 DEF IInv, PipelineFollows, ShownFollows
<1>5. ASSUME NEW d \in Document
      PROVE  /\ \/ pipelineDiagnostics'[d] = NoValidation
                \/ d \in Staged /\ IsValidation(pipelineDiagnostics'[d], pipelineGeneration)
             /\ pipelineDiagnostics'[d].generation \in 0 .. pipelineGeneration
  <2>1. \/ pipelineDiagnostics'[d] = NoValidation
        \/ pipelineDiagnostics'[d] = pipelineDiagnostics[d]
        \/ d \in Staged /\ pipelineDiagnostics'[d] = v
    BY <1>1
  <2>2. \/ pipelineDiagnostics'[d] = NoValidation
        \/ d \in Staged /\ IsValidation(pipelineDiagnostics'[d], pipelineGeneration)
    BY <1>3, <2>1 DEF IInv, PipelineFollows
  <2>3. NoValidation.generation \in 0 .. pipelineGeneration
    BY <1>3, NothingFacts
  <2> QED
    BY <2>2, <2>3 DEF IsValidation
<1>6. PipelineFollows'
  BY <1>1, <1>2, <1>3, <1>4, <1>5 DEF IInv, PipelineFollows
<1>7. ASSUME NEW d \in Document
      PROVE  /\ OnDisplay(shown'[d], records[d], documents[d], pipelineDiagnostics'[d])
             /\ shown'[d].compiler \in -1 .. texts
             /\ shown'[d].pipeline \in 0 .. pipelineGeneration
  <2>1. /\ OnDisplay(shown[d], records[d], documents[d], pipelineDiagnostics[d])
        /\ shown[d].compiler \in -1 .. texts
        /\ shown[d].pipeline \in 0 .. pipelineGeneration
    BY DEF IInv, ShownFollows
  <2>2. CASE ~Newest(v)
    BY <1>1, <2>1, <2>2
  <2>3. CASE Newest(v) /\ Displays(d, v)
    <3> DEFINE s == Shows(d, Repeated(d), pipelineDiagnostics')
    <3>1. shown'[d] = s
      BY <1>1, <2>3
    <3>2. /\ s.version = documents[d].version /\ s.compiler = Repeated(d)
          /\ s.pipeline = pipelineDiagnostics'[d].generation
      BY DEF Shows
    <3>3. s.pipeline \in 0 .. pipelineGeneration
      BY <1>5, <3>2
    <3> HIDE DEF s
    <3>4. TrueRecord(records[d], documents[d], texts)
      BY DEF IInv, RecordsFollow
    <3>5. OnDisplay(s, records[d], documents[d], pipelineDiagnostics'[d])
      BY <3>2, NothingFacts DEF OnDisplay, Repeated
    <3>6. Repeated(d) \in 0 .. texts
      <4>1. CASE records[d] = NoRecord
        <5>1. NoRecord.version # documents[d].version
          <6>1. documents[d].open /\ IsDocument(documents[d], texts)
            BY <2>3 DEF Displays, IInv, DocumentsAreTrue
          <6> QED
            BY <6>1, NothingFacts DEF IsDocument
        <5> QED
          BY <1>3, <4>1, <5>1 DEF Repeated
      <4>2. CASE records[d] # NoRecord
        BY <1>3, <3>4, <4>2 DEF Repeated, TrueRecord
      <4> QED
        BY <4>1, <4>2
    <3>7. s.compiler \in -1 .. texts
      BY <1>3, <3>2, <3>6
    <3> QED
      BY <3>1, <3>3, <3>5, <3>7
  <2>4. CASE Newest(v) /\ ~Displays(d, v)
    <3>1. shown'[d] = shown[d]
      BY <1>1, <2>4
    <3>2. CASE d \in Staged
      <4>1. pipelineDiagnostics'[d] = v /\ v # NoValidation
        BY <1>1, <1>3, <2>4, <3>2 DEF IsValidation
      <4> QED
        BY <2>1, <3>1, <4>1 DEF OnDisplay
    <3>3. CASE d \notin Staged
      <4>1. pipelineDiagnostics'[d] = pipelineDiagnostics[d]
        BY <1>1, <2>4, <3>3 DEF IInv, PipelineFollows
      <4> QED
        BY <2>1, <3>1, <4>1
    <3> QED
      BY <3>2, <3>3
  <2> QED
    BY <2>2, <2>3, <2>4
<1>8. ShownFollows'
  BY <1>2, <1>4, <1>7 DEF ShownFollows
<1>9. ThreadsFollow' /\ SubmissionsFollow'
  BY <1>2, NoWorkMoves, ThreadsStay
<1> QED
  BY <1>2, <1>6, <1>8, <1>9 DEF workVars, IInv, DocumentsAreTrue, RecordsFollow, WorkFollows

-----------------------------------------------------------------------------
LEMMA StutterKeeps == ASSUME IInv, UNCHANGED vars PROVE IInv'
<1>1. UNCHANGED <<documents, texts, submission, thread, diagnosticsVars, pipelineVars, workVars>>
  BY DEF vars, diagnosticsVars, pipelineVars, workVars
<1>2. ThreadsFollow' /\ SubmissionsFollow'
  BY <1>1, NoWorkMoves, ThreadsStay DEF diagnosticsVars
<1> QED
  BY <1>1, <1>2, RestStays

LEMMA StepDocuments == IInv /\ [Next]_vars => IInv'
<1> SUFFICES ASSUME IInv, [Next]_vars PROVE IInv'
  OBVIOUS
<1>1. CASE ClientStep
  <2>1. ASSUME NEW d \in Editable, DidOpen(d) \/ DidChange(d) \/ DidClose(d) \/ Request(d)
        PROVE  IInv'
    BY <2>1, TextKeeps, CloseBegins, BeginKeeps
  <2>2. CASE ChangeFile
    BY <2>2, FileKeeps
  <2>3. CASE DidChangeWatchedFiles
    BY <2>3, BeginKeeps
  <2>4. ASSUME NEW c \in Thread, DidChangeActiveVariant(c) PROVE IInv'
    BY <2>4, BeginKeeps
  <2> QED
    BY <1>1, <2>1, <2>2, <2>3, <2>4 DEF ClientStep
<1>2. CASE ThreadStep
  <2>1. CASE CloseDocument
    BY <2>1, CloseKeeps
  <2>2. CASE ClearDiagnostics
    BY <2>2, ClearKeeps
  <2>3. ASSUME NEW c \in Thread,
               \/ RefuseClosed(c) \/ Describe(c) \/ DescribeFails(c) \/ Submit(c)
               \/ Finish(c) \/ Capture(c) \/ CaptureFails(c) \/ Register(c)
               \/ SubmitStage(c)
        PROVE  IInv'
    BY <2>3, BeginKeeps, DescribeKeeps, DescribeFailsKeeps, SubmitKeeps, FinishKeeps,
       CaptureFailsKeeps, RegisterKeeps, StageKeeps
  <2> QED
    BY <1>2, <2>1, <2>2, <2>3 DEF ThreadStep
<1>3. CASE WorkStep
  <2>1. ASSUME NEW root \in Root, Begin(root) \/ Drop(root) \/ Forget(root) \/ Throw(root)
        PROVE  IInv'
    BY <2>1, WorkKeeps
  <2>2. ASSUME NEW d \in Document,
               AnalysisCompleted(d) \/ AnalysisUnavailable(d) \/ StageCompleted(d)
        PROVE  IInv'
    BY <2>2, CompletedKeeps, UnavailableKeeps, StageCompletedKeeps
  <2>3. CASE PublishValidation
    BY <2>3, PublishKeeps
  <2> QED
    BY <1>3, <2>1, <2>2, <2>3 DEF WorkStep
<1> QED
  BY <1>1, <1>2, <1>3, StutterKeeps DEF Next

LEMMA RecordsAreRight == IInv => RecordsAreTrue
<1> SUFFICES ASSUME IInv PROVE RecordsAreTrue
  OBVIOUS
<1>1. TypeOK
  <2>1. ASSUME NEW d \in Document
        PROVE  /\ documents[d].open \in BOOLEAN
               /\ documents[d].version \in 0 .. MaxVersion
               /\ documents[d].text \in 0 .. texts
               /\ records[d].version <= documents[d].version \/ ~documents[d].open
    <3>1. IsDocument(documents[d], texts) /\ TrueRecord(records[d], documents[d], texts)
      BY DEF IInv, DocumentsAreTrue, RecordsFollow
    <3>2. documents[d].open \in BOOLEAN /\ documents[d].version \in 0 .. MaxVersion
          /\ documents[d].text \in 0 .. texts
      BY <3>1 DEF IsDocument
    <3>3. records[d].version <= documents[d].version
      BY <3>1, <3>2, NothingFacts DEF TrueRecord
    <3> QED
      BY <3>2, <3>3
  <2>2. \A d \in Document : /\ shown[d].compiler \in -1 .. texts
                            /\ shown[d].pipeline \in 0 .. pipelineGeneration
                            /\ unavailable[d] \in 0 .. generations[d]
    BY DEF IInv, ShownFollows, RecordsFollow
  <2>3. pending.generation \in {0, pipelineGeneration}
    BY DEF IInv, PipelineFollows
  <2>4. ASSUME NEW c \in Thread
        PROVE  /\ thread[c].at \in States
               /\ Holds(thread[c]) => submission = c
    BY DEF IInv, ThreadsFollow, IsThread
  <2>5. thread["executor"].at \notin {"closing", "clearing"}
    BY DEF IInv, ThreadsFollow, IsThread, Thread
  <2> QED
    BY <2>1, <2>2, <2>3, <2>4, <2>5 DEF TypeOK, Holds
<1>2. ASSUME NEW d \in Document, documents[d].open, records[d].version = documents[d].version
      PROVE  records[d].text = documents[d].text
  <2>1. IsDocument(documents[d], texts) /\ TrueRecord(records[d], documents[d], texts)
    BY DEF IInv, DocumentsAreTrue, RecordsFollow
  <2>2. records[d] # NoRecord
    BY <1>2, <2>1, NothingFacts DEF IsDocument
  <2> QED
    BY <1>2, <2>1, <2>2 DEF TrueRecord
<1>3. RecordIsShown
  BY DEF RecordIsShown, IInv, ShownFollows, OnDisplay
<1> QED
  BY <1>1, <1>2, <1>3 DEF RecordsAreTrue, RecordIsOfThisText

\* However documents are opened, edited, closed and opened again, and whichever
\* analyses are superseded, fail, are refused or come late: what
\* diagnostics_by_identity_ has of the version of an open document is of its text,
\* and it is what the client shows, so that the results analysis_completed does
\* not send again are on display.
THEOREM RecordsCorrect == Spec => []RecordsAreTrue
<1>1. Init => IInv
  BY InitDocuments
<1>2. IInv /\ [Next]_vars => IInv'
  BY StepDocuments
<1>3. IInv => RecordsAreTrue
  BY RecordsAreRight
<1> QED
  BY <1>1, <1>2, <1>3, PTL DEF Spec

\* Of two validations of a pipeline that complete in any order, and of those whose
\* issues are computed while a newer one is scheduled, the older is never published
\* over the newer: pipeline_diagnostics_by_identity_ only moves forward.
THEOREM NewestStays == Spec => NewestValidationStays
<1> DEFINE Forward == \A d \in Document :
              \/ pipelineDiagnostics'[d] = NoValidation
              \/ pipelineDiagnostics'[d].generation >= pipelineDiagnostics[d].generation
<1>1. Init => IInv
  BY InitDocuments
<1>2. IInv /\ [Next]_vars => IInv'
  BY StepDocuments
<1>3. IInv /\ [Next]_vars => [Forward]_vars
  <2> SUFFICES ASSUME IInv, [Next]_vars PROVE Forward
    OBVIOUS
  <2> SUFFICES ASSUME NEW d \in Document
               PROVE  \/ pipelineDiagnostics'[d] = NoValidation
                      \/ pipelineDiagnostics'[d].generation >= pipelineDiagnostics[d].generation
    OBVIOUS
  <2>1. pipelineGeneration \in Nat /\ pipelineDiagnostics[d].generation \in 0 .. pipelineGeneration
    BY PipelineShown DEF IInv, PipelineFollows
  <2>2. CASE pipelineDiagnostics' = pipelineDiagnostics
    BY <2>1, <2>2
  <2>3. CASE \E c \in Thread : Describe(c) \/ DescribeFails(c)
    <3>1. PICK c \in Thread : \/ pipelineDiagnostics' = pipelineDiagnostics
                              \/ pipelineDiagnostics' = RemainingDiagnostics(Subject(c))
      BY <2>3 DEF Describe, DescribeFails
    <3>2. pipelineDiagnostics'[d] \in {NoValidation, pipelineDiagnostics[d]}
      BY <3>1 DEF RemainingDiagnostics, IInv, PipelineFollows
    <3> QED
      BY <2>1, <3>2
  <2>4. CASE PublishValidation
    <3>1. PICK v \in validated :
            IF Newest(v)
            THEN pipelineDiagnostics' =
                   [e \in Document |-> IF e \in Staged THEN v ELSE NoValidation]
            ELSE UNCHANGED pipelineDiagnostics
      BY <2>4 DEF PublishValidation
    <3>2. CASE Newest(v)
      <4>1. pipelineDiagnostics'[d] \in {v, NoValidation}
        BY <3>1, <3>2
      <4>2. v.generation = pipelineGeneration
        BY <3>2 DEF Newest
      <4> QED
        BY <2>1, <4>1, <4>2
    <3>3. CASE ~Newest(v)
      BY <2>1, <3>1, <3>3
    <3> QED
      BY <3>2, <3>3
  <2>5. ASSUME ClientStep
        PROVE  pipelineDiagnostics' = pipelineDiagnostics
    BY <2>5 DEF ClientStep, DidOpen, DidChange, DidClose, Request, ChangeFile, DidChangeWatchedFiles,
       DidChangeActiveVariant, pipelineVars
  <2>6. ASSUME ThreadStep
        PROVE  \/ \E c \in Thread : Describe(c) \/ DescribeFails(c)
               \/ pipelineDiagnostics' = pipelineDiagnostics
    BY <2>6 DEF ThreadStep, CloseDocument, ClearDiagnostics, RefuseClosed, Submit, Finish, Capture,
       CaptureFails, Register, SubmitStage, pipelineVars
  <2>7. ASSUME WorkStep
        PROVE  PublishValidation \/ pipelineDiagnostics' = pipelineDiagnostics
    BY <2>7 DEF WorkStep, Begin, Drop, Forget, Throw, AnalysisCompleted, AnalysisUnavailable,
       StageCompleted, pipelineVars
  <2>8. CASE UNCHANGED vars
    BY <2>2, <2>8 DEF vars
  <2> QED
    BY <2>2, <2>3, <2>4, <2>5, <2>6, <2>7, <2>8 DEF Next
<1>4. NewestValidationStays <=> [][Forward]_vars
  BY DEF NewestValidationStays
<1> HIDE DEF Forward
<1> QED
  BY <1>1, <1>2, <1>3, <1>4, PTL DEF Spec

-----------------------------------------------------------------------------
(* What is owed to the client.                                              *)

\* The analysis a document is owed: the newest of the version it has.
Current(w, d) ==
  /\ w # NoWork
  /\ w.generation = generations[d]
  /\ w.version = documents[d].version
  /\ w.live

\* Reported, on its way, or next on the main thread, which has changed the text.
Reported(d) ==
  \/ records[d].version # 0 /\ records[d].generation = generations[d]
  \/ unavailable[d] = generations[d]
SubmittedBy(c, d) ==
  thread[c].at = "submitting" /\ Subject(c) = d /\ Current(thread[c].work, d)
Comes(d) ==
  /\ thread["main"].at = "next"
  /\ thread["main"].roots # <<>>
  /\ Subject("main") = d
Promised(d) ==
  \/ Reported(d)
  \/ Current(queued[DocumentRoot(d)], d)
  \/ Current(running[DocumentRoot(d)], d)
  \/ \E c \in Thread : SubmittedBy(c, d)
  \/ Comes(d)

\* What is still to be cleared.
Clears(d) ==
  /\ thread["main"].at \notin {"resting", "closing"}
  /\ thread["main"].closing # NoClose
  /\ thread["main"].closing.document = d

\* A queued analysis is of a version the document has had since it was opened, so
\* that it is not mistaken for a newer one.
QueuedIsOfThis ==
  \A d \in Document :
    LET w == queued[DocumentRoot(d)] IN
    w # NoWork => documents[d].open /\ w.version \in 1 .. documents[d].version

\* What is about to be submitted is the newest, and nothing else is.
SubmittedIsNewest ==
  \A c \in Thread, d \in Document :
    thread[c].at = "submitting" /\ Subject(c) = d =>
      /\ thread[c].work.generation = generations[d]
      /\ thread[c].work.live
      /\ \A w \in {queued[DocumentRoot(d)], running[DocumentRoot(d)]} :
           w # NoWork => w.generation # generations[d]

\* Only the main thread closes documents, and not those it has left to analyse: it
\* is never stopped by one that is closed.
RootsOpen(t, docs) ==
  t.at # "resting" =>
    /\ t.roots \in Seq(Document)
    /\ t.at = "closing" => t.closing # NoClose
    /\ \A i \in DOMAIN t.roots :
         /\ docs[t.roots[i]].open
         /\ t.at = "closing" => t.roots[i] # t.closing.document

Owed ==
  \A d \in Document \ lost : IF documents[d].open THEN Promised(d)
                             ELSE shown[d] = Nothing \/ Clears(d)

OwedInv ==
  /\ IsFiniteSet(Tracked)
  /\ QueuedIsOfThis
  /\ SubmittedIsNewest
  /\ RootsOpen(thread["main"], documents)
  /\ Owed

LEMMA AsSequence ==
  ASSUME NEW S, IsFiniteSet(S)
  PROVE  /\ SetToSeq(S) \in Seq(S)
         /\ \A i \in DOMAIN SetToSeq(S) : SetToSeq(S)[i] \in S
<1>1. Cardinality(S) \in Nat /\ ExistsBijection(1 .. Cardinality(S), S)
  BY FS_CardinalityType
<1>2. \E f \in [1 .. Cardinality(S) -> S] : IsInjective(f)
  BY <1>1 DEF ExistsBijection, Bijection, Injection
<1>3. SetToSeq(S) \in [1 .. Cardinality(S) -> S]
  BY <1>2 DEF SetToSeq
<1> QED
  BY <1>1, <1>3

\* What is left to analyse when a handler begins, with the document it is about
\* before it.
LEMMA Lists ==
  ASSUME NEW S, S \subseteq Document, IsFiniteSet(S), NEW d \in Document
  PROVE  LET q == SetToSeq(S) IN
         /\ q \in Seq(Document) /\ \A i \in DOMAIN q : q[i] \in S
         /\ <<d>> \o q \in Seq(Document) /\ <<d>> \o q # <<>> /\ Head(<<d>> \o q) = d
         /\ \A i \in DOMAIN (<<d>> \o q) : (<<d>> \o q)[i] \in S \cup {d}
<1>1. PICK q : q = SetToSeq(S)
  OBVIOUS
<1>2. q \in Seq(S) /\ \A i \in DOMAIN q : q[i] \in S
  BY <1>1, AsSequence
<1>3. q \in Seq(Document) /\ Len(q) \in Nat /\ DOMAIN q = 1 .. Len(q)
  BY <1>2
<1>4. <<d>> \o q \in Seq(Document) /\ Len(<<d>> \o q) = 1 + Len(q)
  BY <1>3
<1>5. ASSUME NEW i \in 1 .. Len(<<d>> \o q)
      PROVE  (<<d>> \o q)[i] = IF i = 1 THEN d ELSE q[i - 1]
  BY <1>3
<1>6. <<d>> \o q # <<>> /\ Head(<<d>> \o q) = d
  BY <1>3, <1>4, <1>5
<1>7. ASSUME NEW i \in 1 .. Len(<<d>> \o q)
      PROVE  (<<d>> \o q)[i] \in S \cup {d}
  <2>1. i = 1 \/ i - 1 \in 1 .. Len(q)
    BY <1>3, <1>4
  <2> QED
    BY <1>2, <1>3, <1>5, <2>1
<1>8. DOMAIN (<<d>> \o q) = 1 .. Len(<<d>> \o q)
  BY <1>4
<1> QED
  BY <1>1, <1>2, <1>3, <1>4, <1>6, <1>7, <1>8

LEMMA ReportedStays ==
  ASSUME NEW d, UNCHANGED <<records, unavailable, generations>>, Reported(d)
  PROVE  Reported(d)'
BY DEF Reported

\* A thread goes on without touching what is recorded, described or submitted.
LEMMA ThreadGoesOn ==
  ASSUME IInv, OwedInv, NEW c \in Thread, NEW t,
         thread' = [thread EXCEPT ![c] = t],
         UNCHANGED <<documents, generations, records, unavailable, shown>>,
         \A d \in Document : /\ queued'[DocumentRoot(d)] = queued[DocumentRoot(d)]
                             /\ running'[DocumentRoot(d)] = running[DocumentRoot(d)],
         lost \subseteq lost',
         thread[c].at # "submitting", t.at # "submitting",
         c = "main" =>
           /\ RootsOpen(t, documents)
           /\ thread[c].at = "next" => thread[c].roots = <<>>
           /\ \/ thread[c].at \in {"resting", "closing"}
              \/ Abandoned(c) \subseteq lost'
              \/ t.at \notin {"resting", "closing"} /\ t.closing = thread[c].closing
  PROVE  OwedInv'
<1>1. \A e \in Thread : thread'[e] = IF e = c THEN t ELSE thread[e]
  BY DEF IInv, ThreadsFollow
<1>2. "main" \in Thread
  BY DEF Thread
<1>4. IsFiniteSet(Tracked)' /\ QueuedIsOfThis'
  BY DEF OwedInv, Tracked, QueuedIsOfThis
<1>5. SubmittedIsNewest'
  BY <1>1 DEF OwedInv, SubmittedIsNewest, Subject
<1>6. RootsOpen(thread["main"], documents)'
  BY <1>1, <1>2 DEF OwedInv, RootsOpen
<1>7. ASSUME NEW d \in Document \ lost'
      PROVE  IF documents'[d].open THEN Promised(d)' ELSE shown'[d] = Nothing \/ Clears(d)'
  <2>1. IF documents[d].open THEN Promised(d) ELSE shown[d] = Nothing \/ Clears(d)
    BY <1>7 DEF OwedInv, Owed
  <2>2. CASE documents[d].open
    <3>1. CASE Reported(d)
      BY <2>2, <3>1, ReportedStays DEF Promised
    <3>2. CASE Current(queued[DocumentRoot(d)], d) \/ Current(running[DocumentRoot(d)], d)
      BY <2>2, <3>2 DEF Promised, Current
    <3>3. CASE \E e \in Thread : SubmittedBy(e, d)
      <4>1. PICK e \in Thread : SubmittedBy(e, d)
        BY <3>3
      <4>2. e # c
        BY <4>1 DEF SubmittedBy
      <4>3. thread'[e] = thread[e]
        BY <1>1, <4>2
      <4>4. SubmittedBy(e, d)'
        BY <4>1, <4>3 DEF SubmittedBy, Current, Subject
      <4> QED
        BY <2>2, <4>4 DEF Promised
    <3>4. CASE Comes(d)
      <4>1. c # "main"
        BY <3>4 DEF Comes
      <4>2. Comes(d)'
        BY <1>1, <1>2, <3>4, <4>1 DEF Comes, Subject
      <4> QED
        BY <2>2, <4>2 DEF Promised
    <3> QED
      BY <2>1, <2>2, <3>1, <3>2, <3>3, <3>4 DEF Promised
  <2>3. CASE ~documents[d].open
    BY <1>1, <1>2, <1>7, <2>1, <2>3 DEF Clears, Abandoned
  <2> QED
    BY <2>2, <2>3
<1> QED
  BY <1>4, <1>5, <1>6, <1>7 DEF OwedInv, Owed

\* The threads, and what they submit, stay; analyses begin, end and are reported.
LEMMA WorkGoesOn ==
  ASSUME IInv, OwedInv,
         UNCHANGED <<documents, generations, thread>>,
         \A d \in Document :
           /\ queued'[DocumentRoot(d)] \in {queued[DocumentRoot(d)], NoWork}
           /\ running'[DocumentRoot(d)] \in {running[DocumentRoot(d)], queued[DocumentRoot(d)], NoWork}
           /\ ~documents[d].open => shown'[d] = shown[d],
         lost \subseteq lost',
         ASSUME NEW d \in Document \ lost', documents[d].open,
                \/ Reported(d)
                \/ Current(queued[DocumentRoot(d)], d)
                \/ Current(running[DocumentRoot(d)], d)
         PROVE  \/ Reported(d)'
                \/ Current(queued[DocumentRoot(d)], d)'
                \/ Current(running[DocumentRoot(d)], d)'
  PROVE  OwedInv'
<1>2. IsFiniteSet(Tracked)' /\ QueuedIsOfThis'
  BY DEF OwedInv, Tracked, QueuedIsOfThis
<1>3. SubmittedIsNewest'
  BY DEF OwedInv, SubmittedIsNewest, Subject
<1>4. RootsOpen(thread["main"], documents)'
  BY DEF OwedInv, RootsOpen
<1>5. ASSUME NEW d \in Document \ lost'
      PROVE  IF documents'[d].open THEN Promised(d)' ELSE shown'[d] = Nothing \/ Clears(d)'
  <2>1. IF documents[d].open THEN Promised(d) ELSE shown[d] = Nothing \/ Clears(d)
    BY <1>5 DEF OwedInv, Owed
  <2>2. ASSUME \E c \in Thread : SubmittedBy(c, d)
        PROVE  \E c \in Thread : SubmittedBy(c, d)'
    BY <2>2 DEF SubmittedBy, Current, Subject
  <2>3. Comes(d) => Comes(d)'
    BY DEF Comes, Subject
  <2>4. Clears(d) => Clears(d)'
    BY DEF Clears
  <2> QED
    BY <1>5, <2>1, <2>2, <2>3, <2>4 DEF Promised
<1> QED
  BY <1>2, <1>3, <1>4, <1>5 DEF OwedInv, Owed

LEMMA OwedInit == Init => OwedInv
<1> SUFFICES ASSUME Init PROVE OwedInv
  OBVIOUS
<1>2. Tracked = {}
  BY DEF Init, Tracked
<1>3. IsFiniteSet(Tracked)
  BY <1>2, FS_EmptySet
<1>4. QueuedIsOfThis
  BY Roots DEF Init, QueuedIsOfThis
<1>5. \A c \in Thread : thread[c] = Resting /\ thread[c].at = "resting"
  BY NothingFacts DEF Init
<1>6. SubmittedIsNewest
  BY <1>5 DEF SubmittedIsNewest
<1>7. RootsOpen(thread["main"], documents)
  BY <1>5 DEF RootsOpen, Thread
<1>8. Owed
  BY DEF Init, Owed
<1> QED
  BY <1>3, <1>4, <1>6, <1>7, <1>8 DEF OwedInv

\* A handler of all open documents, or of an open document.
LEMMA OwedBegins ==
  ASSUME IInv, OwedInv,
         \/ DidChangeWatchedFiles
         \/ \E c \in Thread : DidChangeActiveVariant(c)
         \/ \E d \in Editable : Request(d)
  PROVE  OwedInv'
<1>1. PICK c, roots :
        /\ c \in Thread
        /\ thread[c] = Resting
        /\ thread' = [thread EXCEPT ![c] = Handler(roots)]
        /\ c = "main" => roots = OpenDocuments
        /\ UNCHANGED <<documents, diagnosticsVars, workVars, lost>>
  <2>1. "main" \in Thread /\ "executor" \in Thread /\ "main" # "executor"
    BY DEF Thread
  <2>2. CASE DidChangeWatchedFiles
    BY <2>1, <2>2 DEF DidChangeWatchedFiles, clientVars, faultVars
  <2>3. ASSUME NEW c \in Thread, DidChangeActiveVariant(c)
        PROVE  /\ thread' = [thread EXCEPT ![c] = Handler(OpenDocuments)]
               /\ thread[c] = Resting
               /\ UNCHANGED <<documents, diagnosticsVars, workVars, lost>>
    BY <2>3 DEF DidChangeActiveVariant, Arrives, faultVars
  <2>4. ASSUME NEW d \in Editable, Request(d)
        PROVE  /\ thread' = [thread EXCEPT !["executor"] = Handler(<<d>>)]
               /\ thread["executor"] = Resting
               /\ UNCHANGED <<documents, diagnosticsVars, workVars, lost>>
    BY <2>4 DEF Request, Arrives, faultVars
  <2> QED
    BY <2>1, <2>2, <2>3, <2>4
<1>2. /\ UNCHANGED <<documents, generations, records, unavailable, shown, queued, running>>
      /\ lost' = lost
  BY <1>1 DEF diagnosticsVars, workVars
<1>3. Handler(roots).at = "next" /\ Handler(roots).roots = roots
  BY DEF Handler
<1>4. c = "main" => RootsOpen(Handler(roots), documents)
  <2>1. /\ OpenDocuments \in Seq(Tracked)
        /\ \A i \in DOMAIN OpenDocuments : OpenDocuments[i] \in Tracked
    BY AsSequence DEF OwedInv, OpenDocuments
  <2>2. Tracked \subseteq Document
    BY DEF Tracked
  <2>3. OpenDocuments \in Seq(Document)
    BY <2>1, <2>2
  <2> QED
    BY <1>1, <1>3, <2>1, <2>3 DEF RootsOpen, Tracked
<1>5. thread[c].at = "resting"
  BY <1>1, NothingFacts
<1> QED
  BY <1>1, <1>2, <1>3, <1>4, <1>5, ThreadGoesOn

\* The handlers of the main thread are not refused.
LEMMA OwedRefuses == ASSUME IInv, OwedInv, NEW c \in Thread, RefuseClosed(c) PROVE OwedInv'
<1>1. /\ thread[c].at = "next" /\ thread[c].roots # <<>> /\ ~documents[Subject(c)].open
      /\ thread' = [thread EXCEPT ![c] = Resting]
      /\ UNCHANGED <<documents, diagnosticsVars, workVars, lost>>
  BY DEF RefuseClosed, clientVars, faultVars
<1>2. c # "main"
  <2> SUFFICES ASSUME c = "main" PROVE FALSE
    OBVIOUS
  <2>1. thread[c].roots \in Seq(Document) /\ \A i \in DOMAIN thread[c].roots : documents[thread[c].roots[i]].open
    BY <1>1 DEF OwedInv, RootsOpen
  <2>2. 1 \in DOMAIN thread[c].roots /\ Subject(c) = thread[c].roots[1]
    BY <1>1, <2>1 DEF Subject
  <2> QED
    BY <1>1, <2>1, <2>2
<1>3. /\ UNCHANGED <<documents, generations, records, unavailable, shown, queued, running>>
      /\ lost' = lost
  BY <1>1 DEF diagnosticsVars, workVars
<1> QED
  BY <1>1, <1>2, <1>3, NothingFacts, ThreadGoesOn

LEMMA OwedCloses == ASSUME IInv, OwedInv, NEW d \in Editable, DidClose(d) PROVE OwedInv'
<1>1. PICK set, v :
        /\ set \in SUBSET (Tracked \ {d})
        /\ thread' = [thread EXCEPT !["main"] =
                        [at |-> "closing", roots |-> SetToSeq(set),
                         closing |-> [document |-> d, validates |-> v]]]
  BY DEF DidClose, Affected
<1> DEFINE t == [at |-> "closing", roots |-> SetToSeq(set),
                 closing |-> [document |-> d, validates |-> v]]
<1>2. /\ thread["main"] = Resting
      /\ UNCHANGED <<documents, generations, records, unavailable, shown, queued, running>>
      /\ lost' = lost
  BY DEF DidClose, Arrives, diagnosticsVars, workVars, faultVars
<1>3. t.at = "closing" /\ t.roots = SetToSeq(set) /\ t.closing.document = d
  OBVIOUS
<1> DEFINE closing == [document |-> d, validates |-> v]
<1>4. t.closing # NoClose
  <2>1. DOMAIN closing = {"document", "validates"} /\ DOMAIN NoClose = {"document"}
    BY DEF NoClose
  <2>2. t.closing = closing
    OBVIOUS
  <2> HIDE DEF closing, t
  <2>3. "validates" \in DOMAIN closing /\ "validates" \notin DOMAIN NoClose
    BY <2>1
  <2> QED
    BY <2>2, <2>3
<1>5. thread' = [thread EXCEPT !["main"] = t]
  BY <1>1
<1> HIDE DEF t
<1>6. RootsOpen(t, documents)
  <2>1. IsFiniteSet(set)
    BY <1>1, FS_Subset DEF OwedInv
  <2>2. /\ SetToSeq(set) \in Seq(set)
        /\ \A i \in DOMAIN SetToSeq(set) : SetToSeq(set)[i] \in set
    BY <2>1, AsSequence
  <2>3. \A x \in set : x \in Document /\ documents[x].open /\ x # d
    BY <1>1 DEF Tracked
  <2>4. SetToSeq(set) \in Seq(Document)
    BY <2>2, <2>3
  <2> QED
    BY <1>3, <1>4, <2>2, <2>3, <2>4 DEF RootsOpen
<1>7. "main" \in Thread /\ thread["main"].at = "resting" /\ t.at # "submitting"
  BY <1>2, <1>3, NothingFacts DEF Thread
<1> QED
  BY <1>2, <1>5, <1>6, <1>7, ThreadGoesOn

\* A thread goes on with the roots and the document to close that it has.
LEMMA HandlerGoesOn ==
  ASSUME IInv, OwedInv, NEW c \in Thread, NEW t,
         thread' = [thread EXCEPT ![c] = t],
         UNCHANGED <<documents, generations, records, unavailable, shown>>,
         \A d \in Document : /\ queued'[DocumentRoot(d)] = queued[DocumentRoot(d)]
                             /\ running'[DocumentRoot(d)] = running[DocumentRoot(d)],
         lost' = lost,
         thread[c].at \notin {"resting", "closing", "submitting"},
         thread[c].at = "next" => thread[c].roots = <<>>,
         t.at \notin {"resting", "closing", "submitting"},
         t.roots = thread[c].roots,
         t.closing = thread[c].closing
  PROVE  OwedInv'
<1>1. c = "main" => RootsOpen(t, documents)
  BY DEF OwedInv, RootsOpen
<1> QED
  BY <1>1, ThreadGoesOn

LEMMA OwedFinishes == ASSUME IInv, OwedInv, NEW c \in Thread, Finish(c) \/ Capture(c) PROVE OwedInv'
<1>1. /\ UNCHANGED <<documents, generations, records, unavailable, shown, queued, running>>
      /\ lost' = lost
  BY DEF Finish, Capture, clientVars, diagnosticsVars, workVars, faultVars
<1>2. CASE Finish(c) /\ thread[c].closing = NoClose
  <2>1. thread' = [thread EXCEPT ![c] = Resting] /\ thread[c].at = "next" /\ thread[c].roots = <<>>
    BY <1>2 DEF Finish, IInv, ThreadsFollow
  <2>2. RootsOpen(Resting, documents) /\ Resting.at = "resting"
    BY NothingFacts DEF RootsOpen
  <2>3. Abandoned(c) = {}
    BY <1>2 DEF Abandoned
  <2> QED
    BY <1>1, <1>2, <2>1, <2>2, <2>3, ThreadGoesOn
<1>3. CASE Finish(c) /\ thread[c].closing # NoClose
  <2> DEFINE t == [at |-> IF thread[c].closing.validates THEN "capturing" ELSE "clearing",
                   roots |-> <<>>, closing |-> thread[c].closing]
  <2>1. /\ thread' = [thread EXCEPT ![c] = t]
        /\ thread[c].at = "next" /\ thread[c].roots = <<>>
    BY <1>3 DEF Finish, IInv, ThreadsFollow
  <2>2. t.at \in {"capturing", "clearing"} /\ t.closing = thread[c].closing /\ t.roots = <<>>
    OBVIOUS
  <2> HIDE DEF t
  <2> QED
    BY <1>1, <2>1, <2>2, HandlerGoesOn
<1>4. CASE Capture(c)
  <2> DEFINE t == [at |-> "registering", roots |-> thread[c].roots,
                   closing |-> thread[c].closing, snapshots |-> [d \in Staged |-> Snapshot(d)]]
  <2>1. thread' = [thread EXCEPT ![c] = t] /\ thread[c].at = "capturing"
    BY <1>4 DEF Capture, IInv, ThreadsFollow
  <2>2. t.at = "registering" /\ t.closing = thread[c].closing /\ t.roots = thread[c].roots
    OBVIOUS
  <2> HIDE DEF t
  <2> QED
    BY <1>1, <2>1, <2>2, HandlerGoesOn
<1> QED
  BY <1>2, <1>3, <1>4

\* What did_close has not cleared when it is given up is lost.
LEMMA OwedCaptureFails ==
  ASSUME IInv, OwedInv, NEW c \in Thread, CaptureFails(c) PROVE OwedInv'
<1>1. /\ UNCHANGED <<documents, generations, records, unavailable, shown, queued, running>>
      /\ thread[c].at = "capturing" /\ thread' = [thread EXCEPT ![c] = Resting]
      /\ lost' = lost \cup Abandoned(c)
  BY DEF CaptureFails, Abandons, clientVars, diagnosticsVars, workVars
<1>2. RootsOpen(Resting, documents) /\ Resting.at = "resting"
  BY NothingFacts DEF RootsOpen
<1> QED
  BY <1>1, <1>2, ThreadGoesOn

LEMMA OwedRegisters == ASSUME IInv, OwedInv, NEW c \in Thread, Register(c) PROVE OwedInv'
<1> DEFINE t == [at |-> "staging", roots |-> thread[c].roots, closing |-> thread[c].closing,
                 snapshots |-> thread[c].snapshots, generation |-> pipelineGeneration + 1,
                 stages |-> SetToSeq(Staged)]
<1>1. /\ UNCHANGED <<documents, generations, records, unavailable, shown, queued, running>>
      /\ lost' = lost
      /\ thread[c].at = "registering"
      /\ thread' = [thread EXCEPT ![c] = t]
  BY DEF Register, clientVars, diagnosticsVars, workVars, faultVars, IInv, ThreadsFollow
<1>2. t.at = "staging" /\ t.closing = thread[c].closing /\ t.roots = thread[c].roots
  OBVIOUS
<1> HIDE DEF t
<1> QED
  BY <1>1, <1>2, HandlerGoesOn

LEMMA OwedStages == ASSUME IInv, OwedInv, NEW c \in Thread, SubmitStage(c) PROVE OwedInv'
<1> DEFINE d == Head(thread[c].stages)
           work == [version |-> thread[c].snapshots[d].version,
                    text |-> thread[c].snapshots[d].text,
                    generation |-> thread[c].generation, live |-> TRUE]
<1>1. /\ thread[c].at = "staging"
      /\ UNCHANGED <<documents, generations, records, unavailable, shown>>
      /\ lost' = lost
  BY DEF SubmitStage, clientVars, diagnosticsVars, faultVars
<1>2. \/ UNCHANGED workVars
      \/ /\ queued' = Queued(StageRoot(d), work)
         /\ running' = Runs(StageRoot(d), work)
  BY DEF SubmitStage
<1> HIDE DEF d, work
<1>3. ASSUME NEW e \in Document
      PROVE  /\ queued'[DocumentRoot(e)] = queued[DocumentRoot(e)]
             /\ running'[DocumentRoot(e)] = running[DocumentRoot(e)]
  <2>1. DocumentRoot(e) # StageRoot(d) /\ DocumentRoot(e) \in Root
    BY OtherRoots, Roots
  <2> QED
    BY <1>2, <2>1 DEF workVars, Queued, Runs, Superseded, IInv, WorkFollows
<1>4. PICK t : /\ thread' = [thread EXCEPT ![c] = t]
               /\ t.at \in {"staging", "next", "clearing"}
               /\ t.roots = thread[c].roots /\ t.closing = thread[c].closing
  <2>1. CASE Len(thread[c].stages) > 1
    <3>1. thread' = [thread EXCEPT ![c].stages = Tail(@)]
      BY <2>1 DEF SubmitStage
    <3>2. PICK r, cl, sn, g, st : thread[c] = [at |-> "staging", roots |-> r, closing |-> cl,
                                               snapshots |-> sn, generation |-> g, stages |-> st]
      BY <1>1 DEF IInv, ThreadsFollow, IsThread
    <3>3. PICK x : x = Tail(thread[c].stages)
      OBVIOUS
    <3>4. thread' = [thread EXCEPT ![c] = [thread[c] EXCEPT !.stages = x]]
      BY <3>1, <3>3
    <3>5. [thread[c] EXCEPT !.stages = x]
          = [at |-> "staging", roots |-> r, closing |-> cl, snapshots |-> sn,
             generation |-> g, stages |-> x]
      BY <3>2
    <3>6. /\ [thread[c] EXCEPT !.stages = x].at = "staging"
          /\ [thread[c] EXCEPT !.stages = x].roots = thread[c].roots
          /\ [thread[c] EXCEPT !.stages = x].closing = thread[c].closing
      BY <3>2, <3>5
    <3> QED
      BY <3>4, <3>6
  <2>2. CASE ~(Len(thread[c].stages) > 1)
    <3> DEFINE t == [at |-> IF submission = c THEN "next" ELSE "clearing",
                     roots |-> thread[c].roots, closing |-> thread[c].closing]
    <3>1. thread' = [thread EXCEPT ![c] = t]
      BY <2>2 DEF SubmitStage, IInv, ThreadsFollow
    <3>2. t.at \in {"next", "clearing"} /\ t.roots = thread[c].roots /\ t.closing = thread[c].closing
      OBVIOUS
    <3> HIDE DEF t
    <3> QED
      BY <3>1, <3>2
  <2> QED
    BY <2>1, <2>2
<1> QED
  BY <1>1, <1>3, <1>4, HandlerGoesOn

-----------------------------------------------------------------------------
(* Analyses end and are reported.                                           *)

LEMMA OwedWorks ==
  ASSUME IInv, OwedInv, NEW root \in Root,
         Begin(root) \/ Drop(root) \/ Forget(root) \/ Throw(root)
  PROVE  OwedInv'
<1>1. UNCHANGED <<documents, generations, thread, records, unavailable, shown>>
  BY DEF Begin, Drop, Forget, Throw, clientVars, diagnosticsVars
<1>2. /\ queued = [r \in Root |-> queued[r]]
      /\ running = [r \in Root |-> running[r]]
  BY DEF IInv, WorkFollows
<1>3. lost \subseteq lost'
  BY DEF Begin, Drop, Forget, Throw, faultVars
<1>4. ASSUME NEW d \in Document
      PROVE  LET r == DocumentRoot(d) IN
             /\ queued'[r] \in {queued[r], NoWork}
             /\ running'[r] \in {running[r], queued[r], NoWork}
             /\ \/ queued'[r] = queued[r]
                \/ queued[r].generation = generations[d] => d \in lost'
                \/ running'[r] = queued[r] /\ running[r] = NoWork
             /\ \/ running'[r] = running[r] \/ running[r] = NoWork \/ ~running[r].live
                \/ running[r].generation = generations[d] => d \in lost'
  <2>1. PICK r \in Root : r = DocumentRoot(d)
    BY Roots
  <2>2. CASE r # root
    <3>1. queued'[r] = queued[r] /\ running'[r] = running[r]
      BY <1>2, <2>2 DEF Begin, Drop, Forget, Throw
    <3> QED
      BY <2>1, <3>1
  <2>3. CASE r = root
    <3>1. CASE Begin(root)
      <4>1. queued'[r] = NoWork /\ running'[r] = queued[r] /\ running[r] = NoWork
        BY <1>2, <2>3, <3>1 DEF Begin
      <4> QED
        BY <2>1, <4>1
    <3>2. CASE Drop(root)
      <4>1. queued'[r] = queued[r] /\ running'[r] = NoWork /\ ~running[r].live
        BY <1>2, <2>3, <3>2 DEF Drop
      <4> QED
        BY <2>1, <4>1
    <3>3. CASE Forget(root)
      <4>1. queued'[r] = NoWork /\ running'[r] = running[r]
        BY <1>2, <2>3, <3>3 DEF Forget
      <4>2. queued[r].generation = generations[d] => d \in lost'
        BY <2>1, <2>3, <3>3 DEF Forget, Concerned
      <4> QED
        BY <2>1, <4>1, <4>2
    <3>4. CASE Throw(root)
      <4>1. queued'[r] = queued[r] /\ running'[r] = NoWork
        BY <1>2, <2>3, <3>4 DEF Throw
      <4>2. running[r].generation = generations[d] => d \in lost'
        BY <2>1, <2>3, <3>4 DEF Throw, Concerned
      <4> QED
        BY <2>1, <4>1, <4>2
    <3> QED
      BY <3>1, <3>2, <3>3, <3>4
  <2> QED
    BY <2>2, <2>3
<1>5. ASSUME NEW d \in Document \ lost',
             \/ Reported(d)
             \/ Current(queued[DocumentRoot(d)], d)
             \/ Current(running[DocumentRoot(d)], d)
      PROVE  \/ Reported(d)'
             \/ Current(queued[DocumentRoot(d)], d)'
             \/ Current(running[DocumentRoot(d)], d)'
  <2>1. CASE Reported(d)
    BY <1>1, <2>1 DEF Reported
  <2>2. CASE Current(queued[DocumentRoot(d)], d)
    BY <1>1, <1>4, <1>5, <2>2 DEF Current
  <2>3. CASE Current(running[DocumentRoot(d)], d)
    BY <1>1, <1>4, <1>5, <2>3 DEF Current
  <2> QED
    BY <1>5, <2>1, <2>2, <2>3
<1> QED
  BY <1>1, <1>3, <1>4, <1>5, WorkGoesOn

\* An analysis of a document ends with a report of it, or was not the one owed.
LEMMA OwedReports ==
  ASSUME IInv, OwedInv, NEW d \in Document,
         UNCHANGED <<documents, generations, thread, queued, lost>>,
         running' = [running EXCEPT ![DocumentRoot(d)] = NoWork],
         \A e \in Document : e # d \/ ~Accepts(d, running[DocumentRoot(d)]) =>
           records'[e] = records[e] /\ unavailable'[e] = unavailable[e] /\ shown'[e] = shown[e],
         Accepts(d, running[DocumentRoot(d)]) => Reported(d)'
  PROVE  OwedInv'
<1>1. running = [r \in Root |-> running[r]]
  BY DEF IInv, WorkFollows
<1>2. ASSUME NEW e \in Document
      PROVE  running'[DocumentRoot(e)] = IF e = d THEN NoWork ELSE running[DocumentRoot(e)]
  BY <1>1, Roots
<1>3. ASSUME NEW e \in Document, ~documents[e].open PROVE shown'[e] = shown[e]
  BY <1>3 DEF Accepts
<1>4. ASSUME NEW e \in Document, documents[e].open,
             \/ Reported(e)
             \/ Current(queued[DocumentRoot(e)], e)
             \/ Current(running[DocumentRoot(e)], e)
      PROVE  \/ Reported(e)'
             \/ Current(queued[DocumentRoot(e)], e)'
             \/ Current(running[DocumentRoot(e)], e)'
  <2>1. CASE e = d /\ Accepts(d, running[DocumentRoot(d)])
    BY <2>1
  <2>2. CASE e # d \/ ~Accepts(d, running[DocumentRoot(d)])
    <3>1. Reported(e) => Reported(e)'
      BY <2>2 DEF Reported
    <3>2. Current(queued[DocumentRoot(e)], e) => Current(queued[DocumentRoot(e)], e)'
      BY DEF Current
    <3>3. Current(running[DocumentRoot(e)], e) => Current(running[DocumentRoot(e)], e)'
      <4>1. Current(running[DocumentRoot(e)], e) => e # d
        BY <1>4, <2>2 DEF Current, Accepts
      <4> QED
        BY <1>2, <4>1 DEF Current
    <3> QED
      BY <1>4, <3>1, <3>2, <3>3
  <2> QED
    BY <2>1, <2>2
<1> QED
  BY <1>2, <1>3, <1>4, WorkGoesOn

LEMMA OwedCompletes ==
  ASSUME IInv, OwedInv, NEW d \in Document, AnalysisCompleted(d) \/ AnalysisUnavailable(d)
  PROVE  OwedInv'
<1> DEFINE work == running[DocumentRoot(d)]
<1>1. /\ UNCHANGED <<documents, generations, thread, queued, lost>>
      /\ work # NoWork
      /\ running' = [running EXCEPT ![DocumentRoot(d)] = NoWork]
  BY DEF AnalysisCompleted, AnalysisUnavailable, clientVars, faultVars
<1>2. /\ records = [e \in Document |-> records[e]]
      /\ unavailable = [e \in Document |-> unavailable[e]]
      /\ shown = [e \in Document |-> shown[e]]
  BY DEF IInv, RecordsFollow, ShownFollows
<1>3. ASSUME Accepts(d, work)
      PROVE  work.generation = generations[d] /\ work.version # 0
  BY <1>1, <1>3, AcceptedIsTrue
<1>4. CASE AnalysisCompleted(d)
  <2>1. ASSUME Accepts(d, work)
        PROVE  /\ records' = [records EXCEPT ![d] = [version |-> work.version, text |-> work.text,
                                                     generation |-> work.generation]]
               /\ unavailable' = [unavailable EXCEPT ![d] = 0]
               /\ shown' \in {shown, [shown EXCEPT ![d] = Shows(d, work.text, pipelineDiagnostics)]}
    BY <1>4, <2>1 DEF AnalysisCompleted
  <2>2. ~Accepts(d, work) => UNCHANGED <<unavailable, records, shown>>
    BY <1>4 DEF AnalysisCompleted
  <2>3. Accepts(d, work) => Reported(d)'
    <3> SUFFICES ASSUME Accepts(d, work) PROVE Reported(d)'
      OBVIOUS
    <3>1. records'[d] = [version |-> work.version, text |-> work.text,
                         generation |-> work.generation]
      BY <1>2, <2>1
    <3>2. records'[d].version # 0 /\ records'[d].generation = generations[d]
      BY <1>3, <3>1
    <3> QED
      BY <1>1, <3>2 DEF Reported
  <2>4. ASSUME NEW e \in Document, e # d \/ ~Accepts(d, work)
        PROVE  records'[e] = records[e] /\ unavailable'[e] = unavailable[e] /\ shown'[e] = shown[e]
    <3>1. CASE ~Accepts(d, work)
      BY <2>2, <3>1
    <3>2. CASE Accepts(d, work) /\ e # d
      BY <1>2, <2>1, <3>2
    <3> QED
      BY <2>4, <3>1, <3>2
  <2> QED
    BY <1>1, <2>3, <2>4, OwedReports
<1>5. CASE AnalysisUnavailable(d)
  <2>1. ASSUME Accepts(d, work), unavailable[d] # work.generation
        PROVE  /\ records' = [records EXCEPT ![d] = NoRecord]
               /\ unavailable' = [unavailable EXCEPT ![d] = work.generation]
               /\ shown' = [shown EXCEPT ![d] = [version |-> work.version, compiler |-> Unavailable,
                                                 pipeline |-> 0]]
    BY <1>5, <2>1 DEF AnalysisUnavailable
  <2>2. ~(Accepts(d, work) /\ unavailable[d] # work.generation)
          => UNCHANGED <<unavailable, records, shown>>
    BY <1>5 DEF AnalysisUnavailable
  <2>3. Accepts(d, work) => Reported(d)'
    <3> SUFFICES ASSUME Accepts(d, work) PROVE Reported(d)'
      OBVIOUS
    <3>1. unavailable'[d] = generations[d]
      BY <1>2, <1>3, <2>1, <2>2
    <3> QED
      BY <1>1, <3>1 DEF Reported
  <2>4. ASSUME NEW e \in Document, e # d \/ ~Accepts(d, work)
        PROVE  records'[e] = records[e] /\ unavailable'[e] = unavailable[e] /\ shown'[e] = shown[e]
    <3>1. CASE ~(Accepts(d, work) /\ unavailable[d] # work.generation)
      BY <2>2, <3>1
    <3>2. CASE Accepts(d, work) /\ unavailable[d] # work.generation
      BY <1>2, <2>1, <2>4, <3>2
    <3> QED
      BY <3>1, <3>2
  <2> QED
    BY <1>1, <2>3, <2>4, OwedReports
<1> QED
  BY <1>4, <1>5

\* What concerns the pipeline, the configuration file, or nothing at all.
LEMMA OwedPipeline ==
  ASSUME IInv, OwedInv,
         \/ ChangeFile \/ PublishValidation \/ UNCHANGED vars
         \/ \E d \in Document : StageCompleted(d)
  PROVE  OwedInv'
<1>1. UNCHANGED <<documents, generations, thread, records, unavailable, queued, lost>>
  BY DEF ChangeFile, PublishValidation, vars, StageCompleted, clientVars, diagnosticsVars, workVars,
     faultVars
<1>2. ASSUME NEW e \in Document PROVE running'[DocumentRoot(e)] = running[DocumentRoot(e)]
  <2>1. running' = running \/ \E d \in Document : running' = [running EXCEPT ![StageRoot(d)] = NoWork]
    BY DEF ChangeFile, PublishValidation, vars, StageCompleted, workVars
  <2>2. running = [r \in Root |-> running[r]] /\ DocumentRoot(e) \in Root
    BY Roots DEF IInv, WorkFollows
  <2> QED
    BY <2>1, <2>2, OtherRoots
<1>3. ASSUME NEW e \in Document, ~documents[e].open PROVE shown'[e] = shown[e]
  <2>1. CASE PublishValidation
    <3>1. ~ \E v : Displays(e, v)
      BY <1>3 DEF Displays
    <3> QED
      BY <2>1, <3>1 DEF PublishValidation
  <2> QED
    BY <2>1 DEF ChangeFile, vars, StageCompleted, diagnosticsVars
<1>4. ASSUME NEW e \in Document
      PROVE  /\ Reported(e) => Reported(e)'
             /\ Current(queued[DocumentRoot(e)], e) => Current(queued[DocumentRoot(e)], e)'
             /\ Current(running[DocumentRoot(e)], e) => Current(running[DocumentRoot(e)], e)'
  BY <1>1, <1>2 DEF Reported, Current
<1> QED
  BY <1>1, <1>2, <1>3, <1>4, WorkGoesOn

-----------------------------------------------------------------------------
(* Documents change, and are submitted.                                     *)

\* A document is opened, or its version goes up, and it is next on the main thread.
LEMMA OwedTexts ==
  ASSUME IInv, OwedInv, NEW d \in Editable, DidOpen(d) \/ DidChange(d)
  PROVE  OwedInv'
<1>1. d \in Document
  BY DocumentsAssumption
<1>2. texts \in Nat /\ documents = [e \in Document |-> documents[e]] /\ IsDocument(documents[d], texts)
  BY <1>1 DEF IInv, DocumentsAreTrue
<1>3. PICK document :
        /\ documents' = [documents EXCEPT ![d] = document]
        /\ document.open
        /\ documents[d].open => document.version = documents[d].version + 1
  <2>1. CASE DidOpen(d)
    <3>1. PICK version \in Opened :
            documents' = [documents EXCEPT ![d] =
                            [open |-> TRUE, version |-> version, text |-> texts + 1]]
      BY <2>1 DEF DidOpen
    <3>2. ~documents[d].open
      BY <2>1 DEF DidOpen
    <3> DEFINE document == [open |-> TRUE, version |-> version, text |-> texts + 1]
    <3>3. documents' = [documents EXCEPT ![d] = document] /\ document.open
      BY <3>1
    <3> HIDE DEF document
    <3> QED
      BY <3>2, <3>3
  <2>2. CASE DidChange(d)
    <3> DEFINE document == [documents[d] EXCEPT !.version = @ + 1, !.text = texts + 1]
    <3>1. documents' = [documents EXCEPT ![d] = document]
      <4>1. documents' = [documents EXCEPT ![d].version = @ + 1, ![d].text = texts + 1]
        BY <2>2 DEF DidChange
      <4> QED
        BY <1>1, <1>2, <4>1
    <3>2. documents[d].open
      BY <2>2 DEF DidChange
    <3>3. PICK o, v, t : documents[d] = [open |-> o, version |-> v, text |-> t]
      BY <1>2 DEF IsDocument
    <3>4. document = [open |-> o, version |-> v + 1, text |-> texts + 1]
      <4> DEFINE f == [documents[d] EXCEPT !.version = @ + 1]
      <4>1. f = [open |-> o, version |-> v + 1, text |-> t]
        BY <3>3
      <4>2. document = [f EXCEPT !.text = texts + 1]
        OBVIOUS
      <4> HIDE DEF document, f
      <4> QED
        BY <4>1, <4>2
    <3>5. documents[d].open = o /\ documents[d].version = v
      BY <3>3
    <3> HIDE DEF document
    <3>6. document.open /\ document.version = documents[d].version + 1
      BY <3>2, <3>4, <3>5
    <3> QED
      BY <3>1, <3>6
  <2> QED
    BY <2>1, <2>2
<1>4. PICK set :
        /\ set \in SUBSET (Tracked \ {d})
        /\ thread' = [thread EXCEPT !["main"] = Handler(<<d>> \o SetToSeq(set))]
  BY DEF DidOpen, DidChange, Affected
<1>5. /\ thread["main"] = Resting /\ lost' = lost
      /\ UNCHANGED <<generations, records, unavailable, shown, queued, running>>
  BY DEF DidOpen, DidChange, Arrives, diagnosticsVars, workVars, faultVars
<1>6. \A e \in Document : documents'[e] = IF e = d THEN document ELSE documents[e]
  BY <1>2, <1>3
<1>7. /\ \A c \in Thread : thread'[c] = IF c = "main" THEN Handler(<<d>> \o SetToSeq(set)) ELSE thread[c]
      /\ "main" \in Thread /\ thread["main"].at = "resting"
  BY <1>4, <1>5, NothingFacts DEF IInv, ThreadsFollow, Thread
<1>8. IsFiniteSet(set) /\ set \subseteq Document
  <2>1. IsFiniteSet(Tracked) /\ set \subseteq Tracked
    BY <1>4 DEF OwedInv
  <2> QED
    BY <2>1, FS_Subset DEF Tracked
<1>9. PICK q : /\ q = <<d>> \o SetToSeq(set)
               /\ q \in Seq(Document) /\ q # <<>> /\ Head(q) = d
               /\ \A i \in DOMAIN q : q[i] \in set \cup {d}
  BY <1>1, <1>8, Lists
<1>10. Handler(q).at = "next" /\ Handler(q).roots = q
  BY DEF Handler
<1>11. thread'["main"] = Handler(q)
  BY <1>7, <1>9
<1>12. RootsOpen(thread["main"], documents)'
  <2>1. \A x \in set \cup {d} : documents'[x].open
    BY <1>1, <1>3, <1>4, <1>6 DEF Tracked
  <2> QED
    BY <1>9, <1>10, <1>11, <2>1 DEF RootsOpen
<1>13. IsFiniteSet(Tracked)'
  <2>1. Tracked' = Tracked \cup {d}
    BY <1>1, <1>3, <1>6 DEF Tracked
  <2> QED
    BY <2>1, FS_AddElement DEF OwedInv
<1>14. QueuedIsOfThis'
  <2>1. ASSUME NEW e \in Document, queued[DocumentRoot(e)] # NoWork
        PROVE  /\ documents'[e].open
               /\ queued[DocumentRoot(e)].version \in 1 .. documents'[e].version
    <3>1. documents[e].open /\ queued[DocumentRoot(e)].version \in 1 .. documents[e].version
      BY <2>1 DEF OwedInv, QueuedIsOfThis
    <3>2. CASE e = d
      <4>1. documents[d].version \in Nat /\ document.version = documents[d].version + 1
        BY <1>2, <1>3, <3>1, <3>2 DEF IsDocument
      <4> QED
        BY <1>3, <1>6, <3>1, <3>2, <4>1
    <3>3. CASE e # d
      BY <1>6, <3>1, <3>3
    <3> QED
      BY <3>2, <3>3
  <2> QED
    BY <1>5, <2>1 DEF QueuedIsOfThis
<1>15. SubmittedIsNewest'
  <2>1. \A c \in Thread : thread'[c].at = "submitting" => thread'[c] = thread[c]
    BY <1>7, <1>9, <1>10
  <2> QED
    BY <1>5, <2>1 DEF OwedInv, SubmittedIsNewest, Subject
<1>16. ASSUME NEW e \in Document \ lost
       PROVE  IF documents'[e].open THEN Promised(e)' ELSE shown'[e] = Nothing \/ Clears(e)'
  <2>1. IF documents[e].open THEN Promised(e) ELSE shown[e] = Nothing \/ Clears(e)
    BY <1>5, <1>16 DEF OwedInv, Owed
  <2>2. CASE e = d
    <3>1. Comes(d)'
      BY <1>9, <1>10, <1>11 DEF Comes, Subject
    <3> QED
      BY <1>3, <1>6, <2>2, <3>1 DEF Promised
  <2>3. CASE e # d /\ documents[e].open
    <3>1. documents'[e] = documents[e]
      BY <1>6, <2>3
    <3>2. Reported(e) => Reported(e)'
      BY <1>5, ReportedStays
    <3>3. \A w : Current(w, e) => /\ w # NoWork /\ w.generation = generations'[e]
                                  /\ w.version = documents'[e].version /\ w.live
      BY <1>5, <3>1 DEF Current
    <3>4. /\ Current(queued[DocumentRoot(e)], e) => Current(queued[DocumentRoot(e)], e)'
          /\ Current(running[DocumentRoot(e)], e) => Current(running[DocumentRoot(e)], e)'
      BY <1>5, <3>3 DEF Current
    <3>5. ASSUME NEW c \in Thread, SubmittedBy(c, e) PROVE SubmittedBy(c, e)'
      <4>1. thread'[c] = thread[c]
        BY <1>7, <3>5 DEF SubmittedBy
      <4> QED
        BY <1>5, <3>1, <3>5, <4>1 DEF SubmittedBy, Subject, Current
    <3>6. ~Comes(e)
      BY <1>7 DEF Comes
    <3> QED
      BY <2>1, <2>3, <3>1, <3>2, <3>4, <3>5, <3>6 DEF Promised
  <2>4. CASE e # d /\ ~documents[e].open
    <3>1. ~Clears(e)
      BY <1>7 DEF Clears
    <3> QED
      BY <1>5, <1>6, <2>1, <2>4, <3>1
  <2> QED
    BY <2>2, <2>3, <2>4
<1> QED
  BY <1>5, <1>12, <1>13, <1>14, <1>15, <1>16 DEF OwedInv, Owed

\* A document is closed: nothing of it is queued, and it is to be cleared.
LEMMA OwedClosing == ASSUME IInv, OwedInv, CloseDocument PROVE OwedInv'
<1>1. PICK d : d = thread["main"].closing.document
  OBVIOUS
<1>2. /\ thread["main"].at = "closing" /\ submission = None
      /\ documents' = [documents EXCEPT ![d].open = FALSE]
      /\ generations' = [generations EXCEPT ![d] = @ + 1]
      /\ records' = [records EXCEPT ![d] = NoRecord]
      /\ unavailable' = [unavailable EXCEPT ![d] = 0]
      /\ queued' = [queued EXCEPT ![DocumentRoot(d)] = NoWork]
      /\ running' = Superseded(DocumentRoot(d))
      /\ thread' = [thread EXCEPT !["main"].at = "next"]
      /\ UNCHANGED <<shown, lost>>
  BY <1>1 DEF CloseDocument, NextGeneration, faultVars
<1>3. "main" \in Thread /\ None \notin Thread
  BY DEF Thread, None
<1>4. PICK r, cl : thread["main"] = [at |-> "closing", roots |-> r, closing |-> cl]
  BY <1>2, <1>3 DEF IInv, ThreadsFollow, IsThread
<1> DEFINE t == [at |-> "next", roots |-> r, closing |-> cl]
<1>5. /\ thread' = [thread EXCEPT !["main"] = t]
      /\ t.at = "next" /\ t.roots = r /\ t.closing = cl
      /\ thread["main"].roots = r /\ thread["main"].closing = cl /\ cl.document = d
  <2>1. thread' = [thread EXCEPT !["main"] = [thread["main"] EXCEPT !.at = "next"]]
    BY <1>2
  <2>2. [thread["main"] EXCEPT !.at = "next"] = t
    BY <1>4
  <2> QED
    BY <1>1, <1>4, <2>1, <2>2
<1> HIDE DEF t
<1>6. \A c \in Thread : thread'[c] = IF c = "main" THEN t ELSE thread[c]
  BY <1>5 DEF IInv, ThreadsFollow
<1>7. \A e \in Document : /\ documents'[e].open => e # d
                          /\ e # d => documents'[e] = documents[e]
  BY <1>2 DEF IInv, DocumentsAreTrue
<1>8. \A e \in Document : e # d =>
        /\ generations'[e] = generations[e] /\ records'[e] = records[e]
        /\ unavailable'[e] = unavailable[e]
        /\ queued'[DocumentRoot(e)] = queued[DocumentRoot(e)]
        /\ running'[DocumentRoot(e)] = running[DocumentRoot(e)]
  BY <1>2, Roots, OtherRoots DEF IInv, RecordsFollow, WorkFollows, Superseded
<1>9. d \in Document => queued'[DocumentRoot(d)] = NoWork
  BY <1>2, Roots DEF IInv, WorkFollows
<1>10. RootsOpen(thread["main"], documents)'
  <2>1. /\ r \in Seq(Document)
        /\ \A i \in DOMAIN r : documents[r[i]].open /\ r[i] # d
    BY <1>2, <1>5 DEF OwedInv, RootsOpen
  <2>2. \A i \in DOMAIN r : r[i] \in Document
    BY <2>1
  <2> QED
    BY <1>3, <1>5, <1>6, <1>7, <2>1, <2>2 DEF RootsOpen
<1>11. IsFiniteSet(Tracked)'
  <2>1. Tracked' \subseteq Tracked
    BY <1>7 DEF Tracked
  <2> QED
    BY <2>1, FS_Subset DEF OwedInv
<1>12. QueuedIsOfThis'
  <2>1. ASSUME NEW e \in Document, queued'[DocumentRoot(e)] # NoWork
        PROVE  /\ documents'[e].open
               /\ queued'[DocumentRoot(e)].version \in 1 .. documents'[e].version
    <3>1. e # d
      BY <1>9, <2>1
    <3> QED
      BY <1>7, <1>8, <2>1, <3>1 DEF OwedInv, QueuedIsOfThis
  <2> QED
    BY <2>1 DEF QueuedIsOfThis
<1>13. \A c \in Thread : thread[c].at # "submitting" /\ thread'[c].at # "submitting"
  BY <1>2, <1>3, <1>5, <1>6 DEF IInv, ThreadsFollow, IsThread, Holds
<1>14. SubmittedIsNewest'
  BY <1>13 DEF SubmittedIsNewest
<1>15. ASSUME NEW e \in Document \ lost
       PROVE  IF documents'[e].open THEN Promised(e)' ELSE shown'[e] = Nothing \/ Clears(e)'
  <2>1. IF documents[e].open THEN Promised(e) ELSE shown[e] = Nothing \/ Clears(e)
    BY <1>15 DEF OwedInv, Owed
  <2>2. CASE e = d
    <3>1. cl # NoClose
      BY <1>2, <1>5 DEF OwedInv, RootsOpen
    <3>2. Clears(d)'
      BY <1>3, <1>5, <1>6, <3>1 DEF Clears
    <3> QED
      BY <1>7, <2>2, <3>2
  <2>3. CASE e # d /\ documents[e].open
    <3>1. Reported(e) => Reported(e)'
      BY <1>8, <2>3 DEF Reported
    <3>2. /\ Current(queued[DocumentRoot(e)], e) => Current(queued[DocumentRoot(e)], e)'
          /\ Current(running[DocumentRoot(e)], e) => Current(running[DocumentRoot(e)], e)'
      BY <1>7, <1>8, <2>3 DEF Current
    <3>3. ~Comes(e) /\ ~ \E c \in Thread : SubmittedBy(c, e)
      BY <1>2, <1>13 DEF Comes, SubmittedBy
    <3> QED
      BY <1>7, <2>1, <2>3, <3>1, <3>2, <3>3 DEF Promised
  <2>4. CASE e # d /\ ~documents[e].open
    <3>1. ~Clears(e)
      BY <1>2 DEF Clears
    <3> QED
      BY <1>2, <1>7, <2>1, <2>4, <3>1
  <2> QED
    BY <2>2, <2>3, <2>4
<1> QED
  BY <1>2, <1>10, <1>11, <1>12, <1>14, <1>15 DEF OwedInv, Owed

\* What did_close is about to clear is closed.
LEMMA ClosingIsClosed ==
  ASSUME IInv, thread["main"].at = "clearing", NEW d \in Document,
         d = thread["main"].closing.document
  PROVE  ~documents[d].open
<1>1. IsThread("main", thread["main"], submission) /\ StaysClosed(thread["main"], documents)
  BY DEF IInv, ThreadsFollow, Thread
<1>2. thread["main"].closing # NoClose
  BY <1>1 DEF IsThread
<1> QED
  BY <1>1, <1>2 DEF StaysClosed

LEMMA OwedClears == ASSUME IInv, OwedInv, ClearDiagnostics PROVE OwedInv'
<1>1. PICK d : d = thread["main"].closing.document
  OBVIOUS
<1>2. /\ thread["main"].at = "clearing"
      /\ shown' = [shown EXCEPT ![d] = Nothing]
      /\ thread' = [thread EXCEPT !["main"] = Resting]
      /\ lost' = lost \ {d}
      /\ UNCHANGED <<documents, generations, records, unavailable, queued, running>>
  BY <1>1 DEF ClearDiagnostics, clientVars, workVars
<1>3. /\ \A c \in Thread : thread'[c] = IF c = "main" THEN Resting ELSE thread[c]
      /\ "main" \in Thread /\ Resting.at = "resting"
  BY <1>2, NothingFacts DEF IInv, ThreadsFollow, Thread
<1>4. \A e \in Document : shown'[e] = IF e = d THEN Nothing ELSE shown[e]
  BY <1>2 DEF IInv, ShownFollows
<1>5. RootsOpen(thread["main"], documents)'
  BY <1>3 DEF RootsOpen
<1>6. IsFiniteSet(Tracked)' /\ QueuedIsOfThis'
  BY <1>2 DEF OwedInv, Tracked, QueuedIsOfThis
<1>7. \A c \in Thread : thread[c].at = "submitting" \/ thread'[c].at = "submitting"
                          => thread'[c] = thread[c]
  BY <1>2, <1>3
<1>8. SubmittedIsNewest'
  BY <1>2, <1>7 DEF OwedInv, SubmittedIsNewest, Subject
<1>9. ASSUME NEW e \in Document \ lost'
      PROVE  IF documents'[e].open THEN Promised(e)' ELSE shown'[e] = Nothing \/ Clears(e)'
  <2>1. e # d => IF documents[e].open THEN Promised(e) ELSE shown[e] = Nothing \/ Clears(e)
    BY <1>2, <1>9 DEF OwedInv, Owed
  <2>2. CASE documents[e].open
    <3>0. e # d
      BY <1>1, <1>2, <1>9, <2>2, ClosingIsClosed
    <3>1. Reported(e) => Reported(e)'
      BY <1>2, ReportedStays
    <3>2. /\ Current(queued[DocumentRoot(e)], e) => Current(queued[DocumentRoot(e)], e)'
          /\ Current(running[DocumentRoot(e)], e) => Current(running[DocumentRoot(e)], e)'
      BY <1>2 DEF Current
    <3>3. ASSUME NEW c \in Thread, SubmittedBy(c, e) PROVE SubmittedBy(c, e)'
      <4>1. thread'[c] = thread[c]
        BY <1>7, <3>3 DEF SubmittedBy
      <4> QED
        BY <1>2, <3>3, <4>1 DEF SubmittedBy, Subject, Current
    <3>4. ~Comes(e)
      BY <1>2 DEF Comes
    <3> QED
      BY <1>2, <2>1, <2>2, <3>0, <3>1, <3>2, <3>3, <3>4 DEF Promised
  <2>3. CASE ~documents[e].open
    BY <1>1, <1>2, <1>4, <2>1, <2>3 DEF Clears
  <2> QED
    BY <2>2, <2>3
<1> QED
  BY <1>2, <1>5, <1>6, <1>8, <1>9 DEF OwedInv, Owed

\* What is described becomes the newest, and is promised by the thread.
LEMMA OwedDescribes == ASSUME IInv, OwedInv, NEW c \in Thread, Describe(c) PROVE OwedInv'
<1>1. PICK d : d = Subject(c)
  OBVIOUS
<1> DEFINE work == [version |-> documents[d].version, text |-> documents[d].text,
                    generation |-> generations[d] + 1, live |-> TRUE]
           t == [at |-> "submitting", roots |-> thread[c].roots, closing |-> thread[c].closing,
                 validates |-> configured /\ d \in Staged, work |-> work]
<1>2. /\ thread[c].at = "next" /\ submission = None /\ documents[d].open
      /\ generations' = [generations EXCEPT ![d] = @ + 1]
      /\ thread' = [thread EXCEPT ![c] = t]
      /\ records' = RemainingRecords(d)
      /\ lost' = lost \ {d}
      /\ UNCHANGED <<documents, unavailable, shown, queued, running>>
  BY <1>1 DEF Describe, Describes, clientVars, workVars, IInv, ThreadsFollow
<1>3. t.at = "submitting" /\ t.roots = thread[c].roots /\ t.closing = thread[c].closing
      /\ t.work = work
  OBVIOUS
<1>4. work.version = documents[d].version /\ work.generation = generations[d] + 1 /\ work.live
  OBVIOUS
<1> HIDE DEF t, work
<1>5. \A e \in Thread : thread'[e] = IF e = c THEN t ELSE thread[e]
  BY <1>2 DEF IInv, ThreadsFollow
<1>6. \A e \in Document : /\ generations[e] \in Nat
                          /\ generations'[e] = IF e = d THEN generations[e] + 1 ELSE generations[e]
  BY <1>2 DEF IInv, WorkFollows
<1>7. \A e \in Document : e # d => records'[e] = records[e]
  BY <1>2 DEF RemainingRecords, IInv, RecordsFollow
<1>8. \A e \in Thread : thread[e].at # "submitting"
  <2>1. None \notin Thread
    BY DEF Thread, None
  <2> QED
    BY <1>2, <2>1 DEF IInv, ThreadsFollow, IsThread, Holds
<1>9. IsFiniteSet(Tracked)' /\ QueuedIsOfThis'
  BY <1>2 DEF OwedInv, Tracked, QueuedIsOfThis
<1>10. RootsOpen(thread["main"], documents)'
  <2>1. "main" \in Thread
    BY DEF Thread
  <2>2. CASE c = "main"
    BY <1>2, <1>3, <1>5, <2>1, <2>2 DEF OwedInv, RootsOpen
  <2>3. CASE c # "main"
    BY <1>2, <1>5, <2>1, <2>3 DEF OwedInv
  <2> QED
    BY <2>2, <2>3
<1>11. SubmittedIsNewest'
  <2>1. ASSUME NEW e \in Thread, NEW x \in Document, thread'[e].at = "submitting",
               Head(thread'[e].roots) = x
        PROVE  /\ thread'[e].work.generation = generations'[x]
               /\ thread'[e].work.live
               /\ \A w \in {queued[DocumentRoot(x)], running[DocumentRoot(x)]} :
                    w # NoWork => w.generation # generations'[x]
    <3>1. e = c
      BY <1>5, <1>8, <2>1
    <3>2. thread'[e] = t /\ x = d
      BY <1>1, <1>3, <1>5, <2>1, <3>1 DEF Subject
    <3>3. generations'[x] = generations[d] + 1 /\ generations[d] \in Nat
      BY <1>6, <3>2
    <3>4. \A w \in {queued[DocumentRoot(x)], running[DocumentRoot(x)]} :
            w # NoWork => w.generation \in 1 .. generations[d]
      BY <3>2 DEF IInv, WorkFollows, TrueWork
    <3> QED
      BY <1>3, <1>4, <3>2, <3>3, <3>4
  <2> QED
    BY <1>2, <2>1 DEF SubmittedIsNewest, Subject
<1>12. ASSUME NEW e \in Document \ lost'
       PROVE  IF documents[e].open THEN Promised(e)' ELSE shown[e] = Nothing \/ Clears(e)'
  <2>1. e # d => IF documents[e].open THEN Promised(e) ELSE shown[e] = Nothing \/ Clears(e)
    BY <1>2, <1>12 DEF OwedInv, Owed
  <2>2. CASE e = d
    <3>1. work # NoWork
      <4>1. documents[d].version # 0
        BY <1>2, <2>2 DEF IInv, DocumentsAreTrue, IsDocument
      <4> QED
        BY <1>4, <4>1, NothingFacts
    <3>2. SubmittedBy(c, d)'
      BY <1>1, <1>2, <1>3, <1>4, <1>5, <1>6, <2>2, <3>1 DEF SubmittedBy, Current, Subject
    <3> QED
      BY <1>2, <2>2, <3>2 DEF Promised
  <2>3. CASE e # d /\ documents[e].open
    <3>1. Reported(e) => Reported(e)'
      BY <1>2, <1>6, <1>7, <2>3 DEF Reported
    <3>2. /\ Current(queued[DocumentRoot(e)], e) => Current(queued[DocumentRoot(e)], e)'
          /\ Current(running[DocumentRoot(e)], e) => Current(running[DocumentRoot(e)], e)'
      BY <1>2, <1>6, <2>3 DEF Current
    <3>3. ~ \E x \in Thread : SubmittedBy(x, e)
      BY <1>8 DEF SubmittedBy
    <3>4. Comes(e) => Comes(e)'
      <4>1. Comes(e) => c # "main"
        BY <1>1, <2>3 DEF Comes
      <4>2. "main" \in Thread
        BY DEF Thread
      <4> QED
        BY <1>5, <4>1, <4>2 DEF Comes, Subject
    <3> QED
      BY <2>1, <2>3, <3>1, <3>2, <3>3, <3>4 DEF Promised
  <2>4. CASE ~documents[e].open
    <3>1. Clears(e) => Clears(e)'
      <4>1. "main" \in Thread
        BY DEF Thread
      <4> QED
        BY <1>3, <1>5, <4>1 DEF Clears
    <3>2. e # d
      BY <1>2, <2>4
    <3> QED
      BY <2>1, <2>4, <3>1, <3>2
  <2> QED
    BY <2>2, <2>3, <2>4
<1> QED
  BY <1>2, <1>9, <1>10, <1>11, <1>12 DEF OwedInv, Owed

\* A document that was not described is lost, as is what the handler was to clear.
LEMMA OwedDescribeFails ==
  ASSUME IInv, OwedInv, NEW c \in Thread, DescribeFails(c) PROVE OwedInv'
<1>1. PICK d : d = Subject(c)
  OBVIOUS
<1>2. /\ thread[c].at = "next" /\ submission = None /\ documents[d].open
      /\ generations' = [generations EXCEPT ![d] = @ + 1]
      /\ thread' = [thread EXCEPT ![c] = Resting]
      /\ records' \in {records, RemainingRecords(d)}
      /\ lost' = lost \cup {d} \cup Abandoned(c)
      /\ UNCHANGED <<documents, unavailable, shown, queued, running>>
  BY <1>1 DEF DescribeFails, Describes, Abandons, clientVars, workVars
<1>3. \A e \in Thread : thread'[e] = IF e = c THEN Resting ELSE thread[e]
  BY <1>2 DEF IInv, ThreadsFollow
<1>4. Resting.at = "resting" /\ "main" \in Thread /\ None \notin Thread
  BY NothingFacts DEF Thread, None
<1>5. \A e \in Document : e # d => generations'[e] = generations[e] /\ records'[e] = records[e]
  BY <1>2 DEF RemainingRecords, IInv, WorkFollows, RecordsFollow
<1>6. \A e \in Thread : thread[e].at # "submitting" /\ thread'[e].at # "submitting"
  BY <1>2, <1>3, <1>4 DEF IInv, ThreadsFollow, IsThread, Holds
<1>7. IsFiniteSet(Tracked)' /\ QueuedIsOfThis' /\ SubmittedIsNewest'
  BY <1>2, <1>6 DEF OwedInv, Tracked, QueuedIsOfThis, SubmittedIsNewest
<1>8. RootsOpen(thread["main"], documents)'
  BY <1>2, <1>3, <1>4 DEF OwedInv, RootsOpen
<1>9. ASSUME NEW e \in Document \ lost'
      PROVE  IF documents[e].open THEN Promised(e)' ELSE shown[e] = Nothing \/ Clears(e)'
  <2>1. /\ e # d /\ e \notin Abandoned(c)
        /\ IF documents[e].open THEN Promised(e) ELSE shown[e] = Nothing \/ Clears(e)
    BY <1>2, <1>9 DEF OwedInv, Owed
  <2>2. CASE documents[e].open
    <3>1. Reported(e) => Reported(e)'
      BY <1>2, <1>5, <2>1 DEF Reported
    <3>2. /\ Current(queued[DocumentRoot(e)], e) => Current(queued[DocumentRoot(e)], e)'
          /\ Current(running[DocumentRoot(e)], e) => Current(running[DocumentRoot(e)], e)'
      BY <1>2, <1>5, <2>1 DEF Current
    <3>3. ~ \E x \in Thread : SubmittedBy(x, e)
      BY <1>6 DEF SubmittedBy
    <3>4. Comes(e) => Comes(e)'
      <4>1. Comes(e) => c # "main"
        BY <1>1, <2>1 DEF Comes
      <4> QED
        BY <1>3, <1>4, <4>1 DEF Comes, Subject
    <3> QED
      BY <2>1, <2>2, <3>1, <3>2, <3>3, <3>4 DEF Promised
  <2>3. CASE ~documents[e].open
    <3>1. Clears(e) => c # "main"
      BY <2>1 DEF Clears, Abandoned
    <3> QED
      BY <1>3, <1>4, <2>1, <2>3, <3>1 DEF Clears
  <2> QED
    BY <2>2, <2>3
<1> QED
  BY <1>2, <1>7, <1>8, <1>9 DEF OwedInv, Owed

\* What a thread submits is queued, unless a newer version of it is already: then
\* the document has changed since it was described, and is next on the main thread.
LEMMA OwedSubmits == ASSUME IInv, OwedInv, NEW c \in Thread, Submit(c) PROVE OwedInv'
<1>1. PICK d, work : d = Subject(c) /\ work = thread[c].work
  OBVIOUS
<1>2. /\ thread[c].at = "submitting"
      /\ UNCHANGED <<documents, generations, records, unavailable, shown>>
  BY DEF Submit, clientVars, diagnosticsVars
<1>3. \A e \in Thread : e # c => thread[e].at # "submitting"
  BY <1>2 DEF IInv, ThreadsFollow, IsThread, Holds
<1>4. "main" \in Thread
  BY DEF Thread
<1>5. PICK t :
        /\ thread' = [thread EXCEPT ![c] = t] /\ t.at \in {"resting", "capturing", "next"}
        /\ \/ /\ lost' = lost \cup {d} \cup Abandoned(c) /\ t = Resting
              /\ UNCHANGED workVars
           \/ /\ lost' = lost
              /\ queued' = Queued(DocumentRoot(d), work)
              /\ running' = Runs(DocumentRoot(d), work)
              /\ t.at # "resting" /\ t.roots = Tail(thread[c].roots) /\ t.closing = thread[c].closing
  <2>1. CASE /\ lost' = lost \cup {Subject(c)} \cup Abandoned(c)
             /\ thread' = [thread EXCEPT ![c] = Resting]
             /\ UNCHANGED workVars
    BY <1>1, <2>1, NothingFacts
  <2>2. CASE /\ queued' = Queued(DocumentRoot(d), work)
             /\ running' = Runs(DocumentRoot(d), work)
             /\ thread' = [thread EXCEPT ![c] =
                  [at |-> IF @.validates THEN "capturing" ELSE "next",
                   roots |-> Tail(@.roots), closing |-> @.closing]]
             /\ UNCHANGED lost
    <3> DEFINE t == [at |-> IF thread[c].validates THEN "capturing" ELSE "next",
                     roots |-> Tail(thread[c].roots), closing |-> thread[c].closing]
    <3>1. thread' = [thread EXCEPT ![c] = t]
      BY <2>2 DEF IInv, ThreadsFollow
    <3>2. /\ t.at \in {"capturing", "next"}
          /\ t.roots = Tail(thread[c].roots) /\ t.closing = thread[c].closing
      OBVIOUS
    <3> HIDE DEF t
    <3> QED
      BY <2>2, <3>1, <3>2
  <2> QED
    BY <1>1, <2>1, <2>2 DEF Submit, Abandons
<1>6. \A e \in Thread : thread'[e] = IF e = c THEN t ELSE thread[e]
  BY <1>5 DEF IInv, ThreadsFollow
<1>7. \A e \in Thread : thread'[e].at # "submitting"
  BY <1>3, <1>5, <1>6
<1>8. IsFiniteSet(Tracked)' /\ SubmittedIsNewest' /\ lost \subseteq lost'
  BY <1>2, <1>5, <1>7 DEF OwedInv, Tracked, SubmittedIsNewest
<1>9. RootsOpen(thread["main"], documents)'
  <2>1. CASE c # "main"
    BY <1>2, <1>4, <1>6, <2>1 DEF OwedInv, RootsOpen
  <2>2. CASE c = "main" /\ t = Resting
    BY <1>4, <1>6, <2>2, NothingFacts DEF RootsOpen
  <2>3. CASE c = "main" /\ t.roots = Tail(thread[c].roots) /\ t.at # "closing"
    <3>1. PICK q : q = thread[c].roots
      OBVIOUS
    <3>2. q \in Seq(Document) /\ \A i \in DOMAIN q : documents[q[i]].open
      BY <1>2, <2>3, <3>1 DEF OwedInv, RootsOpen
    <3>3. CASE q = <<>>
      <4>1. Tail(q) = <<>>
        BY <3>3
      <4>2. <<>> \in Seq(Document) /\ DOMAIN <<>> = {}
        OBVIOUS
      <4>3. t.roots \in Seq(Document) /\ \A i \in DOMAIN t.roots : FALSE
        BY <2>3, <3>1, <4>1, <4>2
      <4>4. thread'["main"] = t
        BY <1>4, <1>6, <2>3
      <4> QED
        BY <2>3, <4>3, <4>4 DEF RootsOpen
    <3>4. CASE q # <<>>
      <4>1. Tail(q) \in Seq(Document) /\ \A i \in DOMAIN Tail(q) : documents[Tail(q)[i]].open
        BY <3>2, <3>4
      <4> QED
        BY <1>2, <1>4, <1>6, <2>3, <3>1, <4>1 DEF RootsOpen
    <3> QED
      BY <3>3, <3>4
  <2> QED
    BY <1>5, <2>1, <2>2, <2>3
<1>10. ASSUME Subject(c) \in Document
       PROVE  /\ work # NoWork /\ work.generation = generations[d] /\ work.live
              /\ documents[d].open /\ work.version \in 1 .. documents[d].version
              /\ \A w \in {queued[DocumentRoot(d)], running[DocumentRoot(d)]} :
                   w # NoWork => w.generation # generations[d]
  <2>1. /\ work # NoWork /\ TrueWork(work, documents[d], generations[d], texts)
    BY <1>1, <1>2, <1>10 DEF IInv, SubmissionsFollow
  <2>2. /\ work.generation = generations[d] /\ work.live
        /\ \A w \in {queued[DocumentRoot(d)], running[DocumentRoot(d)]} :
             w # NoWork => w.generation # generations[d]
    BY <1>1, <1>2, <1>10 DEF OwedInv, SubmittedIsNewest
  <2> QED
    BY <2>1, <2>2 DEF TrueWork
<1>11. ASSUME NEW e \in Document
       PROVE  /\ e # d => /\ queued'[DocumentRoot(e)] = queued[DocumentRoot(e)]
                          /\ running'[DocumentRoot(e)] = running[DocumentRoot(e)]
              /\ \/ queued'[DocumentRoot(e)] = queued[DocumentRoot(e)]
                 \/ e = d /\ queued'[DocumentRoot(e)] = work
  <2>1. DocumentRoot(e) \in Root /\ (e # d => DocumentRoot(e) # DocumentRoot(d))
    BY Roots, OtherRoots
  <2>2. /\ queued' = queued \/ queued' = [queued EXCEPT ![DocumentRoot(d)] = work]
        /\ running' = running \/ \E x : running' = [running EXCEPT ![DocumentRoot(d)] = x]
    BY <1>5 DEF Queued, Runs, Superseded, workVars
  <2> QED
    BY <2>1, <2>2 DEF IInv, WorkFollows
<1>12. QueuedIsOfThis'
  <2>1. ASSUME NEW e \in Document, queued'[DocumentRoot(e)] # NoWork
        PROVE  /\ documents[e].open
               /\ queued'[DocumentRoot(e)].version \in 1 .. documents[e].version
    BY <1>1, <1>10, <1>11, <2>1 DEF OwedInv, QueuedIsOfThis
  <2> QED
    BY <1>2, <2>1 DEF QueuedIsOfThis
<1>13. ASSUME NEW e \in Document \ lost'
       PROVE  IF documents[e].open THEN Promised(e)' ELSE shown[e] = Nothing \/ Clears(e)'
  <2>1. IF documents[e].open THEN Promised(e) ELSE shown[e] = Nothing \/ Clears(e)
    BY <1>8, <1>13 DEF OwedInv, Owed
  <2>2. \/ t = Resting /\ e # d /\ e \notin Abandoned(c)
        \/ /\ t.at # "resting" /\ t.closing = thread[c].closing
           /\ queued' = Queued(DocumentRoot(d), work)
    BY <1>5, <1>13
  <2>3. CASE documents[e].open
    <3>1. Reported(e) => Reported(e)'
      BY <1>2, ReportedStays
    <3>2. ASSUME Current(queued[DocumentRoot(e)], e) \/ Current(running[DocumentRoot(e)], e)
          PROVE  \/ Current(queued[DocumentRoot(e)], e)'
                 \/ Current(running[DocumentRoot(e)], e)'
      <4>1. e # d
        BY <1>1, <1>10, <3>2 DEF Current
      <4> QED
        BY <1>2, <1>11, <3>2, <4>1 DEF Current
    <3>3. ASSUME NEW x \in Thread, SubmittedBy(x, e)
          PROVE  Current(queued[DocumentRoot(e)], e)'
      <4>1. x = c /\ e = d /\ Current(work, d)
        BY <1>1, <1>3, <3>3 DEF SubmittedBy
      <4>2. ~Outdated(DocumentRoot(d), work)
        <5>1. documents[d].version \in Nat
          BY <4>1 DEF IInv, DocumentsAreTrue, IsDocument
        <5>2. queued[DocumentRoot(d)] # NoWork
                => queued[DocumentRoot(d)].version \in 1 .. documents[d].version
          BY <4>1 DEF OwedInv, QueuedIsOfThis
        <5>3. work.version = documents[d].version
          BY <4>1 DEF Current
        <5> QED
          BY <5>1, <5>2, <5>3 DEF Outdated
      <4>3. queued'[DocumentRoot(e)] = work
        BY <1>13, <2>2, <4>1, <4>2, Roots DEF Queued, IInv, WorkFollows
      <4> QED
        BY <1>2, <4>1, <4>3 DEF Current
    <3>4. Comes(e) => Comes(e)'
      <4>1. Comes(e) => c # "main"
        BY <1>2 DEF Comes
      <4> QED
        BY <1>4, <1>6, <4>1 DEF Comes, Subject
    <3> QED
      BY <2>1, <2>3, <3>1, <3>2, <3>3, <3>4 DEF Promised
  <2>4. CASE ~documents[e].open
    <3>1. Clears(e) => Clears(e)'
      BY <1>2, <1>4, <1>5, <1>6, <2>2 DEF Clears, Abandoned
    <3> QED
      BY <2>1, <2>4, <3>1
  <2> QED
    BY <2>3, <2>4
<1> QED
  BY <1>2, <1>8, <1>9, <1>12, <1>13 DEF OwedInv, Owed

LEMMA StepOwed == ASSUME IInv, OwedInv, [Next]_vars PROVE OwedInv'
<1>1. CASE ClientStep
  <2>1. ASSUME NEW d \in Editable, DidOpen(d) \/ DidChange(d) \/ DidClose(d) \/ Request(d)
        PROVE  OwedInv'
    BY <2>1, OwedTexts, OwedCloses, OwedBegins
  <2>2. CASE ChangeFile \/ DidChangeWatchedFiles
    BY <2>2, OwedPipeline, OwedBegins
  <2>3. ASSUME NEW c \in Thread, DidChangeActiveVariant(c) PROVE OwedInv'
    BY <2>3, OwedBegins
  <2> QED
    BY <1>1, <2>1, <2>2, <2>3 DEF ClientStep
<1>2. CASE ThreadStep
  <2>1. CASE CloseDocument \/ ClearDiagnostics
    BY <2>1, OwedClosing, OwedClears
  <2>2. ASSUME NEW c \in Thread,
               \/ RefuseClosed(c) \/ Describe(c) \/ DescribeFails(c) \/ Submit(c)
               \/ Finish(c) \/ Capture(c) \/ CaptureFails(c) \/ Register(c)
               \/ SubmitStage(c)
        PROVE  OwedInv'
    BY <2>2, OwedRefuses, OwedDescribes, OwedDescribeFails, OwedSubmits, OwedFinishes,
       OwedCaptureFails, OwedRegisters, OwedStages
  <2> QED
    BY <1>2, <2>1, <2>2 DEF ThreadStep
<1>3. CASE WorkStep
  <2>1. ASSUME NEW root \in Root, Begin(root) \/ Drop(root) \/ Forget(root) \/ Throw(root)
        PROVE  OwedInv'
    BY <2>1, OwedWorks
  <2>2. ASSUME NEW d \in Document, AnalysisCompleted(d) \/ AnalysisUnavailable(d) PROVE OwedInv'
    BY <2>2, OwedCompletes
  <2>3. ASSUME NEW d \in Document, StageCompleted(d) PROVE OwedInv'
    BY <2>3, OwedPipeline
  <2>4. CASE PublishValidation
    BY <2>4, OwedPipeline
  <2> QED
    BY <1>3, <2>1, <2>2, <2>3, <2>4 DEF WorkStep
<1>4. CASE UNCHANGED vars
  BY <1>4, OwedPipeline
<1> QED
  BY <1>1, <1>2, <1>3, <1>4 DEF Next

LEMMA OwedFollows == ASSUME IInv, OwedInv PROVE NothingIsOwed
<1>1. NewestIsReported
  <2> SUFFICES ASSUME Quiet, NEW d \in Document \ lost, documents[d].open
               PROVE  Reported(d)
    BY DEF NewestIsReported, Reported
  <2>1. Promised(d)
    BY DEF OwedInv, Owed
  <2>2. queued[DocumentRoot(d)] = NoWork /\ running[DocumentRoot(d)] = NoWork
    BY Roots DEF Quiet
  <2>3. \A c \in Thread : thread[c].at = "resting"
    BY NothingFacts DEF Quiet
  <2> QED
    BY <2>1, <2>2, <2>3 DEF Promised, Current, SubmittedBy, Comes, Thread
<1>2. ClosedShowsNothing
  BY NothingFacts DEF ClosedShowsNothing, OwedInv, Owed, Clears
<1> QED
  BY <1>1, <1>2 DEF NothingIsOwed

\* When all is quiet the newest analysis of every open document has been reported,
\* in whatever order analyses are superseded, end and fail while documents are
\* edited, closed and opened again, unless it was never described (the configuration
\* could not be read once the generation was raised), was refused or was pushed out
\* of the queue; and once did_close is over the client shows nothing of the document,
\* whatever comes late, unless an exception kept did_close from clearing it
\* (analyze_and_publish, analysis_completed, analysis_unavailable, did_close).
THEOREM NothingOwed == Spec => []NothingIsOwed
<1>1. Init => IInv /\ OwedInv
  BY InitDocuments, OwedInit
<1>2. IInv /\ OwedInv /\ [Next]_vars => (IInv /\ OwedInv)'
  BY StepDocuments, StepOwed
<1>3. IInv /\ OwedInv => NothingIsOwed
  BY OwedFollows
<1> QED
  BY <1>1, <1>2, <1>3, PTL DEF Spec

-----------------------------------------------------------------------------
(* The least of some numbers.                                             *)

LEMMA LeastNumber ==
  ASSUME NEW T, T \subseteq Nat, T # {}
  PROVE  \E n \in T : \A m \in T : n <= m
<1>1. PICK n \in T : \A m \in T : ~(<<m, n>> \in OpToRel(<, Nat))
  BY NatLessThanWellFounded, WFMin, Zenon
<1>2. ASSUME NEW m \in T PROVE n <= m
  <2>1. n \in Nat /\ m \in Nat
    OBVIOUS
  <2>2. ~(m < n)
    BY <1>1, <2>1 DEF OpToRel
  <2> QED
    BY <2>1, <2>2
<1> QED
  BY <1>2


-----------------------------------------------------------------------------
(* What a compiler reflects.  Classes and spaces are any values.           *)

IsRange(range) == range.base \in 0 .. MaxRegister /\ range.count \in Nat

\* A range that is not empty ends with the last register that is in it.
LEMMA RangesEnd ==
  ASSUME MaxRegister \in Nat, NEW range, IsRange(range)
  PROVE  /\ End(range) \in 0 .. MaxRegister
         /\ range.base <= End(range)
         /\ Occupied(range) = range.base .. End(range)
BY DEF IsRange, End, SafeEndRegister, Occupied

LEMMA OverlapIsShared ==
  ASSUME MaxRegister \in Nat, NEW first, NEW second, IsRange(first), IsRange(second)
  PROVE  RangesOverlap(first, second) <=> Occupied(first) \cap Occupied(second) # {}
<1>1. /\ first.base \in Nat /\ End(first) \in Nat /\ first.base <= End(first)
      /\ second.base \in Nat /\ End(second) \in Nat /\ second.base <= End(second)
  BY RangesEnd DEF IsRange
<1>2. CASE RangesOverlap(first, second)
  <2> DEFINE r == IF first.base <= second.base THEN second.base ELSE first.base
  <2>1. r \in first.base .. End(first) /\ r \in second.base .. End(second)
    BY <1>1, <1>2 DEF RangesOverlap
  <2> QED
    BY <1>2, <2>1, RangesEnd
<1>3. ASSUME NEW r, r \in Occupied(first) \cap Occupied(second)
      PROVE  RangesOverlap(first, second)
  <2>1. r \in first.base .. End(first) /\ r \in second.base .. End(second)
    BY <1>3, RangesEnd
  <2> QED
    BY <1>1, <2>1 DEF RangesOverlap
<1> QED
  BY <1>2, <1>3

\* Two resources of one class and space are reported to collide exactly if some
\* register is of both, however large they are and wherever they begin: the end of
\* a range never wraps around (resource_binding_analysis).
THEOREM CollisionsCorrect ==
  ASSUME MaxRegister \in Nat, NEW resources, \A i \in DOMAIN resources : IsRange(resources[i])
  PROVE  CollisionsAreOfRegisters(resources)
<1>1. ASSUME NEW i \in DOMAIN resources, NEW j \in DOMAIN resources
      PROVE  RangesOverlap(resources[i], resources[j])
               <=> Occupied(resources[i]) \cap Occupied(resources[j]) # {}
  BY OverlapIsShared
<1> QED
  BY <1>1 DEF CollisionsAreOfRegisters, Collisions, Collide

-----------------------------------------------------------------------------
(* Root signatures.                                                        *)

\* A resource of bounded size is within a range exactly if its registers are; of
\* an unbounded one the first is needed.
Needed(r) == IF r.count = 0 THEN {r.base} ELSE Occupied(r)

LEMMA CoversIsContains ==
  ASSUME MaxRegister \in Nat, NEW range, NEW r, IsRange(range), IsRange(r)
  PROVE  Covers(range, r) <=> Needed(r) \subseteq Occupied(range)
<1>1. /\ r.base \in Nat /\ End(r) \in Nat /\ r.base <= End(r) /\ Occupied(r) = r.base .. End(r)
      /\ range.base \in Nat /\ End(range) \in Nat /\ Occupied(range) = range.base .. End(range)
  BY RangesEnd DEF IsRange
<1> DEFINE last == IF r.count = 0 THEN r.base ELSE End(r)
<1>2. Needed(r) = r.base .. last /\ last \in Nat /\ r.base <= last
  <2>1. CASE r.count = 0
    <3>1. r.base .. r.base = {r.base}
      BY <1>1
    <3> QED
      BY <1>1, <2>1, <3>1 DEF Needed
  <2>2. CASE r.count # 0
    BY <1>1, <2>2 DEF Needed
  <2> QED
    BY <2>1, <2>2
<1>3. Covers(range, r) <=> range.base <= r.base /\ last <= End(range)
  <2> QED
    BY <1>1, <1>2 DEF Covers
<1> HIDE DEF last
<1>4. r.base .. last \subseteq range.base .. End(range)
        <=> range.base <= r.base /\ last <= End(range)
  BY <1>1, <1>2
<1> QED
  BY <1>1, <1>2, <1>3, <1>4

\* What the container and the caller may hold: ranges of any class and space, the
\* visibilities that a root signature has, and the stages that a profile names.
Ranges(Class, Space) ==
  [class : Class, space : Space, base : 0 .. MaxRegister, count : Nat]
GraphicsStages == {"vertex", "pixel", "geometry", "hull", "domain", "mesh", "amplification"}

IsParameter(parameter, Class, Space) ==
  /\ parameter.kind \in {"table", "descriptor", "constants", "static sampler"}
  /\ parameter.visibility \in {"all"} \cup GraphicsStages
  /\ parameter.ranges \in Seq(Ranges(Class, Space))
  /\ parameter.kind # "table" => parameter.ranges # <<>>

LEMMA ElementsAreOf ==
  ASSUME NEW T, NEW s \in Seq(T)
  PROVE  /\ \A i \in DOMAIN s : s[i] \in T
         /\ s # <<>> => 1 \in DOMAIN s
OBVIOUS

LEMMA ProvidedAreRanges ==
  ASSUME MaxRegister \in Nat, NEW Class, NEW Space, NEW q, IsParameter(q, Class, Space),
         NEW range \in ToSet(Provided(q))
  PROVE  IsRange(range)
<1>1. /\ \A i \in DOMAIN q.ranges : q.ranges[i] \in Ranges(Class, Space)
      /\ q.kind # "table" => 1 \in DOMAIN q.ranges
  BY ElementsAreOf DEF IsParameter
<1>2. CASE q.kind = "table"
  <2>1. Provided(q) = q.ranges
    BY <1>2 DEF Provided
  <2>2. PICK j \in DOMAIN q.ranges : range = q.ranges[j]
    BY <2>1 DEF ToSet
  <2> QED
    BY <1>1, <2>2 DEF Ranges, IsRange
<1>3. CASE q.kind # "table"
  <2> DEFINE first == q.ranges[1]
  <2>1. first \in Ranges(Class, Space)
    BY <1>1, <1>3
  <2>2. \/ Provided(q) = <<[first EXCEPT !.count = 1]>>
        \/ Provided(q) = <<[first EXCEPT !.count = 1, !.class = "cbv"]>>
        \/ Provided(q) = <<[first EXCEPT !.count = 1, !.class = "sampler"]>>
    BY <1>3 DEF Provided, IsParameter
  <2> HIDE DEF first
  <2>3. \/ range = [first EXCEPT !.count = 1]
        \/ range = [first EXCEPT !.count = 1, !.class = "cbv"]
        \/ range = [first EXCEPT !.count = 1, !.class = "sampler"]
    <3>1. \A x : ToSet(<<x>>) = {x}
      BY DEF ToSet
    <3> QED
      BY <2>2, <3>1
  <2>4. range.base = first.base /\ range.count = 1
    BY <2>1, <2>3 DEF Ranges
  <2> QED
    BY <2>1, <2>4 DEF Ranges, IsRange
<1> QED
  BY <1>2, <1>3

LEMMA ProvidersAreRanges ==
  ASSUME MaxRegister \in Nat, NEW Class, NEW Space, NEW parameters,
         \A i \in DOMAIN parameters : IsParameter(parameters[i], Class, Space),
         NEW p \in CollectProviders(parameters)
  PROVE  IsRange(p.range) /\ p.visibility \in {"all"} \cup GraphicsStages
<1>1. PICK i \in DOMAIN parameters : \E range \in ToSet(Provided(parameters[i])) :
        p = [range |-> range, visibility |-> parameters[i].visibility]
  BY DEF CollectProviders, ToSet
<1>2. PICK range \in ToSet(Provided(parameters[i])) :
        p = [range |-> range, visibility |-> parameters[i].visibility]
  BY <1>1
<1>3. IsRange(range)
  BY ProvidedAreRanges
<1> QED
  BY <1>2, <1>3 DEF IsParameter

\* What is visible to a stage is what the comparison takes for it.
LEMMA ActiveIsVisible ==
  ASSUME NEW visibility \in {"all"} \cup GraphicsStages,
         NEW stage \in GraphicsStages \cup {"compute", "library"}
  PROVE  VisibilityActive(visibility, stage)
           <=> visibility = "all" \/ stage \in {visibility, "library"}
BY DEF VisibilityActive, StageToVisibility, GraphicsStages

\* A shader is compatible with a root signature only if every register that it uses,
\* of an unbounded resource the first, is provided to its stage; and an issue tells
\* what is wrong: the registers are provided to other stages only, to none, or not by
\* one parameter in full (analyze_compatibility).
THEOREM CompatibilityCorrect ==
  ASSUME MaxRegister \in Nat, NEW Class, NEW Space,
         NEW resources, \A i \in DOMAIN resources : IsRange(resources[i]),
         \A i, j \in DOMAIN resources : resources[i].name = resources[j].name => i = j,
         NEW availability, NEW parameters,
         \A i \in DOMAIN parameters : IsParameter(parameters[i], Class, Space),
         NEW stage \in GraphicsStages \cup {"compute", "library"}
  PROVE  CompatibleMeansCovered(resources, availability, parameters, stage)
<1> DEFINE result == AnalyzeCompatibility(resources, availability, parameters, stage)
           issues == CompatibilityIssues(resources, parameters, stage)
           all == CollectProviders(parameters)
           user == {r \in ToSet(resources) : r.space # "reserved"}
           providers(r) == {p \in all : p.range.class = r.class /\ p.range.space = r.space}
           visible(r) == {p \in providers(r) :
                            p.visibility = "all" \/ stage \in {p.visibility, "library"}}
           covering(r) == {p \in providers(r) : Covers(p.range, r)}
           registers(ps) == UNION {Occupied(p.range) : p \in ps}
           issue(r) ==
             IF covering(r) # {} THEN "excluded"
             ELSE IF r.count # 0 /\ \E p \in providers(r) : RangesOverlap(p.range, r)
                  THEN "partial" ELSE "none"
           bad(r) == \A p \in covering(r) : ~VisibilityActive(p.visibility, stage)
<1>1. issues = {[name |-> r.name, says |-> issue(r)] : r \in {x \in user : bad(x)}}
  BY DEF CompatibilityIssues
<1>2. \A r \in user : IsRange(r)
  BY DEF ToSet
<1>3. \A r, q \in user : r.name = q.name => r = q
  BY DEF ToSet
<1>4. \A p \in all : IsRange(p.range)
                    /\ (VisibilityActive(p.visibility, stage)
                          <=> p.visibility = "all" \/ stage \in {p.visibility, "library"})
  BY ProvidersAreRanges, ActiveIsVisible
<1>5. \A r \in user, p \in all : Covers(p.range, r) <=> Needed(r) \subseteq Occupied(p.range)
  BY <1>2, <1>4, CoversIsContains
<1>6. result.issues \subseteq issues
      /\ (result.status = "compatible" => availability = "present" /\ issues = {})
  BY DEF AnalyzeCompatibility
<1> HIDE DEF result, issues, all, user
<1>7. ASSUME result.status = "compatible", NEW r \in user
      PROVE  Needed(r) \subseteq registers(visible(r))
  <2>1. ~ bad(r)
    <3>1. issues = {}
      BY <1>6, <1>7
    <3>2. ASSUME bad(r) PROVE [name |-> r.name, says |-> issue(r)] \in issues
      <4> HIDE DEF bad, issue
      <4> QED
        BY <1>1, <3>2
    <3> QED
      BY <3>1, <3>2
  <2>2. PICK p \in covering(r) : VisibilityActive(p.visibility, stage)
    BY <2>1
  <2>3. p \in visible(r) /\ Needed(r) \subseteq Occupied(p.range)
    BY <1>4, <1>5, <2>2
  <2> QED
    BY <2>3
<1>8. ASSUME NEW r \in user, NEW i \in result.issues, i.name = r.name
      PROVE  /\ i.says = "excluded" => Needed(r) \subseteq registers(providers(r))
             /\ i.says = "none" => Needed(r) \cap registers(providers(r)) = {}
             /\ ~ \E p \in visible(r) : Needed(r) \subseteq Occupied(p.range)
  <2>1. i.says = issue(r) /\ bad(r)
    <3>1. PICK q \in user : bad(q) /\ i = [name |-> q.name, says |-> issue(q)]
      BY <1>1, <1>6
    <3>2. q = r
      BY <1>3, <1>8, <3>1
    <3> QED
      BY <3>1, <3>2
  <2>2. ASSUME i.says = "excluded" PROVE Needed(r) \subseteq registers(providers(r))
    <3>1. PICK p \in providers(r) : Covers(p.range, r)
      BY <2>1, <2>2
    <3>2. Needed(r) \subseteq Occupied(p.range)
      BY <1>5, <3>1
    <3> QED
      BY <3>2
  <2>3. ASSUME i.says = "none", NEW p \in providers(r), NEW x \in Needed(r), x \in Occupied(p.range)
        PROVE  FALSE
    <3>1. covering(r) = {} /\ (r.count = 0 \/ ~RangesOverlap(p.range, r))
      BY <2>1, <2>3
    <3>2. CASE r.count = 0
      <4>1. Needed(r) \subseteq Occupied(p.range)
        BY <2>3, <3>2 DEF Needed
      <4> QED
        BY <1>5, <3>1, <4>1
    <3>3. CASE r.count # 0
      <4>1. Occupied(p.range) \cap Occupied(r) # {}
        BY <2>3, <3>3 DEF Needed
      <4> QED
        BY <1>2, <1>4, <3>1, <3>3, <4>1, OverlapIsShared
    <3> QED
      BY <3>2, <3>3
  <2>4. ASSUME NEW p \in visible(r), Needed(r) \subseteq Occupied(p.range) PROVE FALSE
    <3>1. p \in covering(r) /\ VisibilityActive(p.visibility, stage)
      BY <1>4, <1>5, <2>4
    <3> QED
      BY <2>1, <3>1
  <2> QED
    BY <2>2, <2>3, <2>4
<1> USE DEF result, all, user
<1> QED
  BY <1>6, <1>7, <1>8 DEF CompatibleMeansCovered, Needed

-----------------------------------------------------------------------------
(* Pipelines.  Semantics, types, components, modes, bindings and what a     *)
(* stage is are any values; outputs of a stage have semantics of their own, *)
(* and resources names.                                                     *)

IsStage(stage) ==
  /\ DOMAIN stage.outputs \subseteq Nat
  /\ \A i, j \in DOMAIN stage.outputs :
       stage.outputs[i].semantic = stage.outputs[j].semantic => i = j
  /\ \A r \in stage.resources :
       r = [name |-> r.name, binding |-> r.binding, declaration |-> r.declaration]
  /\ \A r, q \in stage.resources : r.name = q.name => r = q

\* What it is for an input to be given by the stage before.
Fits(output, input, consumer) ==
  /\ \A field \in {"semantic", "type", "system"} : output[field] = input[field]
  /\ \A component \in input.mask : component \in output.mask
  /\ consumer.kind = "pixel" =>
       /\ "unavailable" \notin {output.interpolation, input.interpolation}
       /\ \/ output.interpolation = input.interpolation
          \/ "undefined" \in {output.interpolation, input.interpolation}
Given(input, producer, consumer) ==
  \/ \E output \in ToSet(producer.outputs) : Fits(output, input, consumer)
  \/ /\ \A output \in ToSet(producer.outputs) : output.semantic # input.semantic
     /\ GeneratedSystemValue(input, producer.kind, consumer.kind)

\* The output that is found is the only one of the semantic.
LEMMA InputIsGiven ==
  ASSUME NEW producer, NEW consumer, IsStage(producer), IsStage(consumer),
         NEW input \in ToSet(consumer.inputs), ~InterpolationUnavailable(producer, consumer)
  PROVE  InputIssues(input, producer, consumer) = {} <=> Given(input, producer, consumer)
<1> DEFINE found == {i \in DOMAIN producer.outputs :
                       producer.outputs[i].semantic = input.semantic}
<1>1. \A output : Fits(output, input, consumer) =>
        /\ output.semantic = input.semantic
        /\ output.type = input.type
        /\ output.system = input.system
  BY DEF Fits
<1>3. CASE found = {}
  <2>1. \A output \in ToSet(producer.outputs) : output.semantic # input.semantic
    BY <1>3 DEF ToSet
  <2>2. \A output \in ToSet(producer.outputs) : ~Fits(output, input, consumer)
    BY <1>1, <2>1
  <2>3. InputIssues(input, producer, consumer) = {}
          <=> GeneratedSystemValue(input, producer.kind, consumer.kind)
    BY <1>3 DEF InputIssues
  <2> QED
    BY <2>1, <2>2, <2>3 DEF Given
<1>4. ASSUME NEW k, k \in found
      PROVE  InputIssues(input, producer, consumer) = {} <=> Given(input, producer, consumer)
  <2> DEFINE output == producer.outputs[k]
  <2>1. k \in DOMAIN producer.outputs /\ output \in ToSet(producer.outputs)
        /\ output.semantic = input.semantic
    BY <1>4 DEF ToSet
  <2>2. \A i \in found : i = k
    BY <1>4 DEF IsStage
  <2>3. found = {k} /\ k \in Nat
    BY <1>4, <2>1, <2>2 DEF IsStage
  <2>4. Min(found) = k
    BY <2>3 DEF Min
  <2>5. Given(input, producer, consumer) <=> Fits(output, input, consumer)
    <3>1. \A o \in ToSet(producer.outputs) : Fits(o, input, consumer) => o = output
      <4>1. SUFFICES ASSUME NEW o \in ToSet(producer.outputs), Fits(o, input, consumer)
                     PROVE  o = output
        OBVIOUS
      <4>2. o.semantic = input.semantic
        BY <1>1, <4>1
      <4>3. PICK i \in DOMAIN producer.outputs : o = producer.outputs[i]
        BY DEF ToSet
      <4>4. i \in found
        BY <4>2, <4>3
      <4> QED
        BY <2>2, <4>3, <4>4
    <3> QED
      BY <2>1, <3>1 DEF Given
  <2>6. InputIssues(input, producer, consumer)
          = (IF output.type # input.type THEN {"type"} ELSE {})
            \cup (IF Provides(output, input) THEN {} ELSE {"mask"})
            \cup (IF output.system # input.system THEN {"system"} ELSE {})
            \cup (IF consumer.kind = "pixel" /\ InterpolationsDiffer(output, input)
                  THEN {"interpolation"} ELSE {})
    BY <1>4, <2>4 DEF InputIssues
  <2>7. consumer.kind = "pixel" =>
          output.interpolation # "unavailable" /\ input.interpolation # "unavailable"
    BY <2>1 DEF InterpolationUnavailable
  <2>8. Fits(output, input, consumer) <=>
          /\ output.type = input.type
          /\ output.system = input.system
          /\ input.mask \subseteq output.mask
          /\ consumer.kind = "pixel" =>
               \/ output.interpolation = input.interpolation
               \/ "undefined" \in {output.interpolation, input.interpolation}
    BY <2>1, <2>7 DEF Fits
  <2> HIDE DEF output
  <2>9. InputIssues(input, producer, consumer) = {} <=>
          /\ output.type = input.type
          /\ output.system = input.system
          /\ input.mask \subseteq output.mask
          /\ ~(consumer.kind = "pixel" /\ InterpolationsDiffer(output, input))
    BY <2>6 DEF Provides
  <2>10. consumer.kind = "pixel" =>
           (InterpolationsDiffer(output, input) <=>
              ~ \/ output.interpolation = input.interpolation
                \/ "undefined" \in {output.interpolation, input.interpolation})
    BY <2>7 DEF InterpolationsDiffer
  <2> QED
    BY <2>5, <2>8, <2>9, <2>10
<1> QED
  BY <1>3, <1>4

HandedOver(producer, consumer) ==
  /\ ~(producer.kind = "hull" /\ consumer.kind = "domain")
  /\ \A input \in ToSet(consumer.inputs) : Given(input, producer, consumer)
  /\ consumer.kind = "pixel" =>
       \A p \in ToSet(producer.outputs) \cup ToSet(consumer.inputs) :
         p.interpolation # "unavailable"

LEMMA InterfaceIsJudged ==
  ASSUME NEW stages, NEW i, IsStage(stages[i]), IsStage(stages[i + 1]),
         stages[i].reflected, stages[i + 1].reflected
  PROVE  InterfaceIssues(stages, i) = {} <=> HandedOver(stages[i], stages[i + 1])
<1> DEFINE producer == stages[i]
           consumer == stages[i + 1]
           said == (IF InterpolationUnavailable(producer, consumer) THEN {"unavailable"} ELSE {})
                     \cup UNION {InputIssues(input, producer, consumer) :
                                   input \in ToSet(consumer.inputs)}
<1>1. CASE producer.kind = "hull" /\ consumer.kind = "domain"
  BY <1>1 DEF InterfaceIssues, HandedOver
<1>2. CASE ~(producer.kind = "hull" /\ consumer.kind = "domain")
  <2>1. InterfaceIssues(stages, i) = {<<issue, i, i + 1>> : issue \in said}
    BY <1>2 DEF InterfaceIssues
  <2>2. InterfaceIssues(stages, i) = {} <=> said = {}
    <3> HIDE DEF said
    <3> QED
      BY <2>1
  <2>3. said = {} <=> /\ ~InterpolationUnavailable(producer, consumer)
                      /\ \A input \in ToSet(consumer.inputs) :
                           InputIssues(input, producer, consumer) = {}
    OBVIOUS
  <2>4. InterpolationUnavailable(producer, consumer) <=>
          ~(consumer.kind = "pixel" =>
              \A p \in ToSet(producer.outputs) \cup ToSet(consumer.inputs) :
                p.interpolation # "unavailable")
    BY DEF InterpolationUnavailable
  <2>5. ASSUME ~InterpolationUnavailable(producer, consumer),
               NEW input \in ToSet(consumer.inputs)
        PROVE  InputIssues(input, producer, consumer) = {} <=> Given(input, producer, consumer)
    BY <2>5, InputIsGiven
  <2> HIDE DEF said, producer, consumer
  <2>6. said = {} <=> HandedOver(producer, consumer)
    BY <1>2, <2>3, <2>4, <2>5 DEF HandedOver
  <2> QED
    BY <2>2, <2>6 DEF producer, consumer
<1> QED
  BY <1>1, <1>2

\* What stages have in common.
Shared(stages) ==
  \A i, j \in DOMAIN stages : \A r \in stages[i].resources, q \in stages[j].resources :
    r.name = q.name => r = q

LEMMA ResourcesAreJudged ==
  ASSUME NEW stages, NEW n \in Nat, DOMAIN stages = 1 .. n,
         \A i \in DOMAIN stages : IsStage(stages[i]) /\ stages[i].reflected
  PROVE  ResourceIssues(stages) = {} <=> Shared(stages)
<1> DEFINE named(name) == {i \in DOMAIN stages : stages[i].reflected
                                              /\ \E r \in stages[i].resources : r.name = name}
           first(name) == CHOOSE i \in named(name) : \A j \in named(name) : i <= j
           of(i, name) == CHOOSE r \in stages[i].resources : r.name = name
           names == UNION {{r.name : r \in stages[i].resources} : i \in DOMAIN stages}
           differ(name, issue) ==
             {j \in named(name) : of(j, name)[issue] # of(first(name), name)[issue]}
           cell(name, issue) == {<<issue, first(name), i>> : i \in differ(name, issue)}
<1>1. ResourceIssues(stages) =
        UNION {cell(x, issue) : x \in names, issue \in {"binding", "declaration"}}
  BY DEF ResourceIssues
<1>2. ASSUME NEW x \in names
      PROVE  first(x) \in named(x) /\ named(x) \subseteq DOMAIN stages
  <2>1. named(x) \subseteq Nat /\ named(x) # {}
    OBVIOUS
  <2>2. \E i \in named(x) : \A j \in named(x) : i <= j
    <3> HIDE DEF named
    <3> QED
      BY <2>1, LeastNumber
  <2> QED
    BY <2>2
<1>3. ASSUME NEW i \in DOMAIN stages, NEW r \in stages[i].resources
      PROVE  i \in named(r.name) /\ of(i, r.name) = r /\ r.name \in names
  BY <1>3 DEF IsStage
<1>4. ASSUME NEW x \in names, NEW i \in named(x)
      PROVE  of(i, x) \in stages[i].resources /\ of(i, x).name = x
  OBVIOUS
<1>5. \A i \in DOMAIN stages : \A r \in stages[i].resources :
        r = [name |-> r.name, binding |-> r.binding, declaration |-> r.declaration]
  BY DEF IsStage
<1> HIDE DEF named, first, of, names
<1>6. ResourceIssues(stages) = {} <=>
        \A x \in names, issue \in {"binding", "declaration"} : differ(x, issue) = {}
  <2> HIDE DEF differ, cell
  <2>1. ASSUME ResourceIssues(stages) = {},
               NEW x \in names, NEW issue \in {"binding", "declaration"}
        PROVE  differ(x, issue) = {}
    <3>1. cell(x, issue) \subseteq ResourceIssues(stages)
      BY <1>1
    <3>2. \A i \in differ(x, issue) : <<issue, first(x), i>> \in cell(x, issue)
      BY DEF cell
    <3> QED
      BY <2>1, <3>1, <3>2
  <2>2. ASSUME \A x \in names, issue \in {"binding", "declaration"} : differ(x, issue) = {}
        PROVE  ResourceIssues(stages) = {}
    BY <1>1, <2>2 DEF cell
  <2> QED
    BY <2>1, <2>2
<1>7. ASSUME ResourceIssues(stages) = {} PROVE Shared(stages)
  <2>1. SUFFICES ASSUME NEW i \in DOMAIN stages, NEW j \in DOMAIN stages,
                        NEW r \in stages[i].resources, NEW q \in stages[j].resources,
                        r.name = q.name
                 PROVE  r = q
    BY DEF Shared
  <2> DEFINE x == r.name
             f == of(first(x), x)
  <2>2. /\ x \in names /\ i \in named(x) /\ j \in named(x) /\ of(i, x) = r /\ of(j, x) = q
    BY <1>3, <2>1
  <2>3. \A issue \in {"binding", "declaration"} : r[issue] = f[issue] /\ q[issue] = f[issue]
    BY <1>6, <1>7, <2>2
  <2>4. r.binding = q.binding /\ r.declaration = q.declaration
    BY <2>3
  <2> QED
    BY <1>5, <2>1, <2>4
<1>8. ASSUME Shared(stages) PROVE ResourceIssues(stages) = {}
  <2>1. SUFFICES ASSUME NEW x \in names, NEW i \in named(x) PROVE of(i, x) = of(first(x), x)
    BY <1>6
  <2>2. first(x) \in named(x) /\ named(x) \subseteq DOMAIN stages
    BY <1>2
  <2> QED
    BY <1>4, <1>8, <2>2 DEF Shared
<1> QED
  BY <1>7, <1>8

\* A pipeline has no issue exactly if every stage is known, is given what it reads and
\* shares what it has in common with the others, for any number of stages with any
\* signatures and resources (validate_pipeline).
THEOREM PipelineCorrect ==
  ASSUME NEW stages, NEW expected, NEW n \in Nat, DOMAIN stages = 1 .. n, Len(stages) = n,
         \A i \in DOMAIN stages : IsStage(stages[i])
  PROVE  PipelineFits(stages, expected)
<1> DEFINE known == \A i \in DOMAIN stages : stages[i].compiled /\ stages[i].reflected
           unknown == {<<"unavailable", i, i>> : i \in {j \in DOMAIN stages :
                                           ~stages[j].compiled \/ ~stages[j].reflected}}
           handed == UNION {InterfaceIssues(stages, i) : i \in 1 .. n - 1}
<1>1. PipelineFits(stages, expected) <=>
        (ValidatePipeline(stages, expected) = {} <=>
           /\ n = expected /\ known
           /\ \A i \in 1 .. n - 1 : HandedOver(stages[i], stages[i + 1])
           /\ Shared(stages))
  BY DEF PipelineFits, HandedOver, Given, Fits, Shared
<1>2. CASE n # expected
  BY <1>1, <1>2 DEF ValidatePipeline
<1>3. CASE n = expected
  <2>1. ValidatePipeline(stages, expected) = unknown \cup handed \cup ResourceIssues(stages)
    BY <1>3 DEF ValidatePipeline
  <2>2. unknown = {} <=> known
    <3>1. \A i \in DOMAIN stages : ~stages[i].compiled \/ ~stages[i].reflected
                                     => <<"unavailable", i, i>> \in unknown
      OBVIOUS
    <3> QED
      BY <3>1
  <2>3. CASE ~known
    BY <1>1, <2>1, <2>2, <2>3
  <2>4. CASE known
    <3>1. ResourceIssues(stages) = {} <=> Shared(stages)
      BY <2>4, ResourcesAreJudged
    <3>2. ASSUME NEW i \in 1 .. n - 1
          PROVE  InterfaceIssues(stages, i) = {} <=> HandedOver(stages[i], stages[i + 1])
      <4>1. i \in DOMAIN stages /\ i + 1 \in DOMAIN stages
        OBVIOUS
      <4> QED
        BY <2>4, <4>1, InterfaceIsJudged
    <3>3. handed = {} <=> \A i \in 1 .. n - 1 : InterfaceIssues(stages, i) = {}
      OBVIOUS
    <3> HIDE DEF known, unknown, handed
    <3> QED
      BY <1>1, <1>3, <2>1, <2>2, <2>4, <3>1, <3>2, <3>3
  <2> QED
    BY <2>3, <2>4
<1> QED
  BY <1>2, <1>3

=============================================================================
