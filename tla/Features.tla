------------------------------ MODULE Features ------------------------------
(***************************************************************************)
(* The language feature requests of src/src/lsp/server.cpp and what keeps  *)
(* their answers fresh.  A handler is a sequence of steps: it takes a      *)
(* snapshot of a document, submits an analysis, asks the analysis manager, *)
(* reads texts to turn offsets into ranges, and in between tests that      *)
(* nothing it used was replaced.  The main thread meanwhile edits, saves,  *)
(* closes and configures.  What an answer says is left out: it stands for  *)
(* the analyses and the texts it was made from.                            *)
(*                                                                         *)
(* The manager is what Scheduler.tla and Manager.tla make of it: one       *)
(* pending analysis per root, which a newer one replaces in place, and     *)
(* queries behind it.  The shader includes the header; either is a root.   *)
(*                                                                         *)
(* The session is the part between the answer to `initialize` and the      *)
(* `shutdown` request: state_ is State::running.  Both are served by the   *)
(* main thread between two notifications, and no notification is accepted  *)
(* before or after (require_running), so that what a handler below tests   *)
(* of state_ is so from its first step to its last.                        *)
(***************************************************************************)
EXTENDS Integers, Sequences, FiniteSets, SequencesExt

CONSTANTS
  Shader, Header, \* the documents
  Served,         \* the handlers that requests arrive for
  Requested,      \* the documents that they are about
  First,          \* the one whose identity is sorted before the other's
  RefreshSupport, \* client_inlay_hint_refresh_, which the client sets in
                  \* `initialize`, and request_sender_, which the constructor does
  MaxEvents,      \* bound: how many notifications, crashes and full queues
  MaxRequests     \* bound: how many requests arrive

ASSUME FeaturesAssumption ==
  /\ Shader # Header
  /\ Requested \subseteq {Shader, Header}
  /\ First \in {Shader, Header}
  /\ RefreshSupport \in BOOLEAN
  /\ {MaxEvents, MaxRequests} \subseteq Nat

Document == {Shader, Header}
Closure(d) == IF d = Shader THEN Document ELSE {d}
None == [none |-> TRUE]

-----------------------------------------------------------------------------
(* The handlers.  Steps that stand for a call of the manager: "ask" for a  *)
(* plain result, "tag" for one that comes with its content generation,     *)
(* "itemTag" and "ownTag" for one that must be of the generation of the    *)
(* item, "confirm" and "content" for the content generation alone.         *)

Completion == <<"open", "analyze", "ask", "version">>

\* An include directive is resolved without the manager.
Definition == <<"open", "settings", "analyze", "ask", "version", "texts">>

\* Every root that depends on the file of the target is asked.
FindReferences ==
  <<"open", "analyze", "ask", "someRoots",
    "root", "analyze", "ask", "rootVersion", "again", "rootVersion">>
References == FindReferences \o <<"texts">>
PrepareRename == FindReferences
Rename == FindReferences \o <<"texts">>

\* The item is built from live texts, and everything is tested again.
PrepareCallHierarchy ==
  <<"open", "analyze", "tag", "version", "texts", "version", "content", "current">>

\* The root of the item must be open at the version of the item; the item is
\* resolved again, and must still be of the generation it was made from.
ValidateItem == <<"item", "itemTag">>

OutgoingCalls ==
  <<"item", "analyzeItem">> \o ValidateItem \o
  <<"itemTag", "version", "texts", "content", "current">>

\* All roots are asked, and all of them are tested again once the answer has
\* been built.
IncomingCalls ==
  <<"item", "analyze">> \o ValidateItem \o
  <<"allRoots", "root", "analyze", "ownTag", "rootVersion", "again",
    "texts", "queried", "content", "current", "again">>

EntryPointDataFlow ==
  <<"open", "analyze", "tag", "version", "texts", "content", "current">>

\* Information, layout and, for clients with command links, a macro.  Fault:
\* the version is all that is tested.
HoverOfVersion == <<"open", "analyze", "ask", "ask", "version">>
Hover == <<"open", "analyze", "ask", "ask", "generation">>
HoverWithLinks == <<"open", "analyze", "ask", "ask", "tag", "confirm", "generation">>

MemoryLayout == <<"open", "analyze", "ask", "generation">>
MacroExpansion == <<"open", "analyze", "tag", "confirm", "generation", "texts">>

\* Describes what the last submission analysed, and submits none.
CommandContext == <<"open", "submitted", "ask", "tag", "tag", "confirm", "generation">>

PreprocessorExplorer == <<"open", "settings", "analyzeSettings", "ask", "ask", "generation">>
CompilationInfo == <<"open", "analyze", "ask", "generation", "texts", "generation">>
EffectiveContext == <<"open", "settings", "revision">>
ComputeVisualization ==
  <<"open", "analyze", "tag", "version", "texts", "content", "current">>
SignatureHelp == <<"open", "analyze", "ask", "version">>

\* Tested while the ranges are cut, and after the query.
InlayHints == <<"open", "settings", "analyze", "hints", "ask", "hints">>

DocumentSymbols == <<"open", "analyze", "ask", "version">>
\* A root that has changed since it was listed is passed over.
WorkspaceSymbols ==
  <<"allRoots", "root", "listed", "analyze", "ask", "version", "again">>
SemanticTokens == <<"open", "analyze", "ask", "version">>

Plan ==
  [completion |-> Completion, definition |-> Definition,
   references |-> References, prepareRename |-> PrepareRename,
   rename |-> Rename, prepareCallHierarchy |-> PrepareCallHierarchy,
   outgoingCalls |-> OutgoingCalls, incomingCalls |-> IncomingCalls,
   entryPointDataFlow |-> EntryPointDataFlow, hover |-> Hover,
   hoverWithLinks |-> HoverWithLinks, memoryLayout |-> MemoryLayout,
   macroExpansion |-> MacroExpansion, commandContext |-> CommandContext,
   preprocessorExplorer |-> PreprocessorExplorer,
   compilationInfo |-> CompilationInfo, effectiveContext |-> EffectiveContext,
   computeVisualization |-> ComputeVisualization,
   signatureHelp |-> SignatureHelp, inlayHints |-> InlayHints,
   documentSymbols |-> DocumentSymbols, workspaceSymbols |-> WorkspaceSymbols,
   semanticTokens |-> SemanticTokens]

\* Requests arrive for the handlers that are registered.
ASSUME ServedAssumption == Served \subseteq DOMAIN Plan

\* Those that are about an item of the call hierarchy.
OfItem == {"outgoingCalls", "incomingCalls"}

-----------------------------------------------------------------------------
VARIABLES
  documents,     \* documents_: open, version, the buffer, the text on disk
  configuration, \* what the clients' settings come to: a label, arguments
  revision,      \* effective_context_revision_
  hintGeneration,\* inlay_hint_generation_
  generations,   \* analysis_generations_
  submissions,   \* analysis_submissions_
  tracked,       \* the version in the manager's metadata of a root, or 0
  pending,       \* the pending analysis of each root
  built,         \* its translation unit: the analysis, its content generation
  contents,      \* generation_counter of the manager
  main,          \* what the main thread is doing
  request,       \* what the executor thread is doing
  hints,         \* the inlay hints that the client shows
  refreshes,     \* how many workspace/inlayHint/refresh it was sent
  forgotten,     \* the roots an analysis of which was pushed out of the queue
  texts, events, requests \* counted towards their bounds

clientVars == <<documents, texts>>
stateVars == <<configuration, revision, hintGeneration>>
submissionVars == <<generations, submissions>>
managerVars == <<tracked, pending, built, contents, forgotten>>
shownVars == <<hints, refreshes, requests>>
vars == <<clientVars, events, stateVars, submissionVars, managerVars, main, request, shownVars>>

\* What differs is the effective context or the compiler's arguments.
Configuration == {c \in [label : 0 .. 1, arguments : 0 .. 1] : c.label + c.arguments < 2}

\* What resolve_includes reads: the buffers of open documents, else the disk.
Source(d) == IF documents[d].open THEN documents[d].text ELSE documents[d].disk

\* The input of an analysis that is submitted now.
Input(d) ==
  [version |-> documents[d].version, sources |-> [x \in Closure(d) |-> Source(x)],
   configuration |-> configuration]

\* The cache key of two inputs of a root is the same.
SameUnit(i, j) ==
  /\ i.version = j.version
  /\ i.sources = j.sources
  /\ i.configuration.arguments = j.configuration.arguments

Resting == [at |-> "resting"]
Idle == [at |-> "idle"]
NoHints == None
NoSubmission == [generation |-> 0, label |-> 0]

-----------------------------------------------------------------------------
(* The analysis manager.                                                   *)

Happens == events < MaxEvents /\ events' = events + 1

\* An analysis is done; a query behind it is not any more.
Parse(d) ==
  /\ pending[d] # None
  /\ IF built[d] # None /\ SameUnit(built[d].input, pending[d])
     THEN /\ built' = [built EXCEPT ![d].input = pending[d]]
          /\ UNCHANGED contents
     ELSE /\ built' = [built EXCEPT ![d] = [input |-> pending[d], content |-> contents + 1]]
          /\ contents' = contents + 1
  /\ pending' = [pending EXCEPT ![d] = None]
  /\ request' = IF request.at = "asking" /\ request.root = d
                THEN [request EXCEPT !.behind = FALSE] ELSE request
  /\ UNCHANGED <<clientVars, events, stateVars, submissionVars, tracked, forgotten,
                 main, shownVars>>

\* A worker was lost, and a recovery parses the same input again.
Rebuild(d) ==
  /\ Happens
  /\ built[d] # None
  /\ contents' = contents + 1
  /\ built' = [built EXCEPT ![d].content = contents + 1]
  /\ UNCHANGED <<clientVars, stateVars, submissionVars, tracked, pending,
                 forgotten, main, request, shownVars>>

\* Queries of other roots push a pending analysis out of a full queue.
Forget(d) ==
  /\ Happens
  /\ pending[d] # None
  /\ forgotten' = forgotten \cup {d}
  /\ pending' = [pending EXCEPT ![d] = None]
  /\ request' = IF request.at = "asking" /\ request.root = d
                THEN [request EXCEPT !.behind = FALSE] ELSE request
  /\ UNCHANGED <<clientVars, stateVars, submissionVars, tracked, built, contents,
                 main, shownVars>>

\* What a submission changes in the manager.
Accepts(d, input) ==
  /\ pending' = [pending EXCEPT ![d] = input]
  /\ tracked' = [tracked EXCEPT ![d] = input.version]
  /\ UNCHANGED <<built, contents, forgotten>>

-----------------------------------------------------------------------------
(* The main thread: notifications.  Each changes the state of the server,  *)
(* then invalidates the inlay hints, submits the roots it affects one      *)
(* after the other, and at last asks the client to refresh its hints.      *)

Arrives == Happens /\ main = Resting

\* The open roots other than d that include it.
Affected(d) == SetToSeq({x \in Document \ {d} : documents[x].open /\ d \in Closure(x)})
OpenDocuments == SetToSeq({d \in Document : documents[d].open})

\* Fault: the client is not told.
ChangedQuietly(roots) == [at |-> "invalidate", roots |-> roots, input |-> None, refresh |-> FALSE]
Changed(roots) == [at |-> "invalidate", roots |-> roots, input |-> None, refresh |-> TRUE]
Unaltered(roots) == [at |-> "submit", roots |-> roots, input |-> None, refresh |-> FALSE]

Keeps == UNCHANGED <<submissionVars, managerVars, request, shownVars>>

\* With the text on disk, or one the client restored.
DidOpen(d) ==
  /\ Arrives
  /\ ~documents[d].open
  /\ \E text \in {documents[d].disk, texts + 1} :
       documents' = [documents EXCEPT ![d].open = TRUE, ![d].version = 1,
                                      ![d].text = text]
  /\ texts' = texts + 1
  /\ main' = Changed(<<d>> \o Affected(d))
  /\ UNCHANGED stateVars /\ Keeps

DidChange(d) ==
  /\ Arrives
  /\ documents[d].open
  /\ documents' = [documents EXCEPT ![d].version = @ + 1, ![d].text = texts + 1]
  /\ texts' = texts + 1
  /\ main' = Changed(<<d>> \o Affected(d))
  /\ UNCHANGED stateVars /\ Keeps

DidSave(d) ==
  /\ Arrives
  /\ documents[d].open
  /\ documents' = [documents EXCEPT ![d].disk = documents[d].text]
  /\ main' = Changed(<<d>> \o Affected(d))
  /\ UNCHANGED <<texts, stateVars>> /\ Keeps

\* The generation of a closed document moves on.  Fault: it is erased.
Erased(d) == generations' = [generations EXCEPT ![d] = 0]
Superseded(d) == generations' = [generations EXCEPT ![d] = @ + 1]

\* The document keeps its buffer in the store, and its submission.
DidClose(d) ==
  /\ Arrives
  /\ documents[d].open
  /\ documents' = [documents EXCEPT ![d].open = FALSE]
  /\ Superseded(d)
  /\ tracked' = [tracked EXCEPT ![d] = 0]
  /\ pending' = [pending EXCEPT ![d] = None]
  /\ built' = [built EXCEPT ![d] = None]
  /\ request' = IF request.at = "asking" /\ request.root = d THEN Idle ELSE request
  /\ main' = Changed(Affected(d))
  /\ UNCHANGED <<texts, stateVars, submissions, contents, forgotten, shownVars>>

\* The revision counts changed configurations.
Reconfigures(c) ==
  /\ configuration' = c
  /\ revision' = IF c = configuration THEN revision ELSE revision + 1

\* Settings are applied, and everything is analysed, even if nothing changed.
Applies(c) ==
  /\ Arrives
  /\ Reconfigures(c)
  /\ main' = IF c = configuration THEN Unaltered(OpenDocuments)
             ELSE Changed(OpenDocuments)
  /\ UNCHANGED <<documents, texts, hintGeneration>> /\ Keeps

DidChangeConfiguration == \E c \in Configuration : Applies(c)
DidChangeClientDefaults ==
  \E c \in {x \in Configuration : x.label = configuration.label} : Applies(c)
DidChangeWorkspaceFolders == \E c \in Configuration : Applies(c)

\* Another variant has another name, whatever it does to the arguments; the
\* same variant again changes nothing.
DidChangeActiveVariant ==
  \E c \in {x \in Configuration : x.label # configuration.label} : Applies(c)

\* Fault: the hints are not invalidated.
ForgetToInvalidate ==
  /\ main.at = "invalidate"
  /\ main' = [main EXCEPT !.at = "submit"]
  /\ UNCHANGED <<clientVars, events, stateVars, submissionVars, managerVars, request, shownVars>>
InvalidateHints ==
  /\ main.at = "invalidate"
  /\ hintGeneration' = hintGeneration + 1
  /\ main' = [main EXCEPT !.at = "submit"]
  /\ UNCHANGED <<clientVars, events, configuration, revision, submissionVars, managerVars,
                 request, shownVars>>

\* analyze_and_publish, which holds analysis_submission_mutex_ from here to
\* RecordSubmission.
BeginSubmission ==
  /\ main.at = "submit"
  /\ main.roots # <<>>
  /\ LET d == Head(main.roots) IN
       /\ generations' = [generations EXCEPT ![d] = @ + 1]
       /\ main' = [main EXCEPT !.at = "accept", !.input = Input(d)]
  /\ UNCHANGED <<clientVars, events, stateVars, submissions, managerVars, request, shownVars>>

AcceptSubmission ==
  /\ main.at = "accept"
  /\ Accepts(Head(main.roots), main.input)
  /\ main' = [main EXCEPT !.at = "record"]
  /\ UNCHANGED <<clientVars, events, stateVars, submissionVars, request, shownVars>>

RecordSubmission ==
  /\ main.at = "record"
  /\ LET d == Head(main.roots) IN
       submissions' = [submissions EXCEPT ![d] =
         [generation |-> generations[d], label |-> main.input.configuration.label]]
  /\ main' = [main EXCEPT !.at = "submit", !.roots = Tail(@), !.input = None]
  /\ UNCHANGED <<clientVars, events, stateVars, generations, managerVars, request, shownVars>>

\* finalize_inlay_hint_refresh asks a client that can be asked.
Refreshing == main.refresh /\ RefreshSupport

RefreshHints ==
  /\ main.at = "submit"
  /\ main.roots = <<>>
  /\ refreshes' = IF Refreshing THEN refreshes + 1 ELSE refreshes
  /\ main' = Resting
  /\ UNCHANGED <<clientVars, events, stateVars, submissionVars, managerVars, request, hints,
                 requests>>

-----------------------------------------------------------------------------
(* The executor thread: one request at a time.                             *)

\* An item of the call hierarchy that the client was given at first.
Item ==
  [root |-> Shader, version |-> 1, content |-> 1, label |-> 0,
   sources |-> [d \in Document |-> 1]]

\* A request as it arrives: root is the one it is at, left are those its loop
\* has still to visit.  Kept for the properties: the texts, and whether at that
\* moment all that had been asked was current.
Arrived(handler, d) ==
  [at |-> "serving", plan |-> Plan[handler], step |-> 1, document |-> d, root |-> d,
   left |-> {}, listed |-> None, snapshots |-> [x \in {} |-> None],
   configuration |-> None, revision |-> 0, hintGeneration |-> 0,
   submitted |-> [x \in {} |-> None], inputs |-> [x \in {} |-> None], results |-> {}, tags |-> [x \in {} |-> 0],
   confirmed |-> 0, texts |-> None, moment |-> FALSE, behind |-> FALSE,
   asked |-> refreshes]

Set(f, x, v) == [y \in DOMAIN f \cup {x} |-> IF y = x THEN v ELSE f[y]]

\* What expands an item is about its root.
Begin ==
  /\ requests < MaxRequests
  /\ requests' = requests + 1
  /\ request = Idle
  /\ \E handler \in Served, d \in Requested :
       /\ handler \in OfItem => d = Item.root
       /\ request' = Arrived(handler, d)
  /\ UNCHANGED <<clientVars, events, stateVars, submissionVars, managerVars, main, hints,
                 refreshes>>

StepOf(r) == r.plan[r.step]
At(step) == request.at = "serving" /\ StepOf(request) = step
Runs(r, handlers) == \E h \in handlers : r.plan = Plan[h]

\* Back to the nearest of these steps before the i-th.
Place(plan, i) == CHOOSE j \in 1 .. i : /\ plan[j] \in {"root", "queried"}
                                       /\ \A k \in j + 1 .. i : plan[k] \notin {"root", "queried"}

\* The request goes on behind its i-th step, goes round a loop, or has been
\* answered.
After(r, i) ==
  IF i = Len(r.plan) THEN [r EXCEPT !.at = "answered", !.left = {}]
  ELSE [r EXCEPT !.at = "serving",
                 !.step = IF r.plan[i + 1] = "again" THEN Place(r.plan, i) ELSE i + 1]

\* Behind the loop that the request is at.
Behind(r) == CHOOSE i \in r.step .. Len(r.plan) :
               r.plan[i] = "again" /\ \A j \in r.step .. i - 1 : r.plan[j] # "again"

\* A test that fails ends the request with ContentModified.
GoOn(ok, r) == request' = IF ok THEN After(r, r.step) ELSE Idle
Looks == UNCHANGED <<clientVars, events, stateVars, submissionVars, managerVars, main, shownVars>>

Snapshot(d) == documents[d]
SameVersion == documents[request.root].version = request.snapshots[request.root].version

\* The snapshot is of an open document.
Open ==
  /\ At("open")
  /\ GoOn(documents[request.document].open,
          [request EXCEPT !.snapshots = Set(@, request.document, Snapshot(request.document))])
  /\ Looks

\* The root of an item is open, at the version of the item.
OpenItem ==
  /\ At("item")
  /\ LET d == documents[request.root] IN
       GoOn(d.open /\ d.version = Item.version,
            [request EXCEPT !.snapshots = Set(@, request.root, d)])
  /\ Looks

Settings ==
  /\ At("settings")
  /\ GoOn(TRUE, [request EXCEPT !.configuration = configuration, !.revision = revision,
                                !.hintGeneration = hintGeneration])
  /\ Looks

\* analyze_and_publish, by this thread.  The context it submits may have to be
\* that of the settings, or of the item.
AnalyzeAndPublish ==
  LET d == request.root
      generation == generations[d] + 1
      submission == [generation |-> generation, label |-> configuration.label]
  IN /\ \E step \in {"analyze", "analyzeSettings", "analyzeItem"} : At(step)
     /\ main.at \notin {"accept", "record"}
     /\ GoOn(/\ documents[d].open
             /\ At("analyzeSettings") => configuration.label = request.configuration.label
             /\ At("analyzeItem") => configuration.label = Item.label,
             [request EXCEPT !.submitted = Set(@, d, submission),
                              !.inputs = Set(@, d, Input(d))])
     /\ IF documents[d].open
        THEN /\ generations' = [generations EXCEPT ![d] = generation]
             /\ submissions' = [submissions EXCEPT ![d] = submission]
             /\ Accepts(d, Input(d))
        ELSE UNCHANGED <<submissionVars, managerVars>>
     /\ UNCHANGED <<clientVars, events, stateVars, main, shownVars>>

\* The command context takes the submission that is there.
Submitted ==
  /\ At("submitted")
  /\ GoOn(submissions[request.root] # NoSubmission,
          [request EXCEPT !.submitted = Set(@, request.root, submissions[request.root])])
  /\ Looks

-----------------------------------------------------------------------------
(* Queries.                                                                *)

Queries == {"ask", "tag", "itemTag", "ownTag", "confirm", "content"}

Ask ==
  /\ request.at = "serving" /\ StepOf(request) \in Queries
  /\ request' = [request EXCEPT !.at = "asking", !.behind = pending[request.root] # None]
  /\ Looks

\* What a query returns.
Returned(r, result) ==
  CASE StepOf(r) = "ask" -> [r EXCEPT !.results = @ \cup {result}]
    [] StepOf(r) \in {"tag", "itemTag", "ownTag"} ->
         [r EXCEPT !.results = @ \cup {result}, !.tags = Set(@, r.root, result.content)]
    [] StepOf(r) = "confirm" -> [r EXCEPT !.confirmed = result.content]
    [] StepOf(r) = "content" -> r

\* What resolves the item is of the generation of the item, and the last test
\* compares the content generation with that of the result.  Fault: none is.
AnyContent(content) == TRUE
SameContent(content) ==
  /\ \/ StepOf(request) = "itemTag"
     \/ StepOf(request) = "ownTag" /\ request.root = Item.root
     => content = Item.content
  /\ StepOf(request) = "content" => content = request.tags[request.root]

\* It finds the unit of its version, or is rejected.
Answer ==
  LET d == request.root IN
  /\ request.at = "asking"
  /\ ~request.behind
  /\ GoOn(/\ built[d] # None
          /\ built[d].input.version = request.snapshots[d].version
          /\ SameContent(built[d].content),
          Returned(request, [root |-> d, input |-> built[d].input,
                             content |-> built[d].content]))
  /\ Looks

\* Cancelled, timed out, superseded, refused, its worker was lost, or there is
\* nothing at the position to answer with, which the text alone may tell.
Fail ==
  /\ request.at = "asking" \/ At("open")
  /\ request' = Idle
  /\ Looks

-----------------------------------------------------------------------------
(* Tests.                                                                  *)

Version == At("version") /\ GoOn(SameVersion, request) /\ Looks
RootVersion ==
  /\ At("rootVersion")
  /\ GoOn(documents[request.root].open /\ SameVersion, request)
  /\ Looks
\* The generation of the last analysis is that of this request, and a tagged
\* result is of the content generation that was asked for behind it.
Generation ==
  /\ At("generation")
  /\ GoOn(/\ SameVersion
          /\ generations[request.root] = request.submitted[request.root].generation
          /\ request.confirmed # 0 => \A r \in DOMAIN request.tags :
                                        request.tags[r] = request.confirmed,
          request)
  /\ Looks

\* require_current_submission, for an item together with its context.
CurrentSubmission(d) == submissions[d] = request.submitted[d]
Current == At("current") /\ GoOn(CurrentSubmission(request.root), request) /\ Looks

HintsCurrent ==
  /\ At("hints")
  /\ GoOn(SameVersion /\ hintGeneration = request.hintGeneration, request)
  /\ Looks

\* Fault: a revision that went by is not noticed.
AnyRevision == TRUE
SameRevision == revision = request.revision
Revision == At("revision") /\ GoOn(SameVersion /\ SameRevision, request) /\ Looks

-----------------------------------------------------------------------------
(* Loops over the roots of the manager, and the texts of an answer.        *)

Tracked == {d \in Document : tracked[d] # 0}

\* All of them, or those that depend on the file the target is in.
Roots ==
  /\ \/ At("allRoots") /\ GoOn(TRUE, [request EXCEPT !.left = Tracked, !.listed = tracked])
     \/ /\ At("someRoots")
        /\ \E file \in Closure(request.document) :
             GoOn(TRUE, [request EXCEPT !.left = {d \in Tracked : file \in Closure(d)}])
  /\ Looks

\* The roots are sorted by their identities.
InOrder(roots) == IF First \in roots THEN {First} ELSE roots

\* The next root of the list must be open, except that workspace/symbol only
\* finds that out when it submits it.
NextRoot ==
  /\ At("root")
  /\ request.left # {}
  /\ \E d \in InOrder(request.left) :
       GoOn(documents[d].open \/ Runs(request, {"workspaceSymbols"}),
            [request EXCEPT !.root = d, !.left = @ \ {d},
                            !.snapshots = Set(@, d, Snapshot(d))])
  /\ Looks

\* Past the loop the request is about its own document again.
LastRoot ==
  /\ At("root") \/ At("queried")
  /\ request.left = {}
  /\ request' = After([request EXCEPT !.root = request.document], Behind(request))
  /\ Looks

\* workspace/symbol passes over a root that was listed with another version.
Listed ==
  /\ At("listed")
  /\ request' =
       IF request.listed[request.root] = request.snapshots[request.root].version
       THEN After(request, request.step)
       ELSE [request EXCEPT !.step = Place(request.plan, request.step)]
  /\ Looks

\* What has been asked of the roots is what they would answer now.
Unchanged(r) ==
  \A x \in r.results : /\ built[x.root] # None
                       /\ built[x.root].content = x.content
                       /\ submissions[x.root] = r.submitted[x.root]

\* The ranges of the answer are made from the texts of the store, whether
\* open or not.  All of them are read in one step.  Every root that was asked
\* is tested after that.  Fault: perhaps only those that contributed a caller.
CheckedCallers(r) == SUBSET {x.root : x \in r.results}
Checked(r) == {{x.root : x \in r.results}}

Texts ==
  /\ At("texts")
  /\ \E set \in Checked(request) :
       GoOn(TRUE, [request EXCEPT !.texts = [d \in Document |-> documents[d].text],
                                  !.moment = Unchanged(request), !.left = set])
  /\ Looks

\* What was asked is in a hash table.
NextCheck ==
  /\ At("queried")
  /\ request.left # {}
  /\ \E d \in request.left :
       GoOn(TRUE, [request EXCEPT !.root = d, !.left = @ \ {d}])
  /\ Looks
\* The response is sent: the client may show hints.
Respond ==
  /\ request.at = "answered"
  /\ hints' = IF Runs(request, {"inlayHints"})
              THEN [document |-> request.document, asked |-> request.asked,
                    input |-> (CHOOSE r \in request.results : TRUE).input]
              ELSE hints
  /\ request' = Idle
  /\ UNCHANGED <<clientVars, events, stateVars, submissionVars, managerVars, main, refreshes,
                 requests>>

-----------------------------------------------------------------------------
\* Both documents have been opened and analysed, and the client has asked for an
\* item of the call hierarchy in the shader.
Init ==
  /\ documents = [d \in Document |-> [open |-> TRUE, version |-> 1, text |-> 1, disk |-> 1]]
  /\ texts = 1
  /\ configuration = [label |-> 0, arguments |-> 0]
  /\ revision = 1 /\ hintGeneration = 1
  /\ generations = [d \in Document |-> IF d = Shader THEN 2 ELSE 1]
  /\ submissions = [d \in Document |-> [generation |-> generations[d], label |-> 0]]
  /\ tracked = [d \in Document |-> 1]
  /\ pending = [d \in Document |-> None]
  /\ built = [d \in Document |->
                [input |-> Input(d), content |-> IF d = Shader THEN 1 ELSE 2]]
  /\ contents = 2
  /\ main = Resting /\ request = Idle
  /\ hints = NoHints /\ refreshes = 0
  /\ forgotten = {} /\ events = 0 /\ requests = 0

Manager == \E d \in Document : Parse(d) \/ Rebuild(d) \/ Forget(d)

Notifications ==
  \/ \E d \in Document : DidOpen(d) \/ DidChange(d) \/ DidSave(d) \/ DidClose(d)
  \/ DidChangeConfiguration \/ DidChangeClientDefaults
  \/ DidChangeWorkspaceFolders \/ DidChangeActiveVariant
  \/ InvalidateHints \/ BeginSubmission \/ AcceptSubmission \/ RecordSubmission
  \/ RefreshHints

Requests ==
  \/ Begin
  \/ Open \/ OpenItem \/ Settings \/ AnalyzeAndPublish \/ Submitted
  \/ Ask \/ Answer \/ Fail
  \/ Version \/ RootVersion \/ Generation \/ Current \/ HintsCurrent \/ Revision
  \/ Roots \/ NextRoot \/ LastRoot \/ Listed \/ Texts \/ NextCheck
  \/ Respond

Next == Manager \/ Notifications \/ Requests

Spec == Init /\ [][Next]_vars

-----------------------------------------------------------------------------
(* Properties.                                                             *)

Handler == DOMAIN Plan
Answered(handlers) == request.at = "answered" /\ Runs(request, handlers)

\* The handlers that test the generation of their submission.
Generational ==
  {"hover", "hoverWithLinks", "memoryLayout", "macroExpansion", "commandContext",
   "preprocessorExplorer", "compilationInfo"}

TypeOK ==
  /\ documents \in [Document -> [open : BOOLEAN, version : Nat, text : 0 .. texts, disk : 0 .. texts]]
  /\ configuration \in Configuration
  /\ \A d \in Document : /\ generations[d] >= submissions[d].generation
                         /\ built[d] # None => built[d].content <= contents
                         /\ pending[d] # None => DOMAIN pending[d].sources = Closure(d)
  /\ request.at \in {"idle", "serving", "asking", "answered"}
  /\ request # Idle => /\ request.step \in DOMAIN request.plan
                       /\ request.left \subseteq Document

\* An answer that tests the generation of its submission is of the sources, the version and the
\* arguments that its own request submitted: not of an analysis that the main
\* thread submitted before or after it, and not of two of them mixed.  (An
\* analysis that was pushed out of a full queue leaves the one before it.)
AnswersAreOfTheirSubmission ==
  Answered(Generational) =>
    \A r \in request.results :
      r.root \in DOMAIN request.inputs \ forgotten => SameUnit(r.input, request.inputs[r.root])

\* What an item of the call hierarchy expands to comes from the very analysis
\* that made the item, however much was edited in between.
ItemsExpandInTheirAnalysis ==
  Answered(OfItem) =>
    \A r \in request.results :
      r.root = Item.root =>
        r.content = Item.content /\ r.input.sources = Item.sources

\* There was a moment, after all roots had been asked, at which every one of
\* the incoming calls was what its root would have answered.
IncomingCallsAreOfOneMoment ==
  Answered({"incomingCalls"}) => request.moment

\* An effective context is of the configuration there is when it is answered.
EffectiveContextIsCurrent ==
  [][Answered({"effectiveContext"})' /\ request.at # "answered" =>
       request.configuration = configuration]_vars

\* Inlay hints are answered from the sources, the version and the arguments
\* there are when they are answered, or a change has only just begun.
InlayHintsAreCurrent ==
  [][Answered({"inlayHints"})' /\ request.at # "answered" =>
       \/ \A r \in request.results' : SameUnit(r.input, Input(r.root)) \/ r.root \in forgotten
       \/ main.at = "invalidate"]_vars

\* Inlay hints that no longer are what an analysis would give are about to be
\* refreshed, or have been since they were asked for, while the server runs and
\* if the client supports workspace/inlayHint/refresh: another is asked nothing,
\* and keeps the hints it has until it asks for them itself.
StaleHintsAreRefreshed ==
  RefreshSupport /\ hints # NoHints =>
    LET d == hints.document IN
    \/ ~documents[d].open \/ d \in forgotten
    \/ SameUnit(hints.input, Input(d))
    \/ main # Resting
    \/ refreshes > hints.asked

\* The ranges of what the call graph says were counted in the texts that were
\* analysed: docs/call-hierarchy.md says that an edit of the document or of a
\* file it includes is answered with ContentModified.
\* The code does not: README, Divergences.
CallGraph == {"prepareCallHierarchy", "entryPointDataFlow"} \cup OfItem
RangesAreOfAnalysedTexts ==
  Answered(CallGraph) =>
    \A r \in request.results : \A d \in Closure(r.root) :
      r.input.sources[d] = request.texts[d]

\* When nothing has been edited since the analysis, ranges are cut from the
\* texts that were analysed, also from those of closed files: a comment in
\* compilation_info prefers an open document's buffer and falls back to disk.
\* The code does not: README, Divergences.
SettledRangesAreOfAnalysedTexts ==
  Answered({"compilationInfo"}) /\ main = Resting =>
    \A r \in request.results : \A d \in Closure(r.root) :
      r.input.sources[d] = Source(d) => request.texts[d] = Source(d)

\* The context that is part of an answer is that of the submission its results
\* come from: docs/call-hierarchy.md says so of the items of the call graph.
\* The code does not: README, Divergences.
ContextsAreOfTheirAnalysis ==
  Answered(CallGraph) =>
    \A r \in request.results :
      r.input.configuration.label = request.submitted[r.root].label

\* Answers are of one analysis, the one their request submitted, and the
\* continued requests of the call hierarchy of the one that made their item, at
\* one moment.
AnswersAreOfOneAnalysis ==
  /\ TypeOK
  /\ AnswersAreOfTheirSubmission
  /\ ItemsExpandInTheirAnalysis
  /\ IncomingCallsAreOfOneMoment

\* Effective contexts and inlay hints, which are computed outside of the lock or
\* in chunks, are of the moment they are answered.
AnswersAreCurrent == EffectiveContextIsCurrent /\ InlayHintsAreCurrent

=============================================================================
