---------------------------- MODULE FeaturesProofs ----------------------------
(***************************************************************************)
(* Proofs that answers of language feature requests are of one analysis,   *)
(* that contexts and inlay hints are current when they are answered, and   *)
(* that stale hints are refreshed: for any handlers, requests and numbers  *)
(* of events, whatever the main thread and the manager do in between.      *)
(***************************************************************************)
EXTENDS Features, FiniteSetTheorems, TLAPS

Fields ==
  {"at", "plan", "step", "document", "root", "left", "listed", "snapshots",
   "configuration", "revision", "hintGeneration", "submitted", "inputs", "results",
   "tags", "confirmed", "texts", "moment", "behind", "asked"}

-----------------------------------------------------------------------------
(* The state of the server and of the manager.                              *)

ServerFollows ==
  /\ texts \in Nat
  /\ documents \in [Document -> [open : BOOLEAN, version : Nat, text : 0 .. texts,
                                 disk : 0 .. texts]]
  /\ configuration \in Configuration
  /\ revision \in Nat /\ hintGeneration \in Nat
  /\ generations \in [Document -> Nat]
  /\ submissions \in [Document -> [generation : Nat, label : 0 .. 1]]
  /\ \A d \in Document : submissions[d].generation <= generations[d]

\* A content generation stands for one analysis: that of the item is the first.
UnitsFollow ==
  /\ contents \in Nat \ {0}
  /\ forgotten \subseteq Document
  /\ DOMAIN pending = Document /\ DOMAIN built = Document
  /\ \A d \in Document :
       /\ pending[d] # None => DOMAIN pending[d].sources = Closure(d)
       /\ built[d] # None =>
            /\ DOMAIN built[d] = {"input", "content"}
            /\ built[d].content \in 1 .. contents
            /\ d = Item.root /\ built[d].content = Item.content =>
                 built[d].input.sources = Item.sources

\* What the main thread has under way is an analysis of what there is, as it
\* changes nothing before it rests.
MainFollows ==
  main # Resting =>
    /\ DOMAIN main = {"at", "roots", "input", "refresh"}
    /\ main.at \in {"invalidate", "submit", "accept", "record"}
    /\ main.roots \in Seq(Document)
    /\ main.at = "invalidate" => main.refresh
    /\ main.at \in {"accept", "record"} =>
         LET d == Head(main.roots) IN
         /\ main.roots # <<>>
         /\ main.input = Input(d)
         /\ submissions[d].generation < generations[d]

-----------------------------------------------------------------------------
(* The request.                                                             *)

\* Those of the plans that are about one document have no loop.
Loops(plan) == \E i \in DOMAIN plan : plan[i] = "again"
InLoops == {"root", "queried"}

RequestFollows ==
  request # Idle =>
    /\ DOMAIN request = Fields
    /\ request.at \in {"serving", "asking", "answered"}
    /\ \E h \in Handler : request.plan = Plan[h]
    /\ request.step \in DOMAIN request.plan
    /\ request.at = "asking" => StepOf(request) \in Queries
    /\ request.document \in Document /\ request.root \in Document
    /\ Runs(request, OfItem) => request.document = Item.root
    /\ ~Loops(request.plan) => request.root = request.document
    /\ request.left \subseteq Document
    /\ \A x \in request.results : x.root \in Document
    /\ request.asked \in 0 .. refreshes

\* What a request submitted is the last submission, or one before it.
SubmittedFollows ==
  request # Idle =>
    /\ DOMAIN request.inputs \subseteq DOMAIN request.submitted
    /\ DOMAIN request.submitted \subseteq Document
    /\ \A d \in DOMAIN request.submitted :
         /\ request.submitted[d].generation \in 0 .. submissions[d].generation
         /\ request.submitted[d].generation = submissions[d].generation =>
              request.submitted[d] = submissions[d]

\* The manager answers the request that is at this root with an analysis of this
\* input: what is pending is of it, and so is what is built, unless the request is
\* behind what is pending.
Holding(d, input) ==
  /\ pending[d] # None => SameUnit(pending[d], input)
  /\ pending[d] = None \/ (request.at = "asking" /\ ~request.behind) =>
       built[d] # None /\ SameUnit(built[d].input, input)
  /\ request.at = "asking" /\ request.behind => pending[d] # None

\* Nothing has been submitted before the first analysis, or asked before the first
\* query.
Analyzes == {"analyze", "analyzeSettings", "analyzeItem"}
ResultsFollow ==
  request # Idle /\ ~Loops(request.plan) =>
    /\ \A x \in request.results : x.root = request.document
    /\ request.results # {} => \E i \in 1 .. request.step : request.plan[i] \in Queries
    /\ DOMAIN request.inputs # {} =>
         \E i \in 1 .. request.step : request.plan[i] \in Analyzes

\* As long as its document is not submitted again, a request is answered from what
\* it submitted; and it has tested that before it cuts ranges and answers.
OwnFollows ==
  LET d == request.document IN
  /\ request # Idle /\ Runs(request, Generational)
  /\ d \in DOMAIN request.inputs \ forgotten
  => LET Own == \A x \in request.results : SameUnit(x.input, request.inputs[d]) IN
      /\ generations[d] = request.submitted[d].generation =>
           Holding(d, request.inputs[d]) /\ Own
      /\ request.at = "answered" \/ StepOf(request) = "texts" => Own

-----------------------------------------------------------------------------
(* Inlay hints.  They take the hint generation at their second step.        *)

Fresh(d, input, asked) ==
  \/ ~documents[d].open \/ d \in forgotten
  \/ SameUnit(input, Input(d))
  \/ ~RefreshSupport \/ (main # Resting /\ main.refresh)
  \/ refreshes > asked

\* As long as no change has invalidated them, and none has begun, the analysis of
\* the document is of what there is.
HintsFollow ==
  LET d == request.document IN
  request # Idle /\ Runs(request, {"inlayHints"}) =>
    /\ request.step >= 3 => request.hintGeneration \in 0 .. hintGeneration
    /\ /\ request.step >= 4
       /\ request.hintGeneration = hintGeneration
       /\ main.at # "invalidate"
       /\ d \notin forgotten
       => /\ Holding(d, Input(d))
          /\ \A x \in request.results : SameUnit(x.input, Input(d))
    /\ request.step >= 6 => request.results # {}
    /\ request.at = "answered" =>
         /\ request.step = 6
         /\ \A x \in request.results : Fresh(d, x.input, request.asked)

ShownFollows ==
  /\ refreshes \in Nat
  /\ hints # NoHints =>
       /\ hints.document \in Document
       /\ hints.asked \in 0 .. refreshes
       /\ Fresh(hints.document, hints.input, hints.asked)

-----------------------------------------------------------------------------
(* Effective contexts and the calls of an item.                             *)

\* A configuration is that of its revision.
ContextFollows ==
  request # Idle /\ Runs(request, {"effectiveContext"}) /\ request.step >= 3 =>
    /\ request.revision \in 0 .. revision
    /\ request.revision = revision => request.configuration = configuration

ItemFollows ==
  request # Idle /\ Runs(request, OfItem) =>
    \A x \in request.results :
      x.root = Item.root =>
        x.content = Item.content /\ x.input.sources = Item.sources

\* What was asked would not be answered like that any more, and never will.
ContentGone(x) == built[x.root] = None \/ built[x.root].content # x.content
SubmissionGone(x) == submissions[x.root] # request.submitted[x.root]

\* The roots are asked in the loop from the sixth step to the tenth, each once but
\* for that of the item.
CallsAsked ==
  /\ request.step \in 1 .. 14 \ {10}
  /\ request.at = "answered" => request.step >= 12
  /\ request.step <= 5 => request.root = Item.root
  /\ request.step \in {3, 4, 8} => request.root \in DOMAIN request.submitted
  /\ request.step \in 7 .. 9 => request.root \notin request.left
  /\ \A x \in request.results :
       /\ x.root \in DOMAIN request.tags \cap DOMAIN request.submitted
       /\ request.tags[x.root] = x.content
       /\ x.content \in 1 .. contents
       /\ x.root # Item.root =>
            /\ request.step > 5
            /\ request.step \in 6 .. 9 => x.root \notin request.left
            /\ request.step \in 7 .. 8 => x.root # request.root

\* They are tested in the loop from the twelfth to the fifteenth, first for the
\* content, then for the submission: what was gone when the texts were read is
\* still to be found out.
ToTest(root, steps) ==
  \/ root \in request.left
  \/ (root = request.root /\ request.step \in steps)
CallsTested ==
  request.step >= 12 /\ ~request.moment =>
    /\ request.at # "answered"
    /\ \E x \in request.results :
         \/ ContentGone(x) /\ ToTest(x.root, {13})
         \/ SubmissionGone(x) /\ ToTest(x.root, {13, 14})

CallsFollow ==
  request # Idle /\ Runs(request, {"incomingCalls"}) => CallsAsked /\ CallsTested

RequestInv ==
  /\ RequestFollows
  /\ SubmittedFollows
  /\ ResultsFollow
  /\ OwnFollows
  /\ HintsFollow
  /\ ContextFollows
  /\ ItemFollows
  /\ CallsFollow

IInv ==
  /\ ServerFollows
  /\ UnitsFollow
  /\ MainFollows
  /\ ShownFollows
  /\ RequestInv
-----------------------------------------------------------------------------
(* The plans of the handlers.                                               *)

\* Of a loop: the way back to where it goes on, and the way out.
Back(p, i, j) == p[j] \in InLoops /\ \A k \in j + 1 .. i : p[k] \notin InLoops
Out(p, i, k) == p[k] = "again" /\ \A j \in i .. k - 1 : p[j] # "again"

WellFormed(p) ==
  /\ Len(p) \in Nat \ {0} /\ DOMAIN p = 1 .. Len(p)
  /\ p[1] # "again"
  /\ \A i \in DOMAIN p :
       /\ p[i] \in {"again", "listed"} => \E j \in 1 .. i - 1 : Back(p, i, j)
       /\ p[i] \in InLoops => \E k \in i .. Len(p) : Out(p, i, k)

LEMMA Straight ==
  ASSUME NEW p, Len(p) \in Nat \ {0}, DOMAIN p = 1 .. Len(p),
         \A i \in DOMAIN p : p[i] \notin {"again", "listed", "root", "queried"}
  PROVE  WellFormed(p) /\ ~Loops(p)
BY DEF WellFormed, Loops, InLoops

LEMMA Handlers ==
  /\ Handler = {"completion", "definition", "references", "prepareRename", "rename",
                "prepareCallHierarchy", "outgoingCalls", "incomingCalls",
                "entryPointDataFlow", "hover", "hoverWithLinks", "memoryLayout",
                "macroExpansion", "commandContext", "preprocessorExplorer",
                "compilationInfo", "effectiveContext", "computeVisualization",
                "signatureHelp", "inlayHints", "documentSymbols", "workspaceSymbols",
                "semanticTokens"}
  /\ Plan["completion"] = Completion
  /\ Plan["definition"] = Definition
  /\ Plan["references"] = References
  /\ Plan["prepareRename"] = PrepareRename
  /\ Plan["rename"] = Rename
  /\ Plan["prepareCallHierarchy"] = PrepareCallHierarchy
  /\ Plan["outgoingCalls"] = OutgoingCalls
  /\ Plan["incomingCalls"] = IncomingCalls
  /\ Plan["entryPointDataFlow"] = EntryPointDataFlow
  /\ Plan["hover"] = Hover
  /\ Plan["hoverWithLinks"] = HoverWithLinks
  /\ Plan["memoryLayout"] = MemoryLayout
  /\ Plan["macroExpansion"] = MacroExpansion
  /\ Plan["commandContext"] = CommandContext
  /\ Plan["preprocessorExplorer"] = PreprocessorExplorer
  /\ Plan["compilationInfo"] = CompilationInfo
  /\ Plan["effectiveContext"] = EffectiveContext
  /\ Plan["computeVisualization"] = ComputeVisualization
  /\ Plan["signatureHelp"] = SignatureHelp
  /\ Plan["inlayHints"] = InlayHints
  /\ Plan["documentSymbols"] = DocumentSymbols
  /\ Plan["workspaceSymbols"] = WorkspaceSymbols
  /\ Plan["semanticTokens"] = SemanticTokens
BY DEF Handler, Plan

LEMMA StraightPlans ==
  ASSUME NEW p \in {Completion, Definition, PrepareCallHierarchy, OutgoingCalls,
                   EntryPointDataFlow, Hover, HoverWithLinks, MemoryLayout,
                   MacroExpansion, CommandContext, PreprocessorExplorer,
                   CompilationInfo, EffectiveContext, ComputeVisualization,
                   SignatureHelp, InlayHints, DocumentSymbols, SemanticTokens}
  PROVE  WellFormed(p) /\ ~Loops(p)
<1> DEFINE S(q) == /\ Len(q) \in Nat \ {0} /\ DOMAIN q = 1 .. Len(q)
                  /\ \A i \in DOMAIN q : q[i] \notin {"again", "listed", "root", "queried"}
<1>1. S(Completion)
  BY DEF Completion
<1>2. S(Definition)
  BY DEF Definition
<1>3. S(PrepareCallHierarchy)
  BY DEF PrepareCallHierarchy
<1>4. S(OutgoingCalls)
  BY DEF OutgoingCalls, ValidateItem
<1>5. S(EntryPointDataFlow)
  BY DEF EntryPointDataFlow
<1>6. S(Hover)
  BY DEF Hover
<1>7. S(HoverWithLinks)
  BY DEF HoverWithLinks
<1>8. S(MemoryLayout)
  BY DEF MemoryLayout
<1>9. S(MacroExpansion)
  BY DEF MacroExpansion
<1>10. S(CommandContext)
  BY DEF CommandContext
<1>11. S(PreprocessorExplorer)
  BY DEF PreprocessorExplorer
<1>12. S(CompilationInfo)
  BY DEF CompilationInfo
<1>13. S(EffectiveContext)
  BY DEF EffectiveContext
<1>14. S(ComputeVisualization)
  BY DEF ComputeVisualization
<1>15. S(SignatureHelp)
  BY DEF SignatureHelp
<1>16. S(InlayHints)
  BY DEF InlayHints
<1>17. S(DocumentSymbols)
  BY DEF DocumentSymbols
<1>18. S(SemanticTokens)
  BY DEF SemanticTokens
<1>19. S(p)
  BY <1>1, <1>2, <1>3, <1>4, <1>5, <1>6, <1>7, <1>8, <1>9, <1>10, <1>11, <1>12, <1>13,
     <1>14, <1>15, <1>16, <1>17, <1>18
<1> QED
  BY <1>19, Straight

LEMMA ReferencesPlan == WellFormed(References)
BY DEF WellFormed, Back, Out, InLoops, References, FindReferences
LEMMA PrepareRenamePlan == WellFormed(PrepareRename)
BY DEF WellFormed, Back, Out, InLoops, PrepareRename, FindReferences
LEMMA IncomingPlan == WellFormed(IncomingCalls)
BY DEF WellFormed, Back, Out, InLoops, IncomingCalls, ValidateItem
LEMMA WorkspaceSymbolsPlan == WellFormed(WorkspaceSymbols)
BY DEF WellFormed, Back, Out, InLoops, WorkspaceSymbols

LEMMA PlansWellFormed == ASSUME NEW h \in Handler PROVE WellFormed(Plan[h])
BY Handlers, StraightPlans, ReferencesPlan, PrepareRenamePlan, IncomingPlan,
   WorkspaceSymbolsPlan DEF References, Rename

LEMMA PlaceIs ==
  ASSUME NEW p, NEW i \in Nat, NEW j \in 1 .. i, Back(p, i, j)
  PROVE  Place(p, i) = j
<1>1. ASSUME NEW k \in 1 .. i, Back(p, i, k)
      PROVE  k = j
  <2>1. ~ k < j
    BY <1>1 DEF Back
  <2>2. ~ j < k
    BY <1>1 DEF Back
  <2> QED
    BY <2>1, <2>2
<1> QED
  BY <1>1 DEF Place, Back, InLoops

LEMMA BehindIs ==
  ASSUME NEW r, r.step \in Nat, Len(r.plan) \in Nat, NEW k \in r.step .. Len(r.plan),
         Out(r.plan, r.step, k)
  PROVE  Behind(r) = k
<1>1. ASSUME NEW l \in r.step .. Len(r.plan), Out(r.plan, r.step, l)
      PROVE  l = k
  <2>1. ~ k < l
    BY <1>1 DEF Out
  <2>2. ~ l < k
    BY <1>1 DEF Out
  <2> QED
    BY <2>1, <2>2
<1> QED
  BY <1>1 DEF Behind, Out

\* Behind a step, a request is at the next one, at the beginning of its loop, or
\* answered.
LEMMA AfterGoes ==
  ASSUME NEW r, DOMAIN r = Fields, WellFormed(r.plan), NEW i \in DOMAIN r.plan,
         r.step \in DOMAIN r.plan
  PROVE  LET q == After(r, i) IN
         /\ DOMAIN q = Fields
         /\ \A f \in Fields \ {"at", "step", "left"} : q[f] = r[f]
         /\ q.step \in DOMAIN r.plan
         /\ i = Len(r.plan) => q.at = "answered" /\ q.left = {} /\ q.step = r.step
         /\ i # Len(r.plan) => q.at = "serving" /\ q.left = r.left
         /\ i # Len(r.plan) /\ r.plan[i + 1] # "again" => q.step = i + 1
         /\ i # Len(r.plan) /\ r.plan[i + 1] = "again" => q.step = Place(r.plan, i)
<1>1. DOMAIN r.plan = 1 .. Len(r.plan) /\ Len(r.plan) \in Nat
  BY DEF WellFormed
<1>2. CASE i = Len(r.plan)
  BY <1>2 DEF After, Fields
<1>3. CASE i # Len(r.plan)
  <2>1. CASE r.plan[i + 1] # "again"
    <3>1. After(r, i) = [r EXCEPT !.at = "serving", !.step = i + 1]
      BY <1>3, <2>1 DEF After
    <3>2. i + 1 \in DOMAIN r.plan
      BY <1>1, <1>3
    <3> QED
      BY <1>3, <2>1, <3>1, <3>2 DEF Fields
  <2>2. CASE r.plan[i + 1] = "again"
    <3>1. PICK j \in 1 .. i : Back(r.plan, i + 1, j)
      BY <1>1, <1>3, <2>2 DEF WellFormed
    <3>2. Back(r.plan, i, j)
      BY <3>1, <1>1 DEF Back
    <3>3. Place(r.plan, i) \in DOMAIN r.plan
      BY <1>1, <1>3, <3>2, PlaceIs
    <3> QED
      BY <1>1, <1>3, <2>2, <3>3 DEF After, Fields
  <2> QED
    BY <2>1, <2>2
<1> QED
  BY <1>2, <1>3

LEMMA PlanFacts ==
  ASSUME RequestFollows, request # Idle
  PROVE  /\ WellFormed(request.plan)
         /\ ~Loops(request.plan) => StepOf(request) \notin {"root", "queried", "listed"}
<1>1. WellFormed(request.plan)
  BY PlansWellFormed DEF RequestFollows
<1>2. ASSUME StepOf(request) \in {"root", "queried", "listed"}
      PROVE  Loops(request.plan)
  <2>1. request.step \in DOMAIN request.plan
    BY DEF RequestFollows
  <2>2. PICK i \in DOMAIN request.plan : request.plan[i] \in InLoops
    BY <1>1, <1>2, <2>1 DEF WellFormed, Back, InLoops, StepOf
  <2> QED
    BY <1>1, <2>2 DEF WellFormed, Out, Loops
<1> QED
  BY <1>1, <1>2

-----------------------------------------------------------------------------
(* How a request goes on.                                                   *)

\* q is the request, but for these fields.
Alters(q, S) == DOMAIN q = Fields /\ \A f \in Fields \ S : q[f] = request[f]

\* Behind its step a request goes on as q.
GoesAs(q) == request' = After(q, request.step)

\* It has been taken by the executor, and is not waiting for the manager.
Ready == request.at = "serving" \/ (request.at = "asking" /\ ~request.behind)

LEMMA Goes ==
  ASSUME RequestFollows, request # Idle, NEW S,
         S \cap {"plan", "step", "document", "asked"} = {}, NEW q, Alters(q, S),
         NEW i \in DOMAIN request.plan, request' = After(q, i)
  PROVE  /\ DOMAIN request' = Fields
         /\ \A f \in Fields \ {"at", "step", "left"} : request'[f] = q[f]
         /\ \A f \in Fields \ ({"at", "step", "left"} \cup S) : request'[f] = request[f]
         /\ request'.at \in {"serving", "answered"}
         /\ request'.step \in DOMAIN request.plan
         /\ i = Len(request.plan) =>
              /\ request'.at = "answered" /\ request'.left = {}
              /\ request'.step = request.step
         /\ i # Len(request.plan) => request'.at = "serving" /\ request'.left = q.left
         /\ i # Len(request.plan) /\ request.plan[i + 1] # "again" => request'.step = i + 1
         /\ i # Len(request.plan) /\ request.plan[i + 1] = "again" =>
              request'.step = Place(request.plan, i)
<1>1. DOMAIN q = Fields /\ q.plan = request.plan /\ q.step = request.step
  BY DEF Alters, Fields
<1>2. WellFormed(q.plan) /\ q.step \in DOMAIN q.plan
  BY <1>1, PlanFacts DEF RequestFollows
<1>3. i \in DOMAIN q.plan
  BY <1>1
<1>4. PICK r : r = After(q, i)
  OBVIOUS
<1>5. /\ DOMAIN r = Fields
      /\ \A f \in Fields \ {"at", "step", "left"} : r[f] = q[f]
      /\ r.step \in DOMAIN q.plan
      /\ i = Len(q.plan) => r.at = "answered" /\ r.left = {} /\ r.step = q.step
      /\ i # Len(q.plan) => r.at = "serving" /\ r.left = q.left
      /\ i # Len(q.plan) /\ q.plan[i + 1] # "again" => r.step = i + 1
      /\ i # Len(q.plan) /\ q.plan[i + 1] = "again" => r.step = Place(q.plan, i)
  BY <1>1, <1>2, <1>3, <1>4, AfterGoes
<1>6. request' = r
  BY <1>4
<1>7. \A f \in Fields \ ({"at", "step", "left"} \cup S) : r[f] = request[f]
  BY <1>5 DEF Alters
<1> QED
  BY <1>1, <1>5, <1>6, <1>7

\* In a plan without a loop, to the next step.
LEMMA GoesStraight ==
  ASSUME RequestFollows, request # Idle, ~Loops(request.plan)
  PROVE  /\ Len(request.plan) \in Nat /\ DOMAIN request.plan = 1 .. Len(request.plan)
         /\ request.step \in 1 .. Len(request.plan)
         /\ request.step # Len(request.plan) => request.plan[request.step + 1] # "again"
BY PlanFacts DEF RequestFollows, Loops, WellFormed

LEMMA TypesGo ==
  ASSUME RequestFollows, request # Idle, NEW S,
         S \cap {"plan", "step", "document", "asked"} = {}, NEW q, Alters(q, S),
         q.root \in Document, q.left \subseteq Document,
         \A x \in q.results : x.root \in Document,
         ~Loops(request.plan) => q.root = request.root,
         NEW i \in DOMAIN request.plan, request' = After(q, i), UNCHANGED refreshes
  PROVE  RequestFollows'
<1>1. /\ DOMAIN request' = Fields
      /\ \A f \in Fields \ {"at", "step", "left"} : request'[f] = q[f]
      /\ \A f \in Fields \ ({"at", "step", "left"} \cup S) : request'[f] = request[f]
      /\ request'.at \in {"serving", "answered"}
      /\ request'.step \in DOMAIN request.plan
      /\ request'.left \in {{}, q.left}
  BY Goes
<1>2. /\ request'.plan = request.plan /\ request'.document = request.document
      /\ request'.asked = request.asked /\ request'.root = q.root
      /\ request'.results = q.results
  BY <1>1 DEF Fields
<1>3. Runs(request, OfItem)' = Runs(request, OfItem)
  BY <1>2 DEF Runs
<1> QED
  BY <1>1, <1>2, <1>3 DEF RequestFollows

LEMMA OwnPlans ==
  ASSUME NEW h \in Generational, NEW p, p = Plan[h]
  PROVE  /\ ~Loops(p)
         /\ \A i \in DOMAIN p : i = Len(p) \/ p[i + 1] = "texts" => p[i] \in {"generation", "texts"}
         /\ \A i, j \in DOMAIN p : j <= i /\ p[i] \in Analyzes => p[j] \notin Queries
         /\ \A i, j \in DOMAIN p : p[i] = "submitted" => p[j] \notin Analyzes
<1> DEFINE O(r) ==
      /\ \A i \in DOMAIN r : i = Len(r) \/ r[i + 1] = "texts" => r[i] \in {"generation", "texts"}
      /\ \A i, j \in DOMAIN r : j <= i /\ r[i] \in Analyzes => r[j] \notin Queries
      /\ \A i, j \in DOMAIN r : r[i] = "submitted" => r[j] \notin Analyzes
<1>1. O(Hover)
  BY DEF Hover, Analyzes, Queries
<1>2. O(HoverWithLinks)
  BY DEF HoverWithLinks, Analyzes, Queries
<1>3. O(MemoryLayout)
  BY DEF MemoryLayout, Analyzes, Queries
<1>4. O(MacroExpansion)
  BY DEF MacroExpansion, Analyzes, Queries
<1>5. O(CommandContext)
  BY DEF CommandContext, Analyzes, Queries
<1>6. O(PreprocessorExplorer)
  BY DEF PreprocessorExplorer, Analyzes, Queries
<1>7. O(CompilationInfo)
  BY DEF CompilationInfo, Analyzes, Queries
<1>8. p \in {Hover, HoverWithLinks, MemoryLayout, MacroExpansion, CommandContext,
             PreprocessorExplorer, CompilationInfo}
  BY Handlers DEF Generational
<1>9. O(p)
  BY <1>1, <1>2, <1>3, <1>4, <1>5, <1>6, <1>7, <1>8
<1> QED
  BY <1>8, <1>9, StraightPlans

\* What a step adds to the results is what the manager has built.
Adds(q) ==
  \A x \in q.results \ request.results :
    /\ request.at = "asking" /\ StepOf(request) \in {"ask", "tag", "itemTag", "ownTag"}
    /\ x.root = request.root /\ built[x.root] # None
    /\ x.input = built[x.root].input /\ x.content = built[x.root].content
    /\ SameContent(x.content)

Moves(q, S) ==
  /\ Looks /\ request # Idle /\ Ready
  /\ S \cap {"plan", "step", "document", "asked", "inputs"} = {}
  /\ Alters(q, S)
  /\ Adds(q)
  /\ GoesAs(q)

\* What every such step has in common.
LEMMA MoveFacts ==
  ASSUME IInv, NEW S, NEW q, Moves(q, S)
  PROVE  /\ request # Idle /\ RequestFollows
         /\ \A f \in Fields \ {"at", "step", "left"} : request'[f] = q[f]
         /\ \A f \in Fields \ ({"at", "step", "left"} \cup S) : request'[f] = request[f]
         /\ request'.plan = request.plan /\ request'.document = request.document
         /\ request'.inputs = request.inputs /\ request'.asked = request.asked
         /\ request'.results = q.results
         /\ S \cap {"submitted"} = {} => request'.submitted = request.submitted
         /\ request'.at \in {"serving", "answered"}
         /\ request.step \in DOMAIN request.plan
         /\ request.step = Len(request.plan) =>
              /\ request'.at = "answered" /\ request'.left = {}
              /\ request'.step = request.step
         /\ request.step # Len(request.plan) => request'.at = "serving" /\ request'.left = q.left
         /\ /\ request.step # Len(request.plan)
            /\ request.plan[request.step + 1] # "again"
            => request'.step = request.step + 1
         /\ /\ request.step # Len(request.plan)
            /\ request.plan[request.step + 1] = "again"
            => request'.step = Place(request.plan, request.step)
<1>1. RequestFollows
  BY DEF IInv, RequestInv
<1>2. /\ request # Idle /\ Alters(q, S)
      /\ S \cap {"plan", "step", "document", "asked"} = {} /\ S \cap {"asked", "inputs"} = {}
      /\ request' = After(q, request.step)
  BY DEF Moves, GoesAs
<1>3. request.step \in DOMAIN request.plan
  BY <1>1, <1>2 DEF RequestFollows
<1>4. /\ \A f \in Fields \ {"at", "step", "left"} : request'[f] = q[f]
      /\ \A f \in Fields \ ({"at", "step", "left"} \cup S) : request'[f] = request[f]
      /\ request'.at \in {"serving", "answered"}
      /\ request.step = Len(request.plan) =>
           /\ request'.at = "answered" /\ request'.left = {}
           /\ request'.step = request.step
      /\ request.step # Len(request.plan) => request'.at = "serving" /\ request'.left = q.left
      /\ /\ request.step # Len(request.plan)
         /\ request.plan[request.step + 1] # "again"
         => request'.step = request.step + 1
      /\ /\ request.step # Len(request.plan)
         /\ request.plan[request.step + 1] = "again"
         => request'.step = Place(request.plan, request.step)
  BY <1>1, <1>2, <1>3, Goes
<1>5. /\ request'.plan = request.plan /\ request'.document = request.document
      /\ request'.inputs = request.inputs /\ request'.asked = request.asked
      /\ request'.results = q.results
      /\ S \cap {"submitted"} = {} => request'.submitted = request.submitted
  BY <1>2, <1>4 DEF Fields
<1> QED
  BY <1>1, <1>2, <1>3, <1>4, <1>5

LEMMA SubmittedGoes ==
  ASSUME IInv, NEW S, S \cap {"submitted"} = {}, NEW q, Moves(q, S)
  PROVE  SubmittedFollows'
<1>1. request'.submitted = request.submitted /\ request'.inputs = request.inputs
  BY MoveFacts
<1> QED
  BY <1>1 DEF SubmittedFollows, IInv, RequestInv, Moves, Looks, submissionVars

LEMMA ResultsGo ==
  ASSUME IInv, NEW S, NEW q, Moves(q, S)
  PROVE  ResultsFollow'
<1> SUFFICES ASSUME ~Loops(request'.plan) PROVE ResultsFollow'
  BY DEF ResultsFollow
<1>1. /\ request # Idle /\ RequestFollows
      /\ request.step = Len(request.plan) => request'.step = request.step
      /\ /\ request.step # Len(request.plan)
         /\ request.plan[request.step + 1] # "again"
         => request'.step = request.step + 1
  BY MoveFacts
<1>3. /\ request'.plan = request.plan /\ request'.inputs = request.inputs
      /\ request'.document = request.document /\ request'.results = q.results
  BY MoveFacts
<1>4. /\ request.step \in 1 .. Len(request.plan) /\ Len(request.plan) \in Nat
      /\ request'.step \in request.step .. Len(request.plan)
  BY <1>1, <1>3, GoesStraight
<1>5. request.root = request.document
  BY <1>1, <1>3 DEF RequestFollows
<1>6. \A x \in q.results \ request.results :
        x.root = request.root /\ request.plan[request.step] \in Queries
  BY DEF Moves, Adds, Queries, StepOf
<1>7. /\ \A x \in request.results : x.root = request.document
      /\ request.results # {} => \E i \in 1 .. request.step : request.plan[i] \in Queries
      /\ DOMAIN request.inputs # {} =>
           \E i \in 1 .. request.step : request.plan[i] \in Analyzes
  BY <1>1, <1>3 DEF IInv, RequestInv, ResultsFollow
<1>8. \A i \in 1 .. request.step : i \in 1 .. request'.step
  BY <1>4
<1>9. \A x \in q.results : x.root = request.document
  BY <1>5, <1>6, <1>7
<1>10. q.results # {} => \E i \in 1 .. request.step : request.plan[i] \in Queries
  <2>1. CASE q.results \subseteq request.results
    BY <1>7, <2>1
  <2>2. CASE \E x : x \in q.results \ request.results
    BY <1>4, <1>6, <2>2
  <2> QED
    BY <2>1, <2>2
<1> QED
  BY <1>3, <1>7, <1>8, <1>9, <1>10 DEF ResultsFollow

LEMMA OwnGoes ==
  ASSUME IInv, NEW S, S \cap {"submitted"} = {}, NEW q, Moves(q, S),
         StepOf(request) = "generation" =>
           generations[request.root] = request.submitted[request.root].generation
  PROVE  OwnFollows'
<1>1. /\ request # Idle /\ RequestFollows
      /\ UNCHANGED <<generations, pending, built, forgotten>>
  BY MoveFacts DEF Moves, Looks, submissionVars, managerVars
<1>2. /\ request'.at \in {"serving", "answered"}
      /\ request.step = Len(request.plan) => request'.step = request.step
      /\ request.step # Len(request.plan) => request'.at = "serving"
      /\ /\ request.step # Len(request.plan)
         /\ request.plan[request.step + 1] # "again"
         => request'.step = request.step + 1
  BY MoveFacts
<1>3. /\ request'.plan = request.plan /\ request'.inputs = request.inputs
      /\ request'.document = request.document /\ request'.results = q.results
      /\ request'.submitted = request.submitted
  BY MoveFacts
<1>4. PICK d : d = request.document
  OBVIOUS
<1> SUFFICES ASSUME Runs(request, Generational), d \in DOMAIN request.inputs \ forgotten
             PROVE  /\ generations[d] = request.submitted[d].generation =>
                         /\ Holding(d, request.inputs[d])'
                         /\ \A x \in q.results : SameUnit(x.input, request.inputs[d])
                    /\ request'.at = "answered" \/ request'.plan[request'.step] = "texts" =>
                         \A x \in q.results : SameUnit(x.input, request.inputs[d])
  BY <1>1, <1>3, <1>4 DEF OwnFollows, Runs, StepOf
<1>5. PICK h \in Generational : request.plan = Plan[h]
  BY DEF Runs
<1>6. /\ generations[d] = request.submitted[d].generation =>
           /\ Holding(d, request.inputs[d])
           /\ \A x \in request.results : SameUnit(x.input, request.inputs[d])
      /\ StepOf(request) = "texts" =>
           \A x \in request.results : SameUnit(x.input, request.inputs[d])
  BY <1>1, <1>4 DEF IInv, RequestInv, OwnFollows
<1>7. ~Loops(request.plan) /\ request.root = d
  BY <1>1, <1>4, <1>5, OwnPlans DEF RequestFollows
<1>8. \A x \in q.results \ request.results :
        /\ request.at = "asking" /\ x.input = built[d].input
  BY <1>7 DEF Moves, Adds
<1>9. ASSUME generations[d] = request.submitted[d].generation
      PROVE  /\ Holding(d, request.inputs[d])'
             /\ \A x \in q.results : SameUnit(x.input, request.inputs[d])
  <2>1. Holding(d, request.inputs[d])'
    BY <1>1, <1>2, <1>3, <1>6, <1>9 DEF Holding
  <2>2. \A x \in q.results : SameUnit(x.input, request.inputs[d])
    BY <1>6, <1>8, <1>9 DEF Holding, Moves, Ready
  <2> QED
    BY <2>1, <2>2
<1>10. ASSUME request'.at = "answered" \/ request'.plan[request'.step] = "texts"
       PROVE  \A x \in q.results : SameUnit(x.input, request.inputs[d])
  <2>1. StepOf(request) \in {"generation", "texts"}
    <3>1. /\ request.step \in DOMAIN request.plan
          /\ request.step # Len(request.plan) =>
               request'.at = "serving" /\ request'.step = request.step + 1
      BY <1>1, <1>2, <1>7, GoesStraight
    <3> QED
      BY <1>3, <1>5, <1>10, <3>1, OwnPlans DEF StepOf
  <2>2. q.results \subseteq request.results
    BY <1>8, <2>1 DEF Moves, Adds
  <2> QED
    BY <1>6, <1>7, <2>1, <2>2
<1> QED
  BY <1>9, <1>10

LEMMA InlayPlan ==
  /\ Len(InlayHints) = 6 /\ DOMAIN InlayHints = 1 .. 6
  /\ InlayHints[1] = "open" /\ InlayHints[2] = "settings" /\ InlayHints[3] = "analyze"
  /\ InlayHints[4] = "hints" /\ InlayHints[5] = "ask" /\ InlayHints[6] = "hints"
BY DEF InlayHints

LEMMA RunsPlans ==
  ASSUME NEW r
  PROVE  /\ Runs(r, {"inlayHints"}) <=> r.plan = InlayHints
         /\ Runs(r, {"effectiveContext"}) <=> r.plan = EffectiveContext
         /\ Runs(r, {"incomingCalls"}) <=> r.plan = IncomingCalls
         /\ Runs(r, OfItem) <=> r.plan \in {OutgoingCalls, IncomingCalls}
BY Handlers DEF Runs, OfItem

LEMMA InputStays ==
  ASSUME UNCHANGED <<documents, configuration>>, NEW d
  PROVE  Input(d)' = Input(d)
BY DEF Input, Source

LEMMA HintsGo ==
  ASSUME IInv, NEW S, NEW q, Moves(q, S), StepOf(request) \notin Analyzes,
         q.hintGeneration = IF StepOf(request) = "settings" THEN hintGeneration
                            ELSE request.hintGeneration,
         request.results \subseteq q.results,
         StepOf(request) = "ask" => q.results # {},
         StepOf(request) = "hints" => request.hintGeneration = hintGeneration
  PROVE  HintsFollow'
<1>1. /\ request # Idle /\ RequestFollows
      /\ UNCHANGED <<documents, configuration, hintGeneration, pending, built, forgotten, main,
                     refreshes>>
  BY MoveFacts DEF Moves, Looks, clientVars, stateVars, managerVars, shownVars
<1>2. /\ request'.at \in {"serving", "answered"}
      /\ request.step \in DOMAIN request.plan
      /\ request.step = Len(request.plan) => request'.step = request.step
      /\ request.step # Len(request.plan) => request'.at = "serving"
      /\ /\ request.step # Len(request.plan)
         /\ request.plan[request.step + 1] # "again"
         => request'.step = request.step + 1
  BY MoveFacts
<1>3. /\ request'.plan = request.plan /\ request'.asked = request.asked
      /\ request'.document = request.document /\ request'.results = q.results
  BY MoveFacts
<1>4. request'.hintGeneration = q.hintGeneration
  BY MoveFacts DEF Fields
<1>5. PICK d : d = request.document
  OBVIOUS
<1> SUFFICES ASSUME request.plan = InlayHints PROVE HintsFollow'
  BY <1>3, RunsPlans DEF HintsFollow, Runs
<1>6. /\ request.step \in 1 .. 6 /\ StepOf(request) = InlayHints[request.step]
      /\ request.step = 6 => request'.step = 6
      /\ request.step # 6 => request'.step = request.step + 1 /\ request'.at = "serving"
  BY <1>2, InlayPlan DEF StepOf
<1>7. request.step # 3
  BY <1>6, InlayPlan DEF Analyzes
<1>8. /\ request.step >= 3 => request.hintGeneration \in 0 .. hintGeneration
      /\ /\ request.step >= 4
         /\ request.hintGeneration = hintGeneration
         /\ main.at # "invalidate"
         /\ d \notin forgotten
         => /\ Holding(d, Input(d))
            /\ \A x \in request.results : SameUnit(x.input, Input(d))
      /\ request.step >= 6 => request.results # {}
  BY <1>1, <1>5, RunsPlans DEF IInv, RequestInv, HintsFollow
<1>9. request.root = d
  <2>1. ~Loops(request.plan)
    BY StraightPlans
  <2> QED
    BY <1>1, <1>5, <2>1 DEF RequestFollows
<1>10. \A x \in q.results \ request.results :
         request.at = "asking" /\ StepOf(request) # "hints" /\ x.input = built[d].input
  BY <1>9 DEF Moves, Adds
<1>11. Input(d)' = Input(d)
  BY <1>1, InputStays
<1>12. request'.step >= 3 => request'.hintGeneration \in 0 .. hintGeneration
  <2>1. hintGeneration \in Nat
    BY DEF IInv, ServerFollows
  <2> QED
    BY <1>4, <1>6, <1>8, <2>1, InlayPlan
<1>13. ASSUME request'.step >= 4, request'.hintGeneration = hintGeneration,
              main.at # "invalidate", d \notin forgotten
       PROVE  Holding(d, Input(d))' /\ \A x \in q.results : SameUnit(x.input, Input(d))
  <2>1. request.step >= 4 /\ request.hintGeneration = hintGeneration
    BY <1>4, <1>6, <1>7, <1>13, InlayPlan
  <2>2. /\ Holding(d, Input(d))
        /\ \A x \in request.results : SameUnit(x.input, Input(d))
    BY <1>8, <1>13, <2>1
  <2>3. Holding(d, Input(d))'
    BY <1>1, <1>2, <1>11, <2>2 DEF Holding
  <2>4. \A x \in q.results : SameUnit(x.input, Input(d))
    BY <1>10, <2>2 DEF Holding, Moves, Ready
  <2> QED
    BY <2>3, <2>4
<1>14. request'.step >= 6 => q.results # {}
  BY <1>6, <1>8, InlayPlan
<1>15. ASSUME request'.at = "answered", NEW x \in q.results
       PROVE  Fresh(d, x.input, request.asked)
  <2>1. request.step = 6 /\ StepOf(request) = "hints"
    BY <1>6, <1>15, InlayPlan
  <2>2. x \in request.results /\ request.hintGeneration = hintGeneration
    BY <1>10, <1>15, <2>1
  <2>3. CASE main.at = "invalidate"
    BY <2>3 DEF IInv, MainFollows, Resting, Fresh
  <2>4. CASE main.at # "invalidate"
    BY <1>8, <2>1, <2>2, <2>4 DEF Fresh
  <2> QED
    BY <2>3, <2>4
<1>16. \A x : Fresh(d, x, request.asked)' <=> Fresh(d, x, request.asked)
  BY <1>1, <1>3, <1>11 DEF Fresh
<1>17. request'.at = "answered" => request'.step = 6
  BY <1>6
<1> QED
  BY <1>1, <1>3, <1>5, <1>11, <1>12, <1>13, <1>14, <1>15, <1>16, <1>17 DEF HintsFollow

LEMMA ContextPlan ==
  /\ Len(EffectiveContext) = 3 /\ DOMAIN EffectiveContext = 1 .. 3
  /\ EffectiveContext[1] = "open" /\ EffectiveContext[2] = "settings"
  /\ EffectiveContext[3] = "revision"
BY DEF EffectiveContext

LEMMA ContextGoes ==
  ASSUME IInv, NEW S, NEW q, Moves(q, S),
         IF StepOf(request) = "settings"
         THEN q.revision = revision /\ q.configuration = configuration
         ELSE q.revision = request.revision /\ q.configuration = request.configuration
  PROVE  ContextFollows'
<1>1. /\ request # Idle /\ UNCHANGED <<configuration, revision>>
      /\ request.step \in DOMAIN request.plan
      /\ request.step = Len(request.plan) => request'.step = request.step
      /\ /\ request.step # Len(request.plan)
         /\ request.plan[request.step + 1] # "again"
         => request'.step = request.step + 1
  BY MoveFacts DEF Moves, Looks, stateVars
<1>2. request'.plan = request.plan
  BY MoveFacts
<1>3. request'.revision = q.revision /\ request'.configuration = q.configuration
  BY MoveFacts DEF Fields
<1> SUFFICES ASSUME request.plan = EffectiveContext, request'.step >= 3
             PROVE  /\ request'.revision \in 0 .. revision
                    /\ request'.revision = revision => request'.configuration = configuration
  BY <1>1, <1>2, RunsPlans DEF ContextFollows
<1>4. request.step \in {2, 3} /\ (request.step = 2 => StepOf(request) = "settings")
  BY <1>1, ContextPlan DEF StepOf
<1>5. request.step = 3 => /\ StepOf(request) # "settings"
                          /\ request.revision \in 0 .. revision
                          /\ request.revision = revision => request.configuration = configuration
  BY <1>1, RunsPlans, ContextPlan DEF IInv, RequestInv, ContextFollows, StepOf
<1>6. revision \in Nat
  BY DEF IInv, ServerFollows
<1> QED
  BY <1>3, <1>4, <1>5, <1>6

LEMMA ItemPlans ==
  ASSUME NEW p \in {OutgoingCalls, IncomingCalls}, NEW i \in DOMAIN p
  PROVE  p[i] \notin {"ask", "tag"}
<1>1. \A j \in DOMAIN OutgoingCalls : OutgoingCalls[j] \notin {"ask", "tag"}
  BY DEF OutgoingCalls, ValidateItem
<1>2. \A j \in DOMAIN IncomingCalls : IncomingCalls[j] \notin {"ask", "tag"}
  BY DEF IncomingCalls, ValidateItem
<1> QED
  BY <1>1, <1>2

\* What resolves the item has the content generation of the item, and so its sources.
LEMMA ItemGoes ==
  ASSUME IInv, NEW S, NEW q, Moves(q, S)
  PROVE  ItemFollows'
<1>1. request # Idle /\ request.step \in DOMAIN request.plan
  BY MoveFacts
<1>2. request'.plan = request.plan /\ request'.results = q.results
  BY MoveFacts
<1> SUFFICES ASSUME request.plan \in {OutgoingCalls, IncomingCalls},
                    NEW x \in q.results, x.root = Item.root
             PROVE  x.content = Item.content /\ x.input.sources = Item.sources
  BY <1>1, <1>2, RunsPlans DEF ItemFollows, Runs
<1>3. CASE x \in request.results
  BY <1>1, <1>3, RunsPlans DEF IInv, RequestInv, ItemFollows
<1>4. CASE x \notin request.results
  <2>1. /\ StepOf(request) \in {"ask", "tag", "itemTag", "ownTag"}
        /\ x.root = request.root /\ built[x.root] # None
        /\ x.input = built[x.root].input /\ x.content = built[x.root].content
        /\ SameContent(x.content)
    BY <1>4 DEF Moves, Adds
  <2>2. StepOf(request) \in {"itemTag", "ownTag"}
    BY <1>1, <2>1, ItemPlans DEF StepOf
  <2>3. x.content = Item.content
    BY <2>1, <2>2 DEF SameContent
  <2>4. Item.root \in Document
    BY DEF Item, Document
  <2> QED
    BY <2>1, <2>3, <2>4 DEF IInv, UnitsFollow
<1> QED
  BY <1>3, <1>4

LEMMA CallsPlan ==
  /\ Len(IncomingCalls) = 15 /\ DOMAIN IncomingCalls = 1 .. 15
  /\ IncomingCalls[1] = "item" /\ IncomingCalls[2] = "analyze"
  /\ IncomingCalls[3] = "item" /\ IncomingCalls[4] = "itemTag"
  /\ IncomingCalls[5] = "allRoots" /\ IncomingCalls[6] = "root"
  /\ IncomingCalls[7] = "analyze" /\ IncomingCalls[8] = "ownTag"
  /\ IncomingCalls[9] = "rootVersion" /\ IncomingCalls[10] = "again"
  /\ IncomingCalls[11] = "texts" /\ IncomingCalls[12] = "queried"
  /\ IncomingCalls[13] = "content" /\ IncomingCalls[14] = "current"
  /\ IncomingCalls[15] = "again"
BY DEF IncomingCalls, ValidateItem

\* Its loops begin at the sixth and at the twelfth step.
LEMMA CallsLoops ==
  /\ Place(IncomingCalls, 9) = 6 /\ Place(IncomingCalls, 14) = 12
  /\ \A r : r.plan = IncomingCalls /\ r.step = 6 => Behind(r) = 10
  /\ \A r : r.plan = IncomingCalls /\ r.step = 12 => Behind(r) = 15
<1>1. Back(IncomingCalls, 9, 6) /\ Back(IncomingCalls, 14, 12)
  BY CallsPlan DEF Back, InLoops
<1>2. Out(IncomingCalls, 6, 10) /\ Out(IncomingCalls, 12, 15)
  BY CallsPlan DEF Out
<1>3. Place(IncomingCalls, 9) = 6 /\ Place(IncomingCalls, 14) = 12
  BY <1>1, PlaceIs
<1>4. ASSUME NEW r, r.plan = IncomingCalls, r.step = 6
      PROVE  Behind(r) = 10
  <2>1. /\ r.step \in Nat /\ Len(r.plan) \in Nat /\ 10 \in r.step .. Len(r.plan)
        /\ Out(r.plan, r.step, 10)
    BY <1>2, <1>4, CallsPlan
  <2> QED
    BY <2>1, BehindIs
<1>5. ASSUME NEW r, r.plan = IncomingCalls, r.step = 12
      PROVE  Behind(r) = 15
  <2>1. /\ r.step \in Nat /\ Len(r.plan) \in Nat /\ 15 \in r.step .. Len(r.plan)
        /\ Out(r.plan, r.step, 15)
    BY <1>2, <1>5, CallsPlan
  <2> QED
    BY <2>1, BehindIs
<1> QED
  BY <1>3, <1>4, <1>5

LEMMA CallsMove ==
  ASSUME IInv, NEW S, NEW q, Moves(q, S), request.plan = IncomingCalls
  PROVE  /\ request # Idle /\ request.step \in 1 .. 14 \ {10}
         /\ StepOf(request) = IncomingCalls[request.step]
         /\ CallsAsked /\ CallsTested
         /\ UNCHANGED <<built, submissions, contents>>
         /\ request'.at = "serving" /\ request'.left = q.left
         /\ request'.step = IF request.step = 9 THEN 6
                            ELSE IF request.step = 14 THEN 12 ELSE request.step + 1
         /\ request'.root = q.root /\ request'.results = q.results /\ request'.tags = q.tags
         /\ request'.submitted = q.submitted /\ request'.moment = q.moment
<1>1. request # Idle
  BY DEF Moves
<1>2. CallsAsked /\ CallsTested
  BY <1>1, RunsPlans DEF IInv, RequestInv, CallsFollow
<1>3. UNCHANGED <<built, submissions, contents>>
  BY DEF Moves, Looks, submissionVars, managerVars
<1>4. /\ request.step # Len(request.plan) => request'.at = "serving" /\ request'.left = q.left
      /\ /\ request.step # Len(request.plan)
         /\ request.plan[request.step + 1] # "again"
         => request'.step = request.step + 1
      /\ /\ request.step # Len(request.plan)
         /\ request.plan[request.step + 1] = "again"
         => request'.step = Place(request.plan, request.step)
      /\ \A f \in Fields \ {"at", "step", "left"} : request'[f] = q[f]
  BY MoveFacts
<1>5. request.step \in 1 .. 14 \ {10}
  BY <1>2 DEF CallsAsked
<1>6. request'.step = IF request.step = 9 THEN 6
                      ELSE IF request.step = 14 THEN 12 ELSE request.step + 1
  BY <1>4, <1>5, CallsPlan, CallsLoops
<1> QED
  BY <1>1, <1>2, <1>3, <1>4, <1>5, <1>6, CallsPlan DEF StepOf, Fields

\* A test of the request.
LEMMA CallsTest ==
  ASSUME IInv, NEW S, S \subseteq {"snapshots"}, NEW q, Moves(q, S),
         request.plan = IncomingCalls, StepOf(request) \in {"item", "rootVersion", "current"},
         StepOf(request) = "current" =>
           submissions[request.root] = request.submitted[request.root]
  PROVE  CallsAsked' /\ CallsTested'
<1>1. /\ request'.root = request.root /\ request'.left = request.left
      /\ request'.results = request.results /\ request'.tags = request.tags
      /\ request'.submitted = request.submitted /\ request'.moment = request.moment
  BY CallsMove DEF Moves, Alters, Fields
<1>2. request.step \in {1, 3, 9, 14} /\ (request.step = 14 => StepOf(request) = "current")
  BY CallsMove, CallsPlan
<1>3. request'.step = IF request.step = 9 THEN 6
                      ELSE IF request.step = 14 THEN 12 ELSE request.step + 1
  BY CallsMove
<1>4. /\ CallsAsked /\ CallsTested /\ UNCHANGED <<built, submissions, contents>>
      /\ request'.at = "serving"
  BY CallsMove
<1>5. CallsAsked'
  BY <1>1, <1>2, <1>3, <1>4 DEF CallsAsked
<1>6. CallsTested'
  BY <1>1, <1>2, <1>3, <1>4 DEF CallsTested, ToTest, ContentGone, SubmissionGone
<1> QED
  BY <1>5, <1>6

\* The item is resolved, or a root is asked.
LEMMA CallsTag ==
  ASSUME IInv, NEW q, Moves(q, {"results", "tags"}), request.plan = IncomingCalls,
         request.at = "asking", StepOf(request) \in {"itemTag", "ownTag"},
         built[request.root] # None, SameContent(built[request.root].content),
         q.tags = Set(request.tags, request.root, built[request.root].content)
  PROVE  CallsAsked' /\ CallsTested'
<1>1. /\ request'.root = request.root /\ request'.left = request.left
      /\ request'.results = q.results /\ request'.tags = q.tags
      /\ request'.submitted = request.submitted
  <2>1. /\ request'.root = q.root /\ request'.left = q.left
        /\ request'.results = q.results /\ request'.tags = q.tags
        /\ request'.submitted = q.submitted
    BY CallsMove
  <2>2. q.root = request.root /\ q.left = request.left /\ q.submitted = request.submitted
    BY DEF Moves, Alters, Fields
  <2> QED
    BY <2>1, <2>2
<1>2. request.step \in {4, 8} /\ request'.step = request.step + 1
  BY CallsMove, CallsPlan
<1>3. CallsAsked /\ UNCHANGED <<built, submissions, contents>> /\ request'.at = "serving"
  BY CallsMove
<1>4. PICK d, c : d = request.root /\ c = built[d].content
  OBVIOUS
<1>5. /\ DOMAIN q.tags = DOMAIN request.tags \cup {d}
      /\ \A x \in DOMAIN q.tags : q.tags[x] = IF x = d THEN c ELSE request.tags[x]
  BY <1>4 DEF Set
<1>6. d \in Document /\ c \in 1 .. contents
  BY <1>4, CallsMove DEF IInv, RequestInv, RequestFollows, UnitsFollow
<1>7. ASSUME NEW x \in q.results
      PROVE  /\ x.root \in DOMAIN q.tags \cap DOMAIN request.submitted
             /\ q.tags[x.root] = x.content
             /\ x.content \in 1 .. contents
             /\ x.root # Item.root =>
                  request'.step > 5 /\ x.root \notin request.left
  <2>1. CASE x \in request.results
    <3>1. x.root = d => x.content = c
      <4>1. CASE d = Item.root
        <5>1. x.root = d => x.content = Item.content
          BY <2>1, <4>1, CallsMove, RunsPlans DEF IInv, RequestInv, ItemFollows
        <5>2. c = Item.content
          BY <1>2, <1>4, <4>1 DEF SameContent
        <5> QED
          BY <5>1, <5>2
      <4>2. CASE d # Item.root
        BY <1>2, <1>3, <1>4, <2>1, <4>2 DEF CallsAsked
      <4> QED
        BY <4>1, <4>2
    <3> QED
      BY <1>2, <1>3, <1>5, <2>1, <3>1 DEF CallsAsked
  <2>2. CASE x \notin request.results
    <3>1. x.root = d /\ x.content = c
      BY <1>4, <1>7, <2>2 DEF Moves, Adds
    <3> QED
      BY <1>2, <1>3, <1>4, <1>5, <1>6, <3>1 DEF CallsAsked
  <2> QED
    BY <2>1, <2>2
<1> QED
  BY <1>1, <1>2, <1>3, <1>7 DEF CallsAsked, CallsTested

\* The roots are listed, and visited one after the other.
LEMMA CallsList ==
  ASSUME IInv, NEW q, Moves(q, {"left", "listed"}), request.plan = IncomingCalls,
         StepOf(request) = "allRoots"
  PROVE  CallsAsked' /\ CallsTested'
<1>1. /\ request'.root = request.root /\ request'.left = q.left
      /\ request'.results = request.results /\ request'.tags = request.tags
      /\ request'.submitted = request.submitted
  <2>1. /\ request'.root = q.root /\ request'.left = q.left
        /\ request'.results = q.results /\ request'.tags = q.tags
        /\ request'.submitted = q.submitted
    BY CallsMove
  <2>2. /\ q.root = request.root /\ q.results = request.results /\ q.tags = request.tags
        /\ q.submitted = request.submitted
    BY DEF Moves, Alters, Fields
  <2> QED
    BY <2>1, <2>2
<1>2. request.step = 5 /\ request'.step = 6 /\ request'.at = "serving"
  BY CallsMove, CallsPlan
<1>3. CallsAsked /\ UNCHANGED contents
  BY CallsMove
<1> QED
  BY <1>1, <1>2, <1>3 DEF CallsAsked, CallsTested

LEMMA CallsNextRoot ==
  ASSUME IInv, NEW S, S \subseteq {"root", "left", "snapshots"}, NEW q, Moves(q, S),
         request.plan = IncomingCalls, StepOf(request) \in {"root", "queried"},
         q.root \in request.left, q.left = request.left \ {q.root}
  PROVE  CallsAsked' /\ CallsTested'
<1>1. /\ request'.root = q.root /\ request'.left = q.left /\ request'.at = "serving"
      /\ request'.results = request.results /\ request'.tags = request.tags
      /\ request'.submitted = request.submitted /\ request'.moment = request.moment
  <2>1. /\ request'.root = q.root /\ request'.left = q.left /\ request'.at = "serving"
        /\ request'.results = q.results /\ request'.tags = q.tags
        /\ request'.submitted = q.submitted /\ request'.moment = q.moment
    BY CallsMove
  <2>2. /\ q.results = request.results /\ q.tags = request.tags
        /\ q.submitted = request.submitted /\ q.moment = request.moment
    BY DEF Moves, Alters, Fields
  <2> QED
    BY <2>1, <2>2
<1>2. request.step \in {6, 12} /\ request'.step = request.step + 1
  BY CallsMove, CallsPlan
<1>3. CallsAsked /\ CallsTested /\ UNCHANGED <<built, submissions, contents>>
  BY CallsMove
<1>4. CallsAsked'
  BY <1>1, <1>2, <1>3 DEF CallsAsked
<1>5. CallsTested'
  BY <1>1, <1>2, <1>3 DEF CallsTested, ToTest, ContentGone, SubmissionGone
<1> QED
  BY <1>4, <1>5

\* The texts are read at the moment the property is about; all that was asked is
\* to be tested from then on.
LEMMA CallsTexts ==
  ASSUME IInv, NEW q, Moves(q, {"texts", "moment", "left"}), request.plan = IncomingCalls,
         StepOf(request) = "texts", q.moment = Unchanged(request),
         q.left = {x.root : x \in request.results}
  PROVE  CallsAsked' /\ CallsTested'
<1>1. /\ request'.root = request.root /\ request'.left = q.left
      /\ request'.results = request.results /\ request'.tags = request.tags
      /\ request'.submitted = request.submitted /\ request'.moment = Unchanged(request)
      /\ request'.at = "serving"
  <2>1. /\ request'.root = q.root /\ request'.left = q.left /\ request'.at = "serving"
        /\ request'.results = q.results /\ request'.tags = q.tags
        /\ request'.submitted = q.submitted /\ request'.moment = q.moment
    BY CallsMove
  <2>2. /\ q.root = request.root /\ q.results = request.results /\ q.tags = request.tags
        /\ q.submitted = request.submitted
    BY DEF Moves, Alters, Fields
  <2> QED
    BY <2>1, <2>2
<1>2. request.step = 11 /\ request'.step = 12
  BY CallsMove, CallsPlan
<1>3. CallsAsked /\ UNCHANGED <<built, submissions, contents>>
  BY CallsMove
<1>4. CallsAsked'
  BY <1>1, <1>2, <1>3 DEF CallsAsked
<1>5. ASSUME ~Unchanged(request)
      PROVE  \E x \in request.results : ContentGone(x) \/ SubmissionGone(x)
  BY <1>5 DEF Unchanged, ContentGone, SubmissionGone
<1>6. CallsTested'
  BY <1>1, <1>2, <1>3, <1>5 DEF CallsTested, ToTest, ContentGone, SubmissionGone
<1> QED
  BY <1>4, <1>6

\* A root still has the content that was asked, and is tested for its submission.
LEMMA CallsContent ==
  ASSUME IInv, NEW q, Moves(q, {}), request.plan = IncomingCalls,
         StepOf(request) = "content", built[request.root] # None,
         SameContent(built[request.root].content)
  PROVE  CallsAsked' /\ CallsTested'
<1>1. /\ request'.root = request.root /\ request'.left = request.left
      /\ request'.results = request.results /\ request'.tags = request.tags
      /\ request'.submitted = request.submitted /\ request'.moment = request.moment
      /\ request'.at = "serving"
  <2>1. /\ request'.root = q.root /\ request'.left = q.left /\ request'.at = "serving"
        /\ request'.results = q.results /\ request'.tags = q.tags
        /\ request'.submitted = q.submitted /\ request'.moment = q.moment
    BY CallsMove
  <2>2. /\ q.root = request.root /\ q.left = request.left
        /\ q.results = request.results /\ q.tags = request.tags
        /\ q.submitted = request.submitted /\ q.moment = request.moment
    BY DEF Moves, Alters, Fields
  <2> QED
    BY <2>1, <2>2
<1>2. request.step = 13 /\ request'.step = 14
  BY CallsMove, CallsPlan
<1>3. CallsAsked /\ CallsTested /\ UNCHANGED <<built, submissions, contents>>
  BY CallsMove
<1>4. \A x \in request.results : x.root = request.root => ~ContentGone(x)
  BY <1>3 DEF CallsAsked, SameContent, ContentGone
<1>5. CallsAsked'
  BY <1>1, <1>2, <1>3 DEF CallsAsked
<1>6. CallsTested'
  BY <1>1, <1>2, <1>3, <1>4 DEF CallsTested, ToTest, ContentGone, SubmissionGone
<1> QED
  BY <1>5, <1>6

\* Behind its loops the request is about the document of the item again; when all
\* has been tested, nothing was gone.
LEMMA CallsLast ==
  ASSUME IInv, request # Idle, request.plan = IncomingCalls, Looks,
         StepOf(request) \in {"root", "queried"}, request.left = {},
         NEW q, Alters(q, {"root"}), q.root = request.document,
         request' = After(q, Behind(request))
  PROVE  CallsAsked' /\ CallsTested'
<1>1. RequestFollows /\ CallsAsked /\ CallsTested
  BY RunsPlans DEF IInv, RequestInv, CallsFollow
<1>2. request.step \in {6, 12}
  BY <1>1, CallsPlan DEF CallsAsked, StepOf
<1>3. PICK i : i = IF request.step = 6 THEN 10 ELSE 15
  OBVIOUS
<1>4. request' = After(q, i) /\ i \in DOMAIN request.plan
  BY <1>2, <1>3, CallsLoops, CallsPlan
<1>5. /\ \A f \in Fields \ {"at", "step", "left"} : request'[f] = q[f]
      /\ i = Len(request.plan) =>
           /\ request'.at = "answered" /\ request'.left = {}
           /\ request'.step = request.step
      /\ i # Len(request.plan) => request'.at = "serving" /\ request'.left = q.left
      /\ i # Len(request.plan) /\ request.plan[i + 1] # "again" => request'.step = i + 1
  <2>1. PICK S : S = {"root"}
    OBVIOUS
  <2>3. S \cap {"plan", "step", "document", "asked"} = {} /\ RequestFollows
    BY <1>1, <2>1
  <2>2. Alters(q, S)
    BY <2>1
  <2> QED
    BY ONLY <1>4, <2>2, <2>3, Goes, request # Idle
<1>6. /\ request'.root = request.document /\ request'.left = {}
      /\ request'.results = request.results /\ request'.tags = request.tags
      /\ request'.submitted = request.submitted /\ request'.moment = request.moment
  BY <1>5 DEF Alters, Fields
<1>7. /\ request'.step = IF request.step = 6 THEN 11 ELSE 12
      /\ request.step = 6 => request'.at = "serving"
  BY <1>2, <1>3, <1>5, CallsPlan
<1>8. UNCHANGED <<built, submissions, contents>>
  BY DEF Looks, submissionVars, managerVars
<1>9. request.step = 12 => request.moment
  BY <1>1 DEF CallsTested, ToTest
<1>10. CallsAsked'
  BY <1>1, <1>2, <1>6, <1>7, <1>8 DEF CallsAsked
<1>11. CallsTested'
  BY <1>2, <1>6, <1>7, <1>9 DEF CallsTested
<1> QED
  BY <1>10, <1>11

LEMMA IdleKeeps ==
  ASSUME request' = Idle
  PROVE  RequestInv'
BY DEF RequestInv, RequestFollows, SubmittedFollows, ResultsFollow, OwnFollows, HintsFollow,
   ContextFollows, ItemFollows, CallsFollow

LEMMA LooksKeep ==
  ASSUME IInv, Looks
  PROVE  ServerFollows' /\ UnitsFollow' /\ MainFollows' /\ ShownFollows'
<1>1. /\ UNCHANGED <<documents, texts, configuration, revision, hintGeneration, generations,
                     submissions, pending, built, contents, forgotten, main, hints, refreshes>>
  BY DEF Looks, clientVars, stateVars, submissionVars, managerVars, shownVars
<1>2. \A d : Input(d)' = Input(d)
  BY <1>1, InputStays
<1>3. ServerFollows' /\ UnitsFollow'
  BY <1>1 DEF IInv, ServerFollows, UnitsFollow
<1>4. MainFollows'
  BY <1>1, <1>2 DEF IInv, MainFollows
<1>5. ShownFollows'
  BY <1>1, <1>2 DEF IInv, ShownFollows, Fresh
<1> QED
  BY <1>3, <1>4, <1>5

LEMMA MovesKeep ==
  ASSUME IInv, NEW S, S \cap {"submitted"} = {}, NEW q, Moves(q, S),
         q.root \in Document, q.left \subseteq Document,
         ~Loops(request.plan) => q.root = request.root,
         StepOf(request) \notin Analyzes,
         StepOf(request) = "generation" =>
           generations[request.root] = request.submitted[request.root].generation,
         IF StepOf(request) = "settings"
         THEN /\ q.hintGeneration = hintGeneration /\ q.revision = revision
              /\ q.configuration = configuration
         ELSE /\ q.hintGeneration = request.hintGeneration /\ q.revision = request.revision
              /\ q.configuration = request.configuration,
         request.results \subseteq q.results,
         StepOf(request) = "ask" => q.results # {},
         StepOf(request) = "hints" => request.hintGeneration = hintGeneration,
         request.plan = IncomingCalls => CallsAsked' /\ CallsTested'
  PROVE  RequestInv'
<1>1. SubmittedFollows'
  BY SubmittedGoes
<1>2. ResultsFollow'
  BY ResultsGo
<1>3. OwnFollows'
  BY OwnGoes
<1>4. HintsFollow'
  BY HintsGo
<1>5. ContextFollows'
  BY ContextGoes
<1>6. ItemFollows'
  BY ItemGoes
<1>7. request'.plan = request.plan /\ request.step \in DOMAIN request.plan /\ request # Idle
  BY MoveFacts
<1>8. CallsFollow'
  BY <1>7, RunsPlans DEF CallsFollow
<1>9. RequestFollows'
  <2>1. RequestFollows /\ request # Idle
    BY MoveFacts
  <2>2. S \cap {"plan", "step", "document", "asked"} = {} /\ Alters(q, S)
    BY DEF Moves
  <2>3. request' = After(q, request.step) /\ UNCHANGED refreshes
    BY DEF Moves, GoesAs, Looks, shownVars
  <2>4. \A x \in q.results : x.root \in Document
    BY <2>1 DEF Moves, Adds, RequestFollows
  <2> QED
    BY <1>7, <2>1, <2>2, <2>3, <2>4, TypesGo
<1> QED
  BY <1>1, <1>2, <1>3, <1>4, <1>5, <1>6, <1>8, <1>9 DEF RequestInv

\* The tests, and what takes a snapshot.
LEMMA TestsKeep ==
  ASSUME IInv, request # Idle, request.at = "serving", Looks,
         NEW S, S \in {{}, {"snapshots"}}, NEW q, Alters(q, S), GoesAs(q),
         StepOf(request) \in {"open", "item", "version", "rootVersion", "generation",
                              "current", "hints", "revision"},
         StepOf(request) = "generation" =>
           generations[request.root] = request.submitted[request.root].generation,
         StepOf(request) = "hints" => request.hintGeneration = hintGeneration,
         StepOf(request) = "current" =>
           submissions[request.root] = request.submitted[request.root]
  PROVE  RequestInv'
<1>1. \A f \in Fields \ {"snapshots"} : q[f] = request[f]
  BY DEF Alters
<1>2. /\ q.root = request.root /\ q.left = request.left /\ q.results = request.results
      /\ q.hintGeneration = request.hintGeneration /\ q.revision = request.revision
      /\ q.configuration = request.configuration
  BY <1>1 DEF Fields
<1>3. /\ S \cap {"plan", "step", "document", "asked", "inputs"} = {}
      /\ S \cap {"submitted"} = {} /\ S \subseteq {"snapshots"}
  OBVIOUS
<1>4. Moves(q, S)
  BY <1>2, <1>3 DEF Moves, Ready, Adds
<1>5. request.root \in Document /\ request.left \subseteq Document
  BY DEF IInv, RequestInv, RequestFollows
<1>6. StepOf(request) \notin Analyzes \cup {"settings", "ask"}
  BY DEF Analyzes
<1>7. ASSUME request.plan = IncomingCalls
      PROVE  CallsAsked' /\ CallsTested'
  <2>1. StepOf(request) \in {"item", "rootVersion", "current"}
    <3>1. request.step \in 1 .. 14 \ {10} /\ StepOf(request) = IncomingCalls[request.step]
      BY <1>4, <1>7, CallsMove
    <3> QED
      BY <3>1, CallsPlan
  <2> QED
    BY <1>3, <1>4, <1>7, <2>1, CallsTest
<1> QED
  BY <1>2, <1>3, <1>4, <1>5, <1>6, <1>7, MovesKeep

LEMMA Serving ==
  ASSUME NEW s, At(s)
  PROVE  request # Idle /\ request.at = "serving" /\ StepOf(request) = s
BY DEF At, Idle

LEMMA AsItIs == ASSUME IInv, request # Idle PROVE Alters(request, {})
BY DEF IInv, RequestInv, RequestFollows, Alters

LEMMA TestKeeps ==
  ASSUME IInv, Looks, NEW ok \in BOOLEAN, GoOn(ok, request), NEW s, At(s),
         s \in {"version", "rootVersion", "generation", "current", "hints", "revision"},
         s = "generation" /\ ok =>
           generations[request.root] = request.submitted[request.root].generation,
         s = "hints" /\ ok => request.hintGeneration = hintGeneration,
         s = "current" /\ ok => submissions[request.root] = request.submitted[request.root]
  PROVE  RequestInv'
<1>1. CASE ~ok
  BY <1>1, IdleKeeps DEF GoOn
<1>2. CASE ok
  <2>1. GoesAs(request)
    BY <1>2 DEF GoOn, GoesAs
  <2>2. request # Idle /\ request.at = "serving" /\ StepOf(request) = s
    BY Serving
  <2>3. Alters(request, {})
    BY <2>2, AsItIs
  <2>4. PICK S : S = {}
    OBVIOUS
  <2> QED
    BY <1>2, <2>1, <2>2, <2>3, <2>4, TestsKeep
<1> QED
  BY <1>1, <1>2

LEMMA TestsStep ==
  ASSUME IInv, Version \/ RootVersion \/ Generation \/ Current \/ HintsCurrent \/ Revision
  PROVE  RequestInv'
<1>1. CASE Version
  <2>1. SameVersion \in BOOLEAN
    BY DEF SameVersion
  <2> QED
    BY <1>1, <2>1, TestKeeps DEF Version
<1>2. CASE RootVersion
  BY <1>2, TestKeeps DEF RootVersion
<1>3. CASE Generation
  BY <1>3, TestKeeps DEF Generation
<1>4. CASE Current
  BY <1>4, TestKeeps DEF Current, CurrentSubmission
<1>5. CASE HintsCurrent
  BY <1>5, TestKeeps DEF HintsCurrent
<1>6. CASE Revision
  BY <1>6, TestKeeps DEF Revision
<1> QED
  BY <1>1, <1>2, <1>3, <1>4, <1>5, <1>6

\* A snapshot is taken.
LEMMA SnapshotSteps == ASSUME IInv, Open \/ OpenItem PROVE RequestInv'
<1>1. PICK s \in {"open", "item"} : At(s) /\ Looks
  BY DEF Open, OpenItem
<1>2. request # Idle /\ request.at = "serving" /\ StepOf(request) = s
  BY <1>1, Serving
<1>3. PICK v : request' = Idle \/ GoesAs([request EXCEPT !.snapshots = v])
  <2>1. CASE Open
    <3> DEFINE v == Set(request.snapshots, request.document, Snapshot(request.document))
    <3>1. request' = Idle \/ GoesAs([request EXCEPT !.snapshots = v])
      BY <2>1 DEF Open, GoOn, GoesAs
    <3> QED
      BY <3>1
  <2>2. CASE OpenItem
    <3> DEFINE v == Set(request.snapshots, request.root, documents[request.root])
    <3>1. request' = Idle \/ GoesAs([request EXCEPT !.snapshots = v])
      BY <2>2 DEF OpenItem, GoOn, GoesAs
    <3> QED
      BY <3>1
  <2> QED
    BY <2>1, <2>2
<1>4. Alters([request EXCEPT !.snapshots = v], {"snapshots"})
  BY <1>2 DEF IInv, RequestInv, RequestFollows, Alters, Fields
<1>5. CASE request' = Idle
  BY <1>5, IdleKeeps
<1>6. CASE GoesAs([request EXCEPT !.snapshots = v])
  BY <1>1, <1>2, <1>4, <1>6, TestsKeep
<1> QED
  BY <1>3, <1>5, <1>6

\* In a plan that is not that of the incoming calls.
LEMMA NotCalls ==
  ASSUME IInv, request # Idle,
         StepOf(request) \in {"open", "settings", "analyzeSettings", "submitted", "listed",
                              "someRoots", "ask", "tag", "confirm", "generation", "hints",
                              "revision"}
  PROVE  request.plan # IncomingCalls
BY CallsPlan DEF IInv, RequestInv, RequestFollows, StepOf

LEMMA SettingsStep == ASSUME IInv, Settings PROVE RequestInv'
<1>1. At("settings") /\ Looks
  BY DEF Settings
<1>2. request # Idle /\ request.at = "serving" /\ StepOf(request) = "settings"
  BY <1>1, Serving
<1>3. PICK q : q = [request EXCEPT !.configuration = configuration, !.revision = revision,
                                   !.hintGeneration = hintGeneration]
  OBVIOUS
<1>4. PICK S : S = {"configuration", "revision", "hintGeneration"}
  OBVIOUS
<1>5. GoesAs(q)
  BY <1>3 DEF Settings, GoOn, GoesAs
<1>6. DOMAIN request = Fields
  BY <1>2 DEF IInv, RequestInv, RequestFollows
<1>7. /\ Alters(q, S) /\ q.root = request.root /\ q.left = request.left
      /\ q.results = request.results
      /\ q.hintGeneration = hintGeneration /\ q.revision = revision
      /\ q.configuration = configuration
  BY <1>3, <1>4, <1>6 DEF Alters, Fields
<1>8. /\ S \cap {"plan", "step", "document", "asked", "inputs"} = {}
      /\ S \cap {"submitted"} = {}
  BY <1>4
<1>9. Moves(q, S)
  BY <1>1, <1>2, <1>5, <1>7, <1>8 DEF Moves, Ready, Adds
<1>10. request.root \in Document /\ request.left \subseteq Document
  BY <1>2 DEF IInv, RequestInv, RequestFollows
<1>11. request.plan # IncomingCalls
  BY <1>2, NotCalls
<1> QED
  BY <1>2, <1>7, <1>8, <1>9, <1>10, <1>11, MovesKeep DEF Analyzes

LEMMA SubmittedStep == ASSUME IInv, Submitted PROVE RequestInv'
<1>1. At("submitted") /\ Looks
  BY DEF Submitted
<1>2. request # Idle /\ request.at = "serving" /\ StepOf(request) = "submitted"
  BY <1>1, Serving
<1>3. PICK q : q = [request EXCEPT !.submitted =
                      Set(request.submitted, request.root, submissions[request.root])]
  OBVIOUS
<1>4. PICK S : S = {"submitted"}
  OBVIOUS
<1> SUFFICES ASSUME GoesAs(q) PROVE RequestInv'
  BY <1>3, IdleKeeps DEF Submitted, GoOn, GoesAs
<1>5. /\ DOMAIN request = Fields /\ request.root \in Document /\ request.left \subseteq Document
      /\ request.step \in DOMAIN request.plan
      /\ \A x \in request.results : x.root \in Document
  BY <1>2 DEF IInv, RequestInv, RequestFollows
<1>6. /\ Alters(q, S) /\ q.root = request.root /\ q.left = request.left
      /\ q.results = request.results
      /\ q.submitted = Set(request.submitted, request.root, submissions[request.root])
      /\ q.hintGeneration = request.hintGeneration /\ q.revision = request.revision
      /\ q.configuration = request.configuration
  BY <1>3, <1>4, <1>5 DEF Alters, Fields
<1>7. S \cap {"plan", "step", "document", "asked", "inputs"} = {}
  BY <1>4
<1>8. Moves(q, S)
  BY <1>1, <1>2, <1>6, <1>7 DEF Moves, Ready, Adds
<1>9. /\ request'.plan = request.plan /\ request'.document = request.document
      /\ request'.inputs = request.inputs
  BY <1>8, MoveFacts
<1>10. request'.submitted = q.submitted
  BY <1>8, MoveFacts DEF Fields
<1>11. SubmittedFollows'
  <2>1. UNCHANGED submissions
    BY <1>1 DEF Looks, submissionVars
  <2>2. submissions[request.root].generation \in Nat
    BY <1>5 DEF IInv, ServerFollows
  <2>3. /\ DOMAIN q.submitted = DOMAIN request.submitted \cup {request.root}
        /\ \A d \in DOMAIN q.submitted :
             q.submitted[d] = IF d = request.root THEN submissions[d] ELSE request.submitted[d]
    BY <1>6 DEF Set
  <2> QED
    BY <1>2, <1>5, <1>9, <1>10, <2>1, <2>2, <2>3 DEF IInv, RequestInv, SubmittedFollows
<1>12. OwnFollows'
  <2> SUFFICES ASSUME Runs(request, Generational) PROVE DOMAIN request.inputs = {}
    BY <1>9 DEF OwnFollows, Runs
  <2>1. PICK h \in Generational : request.plan = Plan[h]
    BY DEF Runs
  <2>2. PICK p : p = Plan[h]
    OBVIOUS
  <2>3. ~Loops(p) /\ \A i, j \in DOMAIN p : p[i] = "submitted" => p[j] \notin Analyzes
    BY <2>2, OwnPlans
  <2>4. DOMAIN request.inputs # {} => \E i \in 1 .. request.step : request.plan[i] \in Analyzes
    BY <1>2, <2>1, <2>2, <2>3 DEF IInv, RequestInv, ResultsFollow
  <2>5. 1 .. request.step \subseteq DOMAIN request.plan
    BY <1>2, <1>5, PlanFacts DEF IInv, RequestInv, WellFormed
  <2> QED
    BY <1>2, <1>5, <2>1, <2>2, <2>3, <2>4, <2>5 DEF StepOf
<1>13. ResultsFollow'
  BY <1>8, ResultsGo
<1>14. HintsFollow'
  BY <1>2, <1>6, <1>8, HintsGo DEF Analyzes
<1>15. ContextFollows'
  BY <1>2, <1>6, <1>8, ContextGoes
<1>16. ItemFollows'
  BY <1>8, ItemGoes
<1>17. CallsFollow'
  BY <1>2, <1>9, NotCalls, RunsPlans DEF CallsFollow
<1>18. RequestFollows'
  <2>1. RequestFollows /\ S \cap {"plan", "step", "document", "asked"} = {}
    BY <1>7 DEF IInv, RequestInv
  <2>2. request' = After(q, request.step) /\ UNCHANGED refreshes
    BY <1>1 DEF GoesAs, Looks, shownVars
  <2> QED
    BY <1>2, <1>5, <1>6, <2>1, <2>2, TypesGo
<1> QED
  BY <1>11, <1>12, <1>13, <1>14, <1>15, <1>16, <1>17, <1>18 DEF RequestInv

\* It asks the manager, behind what is pending.
LEMMA AskStep == ASSUME IInv, Ask PROVE RequestInv'
<1>1. request.at = "serving" /\ StepOf(request) \in Queries /\ Looks /\ request # Idle
  BY DEF Ask, Idle
<1>2. PICK b : b = (pending[request.root] # None) /\ b \in BOOLEAN
  OBVIOUS
<1>3. request' = [request EXCEPT !.at = "asking", !.behind = b]
  BY <1>2 DEF Ask
<1>4. DOMAIN request = Fields /\ request.document \in Document
  BY <1>1 DEF IInv, RequestInv, RequestFollows
<1>5. /\ DOMAIN request' = Fields /\ request'.at = "asking" /\ request'.behind = b
      /\ \A f \in Fields \ {"at", "behind"} : request'[f] = request[f]
  BY <1>3, <1>4 DEF Fields
<1>6. /\ request'.plan = request.plan /\ request'.document = request.document
      /\ request'.step = request.step /\ request'.root = request.root
      /\ request'.left = request.left /\ request'.results = request.results
      /\ request'.submitted = request.submitted /\ request'.inputs = request.inputs
      /\ request'.asked = request.asked /\ request'.hintGeneration = request.hintGeneration
      /\ request'.revision = request.revision /\ request'.configuration = request.configuration
      /\ request'.tags = request.tags /\ request'.moment = request.moment
  BY <1>5 DEF Fields
<1>7. /\ UNCHANGED <<documents, texts, configuration, revision, hintGeneration, generations,
                     submissions, pending, built, contents, forgotten, main, refreshes>>
  BY <1>1 DEF Looks, clientVars, stateVars, submissionVars, managerVars, shownVars
<1>8. \A d : Input(d)' = Input(d)
  BY <1>7, InputStays
<1>9. /\ \A hs : Runs(request, hs)' <=> Runs(request, hs)
      /\ StepOf(request)' = StepOf(request)
  BY <1>6 DEF Runs, StepOf
<1>10. RequestFollows'
  BY <1>1, <1>5, <1>6, <1>7, <1>9 DEF IInv, RequestInv, RequestFollows
<1>11. SubmittedFollows' /\ ResultsFollow' /\ ContextFollows' /\ ItemFollows'
  BY <1>1, <1>6, <1>7, <1>9
     DEF IInv, RequestInv, SubmittedFollows, ResultsFollow, ContextFollows, ItemFollows
<1>12. ASSUME NEW d, d = request.root, NEW i, Holding(d, i)
       PROVE  Holding(d, i)'
  BY <1>1, <1>2, <1>5, <1>7, <1>12 DEF Holding
<1>13. OwnFollows'
  <2> SUFFICES ASSUME Runs(request, Generational),
                      request.document \in DOMAIN request.inputs \ forgotten
               PROVE  OwnFollows'
    BY <1>6, <1>7, <1>9 DEF OwnFollows
  <2>1. request.root = request.document
    BY <1>1, OwnPlans DEF IInv, RequestInv, RequestFollows, Runs
  <2> QED
    BY <1>1, <1>5, <1>6, <1>7, <1>9, <1>12, <2>1 DEF IInv, RequestInv, OwnFollows
<1>14. HintsFollow'
  <2> SUFFICES ASSUME request.plan = InlayHints PROVE HintsFollow'
    BY <1>6, RunsPlans DEF HintsFollow
  <2>1. request.root = request.document
    BY <1>1, StraightPlans DEF IInv, RequestInv, RequestFollows
  <2> QED
    BY <1>1, <1>5, <1>6, <1>7, <1>8, <1>9, <1>12, <2>1 DEF IInv, RequestInv, HintsFollow
<1>15. CallsFollow'
  BY <1>1, <1>5, <1>6, <1>7, <1>9
     DEF IInv, RequestInv, CallsFollow, CallsAsked, CallsTested, ToTest, ContentGone,
         SubmissionGone
<1> QED
  BY <1>10, <1>11, <1>13, <1>14, <1>15 DEF RequestInv

LEMMA FailStep == ASSUME Fail PROVE RequestInv'
BY IdleKeeps DEF Fail

\* What the answer of the manager makes of the request.
LEMMA ReturnedIs ==
  ASSUME IInv, request # Idle, StepOf(request) \in Queries, NEW x
  PROVE  LET q == Returned(request, x) IN
         /\ Alters(q, {"results", "tags", "confirmed"})
         /\ q.results = IF StepOf(request) \in {"ask", "tag", "itemTag", "ownTag"}
                        THEN request.results \cup {x} ELSE request.results
         /\ StepOf(request) \in {"itemTag", "ownTag"} =>
              /\ Alters(q, {"results", "tags"})
              /\ q.tags = Set(request.tags, request.root, x.content)
         /\ StepOf(request) = "content" => Alters(q, {})
<1>1. DOMAIN request = Fields
  BY DEF IInv, RequestInv, RequestFollows
<1>2. CASE StepOf(request) = "ask"
  <2>1. Returned(request, x) = [request EXCEPT !.results = @ \cup {x}]
    BY <1>2 DEF Returned
  <2> QED
    BY <1>1, <1>2, <2>1 DEF Alters, Fields
<1>3. CASE StepOf(request) \in {"tag", "itemTag", "ownTag"}
  <2>1. Returned(request, x) = [request EXCEPT !.results = @ \cup {x},
                                               !.tags = Set(@, request.root, x.content)]
    BY <1>3 DEF Returned
  <2> QED
    BY <1>1, <1>3, <2>1 DEF Alters, Fields
<1>4. CASE StepOf(request) = "confirm"
  <2>1. Returned(request, x) = [request EXCEPT !.confirmed = x.content]
    BY <1>4 DEF Returned
  <2> QED
    BY <1>1, <1>4, <2>1 DEF Alters, Fields
<1>5. CASE StepOf(request) = "content"
  <2>1. Returned(request, x) = request
    BY <1>5 DEF Returned
  <2> QED
    BY <1>1, <1>5, <2>1 DEF Alters, Fields
<1> QED
  BY <1>2, <1>3, <1>4, <1>5 DEF Queries

LEMMA AnswerStep == ASSUME IInv, Answer PROVE RequestInv'
<1>1. request.at = "asking" /\ ~request.behind /\ Looks /\ request # Idle
  BY DEF Answer, Idle
<1>2. StepOf(request) \in Queries
  BY <1>1 DEF IInv, RequestInv, RequestFollows
<1> DEFINE d == request.root
           x == [root |-> d, input |-> built[d].input, content |-> built[d].content]
           q == Returned(request, x)
<1>3. x.root = d /\ x.input = built[d].input /\ x.content = built[d].content
  OBVIOUS
<1>5. q.step = request.step
  BY <1>1, <1>2, ReturnedIs DEF Alters, Fields
<1>6. \/ request' = Idle
      \/ built[d] # None /\ SameContent(built[d].content) /\ GoesAs(q)
  BY <1>5 DEF Answer, GoOn, GoesAs
<1>4. d = request.root /\ q = Returned(request, x)
  OBVIOUS
<1> HIDE DEF x, q, d
<1> SUFFICES ASSUME built[d] # None, SameContent(built[d].content), GoesAs(q)
             PROVE  RequestInv'
  BY <1>6, IdleKeeps
<1>7. /\ Alters(q, {"results", "tags", "confirmed"})
      /\ q.results = IF StepOf(request) \in {"ask", "tag", "itemTag", "ownTag"}
                     THEN request.results \cup {x} ELSE request.results
      /\ StepOf(request) \in {"itemTag", "ownTag"} =>
           /\ Alters(q, {"results", "tags"})
           /\ q.tags = Set(request.tags, d, built[d].content)
      /\ StepOf(request) = "content" => Alters(q, {})
  BY <1>1, <1>2, <1>3, <1>4, ReturnedIs
<1>8. Adds(q)
  BY <1>1, <1>3, <1>4, <1>7 DEF Adds
<1>9. ASSUME NEW S, S \subseteq {"results", "tags", "confirmed"}, Alters(q, S)
      PROVE  Moves(q, S)
  <2>1. S \cap {"plan", "step", "document", "asked", "inputs"} = {}
    BY <1>9
  <2> QED
    BY <1>1, <1>8, <1>9, <2>1 DEF Moves, Ready
<1>10. /\ q.root = request.root /\ q.left = request.left
       /\ q.hintGeneration = request.hintGeneration /\ q.revision = request.revision
       /\ q.configuration = request.configuration
  BY <1>7 DEF Alters, Fields
<1>11. request.root \in Document /\ request.left \subseteq Document
  BY <1>1 DEF IInv, RequestInv, RequestFollows
<1>12. StepOf(request) \notin Analyzes \cup {"generation", "settings", "hints"}
  BY <1>2 DEF Analyzes, Queries
<1>13. ASSUME request.plan = IncomingCalls
       PROVE  CallsAsked' /\ CallsTested'
  <2>1. StepOf(request) \in {"itemTag", "ownTag", "content"}
    BY <1>1, <1>2, <1>13, NotCalls DEF Queries
  <2>2. CASE StepOf(request) = "content"
    BY <1>4, <1>7, <1>9, <1>13, <2>2, CallsContent
  <2>3. CASE StepOf(request) \in {"itemTag", "ownTag"}
    <3>1. Moves(q, {"results", "tags"})
      BY <1>7, <1>9, <2>3
    <3> QED
      BY <1>1, <1>4, <1>7, <1>13, <2>3, <3>1, CallsTag
  <2> QED
    BY <2>1, <2>2, <2>3
<1>14. PICK S : S = {"results", "tags", "confirmed"}
  OBVIOUS
<1>15. Moves(q, S) /\ S \cap {"submitted"} = {}
  BY <1>7, <1>9, <1>14
<1>16. request.results \subseteq q.results /\ (StepOf(request) = "ask" => q.results # {})
  BY <1>7
<1> QED
  BY <1>10, <1>11, <1>12, <1>13, <1>15, <1>16, MovesKeep

\* The steps of loops leave plans without one alone.
LEMMA InLoop ==
  ASSUME IInv, request # Idle, StepOf(request) \in {"root", "queried", "listed"}
  PROVE  Loops(request.plan)
BY PlanFacts DEF IInv, RequestInv

\* What changes where a request is, and what it has left to visit.
LEMMA VisitMoves ==
  ASSUME IInv, request # Idle, request.at = "serving", Looks,
         NEW S, S \subseteq {"root", "left", "listed", "snapshots", "texts", "moment"},
         NEW q, Alters(q, S), GoesAs(q)
  PROVE  Moves(q, S)
<1>1. S \cap {"plan", "step", "document", "asked", "inputs"} = {}
  OBVIOUS
<1>2. q.results = request.results
  BY DEF Alters, Fields
<1> QED
  BY <1>1, <1>2 DEF Moves, Ready, Adds

LEMMA VisitKeeps ==
  ASSUME IInv, request # Idle, request.at = "serving", Looks,
         NEW S, S \subseteq {"root", "left", "listed", "snapshots", "texts", "moment"},
         NEW q, Alters(q, S), GoesAs(q), q.root \in Document, q.left \subseteq Document,
         ~Loops(request.plan) => q.root = request.root,
         StepOf(request) \in {"allRoots", "someRoots", "root", "texts", "queried"},
         request.plan = IncomingCalls => CallsAsked' /\ CallsTested'
  PROVE  RequestInv'
<1>1. Moves(q, S) /\ S \cap {"submitted"} = {}
  BY VisitMoves
<1>2. /\ q.results = request.results
      /\ q.hintGeneration = request.hintGeneration /\ q.revision = request.revision
      /\ q.configuration = request.configuration
  BY DEF Alters, Fields
<1>3. StepOf(request) \notin Analyzes \cup {"generation", "settings", "hints", "ask"}
  BY DEF Analyzes
<1> QED
  BY <1>1, <1>2, <1>3, MovesKeep

LEMMA RootsStep == ASSUME IInv, Roots PROVE RequestInv'
<1>1. PICK s \in {"allRoots", "someRoots"} : At(s) /\ Looks
  BY DEF Roots
<1>2. request # Idle /\ request.at = "serving" /\ StepOf(request) = s
  BY <1>1, Serving
<1>3. /\ DOMAIN request = Fields /\ request.root \in Document
  BY <1>2 DEF IInv, RequestInv, RequestFollows
<1>4. PICK q, S : /\ S \subseteq {"left", "listed"} /\ Alters(q, S) /\ GoesAs(q)
                  /\ q.left \subseteq Document /\ q.root = request.root
  <2>1. CASE s = "allRoots"
    <3> DEFINE q == [request EXCEPT !.left = Tracked, !.listed = tracked]
    <3>1. request' = After(q, request.step)
      BY <1>2, <2>1 DEF Roots, GoOn, At
    <3>2. Alters(q, {"left", "listed"}) /\ q.left = Tracked /\ q.root = request.root
      BY <1>3 DEF Alters, Fields
    <3>3. Tracked \subseteq Document
      BY DEF Tracked
    <3> QED
      BY <3>1, <3>2, <3>3 DEF GoesAs
  <2>2. CASE s = "someRoots"
    <3>1. PICK file \in Closure(request.document) :
            request' = After([request EXCEPT !.left = {d \in Tracked : file \in Closure(d)}],
                             request.step)
      BY <1>2, <2>2 DEF Roots, GoOn, At
    <3> DEFINE q == [request EXCEPT !.left = {d \in Tracked : file \in Closure(d)}]
    <3>2. Alters(q, {"left"}) /\ q.left \subseteq Tracked /\ q.root = request.root
      BY <1>3 DEF Alters, Fields
    <3>3. Tracked \subseteq Document
      BY DEF Tracked
    <3>4. GoesAs(q)
      BY <3>1 DEF GoesAs
    <3> QED
      BY <3>2, <3>3, <3>4
  <2> QED
    BY <2>1, <2>2
<1>5. ASSUME request.plan = IncomingCalls
      PROVE  CallsAsked' /\ CallsTested'
  <2>1. s = "allRoots"
    BY <1>2, <1>5, NotCalls
  <2>2. Alters(q, {"left", "listed"})
    BY <1>4 DEF Alters
  <2>3. Moves(q, {"left", "listed"})
    BY <1>1, <1>2, <1>4, <2>2, VisitMoves
  <2> QED
    BY <1>2, <1>5, <2>1, <2>3, CallsList
<1> QED
  BY <1>1, <1>2, <1>3, <1>4, <1>5, VisitKeeps

\* The next root of a loop, or the next one to test.
LEMMA VisitStep ==
  ASSUME IInv, request # Idle, request.at = "serving", Looks, NEW d \in request.left,
         NEW S, S \subseteq {"root", "left", "snapshots"}, NEW q, Alters(q, S), GoesAs(q),
         q.root = d, q.left = request.left \ {d}, StepOf(request) \in {"root", "queried"}
  PROVE  RequestInv'
<1>1. request.left \subseteq Document
  BY DEF IInv, RequestInv, RequestFollows
<1>2. Moves(q, S)
  BY VisitMoves
<1>3. request.plan = IncomingCalls => CallsAsked' /\ CallsTested'
  BY <1>2, CallsNextRoot
<1>4. Loops(request.plan)
  BY InLoop
<1> QED
  BY <1>1, <1>3, <1>4, VisitKeeps

LEMMA NextRootStep == ASSUME IInv, NextRoot PROVE RequestInv'
<1>1. At("root") /\ Looks
  BY DEF NextRoot
<1>2. request # Idle /\ request.at = "serving" /\ StepOf(request) = "root"
  BY <1>1, Serving
<1>3. PICK d \in InOrder(request.left) :
        \/ request' = Idle
        \/ request' = After([request EXCEPT !.root = d, !.left = @ \ {d},
                               !.snapshots = Set(@, d, Snapshot(d))], request.step)
  <2>1. PICK d \in InOrder(request.left) :
          GoOn(documents[d].open \/ Runs(request, {"workspaceSymbols"}),
               [request EXCEPT !.root = d, !.left = @ \ {d},
                               !.snapshots = Set(@, d, Snapshot(d))])
    BY DEF NextRoot
  <2>2. [request EXCEPT !.root = d, !.left = @ \ {d},
                        !.snapshots = Set(@, d, Snapshot(d))].step = request.step
    BY <1>2 DEF IInv, RequestInv, RequestFollows, Fields
  <2> QED
    BY <2>1, <2>2 DEF GoOn
<1>4. d \in request.left
  BY <1>3 DEF InOrder
<1> DEFINE q == [request EXCEPT !.root = d, !.left = @ \ {d},
                                !.snapshots = Set(@, d, Snapshot(d))]
<1>5. Alters(q, {"root", "left", "snapshots"}) /\ q.root = d /\ q.left = request.left \ {d}
  BY <1>2 DEF IInv, RequestInv, RequestFollows, Alters, Fields
<1>6. request' = Idle \/ GoesAs(q)
  BY <1>3 DEF GoesAs
<1> HIDE DEF q
<1> QED
  BY <1>1, <1>2, <1>4, <1>5, <1>6, IdleKeeps, VisitStep

LEMMA NextCheckStep == ASSUME IInv, NextCheck PROVE RequestInv'
<1>1. At("queried") /\ Looks
  BY DEF NextCheck
<1>2. request # Idle /\ request.at = "serving" /\ StepOf(request) = "queried"
  BY <1>1, Serving
<1>3. PICK d \in request.left :
        request' = After([request EXCEPT !.root = d, !.left = @ \ {d}], request.step)
  <2>1. PICK d \in request.left :
          GoOn(TRUE, [request EXCEPT !.root = d, !.left = @ \ {d}])
    BY DEF NextCheck
  <2>2. [request EXCEPT !.root = d, !.left = @ \ {d}].step = request.step
    BY <1>2 DEF IInv, RequestInv, RequestFollows, Fields
  <2> QED
    BY <2>1, <2>2 DEF GoOn
<1> DEFINE q == [request EXCEPT !.root = d, !.left = @ \ {d}]
<1>4. Alters(q, {"root", "left"}) /\ q.root = d /\ q.left = request.left \ {d}
  BY <1>2 DEF IInv, RequestInv, RequestFollows, Alters, Fields
<1>5. GoesAs(q)
  BY <1>3 DEF GoesAs
<1> HIDE DEF q
<1> QED
  BY <1>1, <1>2, <1>4, <1>5, VisitStep

LEMMA TextsStep == ASSUME IInv, Texts PROVE RequestInv'
<1>1. At("texts") /\ Looks
  BY DEF Texts
<1>2. request # Idle /\ request.at = "serving" /\ StepOf(request) = "texts"
  BY <1>1, Serving
<1> DEFINE q == [request EXCEPT !.texts = [d \in Document |-> documents[d].text],
                                !.moment = Unchanged(request),
                                !.left = {x.root : x \in request.results}]
<1>3. /\ Alters(q, {"texts", "moment", "left"}) /\ q.root = request.root
      /\ q.moment = Unchanged(request) /\ q.left = {x.root : x \in request.results}
  BY <1>2 DEF IInv, RequestInv, RequestFollows, Alters, Fields
<1>4. GoesAs(q)
  <2>1. GoOn(TRUE, q)
    BY DEF Texts, Checked
  <2>2. q.step = request.step
    BY <1>3 DEF Alters, Fields
  <2> QED
    BY <2>1, <2>2 DEF GoOn, GoesAs
<1> HIDE DEF q
<1>5. request.root \in Document /\ q.left \subseteq Document
  BY <1>2, <1>3 DEF IInv, RequestInv, RequestFollows
<1>6. Moves(q, {"texts", "moment", "left"})
  BY <1>1, <1>2, <1>3, <1>4, VisitMoves
<1>7. request.plan = IncomingCalls => CallsAsked' /\ CallsTested'
  BY <1>2, <1>3, <1>6, CallsTexts
<1> QED
  BY <1>1, <1>2, <1>3, <1>4, <1>5, <1>7, VisitKeeps

LEMMA LoopsAlone ==
  ASSUME request # Idle, Loops(request.plan), request'.plan = request.plan
  PROVE  ResultsFollow' /\ OwnFollows' /\ HintsFollow' /\ ContextFollows'
<1>1. ~Runs(request, Generational)
  BY OwnPlans DEF Runs
<1>2. request.plan \notin {InlayHints, EffectiveContext}
  BY StraightPlans
<1> QED
  BY <1>1, <1>2, RunsPlans
     DEF ResultsFollow, OwnFollows, HintsFollow, ContextFollows, Runs

LEMMA LastRootStep == ASSUME IInv, LastRoot PROVE RequestInv'
<1>1. PICK s \in {"root", "queried"} : At(s) /\ Looks
  BY DEF LastRoot
<1>2. request # Idle /\ request.at = "serving" /\ StepOf(request) = s
  BY <1>1, Serving
<1> DEFINE q == [request EXCEPT !.root = request.document]
<1>3. request.left = {} /\ request' = After(q, Behind(request))
  BY DEF LastRoot
<1>4. /\ RequestFollows /\ DOMAIN request = Fields /\ request.document \in Document
      /\ request.step \in DOMAIN request.plan
      /\ \A x \in request.results : x.root \in Document
  BY <1>2 DEF IInv, RequestInv, RequestFollows
<1>5. PICK S : S = {"root"}
  OBVIOUS
<1>6. /\ Alters(q, S) /\ q.root = request.document /\ q.left = {}
      /\ q.results = request.results
  BY <1>3, <1>4, <1>5 DEF Alters, Fields
<1> HIDE DEF q
<1>7. Loops(request.plan) /\ WellFormed(request.plan)
  BY <1>1, <1>2, <1>4, InLoop, PlanFacts
<1>8. PICK i : i = Behind(request) /\ i \in DOMAIN request.plan
  <2>1. PICK k \in request.step .. Len(request.plan) : Out(request.plan, request.step, k)
    BY <1>1, <1>2, <1>4, <1>7 DEF WellFormed, InLoops, StepOf
  <2>2. request.step \in Nat /\ Len(request.plan) \in Nat /\ k \in DOMAIN request.plan
    BY <1>4, <1>7 DEF WellFormed
  <2>3. Behind(request) = k
    BY <2>1, <2>2, BehindIs
  <2> QED
    BY <2>2, <2>3
<1>9. S \cap {"plan", "step", "document", "asked"} = {} /\ request' = After(q, i)
  BY <1>3, <1>5, <1>8
<1>10. \A f \in Fields \ ({"at", "step", "left"} \cup S) : request'[f] = request[f]
  BY ONLY <1>2, <1>4, <1>6, <1>8, <1>9, Goes
<1>11. /\ request'.plan = request.plan /\ request'.results = request.results
       /\ request'.submitted = request.submitted /\ request'.inputs = request.inputs
  BY <1>5, <1>10 DEF Fields
<1>12. UNCHANGED <<submissions, refreshes>>
  BY <1>1 DEF Looks, submissionVars, shownVars
<1>13. RequestFollows'
  <2>1. q.root \in Document /\ q.left \subseteq Document /\ \A x \in q.results : x.root \in Document
    BY <1>4, <1>6
  <2> QED
    BY ONLY <1>2, <1>4, <1>6, <1>7, <1>8, <1>9, <1>12, <2>1, TypesGo
<1>14. SubmittedFollows'
  BY <1>2, <1>11, <1>12 DEF IInv, RequestInv, SubmittedFollows
<1>15. ResultsFollow' /\ OwnFollows' /\ HintsFollow' /\ ContextFollows'
  BY <1>2, <1>7, <1>11, LoopsAlone
<1>16. ItemFollows'
  BY <1>2, <1>11 DEF IInv, RequestInv, ItemFollows, Runs
<1>17. CallsFollow'
  <2>1. Alters(q, {"root"})
    BY <1>5, <1>6
  <2>2. request.plan = IncomingCalls => CallsAsked' /\ CallsTested'
    BY <1>1, <1>2, <1>3, <1>6, <2>1, CallsLast
  <2> QED
    BY <1>11, <2>2, RunsPlans DEF CallsFollow
<1> QED
  BY <1>13, <1>14, <1>15, <1>16, <1>17 DEF RequestInv

LEMMA ListedStep == ASSUME IInv, Listed PROVE RequestInv'
<1>1. At("listed") /\ Looks
  BY DEF Listed
<1>2. request # Idle /\ request.at = "serving" /\ StepOf(request) = "listed"
  BY <1>1, Serving
<1>3. /\ RequestFollows /\ DOMAIN request = Fields
      /\ request.step \in DOMAIN request.plan /\ Alters(request, {})
  BY <1>2, AsItIs DEF IInv, RequestInv, RequestFollows
<1>4. Loops(request.plan) /\ WellFormed(request.plan)
  BY <1>2, <1>3, InLoop, PlanFacts
<1>5. UNCHANGED <<submissions, refreshes>>
  BY <1>1 DEF Looks, submissionVars, shownVars
<1>6. /\ \A f \in Fields \ {"at", "step", "left"} : request'[f] = request[f]
      /\ RequestFollows'
  <2>1. CASE request' = After(request, request.step)
    <3>0. PICK S : S = {}
      OBVIOUS
    <3>1. S \cap {"plan", "step", "document", "asked"} = {} /\ Alters(request, S)
      BY <1>3, <3>0
    <3>2. \A f \in Fields \ {"at", "step", "left"} : request'[f] = request[f]
      BY ONLY <1>2, <1>3, <2>1, <3>1, Goes
    <3>3. /\ request.root \in Document /\ request.left \subseteq Document
          /\ \A x \in request.results : x.root \in Document
      BY <1>2, <1>3 DEF RequestFollows
    <3> QED
      BY ONLY <1>2, <1>3, <1>4, <1>5, <2>1, <3>1, <3>2, <3>3, TypesGo
  <2>2. CASE request' = [request EXCEPT !.step = Place(request.plan, request.step)]
    <3>1. PICK j \in 1 .. request.step - 1 : Back(request.plan, request.step, j)
      BY <1>2, <1>3, <1>4 DEF WellFormed, StepOf
    <3>2. request.step \in Nat /\ j \in 1 .. request.step /\ j \in DOMAIN request.plan
      BY <1>3, <1>4, <3>1 DEF WellFormed
    <3>3. Place(request.plan, request.step) = j
      BY <3>1, <3>2, PlaceIs
    <3>4. /\ DOMAIN request' = Fields /\ request'.step = j
          /\ \A f \in Fields \ {"step"} : request'[f] = request[f]
      BY <1>3, <2>2, <3>3 DEF Fields
    <3>5. /\ request'.plan = request.plan /\ request'.at = request.at
          /\ request'.document = request.document /\ request'.root = request.root
          /\ request'.left = request.left /\ request'.results = request.results
          /\ request'.asked = request.asked
      BY <3>4 DEF Fields
    <3>6. Runs(request, OfItem)' = Runs(request, OfItem)
      BY <3>5 DEF Runs
    <3> QED
      BY <1>2, <1>3, <1>5, <3>2, <3>4, <3>5, <3>6 DEF RequestFollows, StepOf
  <2> QED
    BY <1>2, <2>1, <2>2 DEF Listed
<1>7. /\ request'.plan = request.plan /\ request'.results = request.results
      /\ request'.submitted = request.submitted /\ request'.inputs = request.inputs
  BY <1>6 DEF Fields
<1>8. SubmittedFollows'
  BY <1>2, <1>5, <1>7 DEF IInv, RequestInv, SubmittedFollows
<1>9. ResultsFollow' /\ OwnFollows' /\ HintsFollow' /\ ContextFollows'
  BY <1>2, <1>4, <1>7, LoopsAlone
<1>10. ItemFollows'
  BY <1>2, <1>7 DEF IInv, RequestInv, ItemFollows, Runs
<1>11. CallsFollow'
  BY <1>2, <1>7, NotCalls, RunsPlans DEF CallsFollow
<1> QED
  BY <1>6, <1>8, <1>9, <1>10, <1>11 DEF RequestInv

LEMMA BeginStep == ASSUME IInv, Begin PROVE IInv'
<1>1. PICK h \in Served, d \in Requested :
        (h \in OfItem => d = Item.root) /\ request' = Arrived(h, d)
  BY DEF Begin
<1>2. h \in Handler /\ d \in Document
  BY ServedAssumption, FeaturesAssumption DEF Handler, Document
<1>3. /\ UNCHANGED <<documents, texts, configuration, revision, hintGeneration, generations,
                     submissions, pending, built, contents, forgotten, main, hints, refreshes>>
  BY DEF Begin, clientVars, stateVars, submissionVars, managerVars
<1>4. /\ DOMAIN request' = Fields /\ request'.at = "serving" /\ request'.plan = Plan[h]
      /\ request'.step = 1 /\ request'.document = d /\ request'.root = d
      /\ request'.left = {} /\ request'.results = {} /\ request'.asked = refreshes
      /\ DOMAIN request'.submitted = {} /\ DOMAIN request'.inputs = {}
  BY <1>1 DEF Arrived, Fields
<1>5. WellFormed(Plan[h]) /\ 1 \in DOMAIN Plan[h]
  BY <1>2, PlansWellFormed DEF WellFormed
<1>6. \A e : Input(e)' = Input(e)
  BY <1>3, InputStays
<1>7. ServerFollows' /\ UnitsFollow'
  BY <1>3 DEF IInv, ServerFollows, UnitsFollow
<1>8. MainFollows' /\ ShownFollows'
  BY <1>3, <1>6 DEF IInv, MainFollows, ShownFollows, Fresh
<1>9. refreshes \in Nat
  BY DEF IInv, ShownFollows
<1>10. Plan[h] \in {OutgoingCalls, IncomingCalls} => h \in OfItem
  <2>1. OutgoingCalls[1] = "item" /\ IncomingCalls[1] = "item"
    BY DEF OutgoingCalls, IncomingCalls, ValidateItem
  <2>2. /\ \A p \in {Completion, Definition, PrepareCallHierarchy, EntryPointDataFlow} :
             p[1] # "item"
    BY DEF Completion, Definition, PrepareCallHierarchy, EntryPointDataFlow
  <2>3. /\ \A p \in {References, PrepareRename, Rename} : p[1] # "item"
    BY DEF References, PrepareRename, Rename, FindReferences
  <2>4. /\ \A p \in {Hover, HoverWithLinks, MemoryLayout, MacroExpansion, CommandContext} :
             p[1] # "item"
    BY DEF Hover, HoverWithLinks, MemoryLayout, MacroExpansion, CommandContext
  <2>5. /\ \A p \in {PreprocessorExplorer, CompilationInfo, EffectiveContext,
                     ComputeVisualization, SignatureHelp} :
             p[1] # "item"
    BY DEF PreprocessorExplorer, CompilationInfo, EffectiveContext, ComputeVisualization,
           SignatureHelp
  <2>6. /\ \A p \in {InlayHints, DocumentSymbols, WorkspaceSymbols, SemanticTokens} :
             p[1] # "item"
    BY DEF InlayHints, DocumentSymbols, WorkspaceSymbols, SemanticTokens
  <2> QED
    BY <1>2, <2>1, <2>2, <2>3, <2>4, <2>5, <2>6, Handlers DEF OfItem
<1>11. RequestFollows'
  BY <1>1, <1>2, <1>4, <1>5, <1>9, <1>10, <1>3, RunsPlans DEF RequestFollows
<1>12. SubmittedFollows' /\ ResultsFollow' /\ OwnFollows' /\ ItemFollows'
  BY <1>4 DEF SubmittedFollows, ResultsFollow, OwnFollows, ItemFollows
<1>13. HintsFollow' /\ ContextFollows'
  BY <1>4 DEF HintsFollow, ContextFollows
<1>14. CallsFollow'
  BY <1>1, <1>4, <1>10, RunsPlans DEF CallsFollow, CallsAsked, CallsTested
<1> QED
  BY <1>7, <1>8, <1>11, <1>12, <1>13, <1>14 DEF IInv, RequestInv

LEMMA Answerable ==
  ASSUME IInv, request # Idle, request.plan = InlayHints, request.at = "answered"
  PROVE  /\ request.results # {} /\ request.document \in Document
         /\ request.asked \in 0 .. refreshes
         /\ \A x \in request.results : Fresh(request.document, x.input, request.asked)
BY RunsPlans DEF IInv, RequestInv, HintsFollow, RequestFollows

\* The answer is sent: what it says of inlay hints is shown.
LEMMA RespondStep == ASSUME IInv, Respond PROVE IInv'
<1>1. /\ request.at = "answered" /\ request' = Idle /\ request # Idle
      /\ UNCHANGED <<documents, texts, configuration, revision, hintGeneration, generations,
                     submissions, pending, built, contents, forgotten, main, refreshes>>
  BY DEF Respond, Idle, clientVars, stateVars, submissionVars, managerVars
<1>2. \A e : Input(e)' = Input(e)
  BY <1>1, InputStays
<1>3. ServerFollows' /\ UnitsFollow'
  BY <1>1 DEF IInv, ServerFollows, UnitsFollow
<1>4. MainFollows'
  BY <1>1, <1>2 DEF IInv, MainFollows
<1>5. RequestInv'
  BY <1>1, IdleKeeps
<1>6. \A e, i, n : Fresh(e, i, n)' = Fresh(e, i, n)
  BY <1>1, <1>2 DEF Fresh
<1>7. ShownFollows'
  <2>1. CASE Runs(request, {"inlayHints"})
    <3>1. PICK x \in request.results :
            hints' = [document |-> request.document, asked |-> request.asked, input |-> x.input]
      BY <1>1, <2>1, Answerable, RunsPlans DEF Respond
    <3>2. /\ hints'.document = request.document /\ hints'.asked = request.asked
          /\ hints'.input = x.input
      BY <3>1
    <3> QED
      BY <1>1, <1>6, <2>1, <3>2, Answerable, RunsPlans DEF IInv, ShownFollows
  <2>2. CASE ~Runs(request, {"inlayHints"})
    BY <1>1, <1>6, <2>2 DEF Respond, IInv, ShownFollows
  <2> QED
    BY <2>1, <2>2
<1> QED
  BY <1>3, <1>4, <1>5, <1>7 DEF IInv

LEMMA InputIs == ASSUME NEW d PROVE Input(d) # None /\ DOMAIN Input(d).sources = Closure(d)
BY DEF Input, None

\* An analysis is submitted, of what there is.
LEMMA AnalyzeStep == ASSUME IInv, AnalyzeAndPublish PROVE IInv'
<1>1. PICK s \in Analyzes : At(s)
  BY DEF AnalyzeAndPublish, Analyzes
<1>2. request # Idle /\ request.at = "serving" /\ StepOf(request) = s
  BY <1>1, Serving
<1>3. PICK d : d = request.root /\ d \in Document
  BY <1>2 DEF IInv, RequestInv, RequestFollows
<1>4. PICK submission : submission = [generation |-> generations[d] + 1,
                                      label |-> configuration.label]
  OBVIOUS
<1> DEFINE q == [request EXCEPT !.submitted = Set(request.submitted, d, submission),
                                !.inputs = Set(request.inputs, d, Input(d))]
<1>5. /\ RequestFollows /\ DOMAIN request = Fields /\ request.step \in DOMAIN request.plan
      /\ request.left \subseteq Document
      /\ \A x \in request.results : x.root \in Document
  BY <1>2 DEF IInv, RequestInv, RequestFollows
<1>6. /\ Alters(q, {"submitted", "inputs"})
      /\ q.root = d /\ q.left = request.left /\ q.results = request.results
      /\ q.submitted = Set(request.submitted, d, submission)
      /\ q.inputs = Set(request.inputs, d, Input(d)) /\ q.step = request.step
  BY <1>3, <1>5 DEF Alters, Fields
<1>7. /\ UNCHANGED <<documents, texts, configuration, revision, hintGeneration, built, contents,
                     forgotten, main, hints, refreshes>>
      /\ main.at \notin {"accept", "record"}
      /\ \/ /\ UNCHANGED <<generations, submissions, pending>>
            /\ request' = Idle
         \/ /\ generations' = [generations EXCEPT ![d] = generations[d] + 1]
            /\ submissions' = [submissions EXCEPT ![d] = submission]
            /\ pending' = [pending EXCEPT ![d] = Input(d)]
            /\ request' = Idle \/ GoesAs(q)
  <2>1. /\ UNCHANGED <<documents, texts, configuration, revision, hintGeneration, main, hints,
                       refreshes>>
        /\ main.at \notin {"accept", "record"}
    BY DEF AnalyzeAndPublish, clientVars, stateVars, shownVars
  <2>2. /\ \/ request' = Idle
           \/ documents[d].open /\ GoesAs(q)
    BY <1>3, <1>4, <1>6 DEF AnalyzeAndPublish, GoOn, GoesAs
  <2>3. CASE documents[d].open
    BY <1>3, <1>4, <2>1, <2>2, <2>3 DEF AnalyzeAndPublish, Accepts
  <2>4. CASE ~documents[d].open
    BY <1>3, <2>1, <2>2, <2>4 DEF AnalyzeAndPublish, submissionVars, managerVars
  <2> QED
    BY <2>3, <2>4
<1> HIDE DEF q
<1>8. \A e : Input(e)' = Input(e)
  BY <1>7, InputStays
<1>9. Input(d) # None /\ DOMAIN Input(d).sources = Closure(d)
  BY InputIs
<1>10. /\ submission \in [generation : Nat, label : 0 .. 1]
       /\ submission.generation = generations[d] + 1 /\ generations[d] \in Nat
       /\ submissions[d].generation \in 0 .. generations[d]
  BY <1>3, <1>4 DEF IInv, ServerFollows, Configuration
<1>11. ServerFollows' /\ UnitsFollow'
  <2>1. /\ generations' \in [Document -> Nat]
        /\ submissions' \in [Document -> [generation : Nat, label : 0 .. 1]]
    BY <1>3, <1>7, <1>10 DEF IInv, ServerFollows
  <2>2. ASSUME NEW e \in Document PROVE submissions'[e].generation <= generations'[e]
    BY <1>3, <1>7, <1>10, <2>2 DEF IInv, ServerFollows
  <2>3. ServerFollows'
    BY <1>7, <2>1, <2>2 DEF IInv, ServerFollows
  <2>4. UnitsFollow'
    BY <1>3, <1>7, <1>9 DEF IInv, UnitsFollow
  <2> QED
    BY <2>3, <2>4
<1>12. MainFollows' /\ ShownFollows'
  BY <1>7, <1>8 DEF IInv, MainFollows, ShownFollows, Fresh
<1>13. ASSUME generations' = [generations EXCEPT ![d] = generations[d] + 1],
              submissions' = [submissions EXCEPT ![d] = submission],
              pending' = [pending EXCEPT ![d] = Input(d)],
              GoesAs(q)
       PROVE  RequestInv'
  <2>1. /\ generations'[d] = submission.generation /\ submissions'[d] = submission
        /\ pending'[d] = Input(d)
        /\ \A e \in Document : e # d => submissions'[e] = submissions[e]
    BY <1>3, <1>10, <1>13 DEF IInv, ServerFollows, UnitsFollow
  <2>2. PICK S : S = {"submitted", "inputs"}
    OBVIOUS
  <2>3. /\ S \cap {"plan", "step", "document", "asked"} = {} /\ Alters(q, S)
        /\ request' = After(q, request.step)
    BY <1>6, <1>13, <2>2 DEF GoesAs
  <2>4. /\ \A f \in Fields \ {"at", "step", "left"} : request'[f] = q[f]
        /\ \A f \in Fields \ ({"at", "step", "left"} \cup S) : request'[f] = request[f]
        /\ request'.at \in {"serving", "answered"}
        /\ request'.step \in DOMAIN request.plan
        /\ request.step = Len(request.plan) =>
             /\ request'.at = "answered" /\ request'.left = {}
             /\ request'.step = request.step
        /\ request.step # Len(request.plan) => request'.at = "serving" /\ request'.left = q.left
        /\ /\ request.step # Len(request.plan)
           /\ request.plan[request.step + 1] # "again"
           => request'.step = request.step + 1
    <3>1. RequestFollows /\ request # Idle /\ request.step \in DOMAIN request.plan
      BY <1>2, <1>5
    <3> QED
      BY ONLY <2>3, <3>1, Goes
  <2>5. /\ request'.plan = request.plan /\ request'.document = request.document
        /\ request'.root = d /\ request'.results = request.results
        /\ request'.hintGeneration = request.hintGeneration
        /\ request'.tags = request.tags
        /\ request'.submitted = q.submitted /\ request'.inputs = q.inputs
    BY <1>3, <2>2, <2>4 DEF Fields
  <2>6. /\ DOMAIN q.submitted = DOMAIN request.submitted \cup {d} /\ q.submitted[d] = submission
        /\ \A e \in DOMAIN request.submitted : e # d => q.submitted[e] = request.submitted[e]
        /\ DOMAIN q.inputs = DOMAIN request.inputs \cup {d} /\ q.inputs[d] = Input(d)
    BY <1>6 DEF Set
  <2>7. RequestFollows'
    BY ONLY <1>2, <1>3, <1>5, <1>6, <1>7, <2>3, TypesGo
  <2>8. SubmittedFollows'
    BY <1>2, <1>3, <1>10, <2>1, <2>5, <2>6 DEF IInv, RequestInv, SubmittedFollows
  <2>9. ResultsFollow'
    <3> SUFFICES ASSUME ~Loops(request.plan) PROVE ResultsFollow'
      BY <2>5 DEF ResultsFollow
    <3>1. /\ \A x \in request.results : x.root = request.document
          /\ request.results # {} => \E i \in 1 .. request.step : request.plan[i] \in Queries
      BY <1>2 DEF IInv, RequestInv, ResultsFollow
    <3>2. /\ request.step \in 1 .. Len(request.plan) /\ Len(request.plan) \in Nat
          /\ request'.step \in {request.step, request.step + 1}
      BY <1>2, <1>5, <2>4, GoesStraight
    <3>3. \A i \in 1 .. request.step : i \in 1 .. request'.step
      BY <3>2
    <3>4. request.step \in 1 .. request'.step /\ request.plan[request.step] \in Analyzes
      BY <1>2, <3>2 DEF StepOf
    <3> QED
      BY <2>5, <3>1, <3>3, <3>4 DEF ResultsFollow
  <2>10. ASSUME ~Loops(request.plan),
                \A i, j \in DOMAIN request.plan :
                  j <= i /\ request.plan[i] \in Analyzes => request.plan[j] \notin Queries
         PROVE  request.results = {} /\ d = request.document /\ Holding(d, Input(d))'
    <3>1. request.results # {} => \E i \in 1 .. request.step : request.plan[i] \in Queries
      BY <1>2, <2>10 DEF IInv, RequestInv, ResultsFollow
    <3>2. /\ request.step \in 1 .. Len(request.plan) /\ Len(request.plan) \in Nat
          /\ DOMAIN request.plan = 1 .. Len(request.plan)
      BY <1>2, <1>5, <2>10, GoesStraight
    <3>3. request.results = {}
      BY <1>2, <2>10, <3>1, <3>2 DEF StepOf
    <3>4. d = request.document
      BY <1>2, <1>3, <1>5, <2>10 DEF RequestFollows
    <3>5. Holding(d, Input(d))'
      BY <1>8, <1>9, <2>1, <2>4 DEF Holding, SameUnit
    <3> QED
      BY <3>3, <3>4, <3>5
  <2>11. OwnFollows'
    <3> SUFFICES ASSUME Runs(request, Generational) PROVE OwnFollows'
      BY <2>5 DEF OwnFollows, Runs
    <3>1. request.results = {} /\ d = request.document /\ Holding(d, Input(d))'
      BY <2>10, OwnPlans DEF Runs
    <3> QED
      BY <1>8, <2>1, <2>5, <2>6, <3>1 DEF OwnFollows, Holding
  <2>12. HintsFollow'
    <3> SUFFICES ASSUME request.plan = InlayHints PROVE HintsFollow'
      BY <2>5, RunsPlans DEF HintsFollow
    <3>1. request.step = 3 /\ StepOf(request) = "analyze"
      BY <1>2, <1>5, InlayPlan DEF StepOf, Analyzes
    <3>2. request'.step = 4 /\ request'.at = "serving"
      BY <2>4, <3>1, InlayPlan
    <3>3. /\ ~Loops(request.plan)
          /\ \A i, j \in DOMAIN request.plan :
               j <= i /\ request.plan[i] \in Analyzes => request.plan[j] \notin Queries
      BY StraightPlans, InlayPlan DEF Analyzes, Queries
    <3>4. request.results = {} /\ d = request.document /\ Holding(d, Input(d))'
      BY <2>10, <3>3
    <3>5. request.hintGeneration \in 0 .. hintGeneration
      BY <1>2, <3>1, RunsPlans DEF IInv, RequestInv, HintsFollow
    <3> QED
      BY <1>7, <2>5, <3>2, <3>4, <3>5 DEF HintsFollow
  <2>13. ContextFollows'
    <3>1. request.plan # EffectiveContext
      BY <1>2, <1>5, ContextPlan DEF StepOf, Analyzes
    <3> QED
      BY <2>5, <3>1, RunsPlans DEF ContextFollows
  <2>14. ItemFollows'
    BY <1>2, <2>5 DEF IInv, RequestInv, ItemFollows, Runs
  <2>15. CallsFollow'
    <3> SUFFICES ASSUME request.plan = IncomingCalls PROVE CallsFollow'
      BY <2>5, RunsPlans DEF CallsFollow
    <3>1. CallsAsked
      BY <1>2, RunsPlans DEF IInv, RequestInv, CallsFollow
    <3>2. request.step \in {2, 7} /\ StepOf(request) = "analyze"
      BY <1>2, <3>1, CallsPlan DEF StepOf, Analyzes, CallsAsked
    <3>3. /\ request'.step = request.step + 1 /\ request'.left = request.left
          /\ request'.at = "serving"
      BY <1>6, <2>4, <3>2, CallsPlan
    <3>4. CallsAsked'
      BY <1>3, <1>7, <2>5, <2>6, <3>1, <3>2, <3>3 DEF CallsAsked
    <3>5. CallsTested'
      BY <3>2, <3>3 DEF CallsTested
    <3> QED
      BY <3>4, <3>5 DEF CallsFollow
  <2> QED
    BY <2>7, <2>8, <2>9, <2>11, <2>12, <2>13, <2>14, <2>15 DEF RequestInv
<1>14. RequestInv'
  BY <1>7, <1>13, IdleKeeps
<1> QED
  BY <1>11, <1>12, <1>14 DEF IInv

-----------------------------------------------------------------------------
(* What the manager and the notifications leave to a request.               *)

\* They leave the request alone, or its query is not behind an analysis any more.
Kept ==
  \/ request' = request
  \/ request.at = "asking" /\ request' = [request EXCEPT !.behind = FALSE]

LEMMA KeptFacts ==
  ASSUME IInv, Kept
  PROVE  /\ request = Idle => request' = Idle
         /\ request # Idle =>
              /\ request' # Idle /\ DOMAIN request' = Fields
              /\ \A f \in Fields \ {"behind"} : request'[f] = request[f]
              /\ request'.at = request.at /\ request'.plan = request.plan
              /\ request'.step = request.step /\ request'.document = request.document
              /\ request'.root = request.root /\ request'.left = request.left
              /\ request'.results = request.results /\ request'.inputs = request.inputs
              /\ request'.submitted = request.submitted /\ request'.tags = request.tags
              /\ request'.asked = request.asked /\ request'.moment = request.moment
              /\ request'.revision = request.revision
              /\ request'.configuration = request.configuration
              /\ request'.hintGeneration = request.hintGeneration
<1>1. request = Idle => request' = Idle
  BY DEF Kept, Idle
<1>2. ASSUME request # Idle
      PROVE  /\ request' # Idle /\ DOMAIN request' = Fields
             /\ \A f \in Fields \ {"behind"} : request'[f] = request[f]
  <2>1. DOMAIN request = Fields
    BY <1>2 DEF IInv, RequestInv, RequestFollows
  <2>2. DOMAIN request' = Fields
    BY <2>1 DEF Kept
  <2>3. \A f \in Fields \ {"behind"} : request'[f] = request[f]
    BY <2>1 DEF Kept
  <2>4. request' # Idle
    BY <1>2, <2>1, <2>3 DEF Fields, Idle, Kept
  <2> QED
    BY <2>2, <2>3, <2>4
<1> QED
  BY <1>1, <1>2 DEF Fields

\* What it had been answered is replaced for good.
Replaces ==
  /\ contents' \in Nat /\ contents <= contents'
  /\ \A d \in Document :
       /\ \/ built'[d] = None \/ built'[d].content > contents
          \/ built[d] # None /\ built'[d] # None /\ built'[d].content = built[d].content
       /\ \/ submissions'[d] = submissions[d]
          \/ submissions'[d].generation > submissions[d].generation

LEMMA KeptFollows ==
  ASSUME IInv, Kept, refreshes' \in Nat, refreshes <= refreshes'
  PROVE  RequestFollows' /\ ResultsFollow' /\ ItemFollows'
<1>1. CASE request = Idle
  BY <1>1, KeptFacts DEF RequestFollows, ResultsFollow, ItemFollows
<1>2. CASE request # Idle
  <2>1. /\ RequestFollows /\ ResultsFollow /\ ItemFollows /\ refreshes \in Nat
    BY DEF IInv, RequestInv, ShownFollows
  <2>2. RequestFollows'
    BY <1>2, <2>1, KeptFacts DEF RequestFollows, StepOf, Runs
  <2>3. ResultsFollow'
    BY <1>2, <2>1, KeptFacts DEF ResultsFollow
  <2>4. ItemFollows'
    BY <1>2, <2>1, KeptFacts DEF ItemFollows, Runs
  <2> QED
    BY <2>2, <2>3, <2>4
<1> QED
  BY <1>1, <1>2

LEMMA KeptSubmitted ==
  ASSUME IInv, Kept, Replaces,
         submissions' \in [Document -> [generation : Nat, label : 0 .. 1]]
  PROVE  SubmittedFollows' /\ CallsFollow'
<1>1. CASE request = Idle
  BY <1>1, KeptFacts DEF SubmittedFollows, CallsFollow
<1>2. CASE request # Idle
  <2>1. /\ DOMAIN request.inputs \subseteq DOMAIN request.submitted
        /\ DOMAIN request.submitted \subseteq Document
        /\ \A d \in DOMAIN request.submitted :
             /\ request.submitted[d].generation \in 0 .. submissions[d].generation
             /\ request.submitted[d].generation = submissions[d].generation =>
                  request.submitted[d] = submissions[d]
    BY <1>2 DEF IInv, RequestInv, SubmittedFollows
  <2>2. \A d \in Document : /\ submissions[d].generation \in Nat
                            /\ submissions'[d].generation \in Nat
    BY DEF IInv, ServerFollows
  <2>3. ASSUME NEW d \in DOMAIN request.submitted
        PROVE  \/ submissions'[d] = submissions[d]
               \/ submissions'[d].generation > request.submitted[d].generation
    BY <2>1, <2>2 DEF Replaces
  <2>4. SubmittedFollows'
    BY <1>2, <2>1, <2>2, <2>3, KeptFacts DEF SubmittedFollows
  <2>5. ASSUME request.plan = IncomingCalls
        PROVE  CallsAsked' /\ CallsTested'
    <3>1. CallsAsked /\ CallsTested
      BY <1>2, <2>5, RunsPlans DEF IInv, RequestInv, CallsFollow
    <3>2. contents \in Nat /\ contents' \in Nat /\ contents <= contents'
      BY DEF IInv, UnitsFollow, Replaces
    <3>3. \A x \in request.results : x.content \in 1 .. contents /\ x.content \in 1 .. contents'
      BY <3>1, <3>2 DEF CallsAsked
    <3>4. CallsAsked'
      BY <1>2, <3>1, <3>3, KeptFacts DEF CallsAsked
    <3>5. ASSUME NEW x \in request.results
          PROVE  /\ ContentGone(x) => ContentGone(x)'
                 /\ SubmissionGone(x) => SubmissionGone(x)'
      <4>1. /\ x.root \in DOMAIN request.submitted /\ x.root \in Document
            /\ request'.submitted = request.submitted
        BY <1>2, <2>1, <3>1, <3>5, KeptFacts DEF CallsAsked
      <4>2. ContentGone(x) => ContentGone(x)'
        BY <3>2, <3>3, <3>5, <4>1 DEF ContentGone, Replaces
      <4>3. SubmissionGone(x) => SubmissionGone(x)'
        BY <2>3, <4>1, <2>1, <2>2 DEF SubmissionGone
      <4> QED
        BY <4>2, <4>3
    <3>6. \A r, s : ToTest(r, s)' <=> ToTest(r, s)
      BY <1>2, KeptFacts DEF ToTest
    <3>7. CallsTested'
      BY <1>2, <3>1, <3>5, <3>6, KeptFacts DEF CallsTested
    <3> QED
      BY <3>4, <3>7
  <2>6. CallsFollow'
    BY <1>2, <2>5, KeptFacts, RunsPlans DEF CallsFollow, Runs
  <2> QED
    BY <2>4, <2>6
<1> QED
  BY <1>1, <1>2

\* Of the document that the request is at: it is submitted anew, or the manager
\* answers with what it did.
Holds(d) ==
  \/ d \in forgotten'
  \/ generations'[d] > submissions[d].generation
  \/ /\ generations'[d] = generations[d]
     /\ \A i : Holding(d, i) => Holding(d, i)'

LEMMA KeptOwn ==
  ASSUME IInv, Kept, NEW d, d = request.root,
         request # Idle => Holds(d), forgotten \subseteq forgotten'
  PROVE  OwnFollows'
<1>1. CASE request = Idle
  BY <1>1, KeptFacts DEF OwnFollows
<1>2. CASE request # Idle
  <2> SUFFICES ASSUME Runs(request, Generational) PROVE OwnFollows'
    BY <1>2, KeptFacts DEF OwnFollows, Runs
  <2>1. d = request.document
    BY <1>2, OwnPlans DEF IInv, RequestInv, RequestFollows, Runs
  <2>2. PICK i : i = request.inputs[d]
    OBVIOUS
  <2>3. SUFFICES ASSUME d \in DOMAIN request.inputs \ forgotten'
                 PROVE  OwnFollows'
    BY <1>2, <2>1, KeptFacts DEF OwnFollows
  <2>4. /\ generations[d] = request.submitted[d].generation =>
             /\ Holding(d, request.inputs[d])
             /\ \A x \in request.results : SameUnit(x.input, request.inputs[d])
        /\ request.at = "answered" \/ StepOf(request) = "texts" =>
             \A x \in request.results : SameUnit(x.input, request.inputs[d])
    BY <1>2, <2>1, <2>3 DEF IInv, RequestInv, OwnFollows
  <2>5. /\ request.submitted[d].generation \in 0 .. submissions[d].generation
        /\ submissions[d].generation \in Nat
    <3>1. d \in DOMAIN request.submitted /\ d \in Document
      BY <1>2, <2>3 DEF IInv, RequestInv, SubmittedFollows
    <3> QED
      BY <1>2, <3>1 DEF IInv, RequestInv, SubmittedFollows, ServerFollows
  <2>6. generations'[d] = request.submitted[d].generation =>
          /\ Holding(d, request.inputs[d])'
          /\ \A x \in request.results : SameUnit(x.input, request.inputs[d])
    <3> SUFFICES ASSUME generations'[d] = request.submitted[d].generation
                 PROVE  Holding(d, i)' /\ \A x \in request.results : SameUnit(x.input, i)
      BY <1>2, <2>2, KeptFacts DEF Holding
    <3>1. generations'[d] = generations[d] /\ (Holding(d, i) => Holding(d, i)')
      BY <1>2, <2>3, <2>5 DEF Holds
    <3>2. Holding(d, i) /\ \A x \in request.results : SameUnit(x.input, i)
      BY <2>2, <2>4, <3>1
    <3> QED
      BY <3>1, <3>2
  <2> QED
    BY <1>2, <2>1, <2>4, <2>6, KeptFacts DEF OwnFollows, StepOf, Holding
<1> QED
  BY <1>1, <1>2

\* Or the hints there are are invalidated.
Invalidates(d) ==
  \/ d \in forgotten'
  \/ main'.at = "invalidate"
  \/ hintGeneration' > hintGeneration
  \/ /\ main.at # "invalidate"
     /\ Input(d)' = Input(d)
     /\ Holding(d, Input(d)) => Holding(d, Input(d))'
Refreshes ==
  \A d, i : \A n \in 0 .. refreshes : Fresh(d, i, n) => Fresh(d, i, n)'

LEMMA KeptHints ==
  ASSUME IInv, Kept, NEW d, d = request.root,
         request # Idle => Invalidates(d), Refreshes, forgotten \subseteq forgotten',
         hintGeneration' \in Nat, hintGeneration <= hintGeneration'
  PROVE  HintsFollow'
<1>1. CASE request = Idle
  BY <1>1, KeptFacts DEF HintsFollow
<1>2. CASE request # Idle
  <2> SUFFICES ASSUME request.plan = InlayHints PROVE HintsFollow'
    BY <1>2, KeptFacts, RunsPlans DEF HintsFollow
  <2>1. d = request.document
    BY <1>2, StraightPlans DEF IInv, RequestInv, RequestFollows
  <2>2. request.asked \in 0 .. refreshes
    BY <1>2 DEF IInv, RequestInv, RequestFollows
  <2>3. /\ request.step >= 3 => request.hintGeneration \in 0 .. hintGeneration
        /\ /\ request.step >= 4
           /\ request.hintGeneration = hintGeneration
           /\ main.at # "invalidate"
           /\ d \notin forgotten
           => /\ Holding(d, Input(d))
              /\ \A x \in request.results : SameUnit(x.input, Input(d))
        /\ request.step >= 6 => request.results # {}
        /\ request.at = "answered" =>
             /\ request.step = 6
             /\ \A x \in request.results : Fresh(d, x.input, request.asked)
    BY <1>2, <2>1, RunsPlans DEF IInv, RequestInv, HintsFollow
  <2>4. hintGeneration \in Nat
    BY DEF IInv, ServerFollows
  <2>5. request.step >= 3 => request.hintGeneration \in 0 .. hintGeneration'
    BY <2>3, <2>4
  <2>6. ASSUME request.step >= 4, request.hintGeneration = hintGeneration',
               main'.at # "invalidate", d \notin forgotten'
        PROVE  /\ Holding(d, Input(d))'
               /\ \A x \in request.results : SameUnit(x.input, Input(d)')
    <3>1. request.step \in Int
      BY <1>2, PlanFacts DEF IInv, RequestInv, RequestFollows, WellFormed
    <3>2. ~ hintGeneration' > hintGeneration /\ hintGeneration' = hintGeneration
      BY <2>3, <2>4, <2>6, <3>1
    <3>3. /\ main.at # "invalidate" /\ Input(d)' = Input(d)
          /\ Holding(d, Input(d)) => Holding(d, Input(d))'
      BY <1>2, <2>2, <2>6, <3>2 DEF Invalidates
    <3> QED
      BY <2>3, <2>6, <3>2, <3>3
  <2>7. request.at = "answered" => \A x \in request.results : Fresh(d, x.input, request.asked)'
    <3>1. ASSUME request.at = "answered", NEW x \in request.results
          PROVE  Fresh(d, x.input, request.asked)'
      <4>1. PICK i : i = x.input
        OBVIOUS
      <4>2. PICK n \in 0 .. refreshes : n = request.asked
        BY <2>2
      <4>3. Fresh(d, i, n)
        BY <2>3, <3>1, <4>1, <4>2
      <4>4. Fresh(d, i, n)'
        BY <4>3 DEF Refreshes
      <4>5. request'.asked = request.asked
        BY <1>2, KeptFacts
      <4> QED
        BY <4>1, <4>4, <4>5, <4>2 DEF Fresh
    <3> QED
      BY <3>1
  <2> QED
    BY <1>2, <2>1, <2>3, <2>5, <2>6, <2>7, KeptFacts DEF HintsFollow, Fresh, Holding
<1> QED
  BY <1>1, <1>2

LEMMA KeptContext ==
  ASSUME IInv, Kept, revision' \in Nat,
         revision' > revision \/ UNCHANGED <<revision, configuration>>
  PROVE  ContextFollows'
<1>1. CASE request = Idle
  BY <1>1, KeptFacts DEF ContextFollows
<1>2. CASE request # Idle
  <2>1. /\ request'.plan = request.plan /\ request'.step = request.step
        /\ request'.revision = request.revision
        /\ request'.configuration = request.configuration
    BY <1>2, KeptFacts
  <2>2. ASSUME request.plan = EffectiveContext, request.step >= 3
        PROVE  /\ request.revision \in 0 .. revision
               /\ request.revision = revision => request.configuration = configuration
    BY <1>2, <2>2, RunsPlans DEF IInv, RequestInv, ContextFollows
  <2>3. revision \in Nat
    BY DEF IInv, ServerFollows
  <2>4. ASSUME request.plan = EffectiveContext, request.step >= 3
        PROVE  /\ request.revision \in 0 .. revision'
               /\ request.revision = revision' => request.configuration = configuration'
    <3>1. CASE revision' > revision
      BY <2>2, <2>3, <2>4, <3>1
    <3>2. CASE UNCHANGED <<revision, configuration>>
      BY <2>2, <2>4, <3>2
    <3> QED
      BY <3>1, <3>2
  <2> QED
    BY <2>1, <2>4, RunsPlans DEF ContextFollows, Runs
<1> QED
  BY <1>1, <1>2

LEMMA KeptShown ==
  ASSUME IInv, UNCHANGED hints, refreshes' \in Nat, refreshes <= refreshes', Refreshes
  PROVE  ShownFollows'
<1>1. PICK d, i : d = hints.document /\ i = hints.input
  OBVIOUS
<1>2. /\ refreshes \in Nat
      /\ hints # NoHints => /\ hints.document \in Document /\ hints.asked \in 0 .. refreshes
                            /\ Fresh(hints.document, hints.input, hints.asked)
  BY DEF IInv, ShownFollows
<1>3. hints # NoHints => Fresh(d, i, hints.asked)'
  <2>1. PICK n : n = hints.asked
    OBVIOUS
  <2>2. hints # NoHints => Fresh(d, i, n)'
    BY <1>1, <1>2, <2>1 DEF Refreshes
  <2> QED
    BY <2>1, <2>2 DEF Fresh
<1> QED
  BY <1>1, <1>2, <1>3 DEF ShownFollows, Fresh

\* All that is left to show of a step that keeps the request.
LEMMA KeptRequest ==
  ASSUME IInv, Kept, NEW d, d = request.root, request # Idle => Holds(d) /\ Invalidates(d),
         Refreshes, Replaces,
         forgotten \subseteq forgotten', hintGeneration' \in Nat,
         hintGeneration <= hintGeneration', refreshes' \in Nat, refreshes <= refreshes',
         submissions' \in [Document -> [generation : Nat, label : 0 .. 1]], revision' \in Nat,
         revision' > revision \/ UNCHANGED <<revision, configuration>>
  PROVE  RequestInv'
<1>1. RequestFollows' /\ ResultsFollow' /\ ItemFollows'
  BY KeptFollows
<1>2. SubmittedFollows' /\ CallsFollow'
  BY KeptSubmitted
<1>3. OwnFollows'
  BY KeptOwn
<1>4. HintsFollow'
  BY KeptHints
<1>5. ContextFollows'
  BY KeptContext
<1> QED
  BY <1>1, <1>2, <1>3, <1>4, <1>5 DEF RequestInv

-----------------------------------------------------------------------------
(* Steps of the manager.                                                    *)

\* Of a document that a request is not at, nothing has to be shown.
LEMMA ManagerKeeps ==
  ASSUME IInv, Kept, Replaces, forgotten \subseteq forgotten',
         UNCHANGED <<documents, texts, configuration, revision, hintGeneration, generations,
                     submissions, main, hints, refreshes>>,
         NEW d, d = request.root,
         request # Idle /\ d \notin forgotten' => \A i : Holding(d, i) => Holding(d, i)'
  PROVE  ServerFollows' /\ MainFollows' /\ ShownFollows' /\ RequestInv'
<1>1. \A e : Input(e)' = Input(e)
  BY InputStays
<1>2. ServerFollows'
  BY DEF IInv, ServerFollows
<1>3. MainFollows'
  BY <1>1 DEF IInv, MainFollows
<1>4. Refreshes
  BY <1>1 DEF Refreshes, Fresh
<1>5. refreshes \in Nat /\ refreshes <= refreshes
  BY DEF IInv, ShownFollows
<1>6. ShownFollows'
  BY <1>4, <1>5, KeptShown
<1>7. request # Idle => Holds(d)
  BY DEF Holds
<1>8. request # Idle => Invalidates(d)
  BY <1>1 DEF Invalidates, Holding
<1>9. /\ revision \in Nat /\ hintGeneration \in Nat /\ hintGeneration <= hintGeneration
      /\ submissions \in [Document -> [generation : Nat, label : 0 .. 1]]
  BY DEF IInv, ServerFollows
<1>10. RequestInv'
  BY <1>4, <1>5, <1>7, <1>8, <1>9, KeptRequest
<1> QED
  BY <1>2, <1>3, <1>6, <1>10

LEMMA ParseStep == ASSUME IInv, NEW d \in Document, Parse(d) PROVE IInv'
<1>1. /\ pending[d] # None /\ pending' = [pending EXCEPT ![d] = None]
      /\ request' = IF request.at = "asking" /\ request.root = d
                    THEN [request EXCEPT !.behind = FALSE] ELSE request
      /\ UNCHANGED <<documents, texts, configuration, revision, hintGeneration, generations,
                     submissions, main, hints, refreshes, forgotten>>
  BY DEF Parse, clientVars, stateVars, submissionVars, shownVars
<1>2. \/ /\ built[d] # None /\ SameUnit(built[d].input, pending[d])
         /\ built' = [built EXCEPT ![d].input = pending[d]] /\ contents' = contents
      \/ /\ built' = [built EXCEPT ![d] = [input |-> pending[d], content |-> contents + 1]]
         /\ contents' = contents + 1
  BY DEF Parse
<1>3. /\ DOMAIN pending = Document /\ DOMAIN built = Document /\ contents \in Nat \ {0}
      /\ forgotten \subseteq Document
      /\ \A e \in Document :
           /\ pending[e] # None => DOMAIN pending[e].sources = Closure(e)
           /\ built[e] # None =>
                /\ DOMAIN built[e] = {"input", "content"}
                /\ built[e].content \in 1 .. contents
                /\ e = Item.root /\ built[e].content = Item.content =>
                     built[e].input.sources = Item.sources
  BY DEF IInv, UnitsFollow
<1>4. /\ DOMAIN built'[d] = {"input", "content"} /\ built'[d].input = pending[d]
      /\ \/ /\ contents' = contents + 1 /\ built'[d].content = contents + 1
         \/ /\ contents' = contents /\ built[d] # None
            /\ built'[d].content = built[d].content
            /\ built[d].input.sources = pending[d].sources
      /\ built'[d] # None /\ pending'[d] = None
      /\ DOMAIN built' = Document /\ DOMAIN pending' = Document
      /\ \A e \in Document : e # d => built'[e] = built[e] /\ pending'[e] = pending[e]
  <2>1. CASE /\ built' = [built EXCEPT ![d] = [input |-> pending[d], content |-> contents + 1]]
             /\ contents' = contents + 1
    BY <1>1, <1>3, <2>1 DEF None
  <2>2. CASE /\ built[d] # None /\ SameUnit(built[d].input, pending[d])
             /\ built' = [built EXCEPT ![d].input = pending[d]] /\ contents' = contents
    <3>1. built'[d] = [built[d] EXCEPT !.input = pending[d]]
      BY <1>3, <2>2
    <3>2. /\ DOMAIN built'[d] = {"input", "content"} /\ built'[d].input = pending[d]
          /\ built'[d].content = built[d].content
      BY <1>3, <2>2, <3>1
    <3>3. built'[d] # None
      BY <3>2 DEF None
    <3> QED
      BY <1>1, <1>3, <2>2, <3>2, <3>3 DEF SameUnit
  <2> QED
    BY <1>2, <2>1, <2>2
<1>5. contents' \in Nat \ {0} /\ contents <= contents' /\ Item.content = 1
  BY <1>3, <1>4 DEF Item
<1>6. UnitsFollow'
  <2>1. ASSUME NEW e \in Document, built'[e] # None
        PROVE  /\ DOMAIN built'[e] = {"input", "content"}
               /\ built'[e].content \in 1 .. contents'
               /\ e = Item.root /\ built'[e].content = Item.content =>
                    built'[e].input.sources = Item.sources
    BY <1>3, <1>4, <1>5, <2>1
  <2> QED
    BY <1>1, <1>3, <1>4, <1>5, <2>1 DEF UnitsFollow
<1>7. Replaces
  BY <1>1, <1>3, <1>4, <1>5 DEF Replaces
<1>8. Kept
  BY <1>1 DEF Kept
<1>9. PICK r : r = request.root
  OBVIOUS
<1>10. ASSUME request # Idle, NEW i, Holding(r, i) PROVE Holding(r, i)'
  <2>1. CASE r = d
    <3>1. request'.at = "asking" => request'.behind = FALSE
      <4>1. request'.at = "asking" => request.at = "asking"
        BY <1>1
      <4>2. request.at = "asking" => DOMAIN request = Fields
        BY DEF Idle, IInv, RequestInv, RequestFollows
      <4> QED
        BY <1>1, <1>9, <2>1, <4>1, <4>2 DEF Fields
    <3> QED
      BY <1>1, <1>4, <1>10, <2>1, <3>1 DEF Holding
  <2>2. CASE r # d
    <3>1. request' = request
      BY <1>1, <1>9, <2>2
    <3>2. built'[r] = built[r] /\ pending'[r] = pending[r]
      <4>1. r \in Document
        BY <1>9, <1>10 DEF IInv, RequestInv, RequestFollows
      <4> QED
        BY <1>4, <2>2, <4>1
    <3> QED
      BY <1>10, <3>1, <3>2 DEF Holding
  <2> QED
    BY <2>1, <2>2
<1>11. ServerFollows' /\ MainFollows' /\ ShownFollows' /\ RequestInv'
  BY <1>1, <1>7, <1>8, <1>9, <1>10, ManagerKeeps
<1> QED
  BY <1>6, <1>11 DEF IInv

LEMMA RebuildStep == ASSUME IInv, NEW d \in Document, Rebuild(d) PROVE IInv'
<1>1. /\ built[d] # None /\ contents' = contents + 1
      /\ built' = [built EXCEPT ![d].content = contents + 1]
      /\ UNCHANGED <<documents, texts, configuration, revision, hintGeneration, generations,
                     submissions, main, hints, refreshes, forgotten, pending, request>>
  BY DEF Rebuild, clientVars, stateVars, submissionVars, shownVars
<1>2. /\ DOMAIN built = Document /\ contents \in Nat \ {0}
      /\ DOMAIN built[d] = {"input", "content"}
      /\ built[d].content \in 1 .. contents
  BY <1>1 DEF IInv, UnitsFollow
<1>3. built'[d] = [built[d] EXCEPT !.content = contents + 1]
  BY <1>1, <1>2
<1>4. /\ DOMAIN built' = Document
      /\ DOMAIN built'[d] = {"input", "content"} /\ built'[d].content = contents + 1
      /\ built'[d].input = built[d].input
      /\ \A e \in Document : e # d => built'[e] = built[e]
  BY <1>1, <1>2, <1>3
<1>5. built'[d] # None
  BY <1>4 DEF None
<1>6. contents' \in Nat \ {0} /\ contents <= contents' /\ Item.content = 1
  BY <1>1, <1>2 DEF Item
<1>7. UnitsFollow'
  <2>1. ASSUME NEW e \in Document, built'[e] # None
        PROVE  /\ DOMAIN built'[e] = {"input", "content"}
               /\ built'[e].content \in 1 .. contents'
               /\ e = Item.root /\ built'[e].content = Item.content =>
                    built'[e].input.sources = Item.sources
    <3>1. CASE e = d
      BY <1>1, <1>2, <1>4, <1>6, <3>1
    <3>2. CASE e # d
      BY <1>1, <1>2, <1>4, <1>6, <2>1, <3>2 DEF IInv, UnitsFollow
    <3> QED
      BY <3>1, <3>2
  <2> QED
    BY <1>1, <1>4, <1>6, <2>1 DEF IInv, UnitsFollow
<1>8. Replaces
  BY <1>1, <1>2, <1>4, <1>6 DEF Replaces
<1>9. PICK r : r = request.root
  OBVIOUS
<1>10. ASSUME request # Idle, NEW i, Holding(r, i) PROVE Holding(r, i)'
  <2>1. r \in Document
    BY <1>9, <1>10 DEF IInv, RequestInv, RequestFollows
  <2>2. built[r] # None => built'[r] # None /\ built'[r].input = built[r].input
    BY <1>1, <1>4, <1>5, <2>1
  <2> QED
    BY <1>1, <1>10, <2>2 DEF Holding
<1>11. ServerFollows' /\ MainFollows' /\ ShownFollows' /\ RequestInv'
  BY <1>1, <1>8, <1>9, <1>10, ManagerKeeps DEF Kept
<1> QED
  BY <1>7, <1>11 DEF IInv

LEMMA ForgetStep == ASSUME IInv, NEW d \in Document, Forget(d) PROVE IInv'
<1>1. /\ pending' = [pending EXCEPT ![d] = None] /\ forgotten' = forgotten \cup {d}
      /\ request' = IF request.at = "asking" /\ request.root = d
                    THEN [request EXCEPT !.behind = FALSE] ELSE request
      /\ UNCHANGED <<documents, texts, configuration, revision, hintGeneration, generations,
                     submissions, main, hints, refreshes, built, contents>>
  BY DEF Forget, clientVars, stateVars, submissionVars, shownVars
<1>2. DOMAIN pending = Document /\ contents \in Nat
  BY DEF IInv, UnitsFollow
<1>3. /\ DOMAIN pending' = Document /\ pending'[d] = None
      /\ \A e \in Document : e # d => pending'[e] = pending[e]
  BY <1>1, <1>2
<1>4. UnitsFollow'
  BY <1>1, <1>3 DEF IInv, UnitsFollow
<1>5. Replaces
  BY <1>1, <1>2 DEF Replaces
<1>6. Kept
  BY <1>1 DEF Kept
<1>7. PICK r : r = request.root
  OBVIOUS
<1>8. ASSUME request # Idle, r \notin forgotten', NEW i, Holding(r, i) PROVE Holding(r, i)'
  <2>1. r \in Document /\ r # d
    BY <1>1, <1>7, <1>8 DEF IInv, RequestInv, RequestFollows
  <2>2. request' = request /\ pending'[r] = pending[r]
    BY <1>1, <1>3, <1>7, <2>1
  <2> QED
    BY <1>1, <1>8, <2>2 DEF Holding
<1>9. ServerFollows' /\ MainFollows' /\ ShownFollows' /\ RequestInv'
  BY <1>1, <1>5, <1>6, <1>7, <1>8, ManagerKeeps
<1> QED
  BY <1>4, <1>9 DEF IInv

-----------------------------------------------------------------------------
(* Notifications.                                                           *)

LEMMA AsSequence ==
  ASSUME NEW S \in SUBSET Document
  PROVE  SetToSeq(S) \in Seq(Document)
<1>1. IsFiniteSet(S)
  <2>1. IsFiniteSet({Shader} \cup {Header})
    BY FS_Singleton, FS_AddElement
  <2>2. Document = {Shader} \cup {Header}
    BY DEF Document
  <2> QED
    BY <2>1, <2>2, FS_Subset
<1>2. Cardinality(S) \in Nat /\ ExistsBijection(1 .. Cardinality(S), S)
  BY <1>1, FS_CardinalityType
<1>3. \E f \in [1 .. Cardinality(S) -> S] : IsInjective(f)
  BY <1>2 DEF ExistsBijection, Bijection, Injection
<1>4. SetToSeq(S) \in [1 .. Cardinality(S) -> S]
  BY <1>3 DEF SetToSeq
<1> QED
  BY <1>2, <1>4

LEMMA RootsAreDocuments ==
  /\ OpenDocuments \in Seq(Document)
  /\ \A d \in Document : Affected(d) \in Seq(Document) /\ <<d>> \o Affected(d) \in Seq(Document)
<1>1. OpenDocuments \in Seq(Document)
  BY AsSequence DEF OpenDocuments
<1>2. ASSUME NEW d \in Document PROVE Affected(d) \in Seq(Document)
  BY AsSequence DEF Affected
<1>3. \A d \in Document : <<d>> \in Seq(Document)
  OBVIOUS
<1> QED
  BY <1>1, <1>2, <1>3

\* A notification that changes something is going to invalidate the hints.
LEMMA Notified ==
  ASSUME IInv, Keeps, UNCHANGED hintGeneration, main = Resting, NEW roots \in Seq(Document),
         \/ main' = Changed(roots)
         \/ main' = Unaltered(roots) /\ UNCHANGED <<documents, configuration>>,
         revision' \in Nat, revision' > revision \/ UNCHANGED <<revision, configuration>>
  PROVE  UnitsFollow' /\ MainFollows' /\ ShownFollows' /\ RequestInv'
<1>1. UNCHANGED <<generations, submissions, pending, built, contents, forgotten, request, hints,
                  refreshes>>
  BY DEF Keeps, submissionVars, managerVars, shownVars
<1>2. main' # Resting /\ main.at = "resting"
  BY DEF Changed, Unaltered, Resting
<1>3. UnitsFollow'
  BY <1>1 DEF IInv, UnitsFollow
<1>4. MainFollows'
  BY DEF Changed, Unaltered, MainFollows
<1>5. \/ main'.at = "invalidate" /\ main'.refresh
      \/ UNCHANGED documents /\ \A e : Input(e)' = Input(e)
  BY InputStays DEF Changed
<1>6. Refreshes
  BY <1>1, <1>2, <1>5 DEF Refreshes, Fresh
<1>7. PICK d : d = request.root
  OBVIOUS
<1>8. Holds(d)
  BY <1>1 DEF Holds, Holding
<1>9. Invalidates(d)
  BY <1>1, <1>2, <1>5 DEF Invalidates, Holding
<1>10. /\ hintGeneration \in Nat /\ refreshes \in Nat /\ contents \in Nat
       /\ submissions \in [Document -> [generation : Nat, label : 0 .. 1]]
  BY DEF IInv, ServerFollows, ShownFollows, UnitsFollow
<1>11. Replaces
  BY <1>1, <1>10 DEF Replaces
<1>12. ShownFollows'
  BY <1>1, <1>6, <1>10, KeptShown
<1>13. RequestInv'
  BY <1>1, <1>6, <1>7, <1>8, <1>9, <1>10, <1>11, KeptRequest DEF Kept
<1> QED
  BY <1>3, <1>4, <1>12, <1>13

LEMMA DocumentSteps ==
  ASSUME IInv, NEW d \in Document, DidOpen(d) \/ DidChange(d) \/ DidSave(d)
  PROVE  IInv'
<1>1. /\ main = Resting /\ main' = Changed(<<d>> \o Affected(d)) /\ Keeps
      /\ UNCHANGED <<configuration, revision, hintGeneration>>
  BY DEF DidOpen, DidChange, DidSave, Arrives, stateVars
<1>2. revision \in Nat
  BY DEF IInv, ServerFollows
<1>3. UnitsFollow' /\ MainFollows' /\ ShownFollows' /\ RequestInv'
  BY <1>1, <1>2, Notified, RootsAreDocuments
<1>4. texts' \in Nat /\ texts <= texts'
  BY DEF DidOpen, DidChange, DidSave, IInv, ServerFollows
<1> DEFINE D(n) == [open : BOOLEAN, version : Nat, text : 0 .. n, disk : 0 .. n]
<1>5. \A e \in Document : documents[e] \in D(texts) /\ documents[e] \in D(texts')
  BY <1>4 DEF IInv, ServerFollows
<1>6. DOMAIN documents = Document /\ documents' \in [Document -> D(texts')]
  <2>1. DOMAIN documents = Document
    BY DEF IInv, ServerFollows
  <2>2. CASE DidOpen(d)
    <3>1. PICK text \in {documents[d].disk, texts + 1} :
            documents' = [documents EXCEPT ![d] =
              [documents[d] EXCEPT !.open = TRUE, !.version = 1, !.text = text]]
      BY <2>1, <2>2 DEF DidOpen
    <3>2. texts' = texts + 1 /\ text \in 0 .. texts'
      BY <1>5, <2>2 DEF DidOpen, IInv, ServerFollows
    <3>3. [documents[d] EXCEPT !.open = TRUE, !.version = 1, !.text = text] \in D(texts')
      BY <1>5, <3>2
    <3> QED
      BY <1>5, <2>1, <3>1, <3>3
  <2>3. CASE DidChange(d)
    <3>1. /\ documents' = [documents EXCEPT ![d] =
               [documents[d] EXCEPT !.version = @ + 1, !.text = texts + 1]]
          /\ texts' = texts + 1
      BY <2>1, <2>3 DEF DidChange
    <3>2. documents[d] \in D(texts) /\ texts \in Nat
      BY <1>5 DEF IInv, ServerFollows
    <3>3. documents[d].version + 1 \in Nat /\ texts + 1 \in 0 .. texts'
      BY <3>1, <3>2
    <3>4. [documents[d] EXCEPT !.version = @ + 1, !.text = texts + 1] \in D(texts')
      BY <1>5, <3>3
    <3> QED
      BY <1>5, <2>1, <3>1, <3>4
  <2>4. CASE DidSave(d)
    <3>1. documents' = [documents EXCEPT ![d] =
            [documents[d] EXCEPT !.disk = documents[d].text]]
      BY <2>1, <2>4 DEF DidSave
    <3>2. [documents[d] EXCEPT !.disk = documents[d].text] \in D(texts')
      BY <1>5
    <3> QED
      BY <1>5, <2>1, <3>1, <3>2
  <2> QED
    BY <2>2, <2>3, <2>4, <2>1
<1>7. ServerFollows'
  <2>1. UNCHANGED <<generations, submissions>>
    BY <1>1 DEF Keeps, submissionVars
  <2> QED
    BY <1>1, <1>4, <1>6, <2>1 DEF IInv, ServerFollows
<1> QED
  BY <1>3, <1>7 DEF IInv

\* A closed document is not analysed any more, and its generation moves on.
LEMMA CloseStep == ASSUME IInv, NEW d \in Document, DidClose(d) PROVE IInv'
<1>1. /\ main = Resting /\ main' = Changed(Affected(d))
      /\ documents' = [documents EXCEPT ![d] = [documents[d] EXCEPT !.open = FALSE]]
      /\ generations' = [generations EXCEPT ![d] = generations[d] + 1]
      /\ pending' = [pending EXCEPT ![d] = None]
      /\ built' = [built EXCEPT ![d] = None]
      /\ request' = IF request.at = "asking" /\ request.root = d THEN Idle ELSE request
      /\ UNCHANGED <<texts, configuration, revision, hintGeneration, submissions, contents,
                     forgotten, hints, refreshes>>
  <2>1. DOMAIN documents = Document /\ DOMAIN generations = Document
    BY DEF IInv, ServerFollows
  <2> QED
    BY <2>1 DEF DidClose, Arrives, stateVars, shownVars, Superseded
<1>2. /\ documents \in [Document -> [open : BOOLEAN, version : Nat, text : 0 .. texts,
                                     disk : 0 .. texts]]
      /\ generations \in [Document -> Nat]
      /\ submissions \in [Document -> [generation : Nat, label : 0 .. 1]]
      /\ \A e \in Document : submissions[e].generation <= generations[e]
      /\ revision \in Nat /\ hintGeneration \in Nat
  BY DEF IInv, ServerFollows
<1>3. DOMAIN pending = Document /\ DOMAIN built = Document /\ contents \in Nat
  BY DEF IInv, UnitsFollow
<1>4. \A e \in Document :
        /\ generations'[e] = IF e = d THEN generations[e] + 1 ELSE generations[e]
        /\ pending'[e] = IF e = d THEN None ELSE pending[e]
        /\ built'[e] = IF e = d THEN None ELSE built[e]
  BY <1>1, <1>2, <1>3
<1>5. ServerFollows'
  <2>1. [documents[d] EXCEPT !.open = FALSE] \in
          [open : BOOLEAN, version : Nat, text : 0 .. texts, disk : 0 .. texts]
    BY <1>2
  <2>2. documents' \in [Document -> [open : BOOLEAN, version : Nat, text : 0 .. texts,
                                     disk : 0 .. texts]]
    BY <1>1, <1>2, <2>1
  <2>3. generations' \in [Document -> Nat]
    BY <1>1, <1>2
  <2>4. \A e \in Document : submissions[e].generation <= generations'[e]
    BY <1>2, <1>4
  <2> QED
    BY <1>1, <2>2, <2>3, <2>4 DEF IInv, ServerFollows
<1>6. UnitsFollow'
  BY <1>1, <1>3, <1>4 DEF IInv, UnitsFollow
<1>7. /\ main' # Resting /\ main'.at = "invalidate" /\ main'.refresh
      /\ MainFollows'
  BY <1>1, RootsAreDocuments DEF Changed, Resting, MainFollows
<1>8. Refreshes
  BY <1>7 DEF Refreshes, Fresh
<1>9. refreshes \in Nat
  BY DEF IInv, ShownFollows
<1>10. ShownFollows'
  BY <1>1, <1>8, <1>9, KeptShown
<1>11. RequestInv'
  <2>1. CASE request' = Idle
    BY <2>1, IdleKeeps
  <2>2. CASE request' = request
    <3>1. PICK r : r = request.root
      OBVIOUS
    <3>2. Replaces
      BY <1>1, <1>3, <1>4 DEF Replaces
    <3>3. ASSUME request # Idle PROVE Holds(r)
      <4>1. r \in Document
        BY <3>1, <3>3 DEF IInv, RequestInv, RequestFollows
      <4>2. CASE r = d
        BY <1>2, <1>4, <4>1, <4>2 DEF Holds
      <4>3. CASE r # d
        BY <1>4, <2>2, <4>1, <4>3 DEF Holds, Holding
      <4> QED
        BY <4>2, <4>3
    <3>4. Invalidates(r)
      BY <1>7 DEF Invalidates
    <3> QED
      BY <1>1, <1>2, <1>8, <1>9, <2>2, <3>1, <3>2, <3>3, <3>4, KeptRequest DEF Kept
  <2> QED
    BY <1>1, <2>1, <2>2
<1> QED
  BY <1>5, <1>6, <1>7, <1>10, <1>11 DEF IInv

LEMMA AppliesStep == ASSUME IInv, NEW c \in Configuration, Applies(c) PROVE IInv'
<1>1. /\ main = Resting /\ Keeps /\ configuration' = c
      /\ revision' = IF c = configuration THEN revision ELSE revision + 1
      /\ main' = IF c = configuration THEN Unaltered(OpenDocuments)
                 ELSE Changed(OpenDocuments)
      /\ UNCHANGED <<documents, texts, hintGeneration>>
  BY DEF Applies, Arrives, Reconfigures
<1>2. revision \in Nat
  BY DEF IInv, ServerFollows
<1>3. /\ revision' \in Nat
      /\ revision' > revision \/ UNCHANGED <<revision, configuration>>
      /\ \/ main' = Changed(OpenDocuments)
         \/ main' = Unaltered(OpenDocuments) /\ UNCHANGED <<documents, configuration>>
  BY <1>1, <1>2
<1>4. UnitsFollow' /\ MainFollows' /\ ShownFollows' /\ RequestInv'
  BY <1>1, <1>3, Notified, RootsAreDocuments
<1>5. ServerFollows'
  BY <1>1, <1>3 DEF Keeps, submissionVars, IInv, ServerFollows
<1> QED
  BY <1>4, <1>5 DEF IInv

LEMMA ConfigurationSteps ==
  ASSUME IInv, \/ DidChangeConfiguration \/ DidChangeClientDefaults
               \/ DidChangeWorkspaceFolders \/ DidChangeActiveVariant
  PROVE  IInv'
<1>1. PICK c \in Configuration : Applies(c)
  BY DEF DidChangeConfiguration, DidChangeClientDefaults, DidChangeWorkspaceFolders,
     DidChangeActiveVariant
<1> QED
  BY <1>1, AppliesStep

-----------------------------------------------------------------------------
(* The main thread goes on.                                                 *)

\* It does not rest before it has refreshed the hints.
LEMMA MainGoesOn ==
  ASSUME IInv, main # Resting, main' # Resting, main'.refresh = main.refresh,
         main.at = "invalidate" => hintGeneration' = hintGeneration + 1,
         main.at # "invalidate" => UNCHANGED hintGeneration,
         UNCHANGED <<documents, texts, configuration, revision, built, contents, forgotten,
                     request, hints, refreshes>>,
         \A e \in Document : \/ submissions'[e] = submissions[e]
                             \/ submissions'[e].generation > submissions[e].generation,
         submissions' \in [Document -> [generation : Nat, label : 0 .. 1]],
         NEW d, d = request.root, request # Idle => Holds(d),
         Holding(d, Input(d)) => Holding(d, Input(d))'
  PROVE  ShownFollows' /\ RequestInv'
<1>1. \A e : Input(e)' = Input(e)
  BY InputStays
<1>2. Refreshes
  BY <1>1 DEF Refreshes, Fresh
<1>3. /\ hintGeneration \in Nat /\ hintGeneration' \in Nat /\ hintGeneration <= hintGeneration'
      /\ revision \in Nat /\ refreshes \in Nat /\ refreshes <= refreshes /\ contents \in Nat
      /\ contents <= contents
  BY DEF IInv, ServerFollows, ShownFollows, UnitsFollow
<1>4. ShownFollows'
  BY <1>2, <1>3, KeptShown
<1>5. Invalidates(d)
  BY <1>1, <1>3 DEF Invalidates
<1>6. Replaces
  BY <1>3 DEF Replaces
<1>7. RequestInv'
  BY <1>2, <1>3, <1>5, <1>6, KeptRequest DEF Kept
<1> QED
  BY <1>4, <1>7

LEMMA InvalidateStep == ASSUME IInv, InvalidateHints PROVE IInv'
<1>1. /\ main.at = "invalidate" /\ main # Resting
      /\ hintGeneration' = hintGeneration + 1 /\ main' = [main EXCEPT !.at = "submit"]
      /\ UNCHANGED <<documents, texts, configuration, revision, generations, submissions,
                     pending, built, contents, forgotten, request, hints, refreshes>>
  BY DEF InvalidateHints, Resting, clientVars, submissionVars, managerVars, shownVars
<1>2. /\ DOMAIN main = {"at", "roots", "input", "refresh"}
      /\ main.roots \in Seq(Document)
  BY <1>1 DEF IInv, MainFollows
<1>3. /\ DOMAIN main' = {"at", "roots", "input", "refresh"} /\ main'.at = "submit"
      /\ main'.roots = main.roots /\ main'.refresh = main.refresh
  BY <1>1, <1>2
<1>4. MainFollows' /\ main' # Resting
  BY <1>2, <1>3 DEF MainFollows, Resting
<1>5. ServerFollows' /\ UnitsFollow'
  BY <1>1 DEF IInv, ServerFollows, UnitsFollow
<1>6. PICK d : d = request.root
  OBVIOUS
<1>7. /\ Holds(d) /\ (Holding(d, Input(d)) => Holding(d, Input(d))')
      /\ submissions \in [Document -> [generation : Nat, label : 0 .. 1]]
  BY <1>1, InputStays DEF Holds, Holding, IInv, ServerFollows
<1>8. ShownFollows' /\ RequestInv'
  BY <1>1, <1>3, <1>4, <1>6, <1>7, MainGoesOn
<1> QED
  BY <1>4, <1>5, <1>8 DEF IInv

LEMMA BeginSubmissionStep == ASSUME IInv, BeginSubmission PROVE IInv'
<1>1. PICK d : d = Head(main.roots)
  OBVIOUS
<1>2. /\ main.at = "submit" /\ main # Resting /\ main.roots # <<>>
      /\ generations' = [generations EXCEPT ![d] = @ + 1]
      /\ main' = [main EXCEPT !.at = "accept", !.input = Input(d)]
      /\ UNCHANGED <<documents, texts, configuration, revision, hintGeneration, submissions,
                     pending, built, contents, forgotten, request, hints, refreshes>>
  BY <1>1 DEF BeginSubmission, Resting, clientVars, stateVars, managerVars, shownVars
<1>3. /\ DOMAIN main = {"at", "roots", "input", "refresh"}
      /\ main.roots \in Seq(Document)
  BY <1>2 DEF IInv, MainFollows
<1>4. d \in Document
  BY <1>1, <1>2, <1>3
<1>5. /\ DOMAIN main' = {"at", "roots", "input", "refresh"} /\ main'.at = "accept"
      /\ main'.roots = main.roots /\ main'.refresh = main.refresh /\ main'.input = Input(d)
  BY <1>2, <1>3
<1>6. main' # Resting
  BY <1>5 DEF Resting
<1>7. /\ generations \in [Document -> Nat]
      /\ submissions \in [Document -> [generation : Nat, label : 0 .. 1]]
      /\ \A e \in Document : submissions[e].generation <= generations[e]
  BY DEF IInv, ServerFollows
<1>8. /\ generations' \in [Document -> Nat]
      /\ \A e \in Document :
           generations'[e] = IF e = d THEN generations[e] + 1 ELSE generations[e]
  BY <1>2, <1>4, <1>7
<1>9. ServerFollows' /\ UnitsFollow'
  <2>1. \A e \in Document : submissions[e].generation <= generations'[e]
    BY <1>7, <1>8
  <2>2. ServerFollows'
    BY <1>2, <1>8, <2>1 DEF IInv, ServerFollows
  <2>3. UnitsFollow'
    BY <1>2 DEF IInv, UnitsFollow
  <2> QED
    BY <2>2, <2>3
<1>10. MainFollows'
  <2>1. \A e : Input(e)' = Input(e)
    BY <1>2, InputStays
  <2>2. submissions'[d].generation < generations'[d]
    BY <1>2, <1>4, <1>7, <1>8
  <2>3. Head(main'.roots) = d /\ main'.roots # <<>> /\ main'.roots \in Seq(Document)
    BY <1>1, <1>2, <1>3, <1>5
  <2> QED
    BY <1>5, <2>1, <2>2, <2>3 DEF MainFollows
<1>11. PICK r : r = request.root
  OBVIOUS
<1>12. Holding(r, Input(r)) => Holding(r, Input(r))'
  BY <1>2, InputStays DEF Holding
<1>13. ASSUME request # Idle PROVE Holds(r)
  <2>1. r \in Document
    BY <1>11, <1>13 DEF IInv, RequestInv, RequestFollows
  <2>2. CASE r = d
    BY <1>7, <1>8, <2>1, <2>2 DEF Holds
  <2>3. CASE r # d
    BY <1>2, <1>8, <2>1, <2>3 DEF Holds, Holding
  <2> QED
    BY <2>2, <2>3
<1>14. ShownFollows' /\ RequestInv'
  BY <1>2, <1>5, <1>6, <1>7, <1>11, <1>12, <1>13, MainGoesOn
<1> QED
  BY <1>9, <1>10, <1>14 DEF IInv

LEMMA AcceptStep == ASSUME IInv, AcceptSubmission PROVE IInv'
<1>1. PICK d : d = Head(main.roots)
  OBVIOUS
<1>2. /\ main.at = "accept" /\ main # Resting
      /\ pending' = [pending EXCEPT ![d] = main.input]
      /\ main' = [main EXCEPT !.at = "record"]
      /\ UNCHANGED <<documents, texts, configuration, revision, hintGeneration, generations,
                     submissions, built, contents, forgotten, request, hints, refreshes>>
  BY <1>1 DEF AcceptSubmission, Accepts, Resting, clientVars, stateVars, submissionVars, shownVars
<1>3. /\ DOMAIN main = {"at", "roots", "input", "refresh"}
      /\ main.roots \in Seq(Document) /\ main.roots # <<>>
      /\ main.input = Input(d) /\ submissions[d].generation < generations[d]
  BY <1>1, <1>2 DEF IInv, MainFollows
<1>4. d \in Document
  BY <1>1, <1>3
<1>5. /\ DOMAIN main' = {"at", "roots", "input", "refresh"} /\ main'.at = "record"
      /\ main'.roots = main.roots /\ main'.refresh = main.refresh /\ main'.input = main.input
  BY <1>2, <1>3
<1>6. main' # Resting
  BY <1>5 DEF Resting
<1>7. Input(d) # None /\ DOMAIN Input(d).sources = Closure(d)
  BY InputIs
<1>8. /\ DOMAIN pending = Document /\ DOMAIN pending' = Document
      /\ \A e \in Document : pending'[e] = IF e = d THEN Input(d) ELSE pending[e]
  BY <1>2, <1>3 DEF IInv, UnitsFollow
<1>9. ServerFollows' /\ UnitsFollow'
  <2>1. ServerFollows'
    BY <1>2 DEF IInv, ServerFollows
  <2>2. UnitsFollow'
    BY <1>2, <1>7, <1>8 DEF IInv, UnitsFollow
  <2> QED
    BY <2>1, <2>2
<1>10. \A e : Input(e)' = Input(e)
  BY <1>2, InputStays
<1>11. MainFollows'
  BY <1>1, <1>2, <1>3, <1>5, <1>10 DEF MainFollows
<1>12. PICK r : r = request.root
  OBVIOUS
<1>13. submissions \in [Document -> [generation : Nat, label : 0 .. 1]]
  BY DEF IInv, ServerFollows
<1>14. ASSUME request # Idle
       PROVE  Holds(r) /\ (Holding(r, Input(r)) => Holding(r, Input(r))')
  <2>1. r \in Document
    BY <1>12, <1>14 DEF IInv, RequestInv, RequestFollows
  <2>2. CASE r = d
    <3>1. Holds(r)
      BY <1>2, <1>3, <2>2 DEF Holds, IInv, ServerFollows
    <3>2. ASSUME Holding(r, Input(r)) PROVE Holding(r, Input(r))'
      BY <1>2, <1>7, <1>8, <1>10, <1>4, <2>2, <3>2 DEF Holding, SameUnit
    <3> QED
      BY <3>1, <3>2
  <2>3. CASE r # d
    <3>1. pending'[r] = pending[r]
      BY <1>8, <2>1, <2>3
    <3> QED
      BY <1>2, <1>10, <3>1 DEF Holds, Holding
  <2> QED
    BY <2>2, <2>3
<1>15. ShownFollows' /\ RequestInv'
  <2>1. CASE request = Idle
    <3>1. request' = Idle
      BY <1>2, <2>1
    <3>2. Refreshes
      BY <1>2, <1>5, <1>6, <1>10 DEF Refreshes, Fresh
    <3>3. refreshes \in Nat /\ refreshes <= refreshes
      BY DEF IInv, ShownFollows
    <3> QED
      BY <1>2, <3>1, <3>2, <3>3, KeptShown, IdleKeeps
  <2>2. CASE request # Idle
    BY <1>2, <1>5, <1>6, <1>12, <1>13, <1>14, <2>2, MainGoesOn
  <2> QED
    BY <2>1, <2>2
<1> QED
  BY <1>9, <1>11, <1>15 DEF IInv

LEMMA RecordStep == ASSUME IInv, RecordSubmission PROVE IInv'
<1>1. PICK d : d = Head(main.roots)
  OBVIOUS
<1>2. PICK s : s = [generation |-> generations[d], label |-> main.input.configuration.label]
  OBVIOUS
<1>3. /\ main.at = "record" /\ main # Resting
      /\ submissions' = [submissions EXCEPT ![d] = s]
      /\ main' = [main EXCEPT !.at = "submit", !.roots = Tail(@), !.input = None]
      /\ UNCHANGED <<documents, texts, configuration, revision, hintGeneration, generations,
                     pending, built, contents, forgotten, request, hints, refreshes>>
  BY <1>1, <1>2 DEF RecordSubmission, Resting, clientVars, stateVars, managerVars, shownVars
<1>4. /\ DOMAIN main = {"at", "roots", "input", "refresh"}
      /\ main.roots \in Seq(Document) /\ main.roots # <<>>
      /\ main.input = Input(d) /\ submissions[d].generation < generations[d]
  BY <1>1, <1>3 DEF IInv, MainFollows
<1>5. d \in Document
  BY <1>1, <1>4
<1>6. /\ generations \in [Document -> Nat] /\ configuration \in Configuration
      /\ submissions \in [Document -> [generation : Nat, label : 0 .. 1]]
      /\ \A e \in Document : submissions[e].generation <= generations[e]
  BY DEF IInv, ServerFollows
<1>7. s \in [generation : Nat, label : 0 .. 1] /\ s.generation = generations[d]
  <2>1. main.input.configuration = configuration
    BY <1>4 DEF Input
  <2> QED
    BY <1>2, <1>5, <1>6, <2>1 DEF Configuration
<1>8. /\ DOMAIN main' = {"at", "roots", "input", "refresh"} /\ main'.at = "submit"
      /\ main'.roots = Tail(main.roots) /\ main'.refresh = main.refresh
      /\ main'.roots \in Seq(Document)
  BY <1>3, <1>4
<1>9. MainFollows' /\ main' # Resting
  BY <1>8 DEF MainFollows, Resting
<1>10. /\ submissions' \in [Document -> [generation : Nat, label : 0 .. 1]]
       /\ \A e \in Document : submissions'[e] = IF e = d THEN s ELSE submissions[e]
  BY <1>3, <1>5, <1>6, <1>7
<1>11. ServerFollows' /\ UnitsFollow'
  <2>1. \A e \in Document : submissions'[e].generation <= generations[e]
    BY <1>6, <1>7, <1>10
  <2>2. ServerFollows'
    BY <1>3, <1>10, <2>1 DEF IInv, ServerFollows
  <2>3. UnitsFollow'
    BY <1>3 DEF IInv, UnitsFollow
  <2> QED
    BY <2>2, <2>3
<1>12. \A e \in Document : \/ submissions'[e] = submissions[e]
                           \/ submissions'[e].generation > submissions[e].generation
  BY <1>4, <1>5, <1>6, <1>7, <1>10
<1>13. PICK r : r = request.root
  OBVIOUS
<1>14. Holds(r) /\ (Holding(r, Input(r)) => Holding(r, Input(r))')
  BY <1>3, InputStays DEF Holds, Holding
<1>15. ShownFollows' /\ RequestInv'
  BY <1>3, <1>8, <1>9, <1>10, <1>12, <1>13, <1>14, MainGoesOn
<1> QED
  BY <1>9, <1>11, <1>15 DEF IInv

LEMMA RefreshStep == ASSUME IInv, RefreshHints PROVE IInv'
<1>1. /\ main.at = "submit" /\ main # Resting /\ main' = Resting
      /\ refreshes' = IF main.refresh /\ RefreshSupport THEN refreshes + 1 ELSE refreshes
      /\ UNCHANGED <<documents, texts, configuration, revision, hintGeneration, generations,
                     submissions, pending, built, contents, forgotten, request, hints>>
  BY DEF RefreshHints, Refreshing, Resting, clientVars, stateVars, submissionVars, managerVars
<1>2. ServerFollows' /\ UnitsFollow'
  BY <1>1 DEF IInv, ServerFollows, UnitsFollow
<1>3. MainFollows'
  BY <1>1 DEF MainFollows
<1>4. \A e : Input(e)' = Input(e)
  BY <1>1, InputStays
<1>5. refreshes \in Nat /\ refreshes' \in Nat /\ refreshes <= refreshes'
  BY <1>1 DEF IInv, ShownFollows
<1>6. Refreshes
  BY <1>1, <1>4, <1>5 DEF Refreshes, Fresh
<1>7. ShownFollows'
  BY <1>1, <1>5, <1>6, KeptShown
<1>8. PICK r : r = request.root
  OBVIOUS
<1>9. Holds(r) /\ Invalidates(r)
  BY <1>1, <1>4 DEF Holds, Invalidates, Holding
<1>10. /\ revision \in Nat /\ hintGeneration \in Nat /\ hintGeneration <= hintGeneration
       /\ submissions \in [Document -> [generation : Nat, label : 0 .. 1]]
       /\ contents \in Nat /\ contents <= contents
  BY DEF IInv, ServerFollows, UnitsFollow
<1>11. Replaces
  BY <1>1, <1>10 DEF Replaces
<1>12. RequestInv'
  BY <1>1, <1>5, <1>6, <1>8, <1>9, <1>10, <1>11, KeptRequest DEF Kept
<1> QED
  BY <1>2, <1>3, <1>7, <1>12 DEF IInv

-----------------------------------------------------------------------------
(* The inductive invariant.                                                 *)

LEMMA InitInv == ASSUME Init PROVE IInv
<1>1. /\ texts = 1 /\ revision = 1 /\ hintGeneration = 1 /\ contents = 2 /\ refreshes = 0
      /\ documents = [d \in Document |-> [open |-> TRUE, version |-> 1, text |-> 1, disk |-> 1]]
      /\ configuration = [label |-> 0, arguments |-> 0]
      /\ generations = [d \in Document |-> IF d = Shader THEN 2 ELSE 1]
      /\ submissions = [d \in Document |-> [generation |-> generations[d], label |-> 0]]
      /\ pending = [d \in Document |-> None] /\ forgotten = {}
      /\ built = [d \in Document |->
                    [input |-> Input(d), content |-> IF d = Shader THEN 1 ELSE 2]]
      /\ main = Resting /\ request = Idle /\ hints = NoHints
  BY DEF Init
<1>2. configuration \in Configuration
  BY <1>1 DEF Configuration
<1>3. \A d \in Document : generations[d] \in Nat
  BY <1>1
<1>4. ServerFollows
  BY <1>1, <1>2, <1>3 DEF ServerFollows
<1>5. Shader \in Document /\ Item.root = Shader /\ Item.content = 1
  BY DEF Document, Item
<1>6. Input(Shader).sources = Item.sources
  <2>1. \A d \in Document : Source(d) = 1
    BY <1>1 DEF Source
  <2>2. Closure(Shader) = Document
    BY DEF Closure
  <2> QED
    BY <2>1, <2>2 DEF Input, Item
<1>7. ASSUME NEW d \in Document
      PROVE  /\ built[d] # None /\ pending[d] = None
             /\ DOMAIN built[d] = {"input", "content"}
             /\ built[d].content = IF d = Shader THEN 1 ELSE 2
             /\ built[d].input = Input(d)
  <2>1. built[d] = [input |-> Input(d), content |-> IF d = Shader THEN 1 ELSE 2]
    BY <1>1, <1>7
  <2> QED
    BY <1>1, <2>1 DEF None
<1>8. UnitsFollow
  BY <1>1, <1>5, <1>6, <1>7 DEF UnitsFollow
<1>9. MainFollows /\ ShownFollows
  BY <1>1 DEF MainFollows, ShownFollows
<1>10. RequestInv
  BY <1>1 DEF RequestInv, RequestFollows, SubmittedFollows, ResultsFollow, OwnFollows,
     HintsFollow, ContextFollows, ItemFollows, CallsFollow
<1> QED
  BY <1>4, <1>8, <1>9, <1>10 DEF IInv

LEMMA StutterStep == ASSUME IInv, UNCHANGED vars PROVE IInv'
<1>1. UNCHANGED <<documents, texts, configuration, revision, hintGeneration, generations,
                  submissions, pending, built, contents, forgotten, main, request, hints,
                  refreshes>>
  BY DEF vars, clientVars, stateVars, submissionVars, managerVars, shownVars
<1>2. UnitsFollow'
  BY <1>1 DEF IInv, UnitsFollow
<1>3. /\ Kept /\ contents \in Nat /\ contents <= contents
  BY <1>1 DEF Kept, IInv, UnitsFollow
<1>4. Replaces
  BY <1>1, <1>3 DEF Replaces
<1>5. PICK r : r = request.root
  OBVIOUS
<1>6. \A i : Holding(r, i) => Holding(r, i)'
  BY <1>1 DEF Holding
<1>7. ServerFollows' /\ MainFollows' /\ ShownFollows' /\ RequestInv'
  BY <1>1, <1>3, <1>4, <1>5, <1>6, ManagerKeeps
<1> QED
  BY <1>2, <1>7 DEF IInv

\* Of the request's steps, these only look at the server and the manager.
LEMMA RequestSteps ==
  ASSUME IInv,
         \/ Open \/ OpenItem \/ Settings \/ Submitted \/ Ask \/ Answer \/ Fail
         \/ Version \/ RootVersion \/ Generation \/ Current \/ HintsCurrent \/ Revision
         \/ Roots \/ NextRoot \/ LastRoot \/ Listed \/ Texts \/ NextCheck
  PROVE  IInv'
<1>1. Looks
  <2>1. CASE Open \/ OpenItem \/ Settings \/ Submitted \/ Ask \/ Answer \/ Fail
    BY <2>1 DEF Open, OpenItem, Settings, Submitted, Ask, Answer, Fail
  <2>2. CASE Version \/ RootVersion \/ Generation \/ Current \/ HintsCurrent \/ Revision
    BY <2>2 DEF Version, RootVersion, Generation, Current, HintsCurrent, Revision
  <2>3. CASE Roots \/ NextRoot \/ LastRoot \/ Listed \/ Texts \/ NextCheck
    BY <2>3 DEF Roots, NextRoot, LastRoot, Listed, Texts, NextCheck
  <2> QED
    BY <2>1, <2>2, <2>3
<1>2. RequestInv'
  BY SnapshotSteps, SettingsStep, SubmittedStep, AskStep, AnswerStep, FailStep, TestsStep,
     RootsStep, NextRootStep, LastRootStep, ListedStep, TextsStep, NextCheckStep
<1> QED
  BY <1>1, <1>2, LooksKeep DEF IInv

LEMMA StepInv == ASSUME IInv, [Next]_vars PROVE IInv'
<1>1. CASE Manager
  BY <1>1, ParseStep, RebuildStep, ForgetStep DEF Manager
<1>2. CASE Notifications
  BY <1>2, DocumentSteps, CloseStep, ConfigurationSteps, InvalidateStep, BeginSubmissionStep,
     AcceptStep, RecordStep, RefreshStep DEF Notifications
<1>3. CASE Requests
  BY <1>3, BeginStep, AnalyzeStep, RespondStep, RequestSteps DEF Requests
<1>4. CASE UNCHANGED vars
  BY <1>4, StutterStep
<1> QED
  BY <1>1, <1>2, <1>3, <1>4 DEF Next

LEMMA Invariance == Spec => []IInv
<1>1. IInv /\ [Next]_vars => IInv'
  BY StepInv
<1> QED
  BY InitInv, <1>1, PTL DEF Spec

-----------------------------------------------------------------------------
(* What it implies.                                                         *)

LEMMA InvTypeOK == ASSUME IInv PROVE TypeOK
<1>1. \A d \in Document : generations[d] \in Nat /\ submissions[d].generation \in Nat
  BY DEF IInv, ServerFollows
<1>2. \A d \in Document : generations[d] >= submissions[d].generation
  BY <1>1 DEF IInv, ServerFollows
<1>3. \A d \in Document : built[d] # None => built[d].content <= contents
  BY DEF IInv, UnitsFollow
<1>4. request.at \in {"idle", "serving", "asking", "answered"}
  BY DEF IInv, RequestInv, RequestFollows, Idle
<1> QED
  BY <1>2, <1>3, <1>4 DEF TypeOK, IInv, ServerFollows, UnitsFollow, RequestInv, RequestFollows

LEMMA InvSubmission == ASSUME IInv PROVE AnswersAreOfTheirSubmission
<1> SUFFICES ASSUME Answered(Generational), NEW x \in request.results,
                    x.root \in DOMAIN request.inputs \ forgotten
             PROVE  SameUnit(x.input, request.inputs[x.root])
  BY DEF AnswersAreOfTheirSubmission
<1>1. request # Idle /\ Runs(request, Generational)
  BY DEF Answered, Idle
<1>2. x.root = request.document
  BY <1>1, OwnPlans DEF Runs, IInv, RequestInv, ResultsFollow
<1> QED
  BY <1>1, <1>2 DEF Answered, IInv, RequestInv, OwnFollows

LEMMA InvItems == ASSUME IInv PROVE ItemsExpandInTheirAnalysis
BY DEF IInv, RequestInv, ItemFollows, ItemsExpandInTheirAnalysis, Answered, Idle

LEMMA InvMoment == ASSUME IInv PROVE IncomingCallsAreOfOneMoment
BY DEF IInv, RequestInv, CallsFollow, CallsAsked, CallsTested, IncomingCallsAreOfOneMoment,
   Answered, Idle

LEMMA InvHints == ASSUME IInv PROVE StaleHintsAreRefreshed
BY DEF IInv, ShownFollows, Fresh, StaleHintsAreRefreshed

\* While the server runs: inlay hints that the client shows are those of the
\* sources, the version and the arguments there are, or the main thread is on its
\* way to refresh them (workspace/inlayHint/refresh), or has since they were asked
\* for.  Of a client that has not announced that it refreshes its hints,
\* request_inlay_hint_refresh asks nothing, and nothing is claimed.
THEOREM HintsRefreshed == Spec => []StaleHintsAreRefreshed
BY Invariance, InvHints, PTL

\* Of the handlers that test the generation of their submission, the answer is
\* of what they submitted; items of the call hierarchy are expanded in the
\* analysis they were made of; and the incoming calls of all roots were true at
\* one moment, when their texts were read.
THEOREM AnswersOfOneAnalysis == Spec => []AnswersAreOfOneAnalysis
<1>1. IInv => AnswersAreOfOneAnalysis
  BY InvTypeOK, InvSubmission, InvItems, InvMoment DEF AnswersAreOfOneAnalysis
<1> QED
  BY <1>1, Invariance, PTL

-----------------------------------------------------------------------------
(* The step that answers a request.                                         *)

LEMMA GoesOn ==
  ASSUME IInv,
         \/ Open \/ OpenItem \/ Settings \/ AnalyzeAndPublish \/ Submitted \/ Answer
         \/ Version \/ RootVersion \/ Generation \/ Current \/ HintsCurrent \/ Revision
         \/ Roots \/ NextRoot \/ Texts \/ NextCheck
  PROVE  /\ request # Idle
         /\ \/ request' = Idle
            \/ \E q : /\ request' = After(q, request.step)
                      /\ DOMAIN q = Fields /\ q.plan = request.plan /\ q.step = request.step
<1>1. request # Idle
  <2>1. request.at \in {"serving", "asking"}
    <3>1. CASE Open \/ OpenItem \/ Settings \/ AnalyzeAndPublish \/ Submitted \/ Answer
      BY <3>1 DEF Open, OpenItem, Settings, AnalyzeAndPublish, Submitted, Answer, At
    <3>2. CASE Version \/ RootVersion \/ Generation \/ Current \/ HintsCurrent \/ Revision
      BY <3>2 DEF Version, RootVersion, Generation, Current, HintsCurrent, Revision, At
    <3>3. CASE Roots \/ NextRoot \/ Texts \/ NextCheck
      BY <3>3 DEF Roots, NextRoot, Texts, NextCheck, At
    <3> QED
      BY <3>1, <3>2, <3>3
  <2> QED
    BY <2>1 DEF Idle
<1>2. DOMAIN request = Fields
  BY <1>1 DEF IInv, RequestInv, RequestFollows
<1> DEFINE Q(q) == DOMAIN q = Fields /\ q.plan = request.plan /\ q.step = request.step
<1>3. CASE Version \/ RootVersion \/ Generation \/ Current \/ HintsCurrent \/ Revision
  <2>1. PICK ok : GoOn(ok, request)
    BY <1>3 DEF Version, RootVersion, Generation, Current, HintsCurrent, Revision
  <2> QED
    BY <1>1, <1>2, <2>1 DEF GoOn
<1>4. CASE Open \/ OpenItem
  <2>1. PICK ok, v : GoOn(ok, [request EXCEPT !.snapshots = v])
    BY <1>4 DEF Open, OpenItem
  <2>2. Q([request EXCEPT !.snapshots = v])
    BY <1>2 DEF Fields
  <2> QED
    BY <1>1, <2>1, <2>2 DEF GoOn
<1>5. CASE Settings
  <2>1. PICK q : q = [request EXCEPT !.configuration = configuration, !.revision = revision,
                                     !.hintGeneration = hintGeneration]
    OBVIOUS
  <2>2. GoOn(TRUE, q) /\ Q(q)
    BY <1>2, <1>5, <2>1 DEF Settings, Fields
  <2> QED
    BY <1>1, <2>2 DEF GoOn
<1>6. CASE AnalyzeAndPublish
  <2>1. PICK ok, v, w : GoOn(ok, [request EXCEPT !.submitted = v, !.inputs = w])
    BY <1>6 DEF AnalyzeAndPublish
  <2>2. Q([request EXCEPT !.submitted = v, !.inputs = w])
    BY <1>2 DEF Fields
  <2> QED
    BY <1>1, <2>1, <2>2 DEF GoOn
<1>7. CASE Submitted
  <2>1. PICK ok, v : GoOn(ok, [request EXCEPT !.submitted = v])
    BY <1>7 DEF Submitted
  <2>2. Q([request EXCEPT !.submitted = v])
    BY <1>2 DEF Fields
  <2> QED
    BY <1>1, <2>1, <2>2 DEF GoOn
<1>8. CASE Answer
  <2>1. PICK ok, x : GoOn(ok, Returned(request, x))
    BY <1>8 DEF Answer
  <2>2. StepOf(request) \in Queries
    BY <1>1, <1>8 DEF Answer, IInv, RequestInv, RequestFollows
  <2>3. Alters(Returned(request, x), {"results", "tags", "confirmed"})
    BY <1>1, <2>2, ReturnedIs
  <2>4. Q(Returned(request, x))
    BY <2>3 DEF Alters, Fields
  <2> QED
    BY <1>1, <2>1, <2>4 DEF GoOn
<1>9. CASE Roots
  <2>1. \/ GoOn(TRUE, [request EXCEPT !.left = Tracked, !.listed = tracked])
        \/ \E v : GoOn(TRUE, [request EXCEPT !.left = v])
    BY <1>9 DEF Roots
  <2>2. Q([request EXCEPT !.left = Tracked, !.listed = tracked])
    BY <1>2 DEF Fields
  <2>3. \A v : Q([request EXCEPT !.left = v])
    BY <1>2 DEF Fields
  <2> QED
    BY <1>1, <2>1, <2>2, <2>3 DEF GoOn
<1>10. CASE NextRoot
  <2>1. PICK ok, v, w, u :
          GoOn(ok, [request EXCEPT !.root = v, !.left = w, !.snapshots = u])
    BY <1>10 DEF NextRoot
  <2>2. Q([request EXCEPT !.root = v, !.left = w, !.snapshots = u])
    BY <1>2 DEF Fields
  <2> QED
    BY <1>1, <2>1, <2>2 DEF GoOn
<1>11. CASE NextCheck
  <2>1. PICK v, w : GoOn(TRUE, [request EXCEPT !.root = v, !.left = w])
    BY <1>11 DEF NextCheck
  <2>2. Q([request EXCEPT !.root = v, !.left = w])
    BY <1>2 DEF Fields
  <2> QED
    BY <1>1, <2>1, <2>2 DEF GoOn
<1>12. CASE Texts
  <2>1. PICK v, w, u : GoOn(TRUE, [request EXCEPT !.texts = v, !.moment = w, !.left = u])
    BY <1>12 DEF Texts
  <2>2. Q([request EXCEPT !.texts = v, !.moment = w, !.left = u])
    BY <1>2 DEF Fields
  <2> QED
    BY <1>1, <2>1, <2>2 DEF GoOn
<1> QED
  BY <1>1, <1>3, <1>4, <1>5, <1>6, <1>7, <1>8, <1>9, <1>10, <1>11, <1>12

LEMMA AfterAnswers ==
  ASSUME NEW r, DOMAIN r = Fields, NEW i, NEW q, q = After(r, i)
  PROVE  q.plan = r.plan /\ q.results = r.results /\ (q.at = "answered" => i = Len(r.plan))
<1>1. CASE i = Len(r.plan)
  BY <1>1 DEF After, Fields
<1>2. CASE i # Len(r.plan)
  <2>1. PICK s : q = [r EXCEPT !.at = "serving", !.step = s]
    BY <1>2 DEF After
  <2> QED
    BY <2>1 DEF Fields
<1> QED
  BY <1>1, <1>2

\* Nobody but the executor answers.
LEMMA OthersAnswer ==
  ASSUME IInv, Manager \/ Notifications \/ Begin \/ Ask \/ Fail \/ Respond \/ UNCHANGED vars
  PROVE  request'.at = "answered" => request.at = "answered"
<1>1. ASSUME request.at = "asking" PROVE [request EXCEPT !.behind = FALSE].at = "asking"
  BY <1>1 DEF Idle, IInv, RequestInv, RequestFollows, Fields
<1>2. CASE Manager
  <2>1. PICK d \in Document : Parse(d) \/ Rebuild(d) \/ Forget(d)
    BY <1>2 DEF Manager
  <2> QED
    BY <1>1, <2>1 DEF Parse, Rebuild, Forget
<1>3. CASE Notifications
  <2>1. CASE \E d \in Document : DidOpen(d) \/ DidChange(d) \/ DidSave(d) \/ DidClose(d)
    BY <2>1 DEF DidOpen, DidChange, DidSave, DidClose, Keeps, Idle
  <2>2. CASE \E c \in Configuration : Applies(c)
    BY <2>2 DEF Applies, Keeps
  <2>3. CASE \/ InvalidateHints \/ BeginSubmission \/ AcceptSubmission \/ RecordSubmission
             \/ RefreshHints
    BY <2>3 DEF InvalidateHints, BeginSubmission, AcceptSubmission, RecordSubmission,
       RefreshHints
  <2> QED
    BY <1>3, <2>1, <2>2, <2>3 DEF Notifications, DidChangeConfiguration,
       DidChangeClientDefaults, DidChangeWorkspaceFolders, DidChangeActiveVariant
<1>4. CASE Begin
  BY <1>4 DEF Begin, Arrived
<1>5. CASE Ask
  <2>1. DOMAIN request = Fields
    BY <1>5 DEF Ask, Idle, IInv, RequestInv, RequestFollows
  <2> QED
    BY <1>5, <2>1 DEF Ask, Fields
<1>6. CASE Fail \/ Respond
  BY <1>6 DEF Fail, Respond, Idle
<1>7. CASE UNCHANGED vars
  BY <1>7 DEF vars
<1> QED
  BY <1>2, <1>3, <1>4, <1>5, <1>6, <1>7

\* A plan without a loop is answered by its last step, which is the one test.
LEMMA AnsweredBy ==
  ASSUME IInv, [Next]_vars, request'.at = "answered", request.at # "answered",
         request'.plan \in {EffectiveContext, InlayHints}
  PROVE  /\ request # Idle /\ request'.plan = request.plan
         /\ request.plan = EffectiveContext => Revision /\ request.step = 3
         /\ request.plan = InlayHints => HintsCurrent /\ request.step = 6
<1>1. \/ Open \/ OpenItem \/ Settings \/ AnalyzeAndPublish \/ Submitted \/ Answer
      \/ Version \/ RootVersion \/ Generation \/ Current \/ HintsCurrent \/ Revision
      \/ Roots \/ NextRoot \/ Texts \/ NextCheck
      \/ LastRoot \/ Listed
  BY OthersAnswer DEF Next, Requests
<1>2. ~Loops(request'.plan)
  BY StraightPlans
<1>3. ~ (LastRoot \/ Listed)
  <2>1. ASSUME LastRoot \/ Listed PROVE FALSE
    <3>1. /\ request # Idle /\ request.at = "serving"
          /\ StepOf(request) \in {"root", "queried", "listed"}
      BY <2>1 DEF LastRoot, Listed, At, Idle
    <3>2. Loops(request.plan) /\ DOMAIN request = Fields
      BY <3>1, InLoop DEF IInv, RequestInv, RequestFollows
    <3>3. request'.plan = request.plan
      <4>1. CASE LastRoot
        <5>1. request' = After([request EXCEPT !.root = request.document], Behind(request))
          BY <4>1 DEF LastRoot
        <5>2. PICK q : q = [request EXCEPT !.root = request.document]
          OBVIOUS
        <5>3. DOMAIN q = Fields /\ q.plan = request.plan
          BY <3>2, <5>2 DEF Fields
        <5>4. PICK i, r : i = Behind(request) /\ r = After(q, i)
          OBVIOUS
        <5>5. r.plan = q.plan
          BY <5>3, <5>4, AfterAnswers
        <5> QED
          BY <5>1, <5>2, <5>3, <5>4, <5>5
      <4>2. CASE Listed
        <5>1. \/ request' = After(request, request.step)
              \/ request' = [request EXCEPT !.step = Place(request.plan, request.step)]
          BY <4>2 DEF Listed
        <5> QED
          BY <3>2, <5>1, AfterAnswers DEF Fields
      <4> QED
        BY <2>1, <4>1, <4>2
    <3> QED
      BY <1>2, <3>2, <3>3
  <2> QED
    BY <2>1
<1>4. request'.plan = request.plan /\ request.step = Len(request.plan)
  <2>1. PICK q : /\ request' = After(q, request.step)
                 /\ DOMAIN q = Fields /\ q.plan = request.plan /\ q.step = request.step
    <3>1. request' # Idle
      BY DEF Idle
    <3> QED
      BY <1>1, <1>3, <3>1, GoesOn
  <2>2. PICK r : r = After(q, request.step)
    OBVIOUS
  <2>3. r.plan = q.plan /\ (r.at = "answered" => request.step = Len(q.plan))
    BY <2>1, <2>2, AfterAnswers
  <2> QED
    BY <2>1, <2>2, <2>3
<1>5. /\ request.plan = EffectiveContext => StepOf(request) = "revision" /\ request.step = 3
      /\ request.plan = InlayHints => StepOf(request) = "hints" /\ request.step = 6
  BY <1>4, ContextPlan, InlayPlan DEF StepOf
<1>6. request # Idle
  BY <1>1, <1>3, GoesOn
<1>7. StepOf(request) \in {"revision", "hints"}
  BY <1>4, <1>5
<1>8. ~ Answer
  BY <1>6, <1>7 DEF Answer, IInv, RequestInv, RequestFollows, Queries
<1>9. ~ (Open \/ OpenItem \/ Settings \/ AnalyzeAndPublish \/ Submitted)
  BY <1>7 DEF Open, OpenItem, Settings, AnalyzeAndPublish, Submitted, At
<1>10. ~ (Version \/ RootVersion \/ Generation \/ Current)
  BY <1>7 DEF Version, RootVersion, Generation, Current, At
<1>11. ~ (Roots \/ NextRoot \/ Texts \/ NextCheck)
  BY <1>7 DEF Roots, NextRoot, Texts, NextCheck, At
<1>12. /\ Revision => StepOf(request) = "revision"
       /\ HintsCurrent => StepOf(request) = "hints"
  BY DEF Revision, HintsCurrent, At
<1> QED
  BY <1>1, <1>3, <1>4, <1>5, <1>6, <1>8, <1>9, <1>10, <1>11, <1>12

LEMMA ContextIsCurrent ==
  ASSUME IInv, [Next]_vars, request'.at = "answered", request.at # "answered",
         request'.plan = EffectiveContext
  PROVE  request.configuration = configuration
<1>1. request # Idle /\ request.plan = EffectiveContext /\ Revision /\ request.step = 3
  BY AnsweredBy
<1>2. request.revision = revision
  BY <1>1 DEF Revision, GoOn, SameRevision, Idle
<1> QED
  BY <1>1, <1>2, RunsPlans DEF IInv, RequestInv, ContextFollows

LEMMA HintsAreCurrent ==
  ASSUME IInv, [Next]_vars, request'.at = "answered", request.at # "answered",
         request'.plan = InlayHints, main.at # "invalidate"
  PROVE  \A x \in request'.results : SameUnit(x.input, Input(x.root)) \/ x.root \in forgotten
<1>1. request # Idle /\ request.plan = InlayHints /\ HintsCurrent /\ request.step = 6
  BY AnsweredBy
<1>2. request.hintGeneration = hintGeneration /\ request' = After(request, request.step)
  BY <1>1 DEF HintsCurrent, GoOn, Idle
<1>3. DOMAIN request = Fields
  BY <1>1 DEF IInv, RequestInv, RequestFollows
<1>4. request'.results = request.results
  <2>1. PICK q : q = After(request, request.step)
    OBVIOUS
  <2> QED
    BY <1>2, <1>3, <2>1, AfterAnswers
<1>5. \A x \in request.results : x.root = request.document
  BY <1>1, StraightPlans DEF IInv, RequestInv, ResultsFollow
<1>6. request.document \notin forgotten =>
        \A x \in request.results : SameUnit(x.input, Input(request.document))
  BY <1>1, <1>2, RunsPlans DEF IInv, RequestInv, HintsFollow
<1> QED
  BY <1>4, <1>5, <1>6

\* When an effective context or inlay hints are answered, the answer is of the
\* configuration, and of the sources, the version and the arguments, that there
\* are: what was computed outside of the lock, or in chunks, has not been
\* overtaken, except by a change that is about to invalidate the hints.
THEOREM AnswersCurrent == Spec => AnswersAreCurrent
<1>1. ASSUME IInv, [Next]_vars,
             Answered({"effectiveContext"})', request.at # "answered"
      PROVE  request.configuration = configuration
  BY <1>1, ContextIsCurrent, RunsPlans DEF Answered, Runs
<1>2. ASSUME IInv, [Next]_vars, Answered({"inlayHints"})', request.at # "answered"
      PROVE  \/ \A r \in request'.results : SameUnit(r.input, Input(r.root)) \/ r.root \in forgotten
             \/ main.at = "invalidate"
  BY <1>2, HintsAreCurrent, RunsPlans DEF Answered, Runs
<1>3. IInv /\ [Next]_vars =>
        [Answered({"effectiveContext"})' /\ request.at # "answered" =>
           request.configuration = configuration]_vars
  BY <1>1
<1>4. IInv /\ [Next]_vars =>
        [Answered({"inlayHints"})' /\ request.at # "answered" =>
           \/ \A r \in request.results' : SameUnit(r.input, Input(r.root)) \/ r.root \in forgotten
           \/ main.at = "invalidate"]_vars
  BY <1>2
<1>5. Spec => EffectiveContextIsCurrent
  BY <1>3, Invariance, PTL DEF Spec, EffectiveContextIsCurrent
<1>6. Spec => InlayHintsAreCurrent
  BY <1>4, Invariance, PTL DEF Spec, InlayHintsAreCurrent
<1> QED
  BY <1>5, <1>6, PTL DEF AnswersAreCurrent

===============================================================================
