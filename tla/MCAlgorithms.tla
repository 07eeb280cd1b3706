---------------------------- MODULE MCAlgorithms ----------------------------
(***************************************************************************)
(* Every initial state holds one input of one of the pure parts of the     *)
(* server; the invariants say of each input what the part must do with it. *)
(***************************************************************************)
EXTENDS Integers, Sequences, FiniteSets, SequencesExt, TLC

C == INSTANCE Configuration
I == INSTANCE Includes
S == INSTANCE CallSites
T == INSTANCE TextEdits
P == INSTANCE Protocol
M == INSTANCE Messages
D == INSTANCE Directives
A == INSTANCE Authoring
R == INSTANCE Reflection WITH MaxRegister <- 3

VARIABLE input

-----------------------------------------------------------------------------
(* Globs: one segment in full, then paths of some segments.                *)

SegmentGlobs ==
  [kind : {"glob"}, segments : {<<s>> : s \in BoundedSeq({"a", "b", "*", "?"}, 4)},
   path : {<<s>> : s \in BoundedSeq({"a", "b"}, 4) \ {<<>>}}]
PathGlobs ==
  [kind : {"glob"},
   segments : BoundedSeq({<<"*", "*">>, <<"*">>, <<"a">>, <<"?", "a">>}, 4) \ {<<>>},
   path : BoundedSeq({<<"a">>, <<"b">>, <<"b", "a">>}, 3) \ {<<>>}]

\* Files and variants are chosen by globs: a glob matches exactly the paths
\* that its wildcards describe, however the matcher walks over them.
GlobsAreExact == input.kind = "glob" => C!GlobIsExact(input.segments, input.path)

-----------------------------------------------------------------------------
(* Variants: three of them, each with bases, one of them maybe unknown;    *)
(* the second and the third say something about the same setting.          *)

VariantInputs ==
  [kind : {"variants"},
   first : BoundedSeq({"b", "c", "unknown"}, 2), second : BoundedSeq({"a", "c"}, 2),
   third : BoundedSeq({"a", "b"}, 2)]

Variant(name, inherits, scalars) ==
  [name |-> name, origin |-> <<>>, inherits |-> inherits, files |-> {},
   settings |-> [C!NoSettings EXCEPT !.includes = <<name, "common">>, !.scalars = scalars]]

\* A variant is refused when its bases are unknown or lead back to it, and
\* otherwise the last base wins over the ones before and the variant over all.
VariantsInheritInOrder ==
  input.kind = "variants" =>
    C!VariantsInherit(<<Variant("a", input.first, C!Nothing),
                        Variant("b", input.second, [languageVersion |-> "of b"]),
                        Variant("c", input.third, [languageVersion |-> "of c"])>>)

-----------------------------------------------------------------------------
(* Layers: an outer and a nearer file, each with a group, a variant and    *)
(* the editor, all about settings of the same part.                        *)

Outer == <<<<"w">>>>
Nearer == <<<<"w">>, <<"p">>>>
Shader == <<<<"w">>, <<"p">>, <<"a">>>>
Parts == {"scalars", "definitions", "mappings", "includes"}

\* JSON that says about a part: nothing, one thing, another, or that it is clear.
Json(part, n) ==
  LET key == IF part = "scalars" THEN "languageVersion" ELSE C!Parts[part]
      directories == <<<<>>, <<1>>, <<2, 1>>, <<>>>>[n + 1]
      objects == <<C!Nothing, <<"/", "k">> :> "1", (<<"/", "k">> :> "2") @@ (<<"/", "l">> :> "2"),
                   C!Nothing>>[n + 1]
      versions == <<"", "1", "2", "">>[n + 1]
  IN IF n = 0 THEN C!Nothing
     ELSE key :> [type |-> IF n = 3 /\ part = "scalars" THEN "null" ELSE C!TypeOf(key),
                  value |-> CASE part = "scalars" -> versions
                              [] part = "includes" -> directories
                              [] OTHER -> objects]
Says(part, n) == C!ParseSettings(Json(part, n))
Overrides(part, n) == C!ConfigurationOverrides(Json(part, n))

LayerInputs ==
  [kind : {"layers"}, part : Parts, outer : 0 .. 2, nearer : 0 .. 2, outerGroup : 0 .. 2,
   nearerGroup : 0 .. 2, variant : 0 .. 2, editor : 0 .. 3,
   case : {"all apply", "groups do not match", "variant does not apply", "nearer is root",
           "a client proposes"}]

File(i, directory, root, settings, group, declaresVariant, glob) ==
  C!ParseConfigFile(directory,
    [root |-> root, settings |-> Json(i.part, settings),
     groups |-> <<[files |-> IF i.case = "groups do not match" THEN <<<<<<"b">>>>>>
                             ELSE <<<<<<"b">>>>, <<<<"*">>>>>>,
                   settings |-> Json(i.part, group)]>>,
     variantsVersion |-> IF declaresVariant THEN "supported" ELSE "none",
     variants |-> IF ~declaresVariant THEN <<>>
                  ELSE <<[name |-> "v", inherits |-> <<>>, files |-> {<<glob>>},
                          settings |-> Json(i.part, i.variant)]>>,
     pipelinesVersion |-> "none", pipelines |-> <<>>])

LayerConfiguration(i) ==
  LET isRoot == i.case = "nearer is root"
      glob == IF i.case = "variant does not apply" THEN <<<<"b">>>>
              ELSE IF isRoot THEN <<<<"a">>>> ELSE <<<<"p">>, <<"a">>>>
      nearer == File(i, Nearer, isRoot, i.nearer, i.nearerGroup, isRoot, glob)
      outer == File(i, Outer, FALSE, i.outer, i.outerGroup, ~isRoot, glob)
  IN C!ConfigurationFor(C!FindConfigFiles(<<[file |-> {nearer}], [file |-> {}],
                                            [file |-> {outer}]>>),
                        {Shader},
                        [overrides |-> Overrides(i.part, i.editor), variant |-> {"v"},
                         proposed |-> IF i.case = "a client proposes" THEN {"0"} ELSE {}])

Layer(i, n, origin) == [settings |-> Says(i.part, n), origin |-> origin]
Layers(i) ==
  LET outer(n) == IF i.case = "nearer is root" THEN <<>> ELSE <<Layer(i, n, Outer)>>
      group(layer) == IF i.case = "groups do not match" THEN <<>> ELSE layer
      client == [settings |-> [C!NoSettings EXCEPT !.scalars = "languageVersion" :> "0"],
                 origin |-> <<"client defaults">>]
  IN (IF i.case = "a client proposes" THEN <<client>> ELSE <<>>)
     \o outer(i.outer) \o <<Layer(i, i.nearer, Nearer)>>
     \o group(outer(i.outerGroup)) \o group(<<Layer(i, i.nearerGroup, Nearer)>>)
     \o (IF i.case = "variant does not apply" THEN <<>>
         ELSE <<Layer(i, i.variant, <<"variant", "v">>)>>)

\* The configuration of a shader has of every setting the value, and the origin,
\* of the highest layer that declares it, whatever the layers below declare: the
\* editor, the selected variant, the groups that match, the files, and of these
\* the nearest to the shader.
TheHighestLayerWins ==
  input.kind = "layers" =>
    C!HighestLayerWins(LayerConfiguration(input), Layers(input),
                       Overrides(input.part, input.editor))

-----------------------------------------------------------------------------
(* Compiler arguments, whose options all have their values.                *)

OptionUses ==
  {<<C!Argument("-E", ""), C!Plain("a")>>, <<C!Argument("-E", "b")>>,
   <<C!Argument("-T", ""), C!Plain("a")>>, <<C!Argument("-T", "c")>>, <<C!Plain("-O3")>>}
TargetInputs ==
  [kind : {"target"}, entryPoint : {"", "main"}, targetProfile : {"", "lib"},
   uses : BoundedSeq(OptionUses, 3)]

\* The entry point and the profile are found in the arguments of the compiler
\* twice, once for their values and once for their origins: the origin shown is
\* that of the value shown.
TargetsAreExplained ==
  input.kind = "target" =>
    \A key \in DOMAIN C!Option :
      C!TargetIsExplained(
        [C!NoConfiguration EXCEPT !.scalars =
           [entryPoint |-> input.entryPoint, targetProfile |-> input.targetProfile,
            additionalArguments |-> FlattenSeq(input.uses)]], key)

-----------------------------------------------------------------------------
(* Includes: a root, a file m/a that is also /V/a, a file b, and a header  *)
(* m/h that the macro M stands for in the configuration, maybe through N.  *)

Header(path, rooted) == [path |-> path, rooted |-> rooted, quoted |-> TRUE]
Include(path, rooted) == [kind |-> "literal", header |-> Header(path, rooted)]
Means(path, rooted) == [alias |-> "", header |-> Header(path, rooted)]
Define(name) == [kind |-> "macro", name |-> name, value |-> Means(<<"s">>, FALSE)]
IncludeM == [kind |-> "dynamic", macro |-> "M"]

Root == <<"root">>
RootEvents ==
  {Include(<<"m", "a">>, FALSE), Include(<<"V", "a">>, TRUE), Include(<<"b">>, FALSE), IncludeM,
   Define("M"), Define("N"), [kind |-> "unknown"]}
AEvents == {Include(<<"b">>, FALSE), IncludeM, Define("M")}
BEvents == {Include(<<"m", "a">>, FALSE), IncludeM, Include(<<"gone">>, FALSE)}

IncludeInputs ==
  [kind : {"includes"}, root : BoundedSeq(RootEvents, 3), a : BoundedSeq(AEvents, 2),
   b : BoundedSeq(BEvents, 1),
   configuration : {"M", "M through N", "arguments may change N", "arguments are opaque"}]

IncludeFiles(i) ==
  [open |-> (Root :> i.root) @@ (<<"m", "h">> :> <<>>),
   disk |-> (<<"m", "a">> :> i.a) @@ (<<"b">> :> i.b) @@ (<<"m", "h">> :> i.b)
            @@ (<<"s">> :> <<>>) @@ (<<"m", "s">> :> <<>>),
   directories |-> <<<<"none">>, <<>>>>,
   mappings |-> (<<"V">> :> <<"m">>),
   definitions |-> IF i.configuration = "M" THEN [M |-> Means(<<"V", "h">>, TRUE)]
                   ELSE [M |-> [alias |-> "N", header |-> ""], N |-> Means(<<"V", "h">>, TRUE)],
   arguments |-> CASE i.configuration = "arguments may change N" ->
                        <<[switch |-> "macro", name |-> "N"]>>
                   [] i.configuration = "arguments are opaque" ->
                        <<[switch |-> "response file", name |-> ""]>>
                   [] OTHER -> <<>>]
Resolved(i) == I!ResolveIncludes(IncludeFiles(i), Root)
Preprocessed(i) == I!Preprocess(IncludeFiles(i), Root, Means(<<"s">>, FALSE))

\* An include that the resolver says it knows, and may rewrite for the compiler,
\* is of the file that the preprocessor includes there, as often as it gets there,
\* but for what is below a file that it enters again under the same name: the
\* resolver reads a file once, with the macros that were changed by then.
\* NothingIsEverGuessed is without this exception.
NothingIsGuessed ==
  input.kind = "includes" =>
    I!NothingIsGuessed(Resolved(input), I!FirstReads(Preprocessed(input)))

\* The analysis of a shader depends on every file that was read for it, and on
\* the files whose appearance would change what is read, but, again, for what is
\* below a file that is entered again: what is read only the second time may be
\* missing.
ChangesAreNoticed ==
  input.kind = "includes" =>
    I!ChangesAreNoticed(Resolved(input), I!FirstReads(Preprocessed(input)),
                        IncludeFiles(input), Root)

\* docs/shadertoolsconfig.md:142 says that source-defined macros "remain dynamic
\* and are not guessed by the workspace resolver", in whatever file they are used
\* and however often that is entered.
\* The code does not: README, Divergences.
NothingIsEverGuessed ==
  input.kind = "includes" => I!NothingIsGuessed(Resolved(input), Preprocessed(input).reads)

-----------------------------------------------------------------------------
(* Calls: texts of some fragments, in the parentheses of a call.           *)

Fragments ==
  {<<"f", "(">>, <<"f", "<", "f", ",", "f", ">">>, <<"(", ")">>, <<"f">>, <<",">>, <<")">>, <<"(">>, <<"<">>, <<">">>,
   <<"k", "(">>, <<"{">>, <<"}">>, <<"[">>, <<"]">>, <<"/", "*", "(", "*", "/">>, <<" ">>,
   <<"\"", "(", "\"">>, <<"/", "/", "(", "\n">>, <<";">>}
CallInputs ==
  [kind : {"calls"},
   text : {<<"f", "(">> \o FlattenSeq(s) \o <<",", "f", ")", ")">> : s \in BoundedSeq(Fragments, 3)}]

\* The parameter names that are shown in a call and the signature that is shown
\* with the cursor there are of the same call and the same parameter, although
\* one is found by reading forwards from the start of the file and the other by
\* reading only what is before the cursor, unless a comment or a literal stands
\* between template arguments and the parenthesis after them: there the forward
\* reader skips only white space (server.cpp:1667), the backward one comments
\* too (server.cpp:1462), and they count the commas of "f<a,b>/**/(c" apart.
ReadersOfCallsAgree ==
  input.kind = "calls" /\ ~S!Interrupted(input.text) => S!ReadersAgree(input.text)

-----------------------------------------------------------------------------
(* Edits: a document that is opened, then notifications about it.          *)

OpenedTexts ==
  {FlattenSeq(s) : s \in BoundedSeq({<<"4", "c", "c", "c">>, <<"2", "c">>, <<"\n">>}, 3)
                         \cup BoundedSeq({<<"a">>, <<"\r">>, <<"\n">>}, 3)}
Positions == [line : 0 .. 1, character : 0 .. 3]
Ranges == {{[start |-> s, end |-> e]} : s, e \in Positions}
Notification(method) ==
  [method |-> method, version |-> 2, text |-> <<"a">>, changes |-> <<>>, saved |-> {}]
Changes == [range : Ranges, rangeLength : {{}, {1}}, text : {<<"4", "c", "c", "c">>, <<"\n">>}]
SmallChanges ==
  [range : {{}} \cup {{[start |-> [line |-> 0, character |-> c], end |-> [line |-> l, character |-> 1]]} :
                     c, l \in 0 .. 1},
   rangeLength : {{}}, text : {<<"\n">>, <<"a", "c">>}]
Edits(changes) == [Notification("didChange") EXCEPT !.changes = changes]
Others == {Notification("didOpen"), Notification("didClose"), Notification("didSave"),
           [Notification("didSave") EXCEPT !.saved = {<<"2", "c">>}],
           [Notification("didSave") EXCEPT !.saved = {<<"2">>}]}

EditInputs ==
  {[kind |-> "edits",
    notifications |-> <<[Notification("didOpen") EXCEPT !.text = t, !.version = 1]>> \o then] :
     t \in OpenedTexts,
     then \in {<<Edits(<<c>>)>> : c \in Changes}
                \cup {<<Edits(<<c, d>>)>> : c, d \in SmallChanges}
                \cup {<<n, m, Edits(<<c>>)>> : n, m \in Others, c \in {d \in SmallChanges : d.range = {}}}}

\* The text that the server has of a document is the text that the editor has
\* of it, although the one counts in bytes and the other in UTF-16 units.
StoreFollowsTheEditor ==
  input.kind = "edits" =>
    /\ T!StoreFollows(input.notifications)
    /\ T!PositionsRoundTrip(input.notifications[1].text)

-----------------------------------------------------------------------------
(* Protocol: streams of two frames that end anywhere, and objects.         *)

Payloads == {p \in BoundedSeq({"\r", "\n", "content-length:1"}, 3) : Len(p) # 2}
StreamInputs ==
  [kind : {"stream"}, payloads : BoundedSeq(Payloads, 2), length : 0 .. 16]

ObjectValues ==
  [jsonrpc : {"absent", "1.0", "2.0"}, method : {"absent", "string", "integer"},
   params : {"absent", "object", "string"}, id : {"absent", "null", "string", "unsigned", "fraction"},
   result : {"absent", "null"}, error : {"absent", "object", "codeAndMessage"}]
Object(values) ==
  LET names == {n \in DOMAIN values : values[n] # "absent"} IN [n \in names |-> values[n]]
MessageInputs == [kind : {"message"}, values : ObjectValues]

\* Whatever a payload contains, the frames that are read are those that were
\* written, and a stream that breaks off gives no payload that is only a part;
\* and no client waits for the answer of a request that it sent with an id that
\* can be read because the server took it for a notification, or refused it under
\* another id.
MessagesArrive ==
  /\ input.kind = "stream" => P!FramesAreWhole(input.payloads, input.length)
  /\ input.kind = "message" => M!MessageIsUnderstood(Object(input.values))

-----------------------------------------------------------------------------
(* Directives: texts of some fragments.                                    *)

TextFragments ==
  {<<"i">>, <<"d">>, <<"q", "n", "q">>, <<"n">>, <<"<", "n">>, <<">">>, <<"/", "*">>, <<"*", "/">>, <<"/">>,
   <<"\\", "\n">>, <<"\n">>, <<"q">>, <<" ">>, <<"*">>}
DirectiveInputs ==
  [kind : {"directives"},
   text : {<<"#">> \o FlattenSeq(s) \o <<" ", "n">> : s \in BoundedSeq(TextFragments, 4)}
            \cup {FlattenSeq(s) \o <<"#", "i", " ", "n">> : s \in BoundedSeq(TextFragments, 3)}]

\* The includes and macros of a text are found as the compiler finds them, for
\* which a comment is a space, whatever splices and comments are in it; and an
\* include that is rewritten for the compiler is the only thing in the text that
\* changes.  Excepted are texts with a line that goes on behind a comment with
\* line breaks in its midst, which the scanner takes for the end of the line
\* (SourceMacrosAreFound), with a comment that begins within <>, where it is none
\* for the compiler, and with a line that is too long.
DirectivesAreThoseOfTheText ==
  input.kind = "directives" =>
    D!DirectivesAreFound(input.text) /\ D!RewritesAreExact(input.text, <<"i">>)

\* tests/workspace/include_resolver_tests.cpp:581 says that comments and splices
\* in directives "keep source definitions authoritative": a macro that a text
\* defines is found, or it is known that some may be missed.
\* The code does not: README, Divergences.
SourceMacrosAreFound == input.kind = "directives" => D!MacrosAreFound(input.text)

-----------------------------------------------------------------------------
(* Authoring: compilations of the files a, d/a and d/e/b, merged into       *)
(* configurations with groups, variants and a pipeline of their own; the   *)
(* directory d may have a configuration.                                   *)

FileA == <<<<"a">>>>
FileDA == <<<<"d">>, <<"a">>>>
FileB == <<<<"d">>, <<"e">>, <<"b">>>>
Pair(name, value) == [name |-> name, value |-> value]
Captured(kind, path, profile, stage) ==
  [source |-> [kind |-> kind, path |-> path], entryPoint |-> "main", targetProfile |-> profile,
   languageVersion |-> IF stage = "" THEN "2018" ELSE "", includeDirectories |-> <<>>,
   arguments |-> <<>>, defines |-> <<>>, virtualMappings |-> <<>>,
   pipeline |-> "p", stage |-> stage]
CapturedA ==
  [Captured("file", FileA, "vs_", "vertex") EXCEPT !.includeDirectories = <<"i", "j">>]
Invocations ==
  {CapturedA,
   [Captured("file", FileB, "ps_", "pixel") EXCEPT
      !.arguments = <<"-Zi">>, !.virtualMappings = <<Pair(<<"/", "m">>, "n")>>],
   [Captured("file", FileA, "ps_", "") EXCEPT !.defines = <<Pair(<<"X">>, "1")>>],
   [Captured("file", FileDA, "ps_", "pixel") EXCEPT
      !.defines = <<Pair(<<"X">>, "2")>>, !.includeDirectories = <<"j">>]}
Unmerged ==
  LET alone == Captured("file", FileA, "vs_", "") IN
  {Captured("logical", FileA, "vs_", ""),
   [alone EXCEPT !.defines = <<Pair(<<"X">>, "1"), Pair(<<"X">>, "2")>>],
   [alone EXCEPT !.virtualMappings = <<Pair(<<>>, "n")>>],
   [alone EXCEPT !.virtualMappings = <<Pair(<<"m">>, "n")>>]}

SettingsOfA == A!CapturedSettings(CapturedA)
AuthoredGroup(name, files, settings) == [name |-> name, files |-> files, settings |-> settings]
AuthoredGroups ==
  {AuthoredGroup("all", <<<<<<"*">>>>>>, "targetProfile" :> A!Text("cs_")),
   AuthoredGroup("mine", <<FileA>>, SettingsOfA),
   AuthoredGroup("both", <<FileA, FileB>>, SettingsOfA)}
AuthoredVariants ==
  {[name |-> "v", inherits |-> <<>>, files |-> {<<file>>}, settings |-> SettingsOfA] :
     file \in {FileA, FileB}}
AuthoredPipeline ==
  [name |-> "p", stages |->
     [vertex |-> [file |-> FileA, entryPoint |-> "main", targetProfile |-> "vs_", variant |-> ""],
      pixel |-> [file |-> FileB, entryPoint |-> "main", targetProfile |-> "ps_", variant |-> ""]]]
Existing ==
  {[root |-> {}, settings |-> C!Nothing, groups |-> groups,
    variantsVersion |-> IF variants = <<>> THEN "none" ELSE "supported", variants |-> variants,
    pipelinesVersion |-> IF pipelines = <<>> THEN "none" ELSE "supported", pipelines |-> pipelines] :
     groups \in BoundedSeq(AuthoredGroups, 2), variants \in BoundedSeq(AuthoredVariants, 1),
     pipelines \in BoundedSeq({AuthoredPipeline}, 1)}

Selections ==
  BoundedSeq([invocation : Invocations, variant : {"", "v", "w"}], 2)
    \cup {<<[invocation |-> i, variant |-> ""]>> : i \in Unmerged}
RequestedPipelines ==
  {<<>>} \cup {<<[name |-> "p", source |-> source, stages |-> [vertex |-> 1, pixel |-> 2]]>> :
                source \in {"host", "user"}}
Inner == [A!EmptyDocument EXCEPT !.root = {TRUE}]
AuthoringInputs ==
  [kind : {"authoring"}, existing : {{}} \cup {{d} : d \in Existing},
   request : [selected : Selections, pipelines : RequestedPipelines],
   inner : {C!Nothing, <<<<"d">>>> :> Inner}]

\* A preview of captured compilations that is saved and asked for again changes
\* nothing more, and never what the configuration said before; a preview that is
\* refused leaves it alone, or would be refused as a configuration, too.
PreviewsSettle ==
  input.kind = "authoring" =>
    A!PreviewSettles(Outer, input.existing, input.request, DOMAIN input.inner)

\* A saved preview makes the server compile every captured file, alone, by its
\* variant or as the stage of a pipeline, with all that was captured of it, and
\* otherwise as before; unless the configuration had listed the file before, or
\* another captured file gets a group that is of this one as well, which is
\* NoFileGroupWinsLast.
CapturesTakeEffect ==
  input.kind = "authoring" =>
    /\ A!StagesHaveTheirVariants(Outer, input.existing, input.request, input.inner)
    /\ \A i \in DOMAIN input.request.selected :
         \/ A!WasListed(input.existing, input.request.selected[i])
         \/ A!IsShared(input.request.selected, i)
         \/ A!CaptureTakesEffect(Outer, input.existing, input.request, input.inner, i)

\* docs/runtime-capture.md:189 says that several captures of one file need variants,
\* "avoiding last-file-group-wins ambiguity": of two files that are captured without
\* variants the group of the second does not say how the first is compiled.
\* The code does not: README, Divergences.
NoFileGroupWinsLast ==
  input.kind = "authoring" =>
    \A i \in DOMAIN input.request.selected :
      \/ A!WasListed(input.existing, input.request.selected[i])
      \/ A!NothingElseIsSaid(Outer, input.existing, input.request, input.inner, i)

-----------------------------------------------------------------------------
(* Reflection: two resources; one resource and a root signature of two      *)
(* parameters; pipelines of two stages, one of them maybe not known, and    *)
(* of three that share resources.                                           *)

Registers(class, space, base, count) ==
  [class |-> class, space |-> space, base |-> base, count |-> count]
Resource(name, range) == range @@ [name |-> name]
Counts == 0 .. 5

CollisionInputs ==
  {[kind |-> "collisions",
    resources |-> <<Resource("x", Registers("srv", "0", b1, c1)),
                    Resource(name, Registers(class, space, b2, c2))>>] :
     b1, b2 \in 0 .. 3, c1, c2 \in Counts, name \in {"x", "y"}, class \in {"srv", "cbv"},
     space \in {"0", "1"}}
  \cup {[kind |-> "collisions",
          resources |-> <<Resource("x", Registers("srv", "reserved", b, 1)),
                          Resource("y", Registers("srv", "reserved", 1, 0))>>] : b \in 0 .. 3}

Visibilities == {"all", "pixel"}
Parameters ==
  {[kind |-> "table", visibility |-> v, ranges |-> <<Registers("srv", "0", b, c)>>] :
     v \in Visibilities, b \in 0 .. 3, c \in {0, 1, 2, 4}}
  \cup {[kind |-> k, visibility |-> v, ranges |-> <<Registers("srv", "0", b, 1)>>] :
           k \in {"descriptor", "constants", "static sampler"}, v \in Visibilities, b \in 1 .. 2}
SignatureInputs ==
  [kind : {"signature"}, stage : {"pixel", "vertex", "compute", "library"},
   availability : {"present"}, parameters : BoundedSeq(Parameters, 2),
   resource : {Registers("srv", "0", 1, 1), Registers("srv", "0", 2, 5),
               Registers("srv", "0", 1, 0), Registers("cbv", "0", 1, 1),
               Registers("sampler", "0", 2, 1), Registers("srv", "reserved", 0, 1)}]
  \cup [kind : {"signature"}, stage : {"pixel"}, parameters : {<<>>},
         availability : {"absent", "not applicable", "details unavailable"},
         resource : {Registers("srv", "0", 1, 1)}]

Element(semantic, type, mask, interpolation) ==
  [semantic |-> semantic, type |-> type, mask |-> mask, interpolation |-> interpolation,
   system |-> "of the semantic"]
Elements ==
  {Element(<<"color", n>>, type, mask, interpolation) :
     n \in 0 .. 1, type \in {"float", "int"}, mask \in {{1}, {1, 2}},
     interpolation \in {"linear", "constant", "undefined", "unavailable"}}
  \cup {[Element(<<"color", 0>>, "float", {1}, "linear") EXCEPT !.system = "other"]}
  \cup {Element(<<s, 0>>, "float", {1}, "undefined") : s \in {"sv_primitiveid", "sv_tessfactor"}}
Stage(kind, inputs, outputs, resources) ==
  [kind |-> kind, compiled |-> TRUE, reflected |-> TRUE, inputs |-> inputs, outputs |-> outputs,
   resources |-> resources]
Links == {<<"vertex", "pixel">>, <<"geometry", "pixel">>, <<"hull", "domain">>,
          <<"vertex", "geometry">>, <<"hull", "geometry">>}
Shared == [name : {"x", "y"}, binding : 1 .. 2, declaration : 1 .. 2]
Shares == {{}} \cup {{r} : r \in Shared} \cup {{r, q} : r \in {s \in Shared : s.name = "x"},
                                                     q \in {s \in Shared : s.name = "y"}}
PipelineInputs ==
  {[kind |-> "pipeline", expected |-> 2,
    stages |-> <<Stage(link[1], <<>>, outputs, {}), Stage(link[2], inputs, <<>>, {})>>] :
     link \in Links, inputs \in BoundedSeq(Elements, 1),
     outputs \in {<<output>> : output \in Elements} \cup
                  {<<output, Element(<<"color", 1>>, "float", {1, 2}, "linear")>> :
                     output \in {e \in Elements : e.semantic # <<"color", 1>>}}}
  \cup {[kind |-> "pipeline", expected |-> 3,
          stages |-> <<[Stage("vertex", <<>>, <<>>, r) EXCEPT !.compiled = c, !.reflected = f],
                       Stage("geometry", <<>>, <<>>, q), Stage("pixel", <<>>, <<>>, t)>>] :
           r \in Shares, q, t \in {s \in Shares : Cardinality(s) < 2},
           c, f \in BOOLEAN}
  \cup {[kind |-> "pipeline", expected |-> 2, stages |-> <<Stage("vertex", <<>>, <<>>, {})>>]}

\* What the server says of registers, root signatures and pipelines it says of
\* each register, component and resource: ranges collide exactly where they share
\* a register, however large; a signature is compatible only when it provides
\* every register to the stage, and an issue is of a resource that none of its
\* parameters provides; a pipeline has no issue exactly when it fits.
ReflectionIsJudged ==
  /\ input.kind = "collisions" => R!CollisionsAreOfRegisters(input.resources)
  /\ input.kind = "signature" =>
       R!CompatibleMeansCovered(<<Resource("x", input.resource)>>, input.availability,
                                input.parameters, input.stage)
  /\ input.kind = "pipeline" => R!PipelineFits(input.stages, input.expected)

-----------------------------------------------------------------------------

\* What configurations and compiler output are made of, and what texts are.
SettingInputs ==
  SegmentGlobs \cup PathGlobs \cup VariantInputs \cup LayerInputs \cup TargetInputs
    \cup AuthoringInputs \cup CollisionInputs \cup SignatureInputs \cup PipelineInputs
TextInputs ==
  IncludeInputs \cup CallInputs \cup EditInputs \cup StreamInputs \cup MessageInputs
    \cup DirectiveInputs

Next == UNCHANGED input
Spec == input \in SettingInputs \cup TextInputs /\ [][Next]_input

=============================================================================
