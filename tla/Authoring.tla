------------------------------ MODULE Authoring ------------------------------
(***************************************************************************)
(* The preview of a configuration into which captured compilations are     *)
(* merged: the review of a capture and the request's checks (server.cpp)   *)
(* and the merge (configuration_authoring.cpp).                            *)
(*                                                                         *)
(* A configuration is the JSON of module Configuration, its groups with a  *)
(* name and its root a set of at most one truth value.  A source is of a   *)
(* kind and, a verified file, has a path below the workspace.  nested are  *)
(* the directories below the workspace that have a configuration.          *)
(***************************************************************************)
EXTENDS Configuration

Text(value) == [type |-> "string", value |-> value]
Array(value) == [type |-> "array", value |-> value]
Unnamed == ""

-----------------------------------------------------------------------------
(* The review of an invocation.                                            *)

\* Pairs with an empty name, or one name with two values.
Conflicting(pairs) ==
  \E i, j \in DOMAIN pairs :
    pairs[i].name = <<>> \/ (pairs[i].name = pairs[j].name /\ pairs[i].value # pairs[j].value)

InsertPairs(pairs) ==
  [type |-> "object",
   value |-> [name \in {pairs[i].name : i \in DOMAIN pairs} |->
                pairs[CHOOSE i \in DOMAIN pairs : pairs[i].name = name].value]]

\* The settings that a captured invocation says something about.
Unless(empty, key, setting) == IF empty THEN Nothing ELSE key :> setting
CapturedSettings(invocation) ==
  Unless(invocation.entryPoint = "", "entryPoint", Text(invocation.entryPoint))
  @@ ("targetProfile" :> Text(invocation.targetProfile))
  @@ ("compilerBackend" :> Text("dxc"))
  @@ Unless(invocation.languageVersion = "", "languageVersion", Text(invocation.languageVersion))
  @@ Unless(invocation.includeDirectories = <<>>, Parts.includes,
            Array(invocation.includeDirectories))
  @@ Unless(invocation.arguments = <<>>, "additionalArguments", Array(invocation.arguments))
  @@ Unless(invocation.defines = <<>>, Parts.definitions, InsertPairs(invocation.defines))
  @@ Unless(invocation.virtualMappings = <<>>, Parts.mappings,
            InsertPairs(invocation.virtualMappings))

Directories(path) == {SubSeq(path, 1, n) : n \in 1 .. Len(path) - 1}

\* Fault: only the directory of the source itself is looked at.
NestedInParent(path, nested) == Front(path) \in nested
IsNested(path, nested) == Directories(path) \cap nested # {}

Eligible(invocation, nested) ==
  /\ invocation.source.kind = "file"
  /\ ~IsNested(invocation.source.path, nested)
  /\ invocation.entryPoint # ""
  /\ ~Conflicting(invocation.defines) /\ ~Conflicting(invocation.virtualMappings)

-----------------------------------------------------------------------------
(* The request: a sequence of selected invocations, each maybe with the    *)
(* name of a variant, and pipelines whose stages are positions in it.      *)

File(entry) == entry.invocation.source.path

VariantsAreNamed(selected) ==
  \A i, j \in DOMAIN selected : i # j =>
    /\ selected[i].invocation # selected[j].invocation
    /\ selected[i].variant # Unnamed => selected[i].variant # selected[j].variant
    /\ File(selected[i]) = File(selected[j]) => selected[i].variant # Unnamed

PipelineIsValid(pipeline, selected) ==
  /\ pipeline.name # ""
  /\ DOMAIN pipeline.stages \subseteq ToSet(OrderedStages) /\ StagesComplete(pipeline.stages)
  /\ \A stage \in DOMAIN pipeline.stages :
       LET position == pipeline.stages[stage] IN
       /\ position \in DOMAIN selected
       /\ selected[position].invocation.targetProfile = ProfileOf(stage)
       /\ pipeline.source = "host" =>
            /\ selected[position].invocation.pipeline = pipeline.name
            /\ selected[position].invocation.stage = stage

RequestIsValid(request, nested) ==
  /\ request.selected # <<>>
  /\ \A i \in DOMAIN request.selected : Eligible(request.selected[i].invocation, nested)
  /\ VariantsAreNamed(request.selected)
  /\ \A i, j \in DOMAIN request.pipelines :
       i # j => request.pipelines[i].name # request.pipelines[j].name
  /\ \A i \in DOMAIN request.pipelines :
       PipelineIsValid(request.pipelines[i], request.selected)

-----------------------------------------------------------------------------
(* The merge.                                                              *)

Parsed(directory, document) ==
  ParseConfigFile(directory,
    [document EXCEPT !.root = TRUE \in @,
       !.pipelines = [i \in DOMAIN @ |->
         [name |-> @[i].name,
          stages |-> [s \in DOMAIN @[i].stages |-> @[i].stages[s].targetProfile]]]])

EmptyDocument ==
  [root |-> {}, settings |-> Nothing, groups |-> <<>>, variantsVersion |-> "none",
   variants |-> <<>>, pipelinesVersion |-> "none", pipelines |-> <<>>]

\* What every authored configuration says.
Base(document) ==
  [document EXCEPT !.root = IF @ = {} THEN {TRUE} ELSE @,
                   !.settings = @ @@ ("languageVersion" :> Text("2021"))]

\* Fault: names are not looked for.
NamedAnew(members, name) == <<>>
Named(members, name) == SelectSeq(members, LAMBDA member : member.name = name)

AddVariant(document, entry) ==
  LET found == Named(document.variants, entry.variant)
      variant == [name |-> entry.variant, inherits |-> <<>>, files |-> {<<File(entry)>>},
                  settings |-> CapturedSettings(entry.invocation)]
  IN IF found = <<>>
     THEN [document EXCEPT !.variants = Append(@, variant), !.variantsVersion = "supported"]
     ELSE IF found[1] # variant THEN Error("hlsl.variants")
     ELSE document

\* The groups that list the file itself; a glob that matches it is not one.
Listing(groups, path) == SelectSeq(groups, LAMBDA g : Contains(g.files, path))

AddGroup(document, entry) ==
  LET group == [name |-> Unnamed, files |-> <<File(entry)>>,
                settings |-> CapturedSettings(entry.invocation)]
      existing == Listing(document.groups, File(entry))
  IN IF \E i \in DOMAIN existing : [existing[i] EXCEPT !.name = Unnamed] # group
     THEN Error("hlsl.fileGroups")
     ELSE IF existing # <<>> THEN document
     ELSE [document EXCEPT !.groups = Append(@, group)]

AddEntry(document, entry) ==
  IF IsError(document) THEN document
  ELSE IF entry.variant # Unnamed THEN AddVariant(document, entry)
  ELSE AddGroup(document, entry)

StageOf(entry) ==
  [file |-> File(entry), entryPoint |-> entry.invocation.entryPoint,
   targetProfile |-> entry.invocation.targetProfile, variant |-> entry.variant]

AddPipeline(document, pipeline, selected) ==
  LET declaration == [name |-> pipeline.name,
                      stages |-> [s \in DOMAIN pipeline.stages |->
                                    StageOf(selected[pipeline.stages[s]])]]
      found == IF IsError(document) THEN <<>> ELSE Named(document.pipelines, pipeline.name)
  IN IF IsError(document) THEN document
     ELSE IF found = <<>>
     THEN [document EXCEPT !.pipelines = Append(@, declaration), !.pipelinesVersion = "supported"]
     ELSE IF found[1] # declaration THEN Error("hlsl.pipelines")
     ELSE document

Merged(document, request) ==
  LET withEntries == FoldLeft(AddEntry, Base(document), request.selected)
  IN FoldLeft(LAMBDA d, pipeline : AddPipeline(d, pipeline, request.selected),
              withEntries, request.pipelines)

\* existing is a set of at most one document.  A merge with a conflict gives that
\* back; one that the parser refuses is given as it is, to be repaired.
Preview(directory, existing, request) ==
  LET before == IF existing = {} THEN EmptyDocument ELSE CHOOSE d \in existing : TRUE
      merged == Merged(before, request)
  IN IF IsError(Parsed(directory, before)) \/ IsError(merged)
     THEN [content |-> IF existing = {} THEN Base(before) ELSE before,
           valid |-> FALSE, changed |-> FALSE]
     ELSE [content |-> merged, valid |-> ~IsError(Parsed(directory, merged)),
           changed |-> existing = {} \/ merged # before]

-----------------------------------------------------------------------------
(* What a preview must be.                                                 *)

\* A merge of valid parts is valid, only adds, and is done once: to preview it
\* again over its own result changes nothing.
PreviewSettles(directory, existing, request, nested) ==
  LET preview == Preview(directory, existing, request)
      again == Preview(directory, {preview.content}, request)
  IN RequestIsValid(request, nested) =>
       /\ preview.valid =>
            /\ \A before \in existing : \A part \in {"groups", "variants", "pipelines"} :
                 IsPrefix(before[part], preview.content[part])
            /\ again = [content |-> preview.content, valid |-> TRUE, changed |-> FALSE]
       /\ ~preview.valid =>
            preview.content \in existing \/ IsError(Parsed(directory, preview.content))

\* What the server makes of the file when the preview is saved.
Governing(directory, path, document, inner) ==
  FindConfigFiles([i \in DOMAIN path |->
    LET below == SubSeq(path, 1, Len(path) - i)
    IN [file |-> IF i = Len(path) THEN {Parsed(directory, document)}
                 ELSE IF below \in DOMAIN inner
                 THEN {Parsed(directory \o below, inner[below])} ELSE {}]])

\* The configuration that a selected file is compiled with, alone or by its
\* variant.
Effective(directory, entry, document, inner) ==
  LET c == MergeConfigurations(Governing(directory, File(entry), document, inner),
                               {directory \o File(entry)})
  IN IF entry.variant = Unnamed THEN c ELSE ApplyVariant(c, entry.variant)

\* The settings that one configuration has on top of another, and nothing else.
IsOnTop(c, settings, below) ==
  LET merged == MergeSettings(below, settings) IN
  \A part \in DOMAIN merged : c[part] = merged[part]

\* Saved, the preview makes the server compile the selected file with what was
\* captured, on top of what the configuration said of the file before.
CaptureTakesEffect(directory, existing, request, inner, i) ==
  LET entry == request.selected[i]
      before == IF existing = {} THEN EmptyDocument ELSE CHOOSE d \in existing : TRUE
      preview == Preview(directory, existing, request)
      alone == [entry EXCEPT !.variant = Unnamed]
  IN RequestIsValid(request, DOMAIN inner) /\ preview.valid =>
       IsOnTop(Effective(directory, entry, preview.content, inner),
               ParseSettings(CapturedSettings(entry.invocation)),
               Effective(directory, alone, Base(before), inner))

\* Saved, the preview makes the server compile the selected file with no value
\* other than what was captured.
NothingElseIsSaid(directory, existing, request, inner, i) ==
  LET entry == request.selected[i]
      settings == ParseSettings(CapturedSettings(entry.invocation))
      preview == Preview(directory, existing, request)
      c == Effective(directory, entry, preview.content, inner)
  IN RequestIsValid(request, DOMAIN inner) /\ preview.valid =>
       \A part \in {"scalars", "definitions", "mappings"} :
         Over(settings[part], c[part]) = c[part]

\* The configuration had a group that lists the file: none is added.
WasListed(existing, entry) ==
  entry.variant = Unnamed /\ \E d \in existing : Listing(d.groups, File(entry)) # <<>>

\* The group of another selected file is of this one as well: a path of one
\* segment is a glob of all files with that name, in whatever directory.
IsShared(selected, i) ==
  \E j \in DOMAIN selected \ {i} :
    /\ selected[j].variant = Unnamed
    /\ Matches(ParseGlob(File(selected[j])), File(selected[i]))

\* The variants that the stages of a saved pipeline name are those of their files.
StagesHaveTheirVariants(directory, existing, request, inner) ==
  LET preview == Preview(directory, existing, request)
      variants(path) ==
        MergeConfigurations(Governing(directory, path, preview.content, inner),
                            {directory \o path}).variants
  IN RequestIsValid(request, DOMAIN inner) /\ preview.valid =>
       \A i \in DOMAIN request.pipelines : \A s \in DOMAIN request.pipelines[i].stages :
         LET stage == Named(preview.content.pipelines, request.pipelines[i].name)[1].stages[s]
         IN stage.variant # Unnamed => Selection(variants(stage.file), stage.variant) = "applied"

=============================================================================
