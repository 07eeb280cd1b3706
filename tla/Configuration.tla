---------------------------- MODULE Configuration ----------------------------
(***************************************************************************)
(* How the effective configuration of a shader is made of configuration    *)
(* files, file groups, variants, client defaults and editor settings:      *)
(* src/src/workspace/configuration.cpp and configuration_for in server.cpp *)
(* The parts are functions; what they must agree with is stated at the     *)
(* end, and MCAlgorithms evaluates both over all inputs of a small set.    *)
(*                                                                         *)
(* JSON is a partial function from keys to [type, value].  Paths exist; a  *)
(* path is the sequence of its segments, a segment the sequence of its     *)
(* characters.                                                             *)
(***************************************************************************)
EXTENDS Layers, FiniteSets

Error(code) == [error |-> code]
IsError(x) == "error" \in DOMAIN x

-----------------------------------------------------------------------------
(* File globs.                                                             *)

Question == "?"
Star == "*"
Stars == <<Star, Star>>

\* The segments of a relative path, none of them empty, . or ..
ParseGlob(segments) ==
  IF \/ \E i \in DOMAIN segments : segments[i] \in {<<>>, <<".">>, <<".", ".">>}
     \/ \E i \in DOMAIN segments : segments[i] # Stars /\ \E j \in 2 .. Len(segments[i]) :
                                     segments[i][j - 1] = Star /\ segments[i][j] = Star
  THEN Error("invalid_glob")
  ELSE [segments |-> segments, filenameOnly |-> Len(segments) = 1]

\* One pass over the value; when a character does not match, the last star
\* takes one character more, and earlier stars stay as they are.  The positions
\* are those of the pattern, of the value, of the last star and of the value
\* when it was met.
RECURSIVE GreedyFrom(_, _, _, _, _, _)
GreedyFrom(pattern, value, p, v, star, starValue) ==
  IF v > Len(value) THEN \A i \in p .. Len(pattern) : pattern[i] = Star
  ELSE IF p <= Len(pattern) /\ (pattern[p] = Question \/ pattern[p] = value[v])
       THEN GreedyFrom(pattern, value, p + 1, v + 1, star, starValue)
  ELSE IF p <= Len(pattern) /\ pattern[p] = Star
       THEN GreedyFrom(pattern, value, p + 1, v, p, v)
  ELSE /\ star # 0
       /\ GreedyFrom(pattern, value, star + 1, starValue + 1, star, starValue + 1)
MatchSegment(pattern, value) == GreedyFrom(pattern, value, 1, 1, 0, 1)

\* Which prefixes of the path a prefix of the pattern matches, one segment of
\* the pattern after the other.  Fault: ** needs a segment.
NextMatchedNonEmpty(matched, segment, path) ==
  [i \in 0 .. Len(path) |->
     IF segment = Stars THEN \E j \in 0 .. i - 1 : matched[j]
     ELSE i > 0 /\ matched[i - 1] /\ MatchSegment(segment, path[i])]
NextMatched(matched, segment, path) ==
  [i \in 0 .. Len(path) |->
     IF segment = Stars THEN \E j \in 0 .. i : matched[j]
     ELSE i > 0 /\ matched[i - 1] /\ MatchSegment(segment, path[i])]

Matches(glob, path) ==
  IF glob.filenameOnly THEN path # <<>> /\ MatchSegment(glob.segments[1], Last(path))
  ELSE FoldLeft(LAMBDA matched, segment : NextMatched(matched, segment, path),
                [i \in 0 .. Len(path) |-> i = 0], glob.segments)[Len(path)]

MatchesAny(globs, path) == \E i \in DOMAIN globs : Matches(globs[i], path)

-----------------------------------------------------------------------------
(* Settings.                                                               *)

Scalars == {"languageVersion", "targetProfile", "entryPoint", "compilerBackend",
            "fxcRuntimePath", "additionalArguments", "dxcRuntimeDirectory"}
Parts == [definitions |-> "preprocessorDefinitions", mappings |-> "virtualDirectoryMappings",
          includes |-> "additionalIncludeDirectories"]
TypeOf(key) ==
  CASE key \in {Parts.definitions, Parts.mappings} -> "object"
    [] key \in {Parts.includes, "additionalArguments"} -> "array"
    [] OTHER -> "string"
Backends == {"dxc", "fxc"}
Slashes == {"/", "\\"}

Read(json, key, otherwise) == IF key \in DOMAIN json THEN json[key].value ELSE otherwise

\* An empty runtime directory in a file says nothing.
ParseSettings(json) ==
  IF \/ \E k \in DOMAIN json : json[k].type # TypeOf(k)
     \/ \E name \in DOMAIN Read(json, Parts.mappings, Nothing) : name[1] \notin Slashes
     \/ Read(json, "compilerBackend", "dxc") \notin Backends
  THEN Error("invalid_type")
  ELSE [scalars |-> [k \in {x \in DOMAIN json \cap Scalars :
                              x # "dxcRuntimeDirectory" \/ json[x].value # ""} |-> json[k].value],
        definitions |-> Read(json, Parts.definitions, Nothing),
        mappings |-> Read(json, Parts.mappings, Nothing),
        includes |-> Read(json, Parts.includes, <<>>)]

\* A file group needs globs, and has no runtime of its own.
Runtime == "dxcRuntimeDirectory"
ParseFileGroup(group) ==
  LET globs == [i \in DOMAIN group.files |-> ParseGlob(group.files[i])]
      settings == ParseSettings(group.settings)
  IN IF \/ globs = <<>> \/ Runtime \in DOMAIN group.settings
        \/ IsError(settings) \/ \E i \in DOMAIN globs : IsError(globs[i])
     THEN Error("invalid_type")
     ELSE [files |-> globs, settings |-> settings]

-----------------------------------------------------------------------------
(* Variants.                                                               *)

\* Variants, like pipelines, need a version, and one that this build supports.
VersionFits(version, declared) ==
  version = "supported" \/ (version = "none" /\ ~declared)

\* The files of a variant are a set of at most one sequence of globs.
ParseVariant(variant, directory) ==
  LET globs(files) == [i \in DOMAIN files |-> ParseGlob(files[i])]
      settings == ParseSettings(variant.settings)
  IN IF \/ variant.name = "" \/ "" \in ToSet(variant.inherits) \/ IsError(settings)
        \/ \E files \in variant.files :
             files = <<>> \/ \E i \in DOMAIN files : IsError(ParseGlob(files[i]))
     THEN Error("invalid_variant")
     ELSE [name |-> variant.name, origin |-> directory, inherits |-> variant.inherits,
           files |-> {globs(files) : files \in variant.files}, settings |-> settings]

\* The bases one after the other, then the variant itself.  byName maps names
\* to variants, the stack holds those that are being resolved.  Fault: the
\* variant itself comes first.
OwnFirst(bases, own) == FoldLeft(MergeSettings, own, bases)
OwnLast(bases, own) == MergeSettings(FoldLeft(MergeSettings, NoSettings, bases), own)

RECURSIVE ResolveVariantSettings(_, _, _)
ResolveVariantSettings(name, byName, stack) ==
  IF name \in stack THEN Error("cycle")
  ELSE LET inherits == byName[name].inherits
           bases == [i \in DOMAIN inherits |->
                       ResolveVariantSettings(inherits[i], byName, stack \cup {name})]
       IN IF \E i \in DOMAIN bases : IsError(bases[i]) THEN Error("cycle")
          ELSE OwnLast(bases, byName[name].settings)

\* The files are sorted from the nearest to the outermost.
Declarations(files) ==
  FlattenSeq([i \in DOMAIN files |-> Reverse(files)[i].variants])

\* What is left of the shader's path below a directory that contains it.
Relative(shader, directory) == SubSeq(shader, Len(directory) + 1, Len(shader))

\* A variant with files applies to those only, and never without a shader.
Applicable(variant, shader) ==
  \/ variant.files = {}
  \/ \E globs \in variant.files : \E path \in shader :
       MatchesAny(globs, Relative(path, variant.origin))

ResolveVariants(files, shader) ==
  LET declarations == Declarations(files)
      names == {declarations[i].name : i \in DOMAIN declarations}
      byName == [n \in names |->
                   declarations[CHOOSE i \in DOMAIN declarations : declarations[i].name = n]]
      settings == [n \in names |-> ResolveVariantSettings(n, byName, {})]
  IN IF Cardinality(names) # Len(declarations) THEN Error("duplicate")
     ELSE IF \E n \in names : ~(ToSet(byName[n].inherits) \subseteq names) THEN Error("unknown")
     ELSE IF \E n \in names : IsError(settings[n]) THEN Error("cycle")
     ELSE [variants |-> [i \in DOMAIN declarations |->
             [name |-> declarations[i].name, origin |-> declarations[i].origin,
              applicable |-> Applicable(declarations[i], shader),
              settings |-> settings[declarations[i].name]]]]

-----------------------------------------------------------------------------
(* Pipelines.                                                              *)

OrderedStages == <<"vertex", "hull", "domain", "geometry", "pixel">>
ProfileOf(stage) ==
  [vertex |-> "vs_", hull |-> "hs_", domain |-> "ds_", geometry |-> "gs_",
   pixel |-> "ps_"][stage]

\* The stages of a pipeline, by name, each with a profile or "".
StagesComplete(stages) ==
  /\ {"vertex", "pixel"} \subseteq DOMAIN stages
  /\ "hull" \in DOMAIN stages <=> "domain" \in DOMAIN stages

StageFits(stage, profile) == profile \in {"", ProfileOf(stage)}

ParsePipeline(name, stages) ==
  IF \/ name = ""
     \/ ~(DOMAIN stages \subseteq ToSet(OrderedStages))
     \/ ~StagesComplete(stages)
     \/ \E s \in DOMAIN stages : ~StageFits(s, stages[s])
  THEN Error("invalid_pipeline")
  ELSE [name |-> name, stages |-> SelectSeq(OrderedStages, LAMBDA s : s \in DOMAIN stages)]

ResolvePipelines(files) ==
  LET pipelines == FlattenSeq([i \in DOMAIN files |-> Reverse(files)[i].pipelines])
  IN IF \E i, j \in DOMAIN pipelines : i < j /\ pipelines[i].name = pipelines[j].name
     THEN Error("duplicate")
     ELSE [pipelines |-> pipelines]

-----------------------------------------------------------------------------
(* Files.                                                                  *)

\* The files in the directories above a shader, up to the first root.
FilesToRoot(directories) ==
  SelectInSeq(directories, LAMBDA d : d.file # {} /\ \A f \in d.file : f.root)

\* The directories are sorted from that of the shader outwards.
FindConfigFiles(directories) ==
  LET last == IF \E i \in DOMAIN directories : \E f \in directories[i].file : f.root
              THEN FilesToRoot(directories) ELSE Len(directories)
      seen == SelectSeq(SubSeq(directories, 1, last), LAMBDA d : d.file # {})
  IN [i \in DOMAIN seen |-> CHOOSE f \in seen[i].file : TRUE]

\* The files, then their groups that match the shader, always from the outermost
\* to the nearest.
Applied(files, shader) ==
  LET outwards == Reverse(files)
      groups(file) ==
        SelectSeq(file.groups, LAMBDA g : \E path \in shader :
                    MatchesAny(g.files, Relative(path, file.directory)))
  IN [i \in DOMAIN files |-> [settings |-> outwards[i].settings,
                              origin |-> outwards[i].directory]]
     \o FlattenSeq([i \in DOMAIN files |->
          [j \in DOMAIN groups(outwards[i]) |->
             [settings |-> groups(outwards[i])[j].settings,
              origin |-> outwards[i].directory]]])

\* DXC is loaded once: files must not disagree on the directory it is loaded from.
Runtimes(files) ==
  SelectSeq(files, LAMBDA file : Runtime \in DOMAIN file.settings.scalars)

MergeConfigurations(files, shader) ==
  LET runtimes == Runtimes(files)
      variants == ResolveVariants(files, shader)
      pipelines == ResolvePipelines(files)
  IN IF \E i \in DOMAIN runtimes : runtimes[i].settings.scalars[Runtime]
                                     # runtimes[1].settings.scalars[Runtime]
     THEN Error("conflicting_runtime")
     ELSE IF IsError(variants) \/ IsError(pipelines) THEN Error("invalid")
     ELSE MergeLayers(Applied(files, shader), variants.variants, pipelines.pipelines)

\* A file is read whole, and refused when any part of it is ill-formed.
ParseConfigFile(directory, json) ==
  LET settings == ParseSettings(json.settings)
      groups == [i \in DOMAIN json.groups |-> ParseFileGroup(json.groups[i])]
      variants == [i \in DOMAIN json.variants |-> ParseVariant(json.variants[i], directory)]
      pipelines == [i \in DOMAIN json.pipelines |->
                      ParsePipeline(json.pipelines[i].name, json.pipelines[i].stages)]
      parts == {settings} \cup ToSet(groups) \cup ToSet(variants) \cup ToSet(pipelines)
  IN IF \/ \E part \in parts : IsError(part)
        \/ ~VersionFits(json.variantsVersion, json.variants # <<>>)
        \/ ~VersionFits(json.pipelinesVersion, json.pipelines # <<>>)
     THEN Error("invalid")
     ELSE [directory |-> directory, root |-> json.root, settings |-> settings,
           groups |-> groups, variants |-> variants, pipelines |-> pipelines]

-----------------------------------------------------------------------------
(* Editor settings.                                                        *)

\* What the editor sends: null, or an empty path or backend, clears a scalar.
ConfigurationOverrides(json) ==
  LET clears(k) ==
        \/ json[k].type = "null"
        \/ /\ k \in {"compilerBackend", "fxcRuntimePath", "dxcRuntimeDirectory"}
           /\ json[k].value = ""
      some(key) == IF key \in DOMAIN json THEN {json[key].value} ELSE {}
  IN IF \/ \E k \in DOMAIN json :
             json[k].type \notin {TypeOf(k)} \cup (IF TypeOf(k) = "string" THEN {"null"} ELSE {})
        \/ /\ "compilerBackend" \in DOMAIN json
           /\ ~clears("compilerBackend") /\ json["compilerBackend"].value \notin Backends
     THEN Error("invalid_params")
     ELSE [scalars |-> [k \in DOMAIN json \cap Scalars |->
                          IF clears(k) THEN Cleared ELSE json[k].value],
           definitions |-> some(Parts.definitions), mappings |-> some(Parts.mappings),
           includes |-> some(Parts.includes)]

BaseConfigurationFor(files, shader, proposed) ==
  LET c == MergeConfigurations(files, shader)
  IN IF IsError(c) THEN c ELSE ClientDefault(c, proposed)

ConfigurationFor(files, shader, state) ==
  LET c == BaseConfigurationFor(files, shader, state.proposed)
  IN IF IsError(c) THEN c ELSE EditorOnTop(c, state)

\* The folder of the workspace that editor paths are relative to: the nearest
\* above the shader, else the directory of the shader.
ConfigurationBaseDirectory(shader, folders) ==
  LET above == {d \in folders : IsPrefix(d, Front(shader))}
  IN IF above = {} THEN Front(shader)
     ELSE CHOOSE d \in above : \A e \in above : Len(e) <= Len(d)

-----------------------------------------------------------------------------
(* What the functions must agree with.                                     *)

\* A star stands for any characters, a question mark for one.
RECURSIVE SegmentMatches(_, _)
SegmentMatches(pattern, value) ==
  IF pattern = <<>> THEN value = <<>>
  ELSE \/ Head(pattern) = Star /\ SegmentMatches(Tail(pattern), value)
       \/ /\ value # <<>>
          /\ \/ Head(pattern) = Star /\ SegmentMatches(pattern, Tail(value))
             \/ Head(pattern) \in {Question, Head(value)}
                  /\ SegmentMatches(Tail(pattern), Tail(value))

\* Two stars stand for any segments.
RECURSIVE PathMatches(_, _)
PathMatches(segments, path) ==
  IF segments = <<>> THEN path = <<>>
  ELSE IF Head(segments) = Stars
       THEN \/ PathMatches(Tail(segments), path)
            \/ path # <<>> /\ PathMatches(segments, Tail(path))
  ELSE path # <<>> /\ SegmentMatches(Head(segments), Head(path))
                   /\ PathMatches(Tail(segments), Tail(path))

\* A glob of one segment is about the name of a file, any other about its path.
GlobIsExact(segments, path) ==
  LET glob == ParseGlob(segments) IN
  ~IsError(glob) =>
    (Matches(glob, path) <=>
       PathMatches(IF Len(segments) = 1 /\ segments # <<Stars>>
                   THEN <<Stars>> \o segments ELSE segments, path))

\* What a variant says itself, else what the last of its bases that says
\* anything says.
RECURSIVE Inherited(_, _, _)
Inherited(name, byName, key) ==
  IF key \in DOMAIN byName[name].settings.scalars
  THEN {byName[name].settings.scalars[key]}
  ELSE LET inherits == byName[name].inherits
           heard == SelectSeq(inherits, LAMBDA base : Inherited(base, byName, key) # {})
       IN IF heard = <<>> THEN {} ELSE Inherited(Last(heard), byName, key)

\* The own directories, then those of the bases, of the last base first.
RECURSIVE InheritedIncludes(_, _)
InheritedIncludes(name, byName) ==
  Distinct(byName[name].settings.includes \o
           FlattenSeq([i \in DOMAIN byName[name].inherits |->
             InheritedIncludes(Reverse(byName[name].inherits)[i], byName)]))

\* What a variant reaches through its bases, in so many steps.
Bases(names, byName) ==
  UNION {ToSet(byName[n].inherits) : n \in names}
RECURSIVE Reached(_, _, _)
Reached(names, byName, steps) ==
  IF steps = 0 THEN names ELSE names \cup Reached(Bases(names, byName), byName, steps - 1)

VariantsInherit(variants) ==
  LET names == {variants[i].name : i \in DOMAIN variants}
      byName == [n \in names |->
                   variants[CHOOSE i \in DOMAIN variants : variants[i].name = n]]
      file == [directory |-> <<>>, variants |-> variants]
      result == ResolveVariants(<<file>>, {})
      known == \A n \in names : ToSet(byName[n].inherits) \subseteq names
      cyclic == \E n \in names : n \in Reached(ToSet(byName[n].inherits), byName, Len(variants))
  IN IF ~known \/ cyclic THEN IsError(result)
     ELSE /\ ~IsError(result)
          /\ \A i \in DOMAIN variants :
               LET settings == result.variants[i].settings
                   name == variants[i].name
               IN /\ settings.includes = InheritedIncludes(name, byName)
                  /\ \A key \in {"languageVersion"} :
                       Inherited(name, byName, key) =
                         {settings.scalars[k] : k \in DOMAIN settings.scalars \cap {key}}

=============================================================================
