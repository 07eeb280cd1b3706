------------------------------ MODULE Includes ------------------------------
(***************************************************************************)
(* Which files a shader includes: src/src/workspace/include_resolver.cpp.  *)
(* The text of a file is the sequence of the events that its lines are:    *)
(*   [kind: "literal", header]       #include "..." or #include <...>      *)
(*   [kind: "dynamic", macro]        #include M, "" for any other operand  *)
(*   [kind: "macro", name, value]    #define or #undef                     *)
(*   [kind: "unknown"]               a line that cannot be read            *)
(* A path is a sequence of segments, a header [path, rooted, quoted], the  *)
(* value of a macro [alias: a name, header] with one of the two "".        *)
(* The file system f is [open, disk, directories, mappings, definitions,   *)
(* arguments]: texts by path, then the effective configuration.            *)
(***************************************************************************)
EXTENDS Integers, Sequences, FiniteSets, SequencesExt, TLC

Texts(f) == f.open @@ f.disk
Parent(path) == Front(path)
ActiveDepth == 32

-----------------------------------------------------------------------------
(* Where a header is looked for.                                           *)

Virtual(f, path) == {prefix \in DOMAIN f.mappings : IsPrefix(prefix, path)}

\* A rooted path below a mapped directory, by the longest mapping.
VirtualSource(f, header) ==
  LET prefixes == Virtual(f, header.path)
      prefix == CHOOSE p \in prefixes : \A q \in prefixes : Len(q) <= Len(p)
  IN IF ~header.rooted \/ prefixes = {} THEN <<>>
     ELSE <<[physical |-> f.mappings[prefix]
                            \o SubSeq(header.path, Len(prefix) + 1, Len(header.path)),
             logical |-> <<"/">> \o header.path, virtual |-> TRUE, mapped |-> TRUE]>>

Joined(directory, header) == IF header.rooted THEN header.path ELSE directory \o header.path
PhysicalSource(path) ==
  [physical |-> path, logical |-> path, virtual |-> FALSE, mapped |-> FALSE]

\* Next to the file that includes it, under its virtual name if it has one.
RelativeSource(source, header) ==
  LET path == Joined(Parent(source.physical), header) IN
  IF ~header.quoted THEN <<>>
  ELSE IF source.virtual
       THEN <<[PhysicalSource(path) EXCEPT !.virtual = TRUE,
                                           !.logical = Parent(source.logical) \o header.path]>>
       ELSE <<PhysicalSource(path)>>

Candidates(f, source, header) ==
  VirtualSource(f, header) \o RelativeSource(source, header)
  \o [i \in DOMAIN f.directories |-> PhysicalSource(Joined(f.directories[i], header))]

\* The first candidate that exists; all that were tried are dependencies.
\* Fault: only the file that is found.
ResolveFound(f, source, header) ==
  LET existing == SelectSeq(Candidates(f, source, header),
                            LAMBDA c : c.physical \in DOMAIN Texts(f))
      found == ToSet(SubSeq(existing, 1, IF existing = <<>> THEN 0 ELSE 1))
  IN [found |-> found, tried |-> {c.physical : c \in found}]
ResolveDirective(f, source, header) ==
  LET candidates == Candidates(f, source, header)
      first == SelectInSeq(candidates, LAMBDA c : c.physical \in DOMAIN Texts(f))
      tried == IF first = 0 THEN Len(candidates) ELSE first
  IN [found |-> IF first = 0 THEN {} ELSE {candidates[first]},
      tried |-> {candidates[i].physical : i \in 1 .. tried}]

-----------------------------------------------------------------------------
(* Includes that the configuration expands.                                *)

\* What the additional arguments change; opaque when that cannot be told.
\* An argument is [switch, name]: a response file, a macro switch or another.
AnalyzeArguments(arguments) ==
  LET macros == {i \in DOMAIN arguments : arguments[i].switch = "macro"}
  IN [opaque |-> \E i \in DOMAIN arguments :
                    \/ arguments[i].switch = "response file"
                    \/ i \in macros /\ arguments[i].name = "",
      modified |-> {arguments[i].name : i \in macros}]

\* The header that a macro stands for, and the macros on the way to it.
RECURSIVE ExpandFrom(_, _, _, _)
ExpandFrom(f, macro, changed, visited) ==
  IF \/ macro \in visited \cup changed \/ macro \notin DOMAIN f.definitions
     \/ Cardinality(visited) >= ActiveDepth
  THEN [header |-> {}, macros |-> {}]
  ELSE LET value == f.definitions[macro] IN
       IF value.alias = "" THEN [header |-> {value.header}, macros |-> visited \cup {macro}]
       ELSE ExpandFrom(f, value.alias, changed, visited \cup {macro})

ConfiguredInclude(f, macro, encountered) ==
  LET arguments == AnalyzeArguments(f.arguments)
  IN IF arguments.opaque \/ macro = "" THEN [header |-> {}, macros |-> {}]
     ELSE ExpandFrom(f, macro, arguments.modified \cup encountered, {})

-----------------------------------------------------------------------------
(* The walk.  Of the result r, files are by their logical path, sources by *)
(* the path under which the compiler is given them, with the events that   *)
(* are rewritten to another header.                                        *)

Empty == [x \in {} |-> {}]
NothingResolved ==
  [files |-> Empty, sources |-> Empty, dependencies |-> {}, dynamic |-> FALSE,
   macros |-> Empty, contextDependent |-> {}, active |-> {}, encountered |-> {},
   unknown |-> FALSE]

Visited(r) == {r.files[l].physical : l \in DOMAIN r.files}
Original == <<>>

AddSource(r, path, identity) ==
  [r EXCEPT !.sources = @ @@ (path :> [identity |-> identity, rewrites |-> Original])]

\* An include that only the compiler can resolve may be of any open document.
AddDynamicDependencies(r, f, identity) ==
  LET others == DOMAIN f.open \ {identity}
  IN [r EXCEPT !.dynamic = TRUE, !.dependencies = @ \cup others,
               !.sources = @ @@ [path \in others |-> [identity |-> path, rewrites |-> Original]]]

RestoreOriginalSources(r, identity) ==
  [r EXCEPT !.sources = [path \in DOMAIN @ |->
     IF @[path].identity = identity THEN [@[path] EXCEPT !.rewrites = Original] ELSE @[path]]]

Forgotten(edge) ==
  IF edge.configured THEN [edge EXCEPT !.status = "dynamic", !.target = {}, !.configured = FALSE]
  ELSE edge
\* What was said of the file in another context is taken back.
MakeContextDependent(r, f, identity) ==
  LET forgotten ==
        [l \in DOMAIN r.files |->
           IF r.files[l].physical # identity THEN r.files[l]
           ELSE [r.files[l] EXCEPT !.includes =
                   [i \in DOMAIN @ |-> Forgotten(@[i])]]]
  IN AddDynamicDependencies(
       IF identity \in r.contextDependent THEN r
       ELSE [RestoreOriginalSources(r, identity) EXCEPT
               !.contextDependent = @ \cup {identity}, !.files = forgotten],
       f, identity)

\* Whether what the file expanded may have changed since.
Changed(r, macros) == r.unknown \/ macros \cap r.encountered # {}
MacrosOf(r, identity) == IF identity \in DOMAIN r.macros THEN r.macros[identity] ELSE {}

Edge(event, status, target, configured) ==
  [event |-> event, status |-> status, target |-> target, configured |-> configured]
AddEdge(r, source, edge) ==
  [r EXCEPT !.files[source.logical].includes = Append(@, edge)]
StatusOf(r, found) ==
  IF found = {} THEN "missing"
  ELSE IF \E s \in found : s.physical \in r.active THEN "cyclic" ELSE "resolved"

RECURSIVE Visit(_, _, _)

\* A header that is resolved is rewritten when the compiler would not find it.
Follow(r, f, source, event, header, configured) ==
  LET resolved == ResolveDirective(f, source, header)
      known == [r EXCEPT !.dependencies = @ \cup resolved.tried]
      edge == Edge(event, StatusOf(r, resolved.found),
                   {s.physical : s \in resolved.found}, configured)
      included == CHOOSE s \in resolved.found : TRUE
      rewrites == IF configured THEN included.mapped ELSE header.rooted
      added == AddEdge(known, source, edge)
  IN IF resolved.found = {} THEN added
     ELSE Visit(IF rewrites
                THEN [added EXCEPT !.files[source.logical].rewrites =
                        Append(@, <<event, included.physical>>)]
                ELSE added, f, included)

Process(r, f, source, i) ==
  LET event == Texts(f)[source.physical][i]
      configured == IF r.unknown THEN [header |-> {}, macros |-> {}]
                    ELSE ConfiguredInclude(f, event.macro, r.encountered)
      identity == source.physical
      expanded == [r EXCEPT
                     !.files[source.logical].macros = @ \cup configured.macros,
                     !.macros = (identity :> MacrosOf(r, identity) \cup configured.macros) @@ @]
  IN CASE event.kind = "unknown" ->
            [r EXCEPT !.unknown = TRUE, !.files[source.logical].unresolved = TRUE]
       [] event.kind = "macro" -> [r EXCEPT !.encountered = @ \cup {event.name}]
       [] event.kind = "literal" -> Follow(r, f, source, i, event.header, FALSE)
       [] event.kind = "dynamic" /\ configured.header # {} ->
            Follow(expanded, f, source, i, CHOOSE h \in configured.header : TRUE, TRUE)
       [] event.kind = "dynamic" /\ configured.header = {} ->
            [AddEdge(r, source, Edge(i, "dynamic", {}, FALSE)) EXCEPT
               !.unknown = TRUE, !.files[source.logical].unresolved = TRUE]

\* Fault: a file that has been visited is not looked at again.
VisitedAgainQuietly(r, f, source) == r
VisitedAgain(r, f, source) ==
  IF Changed(r, r.files[source.logical].macros)
  THEN MakeContextDependent(r, f, source.physical) ELSE r

Entered(r, f, source) ==
  LET identity == source.physical
      again == identity \in Visited(r)
      known == [r EXCEPT !.dependencies = IF r.files = Empty THEN @ ELSE @ \cup {identity}]
      checked == IF again /\ Changed(r, MacrosOf(r, identity))
                 THEN MakeContextDependent(known, f, identity) ELSE known
      begun == [checked EXCEPT
                  !.active = @ \cup {identity},
                  !.files = @ @@ (source.logical :>
                     [physical |-> identity, includes |-> <<>>, macros |-> {},
                      rewrites |-> Original, unresolved |-> FALSE])]
      logical == AddSource(begun, source.logical, identity)
  IN IF source.virtual /\ ~again THEN AddSource(logical, identity, identity) ELSE logical

\* The compiler is given the rewritten text, or the original when contexts differ.
Left(r, f, source, again) ==
  LET identity == source.physical
      file == r.files[source.logical]
      paths == {source.logical} \cup (IF source.virtual /\ ~again THEN {identity} ELSE {})
      given == IF identity \in r.contextDependent THEN RestoreOriginalSources(r, identity)
               ELSE [r EXCEPT !.sources = [path \in paths |->
                       [identity |-> identity, rewrites |-> file.rewrites]] @@ @]
      told == IF ~file.unresolved THEN given
              ELSE IF again THEN MakeContextDependent(given, f, identity)
              ELSE AddDynamicDependencies(given, f, identity)
  IN [told EXCEPT !.active = @ \ {identity}]

Visit(r, f, source) ==
  IF source.physical \in r.active THEN r
  ELSE IF source.logical \in DOMAIN r.files THEN VisitedAgain(r, f, source)
  ELSE Left(FoldLeft(LAMBDA s, i : Process(s, f, source, i), Entered(r, f, source),
                     [i \in DOMAIN Texts(f)[source.physical] |-> i]),
            f, source, source.physical \in Visited(r))

ResolveIncludes(f, root) == Visit(NothingResolved, f, PhysicalSource(root))

\* The include at a line of the root.
ResolveIncludeAt(f, root, event) ==
  LET edges == SelectSeq(ResolveIncludes(f, root).files[root].includes,
                         LAMBDA e : e.event = event)
  IN IF edges = <<>> THEN {} ELSE edges[1].target

-----------------------------------------------------------------------------
(* What a preprocessor reads, with headers found the same way: it enters a *)
(* file as often as it is included, and expands macros by what they are    *)
(* then.  A file that is being read is guarded.  A line that the resolver  *)
(* cannot read, like an argument, gives every macro the value Other.  What *)
(* it reads below a file that it has entered before under the same name is *)
(* read again.                                                             *)

RECURSIVE Value(_, _, _)
Value(macros, name, steps) ==
  IF name \notin DOMAIN macros \/ steps = 0 THEN {}
  ELSE IF macros[name].alias = "" THEN {macros[name].header}
  ELSE Value(macros, macros[name].alias, steps - 1)

\* Where a preprocessor looks for a header: wherever nothing existed before.
LookedAt(f, source, header) ==
  LET c == Candidates(f, source, header)
  IN {c[i].physical : i \in {j \in DOMAIN c :
        \A k \in 1 .. j - 1 : c[k].physical \notin DOMAIN Texts(f)}}

RECURSIVE Enter(_, _, _, _)
Step(p, f, source, i, c, below) ==
  LET event == Texts(f)[source.physical][i]
      header == CASE event.kind = "literal" -> {event.header}
                  [] event.kind = "dynamic" -> Value(p.macros, event.macro, ActiveDepth)
                  [] OTHER -> {}
      resolved == UNION {ResolveDirective(f, source, h).found : h \in header}
      tried == UNION {LookedAt(f, source, h) : h \in header}
      read == [p EXCEPT !.reads = @ \cup {[file |-> source.physical, event |-> i,
                                           target |-> {s.physical : s \in resolved},
                                           tried |-> tried, again |-> c.again]}]
  IN CASE event.kind = "macro" -> [p EXCEPT !.macros = (event.name :> event.value) @@ @]
       [] event.kind = "unknown" -> [p EXCEPT !.macros = [m \in DOMAIN @ |-> c.other]]
       [] event.kind \in {"literal", "dynamic"} ->
            IF resolved = {} THEN read
            ELSE Enter(read, f, CHOOSE s \in resolved : TRUE, below)

Enter(p, f, source, c) ==
  LET below == [c EXCEPT !.active = @ \cup {source.physical},
                         !.again = @ \/ source.logical \in p.entered]
  IN IF source.physical \in c.active THEN p
     ELSE FoldLeft(LAMBDA q, i : Step(q, f, source, i, c, below),
                   [p EXCEPT !.entered = @ \cup {source.logical}],
                   [i \in DOMAIN Texts(f)[source.physical] |-> i])

Preprocess(f, root, other) ==
  LET arguments == AnalyzeArguments(f.arguments)
      macros == [m \in DOMAIN f.definitions |->
                   IF arguments.opaque \/ m \in arguments.modified THEN other
                   ELSE f.definitions[m]]
  IN Enter([macros |-> macros, reads |-> {}, entered |-> {}], f, PhysicalSource(root),
           [active |-> {}, again |-> FALSE, other |-> other])

\* What the resolver says of an include, and what it makes of it for the
\* compiler, is what the preprocessor includes there, in all the given reads.
NothingIsGuessed(r, reads) ==
  \A read \in reads :
    /\ \A l \in DOMAIN r.files :
         r.files[l].physical = read.file =>
           \A e \in ToSet(r.files[l].includes) :
             e.event = read.event /\ e.status # "dynamic" => e.target = read.target
    /\ \A path \in DOMAIN r.sources :
         r.sources[path].identity = read.file =>
           \A rewrite \in ToSet(r.sources[path].rewrites) :
             rewrite[1] = read.event => read.target = {rewrite[2]}

\* A change of a file that was read, or of one that would have been read in its
\* place, is noticed, unless an include could not be resolved; then a change of
\* any document that is open is.
ChangesAreNoticed(r, reads, f, root) ==
  IF r.dynamic THEN DOMAIN f.open \ {root} \subseteq r.dependencies
  ELSE \A read \in reads : read.tried \ {root} \subseteq r.dependencies

FirstReads(p) == {read \in p.reads : ~read.again}

=============================================================================
