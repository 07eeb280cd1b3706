------------------------------ MODULE Reflection ------------------------------
(***************************************************************************)
(* What the server concludes from the reflection of compiled shaders:      *)
(* collisions of register ranges (resource_binding_analysis.cpp), whether  *)
(* a root signature covers a shader's resources (compatibility.cpp), and   *)
(* whether the stages of a pipeline fit (pipeline_validation.cpp).         *)
(*                                                                         *)
(* Registers are 0 .. MaxRegister, 2^32 - 1 in the code.  A semantic is    *)
(* its name in lower case and its index, a mask the set of components.     *)
(***************************************************************************)
EXTENDS Integers, Sequences, FiniteSets, SequencesExt

CONSTANT MaxRegister

-----------------------------------------------------------------------------
(* Register ranges.  A count of 0 in a shader is unbounded; ranges of a     *)
(* root signature have a sentinel of their own, which is also 0 here.       *)

\* Fault: the sum is taken in the width of a register.
WrappedEndRegister(base, count) == (base + count - 1) % (MaxRegister + 1)
SafeEndRegister(base, count) ==
  IF base + count - 1 > MaxRegister THEN MaxRegister ELSE base + count - 1

End(range) == IF range.count = 0 THEN MaxRegister ELSE SafeEndRegister(range.base, range.count)

RangesOverlap(first, second) == first.base <= End(second) /\ second.base <= End(first)

\* Resources of one group with ranges that overlap.
Collide(first, second) ==
  /\ first.class = second.class /\ first.space = second.space
  /\ first.space # "reserved"
  /\ first.name # second.name
  /\ RangesOverlap(first, second)

\* The pairs of resources, by their positions, that are reported to collide.
Collisions(resources) ==
  {pair \in (DOMAIN resources) \X (DOMAIN resources) :
     pair[1] < pair[2] /\ Collide(resources[pair[1]], resources[pair[2]])}

-----------------------------------------------------------------------------
(* Root signatures: parameters with ranges, and static samplers, which are *)
(* here a kind of parameter.                                               *)

\* What a parameter provides; all but the ranges of a table are one register.
Provided(parameter) ==
  CASE parameter.kind = "table" -> parameter.ranges
    [] parameter.kind = "descriptor" -> <<[parameter.ranges[1] EXCEPT !.count = 1]>>
    [] parameter.kind = "constants" ->
         <<[parameter.ranges[1] EXCEPT !.count = 1, !.class = "cbv"]>>
    [] parameter.kind = "static sampler" ->
         <<[parameter.ranges[1] EXCEPT !.count = 1, !.class = "sampler"]>>

CollectProviders(parameters) ==
  UNION {{[range |-> range, visibility |-> parameter.visibility] :
            range \in ToSet(Provided(parameter))} : parameter \in ToSet(parameters)}

\* Compute is visible to all; a stage that is not known hides nothing.
StageToVisibility(stage) ==
  IF stage \in {"vertex", "pixel", "geometry", "hull", "domain", "mesh", "amplification"}
  THEN {stage} ELSE IF stage = "compute" THEN {"all"} ELSE {}

VisibilityActive(visibility, stage) ==
  StageToVisibility(stage) = {} \/ visibility \in {"all"} \cup StageToVisibility(stage)

\* An unbounded resource needs its first register only.
Covers(range, resource) ==
  /\ range.base <= resource.base
  /\ End(range) >= IF resource.count = 0 THEN resource.base ELSE End(resource)

\* The names of the resources that have an issue, with what it says.
CompatibilityIssues(resources, parameters, stage) ==
  LET providers == CollectProviders(parameters)
      candidates(r) == {p \in providers : p.range.class = r.class /\ p.range.space = r.space}
      covering(r) == {p \in candidates(r) : Covers(p.range, r)}
      issue(r) ==
        IF covering(r) # {} THEN "excluded"
        ELSE IF r.count # 0 /\ \E p \in candidates(r) : RangesOverlap(p.range, r) THEN "partial"
        ELSE "none"
  IN {[name |-> r.name, says |-> issue(r)] :
        r \in {x \in ToSet(resources) :
                 /\ x.space # "reserved"
                 /\ \A p \in covering(x) : ~VisibilityActive(p.visibility, stage)}}

\* availability is that of the root signature and of its details.
AnalyzeCompatibility(resources, availability, parameters, stage) ==
  IF availability # "present" THEN [status |-> "unknown", issues |-> {}]
  ELSE LET issues == CompatibilityIssues(resources, parameters, stage)
       IN [status |-> IF issues = {} THEN "compatible" ELSE "incompatible", issues |-> issues]

-----------------------------------------------------------------------------
(* Pipelines: a sequence of stages, each of a kind, compiled or not and     *)
(* reflected or not, with sequences of inputs and of outputs and a set of   *)
(* resources.                                                               *)

GeneratedSystemValue(input, producer, consumer) ==
  LET name == input.semantic[1]
  IN CASE consumer = "geometry" -> name \in {"sv_primitiveid", "sv_gsinstanceid"}
       [] consumer = "domain" ->
            name \in {"sv_domainlocation", "sv_tessfactor", "sv_insidetessfactor", "sv_primitiveid"}
       [] consumer = "pixel" ->
            \/ name = "sv_primitiveid" /\ producer # "geometry"
            \/ name \in {"sv_isfrontface", "sv_sampleindex", "sv_coverage", "sv_innercoverage",
                         "sv_barycentrics", "sv_shadingrate"}
       [] OTHER -> FALSE

\* Fault: it is enough that one component is provided.
ProvidesSome(output, input) == output.mask \cap input.mask # {}
Provides(output, input) == input.mask \subseteq output.mask

InterpolationsDiffer(output, input) ==
  /\ {output.interpolation, input.interpolation} \cap {"unavailable", "undefined"} = {}
  /\ output.interpolation # input.interpolation

InputIssues(input, producer, consumer) ==
  LET found == {i \in DOMAIN producer.outputs : producer.outputs[i].semantic = input.semantic}
      output == producer.outputs[Min(found)]
  IN IF found = {}
     THEN IF GeneratedSystemValue(input, producer.kind, consumer.kind) THEN {} ELSE {"missing"}
     ELSE (IF output.type # input.type THEN {"type"} ELSE {})
          \cup (IF Provides(output, input) THEN {} ELSE {"mask"})
          \cup (IF output.system # input.system THEN {"system"} ELSE {})
          \cup (IF consumer.kind = "pixel" /\ InterpolationsDiffer(output, input)
                THEN {"interpolation"} ELSE {})

InterpolationUnavailable(producer, consumer) ==
  consumer.kind = "pixel" /\ \E p \in ToSet(producer.outputs) \cup ToSet(consumer.inputs) :
                               p.interpolation = "unavailable"

\* Issues with the positions of the two stages that they are about.
InterfaceIssues(stages, i) ==
  LET producer == stages[i]
      consumer == stages[i + 1]
  IN IF producer.kind = "hull" /\ consumer.kind = "domain" THEN {<<"unavailable", i, i + 1>>}
     ELSE IF ~producer.reflected \/ ~consumer.reflected THEN {}
     ELSE {<<issue, i, i + 1>> :
             issue \in (IF InterpolationUnavailable(producer, consumer)
                        THEN {"unavailable"} ELSE {})
                       \cup UNION {InputIssues(input, producer, consumer) :
                                     input \in ToSet(consumer.inputs)}}

\* A resource is compared with the first of its name only.
ResourceIssues(stages) ==
  LET named(name) == {i \in DOMAIN stages : stages[i].reflected
                                              /\ \E r \in stages[i].resources : r.name = name}
      first(name) == CHOOSE i \in named(name) : \A j \in named(name) : i <= j
      of(i, name) == CHOOSE r \in stages[i].resources : r.name = name
      names == UNION {{r.name : r \in stages[i].resources} : i \in DOMAIN stages}
  IN UNION {{<<issue, first(n), i>> :
               i \in {j \in named(n) : of(j, n)[issue] # of(first(n), n)[issue]}} :
              n \in names, issue \in {"binding", "declaration"}}

ValidatePipeline(stages, expected) ==
  IF Len(stages) # expected THEN {<<"unavailable", 0, 0>>}
  ELSE {<<"unavailable", i, i>> : i \in {j \in DOMAIN stages :
                                           ~stages[j].compiled \/ ~stages[j].reflected}}
       \cup (UNION {InterfaceIssues(stages, i) : i \in 1 .. Len(stages) - 1})
       \cup ResourceIssues(stages)

-----------------------------------------------------------------------------
(* What the conclusions must agree with: registers one by one.             *)

Occupied(range) ==
  {r \in 0 .. MaxRegister : r >= range.base /\ (range.count = 0 \/ r < range.base + range.count)}

CollisionsAreOfRegisters(resources) ==
  \A i, j \in DOMAIN resources :
    <<i, j>> \in Collisions(resources) <=>
      /\ i < j /\ resources[i].name # resources[j].name /\ resources[i].space # "reserved"
      /\ resources[i].class = resources[j].class /\ resources[i].space = resources[j].space
      /\ Occupied(resources[i]) \cap Occupied(resources[j]) # {}

\* Every register of a resource, of an unbounded one the first, is provided to
\* the stage; an issue says why it is not.
CompatibleMeansCovered(resources, availability, parameters, stage) ==
  LET result == AnalyzeCompatibility(resources, availability, parameters, stage)
      needed(r) == IF r.count = 0 THEN {r.base} ELSE Occupied(r)
      providers(r) == {p \in CollectProviders(parameters) :
                         p.range.class = r.class /\ p.range.space = r.space}
      visible(r) == {p \in providers(r) :
                       p.visibility = "all" \/ stage \in {p.visibility, "library"}}
      registers(ps) == UNION {Occupied(p.range) : p \in ps}
      user == {r \in ToSet(resources) : r.space # "reserved"}
  IN /\ result.status = "compatible" =>
          availability = "present" /\ \A r \in user : needed(r) \subseteq registers(visible(r))
     /\ \A r \in user : \A issue \in {i \in result.issues : i.name = r.name} :
          /\ issue.says = "excluded" => needed(r) \subseteq registers(providers(r))
          /\ issue.says = "none" => needed(r) \cap registers(providers(r)) = {}
          /\ ~\E p \in visible(r) : needed(r) \subseteq Occupied(p.range)

\* A pipeline has no issue exactly when all of its stages are known, no hull
\* stage hands over to a domain stage, and every stage gets what it reads from
\* the one before and shares resources with all of the others.
PipelineFits(stages, expected) ==
  LET given(i, input) ==
        \/ \E output \in ToSet(stages[i].outputs) :
             /\ \A field \in {"semantic", "type", "system"} : output[field] = input[field]
             /\ \A component \in input.mask : component \in output.mask
             /\ stages[i + 1].kind = "pixel" =>
                  /\ "unavailable" \notin {output.interpolation, input.interpolation}
                  /\ \/ output.interpolation = input.interpolation
                     \/ "undefined" \in {output.interpolation, input.interpolation}
        \/ /\ \A output \in ToSet(stages[i].outputs) : output.semantic # input.semantic
           /\ GeneratedSystemValue(input, stages[i].kind, stages[i + 1].kind)
      known == \A i \in DOMAIN stages : stages[i].compiled /\ stages[i].reflected
      handedOver(i) ==
        /\ ~(stages[i].kind = "hull" /\ stages[i + 1].kind = "domain")
        /\ \A input \in ToSet(stages[i + 1].inputs) : given(i, input)
        /\ stages[i + 1].kind = "pixel" =>
             \A p \in ToSet(stages[i].outputs) \cup ToSet(stages[i + 1].inputs) :
               p.interpolation # "unavailable"
      shared == \A i, j \in DOMAIN stages : \A r \in stages[i].resources, q \in stages[j].resources :
                  r.name = q.name => r = q
  IN ValidatePipeline(stages, expected) = {} <=>
       /\ Len(stages) = expected /\ known
       /\ \A i \in 1 .. Len(stages) - 1 : handedOver(i)
       /\ shared

=============================================================================
