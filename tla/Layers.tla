-------------------------------- MODULE Layers --------------------------------
(***************************************************************************)
(* How the layers of a configuration are put on top of each other: client  *)
(* defaults, configuration files and the file groups that match, the       *)
(* selected variant and the editor settings (configuration.cpp and         *)
(* Server::configuration_for in server.cpp); and which entry point and     *)
(* profile the compiler gets from what they come to.                       *)
(*                                                                         *)
(* Settings are partial functions, which scalars, definitions and mappings *)
(* have of their own, and a sequence of include directories, the nearest   *)
(* first.  A layer is settings with an origin.                             *)
(***************************************************************************)
EXTENDS Integers, Sequences, SequencesExt

Nothing == [x \in {} |-> 0]
Only(key, value) == [x \in {key} |-> value]
Over(upper, lower) ==
  [k \in DOMAIN upper \cup DOMAIN lower |-> IF k \in DOMAIN upper THEN upper[k] ELSE lower[k]]

NoSettings == [scalars |-> Nothing, definitions |-> Nothing, mappings |-> Nothing,
               includes |-> <<>>]

\* A path that is listed twice stays where it is listed first.
Distinct(directories) ==
  LET seen[i \in 0 .. Len(directories)] ==
        IF i = 0 THEN <<>>
        ELSE IF Contains(seen[i - 1], directories[i]) THEN seen[i - 1]
        ELSE Append(seen[i - 1], directories[i])
  IN seen[Len(directories)]

CombineIncludeDirectories(target, higher) == Distinct(higher \o target)

MergeSettings(target, higher) ==
  [scalars |-> Over(higher.scalars, target.scalars),
   definitions |-> Over(higher.definitions, target.definitions),
   mappings |-> Over(higher.mappings, target.mappings),
   includes |-> CombineIncludeDirectories(target.includes, higher.includes)]

-----------------------------------------------------------------------------
(* Files and groups, from the lowest layer to the highest.                 *)

NoConfiguration ==
  [scalars |-> Nothing, definitions |-> Nothing, mappings |-> Nothing, includes |-> <<>>,
   origins |-> Nothing, definitionOrigins |-> Nothing, variants |-> <<>>,
   pipelines |-> <<>>]

\* A layer of a configuration that is being made, but for its includes.
ApplySettings(result, settings, origin) ==
  [result EXCEPT
     !.scalars = Over(settings.scalars, @),
     !.definitions = Over(settings.definitions, @),
     !.mappings = Over(settings.mappings, @),
     !.definitionOrigins = Over([n \in DOMAIN settings.definitions |-> origin], @),
     !.origins = Over([k \in DOMAIN settings.scalars \cup
                             (IF settings.mappings = Nothing THEN {} ELSE {"mappings"})
                         |-> origin], @)]

Layered(layers) ==
  LET made[i \in 0 .. Len(layers)] ==
        IF i = 0 THEN NoConfiguration
        ELSE ApplySettings(made[i - 1], layers[i].settings, layers[i].origin)
  IN made[Len(layers)]

\* The highest layer comes first.
IncludeDirectories(layers) ==
  LET found[i \in 0 .. Len(layers)] ==
        IF i = 0 THEN <<>>
        ELSE CombineIncludeDirectories(layers[Len(layers) + 1 - i].settings.includes,
                                       found[i - 1])
  IN found[Len(layers)]

IncludeOrigins(layers) ==
  {layers[i].origin : i \in {j \in DOMAIN layers :
     \E d \in ToSet(layers[j].settings.includes) :
       \A k \in j + 1 .. Len(layers) : ~Contains(layers[k].settings.includes, d)}}

\* Groups declare no runtime directory and files agree on theirs, so that of the
\* nearest file that has one is that of the highest layer.
MergeLayers(layers, variants, pipelines) ==
  LET origins == IncludeOrigins(layers) IN
  [Layered(layers) EXCEPT
     !.includes = IncludeDirectories(layers),
     !.origins = IF origins = {} THEN @
                 ELSE Over(Only("includes", IF \A o, p \in origins : o = p
                                            THEN CHOOSE o \in origins : TRUE
                                            ELSE <<"multiple">>), @),
     !.variants = variants,
     !.pipelines = pipelines]

-----------------------------------------------------------------------------
(* What is below the files and on top of them.  What is given or overridden *)
(* is a set of at most one value; a scalar may be overridden by nothing,    *)
(* which clears it.                                                         *)

Cleared == "cleared"
Editor == <<"editor settings">>
The(override, otherwise) ==
  IF override = {} THEN otherwise ELSE CHOOSE value \in override : TRUE

\* The language version that a client proposes stands behind all files.
ClientDefault(c, proposed) ==
  IF "languageVersion" \in DOMAIN c.scalars \/ proposed = {} THEN c
  ELSE [c EXCEPT !.scalars = Over(Only("languageVersion", The(proposed, 0)), @),
                 !.origins = Over(Only("languageVersion", <<"client defaults">>), @)]

\* A selected variant goes on top of what the files say.
Selection(variants, name) ==
  LET found == {i \in DOMAIN variants : variants[i].name = name}
  IN IF found = {} THEN "undefined"
     ELSE IF ~variants[Min(found)].applicable THEN "not_applicable" ELSE "applied"
VariantSettings(variants, name) ==
  variants[Min({i \in DOMAIN variants : variants[i].name = name})].settings

ApplyVariant(c, name) ==
  LET settings == VariantSettings(c.variants, name)
      origin == <<"variant", name>>
  IN IF Selection(c.variants, name) # "applied" THEN c
     ELSE [ApplySettings(c, settings, origin) EXCEPT
             !.includes = CombineIncludeDirectories(@, settings.includes),
             !.origins = IF settings.includes = <<>> THEN @
                         ELSE Over(Only("includes", origin), @)]

\* Clearing mappings leaves their origin.
ApplyConfigurationOverrides(c, overrides) ==
  [c EXCEPT
     !.definitions = The(overrides.definitions, @),
     !.definitionOrigins = IF overrides.definitions = {} THEN @
                           ELSE [n \in DOMAIN The(overrides.definitions, 0) |-> Editor],
     !.includes = The(overrides.includes, @),
     !.mappings = The(overrides.mappings, @),
     !.scalars =
       LET cleared == {k \in DOMAIN overrides.scalars : overrides.scalars[k] = Cleared}
           all == Over(overrides.scalars, @)
       IN [k \in DOMAIN all \ cleared |-> all[k]],
     !.origins =
       Over([k \in DOMAIN overrides.scalars
                   \cup {x \in {"includes"} : overrides.includes # {}}
                   \cup {x \in {"mappings"} : The(overrides.mappings, Nothing) # Nothing}
               |-> Editor], @)]

\* Fault: the variant goes on top of the editor settings.
VariantOnTop(c, state) ==
  LET overridden == ApplyConfigurationOverrides(c, state.overrides)
  IN IF state.variant = {} THEN overridden ELSE ApplyVariant(overridden, The(state.variant, 0))
EditorOnTop(c, state) ==
  ApplyConfigurationOverrides(
    IF state.variant = {} THEN c ELSE ApplyVariant(c, The(state.variant, 0)),
    state.overrides)

-----------------------------------------------------------------------------
(* The entry point and the profile that the compiler gets.  An argument is *)
(* [option, attached]: -E and -T are followed by their value, or it is     *)
(* attached to them; any other argument has no option.                     *)

Empty == ""
Argument(option, attached) == [option |-> option, attached |-> attached]
Plain(value) == Argument(Empty, value)
Option == [entryPoint |-> "-E", targetProfile |-> "-T"]

CompilerArguments(c) ==
  LET pair(key) == IF key \in DOMAIN c.scalars /\ c.scalars[key] # Empty
                   THEN <<Argument(Option[key], Empty), Plain(c.scalars[key])>> ELSE <<>>
  IN pair("targetProfile") \o pair("entryPoint")
     \o (IF "additionalArguments" \in DOMAIN c.scalars THEN c.scalars["additionalArguments"]
         ELSE <<>>)

\* The last of them counts, and an argument that is a value is not an option.
Scanned(arguments) ==
  LET from[i \in 1 .. Len(arguments) + 1] ==
        IF i > Len(arguments) THEN Nothing
        ELSE LET a == arguments[i]
                 keys == {k \in DOMAIN Option : Option[k] = a.option}
                 key == CHOOSE k \in keys : TRUE
             IN IF keys # {} /\ a.attached = Empty /\ i < Len(arguments)
                THEN Over(from[i + 2], Only(key, arguments[i + 1].attached))
                ELSE IF keys # {} /\ a.attached # Empty
                THEN Over(from[i + 1], Only(key, a.attached))
                ELSE from[i + 1]
  IN from[1]
NoTarget == [k \in DOMAIN Option |-> Empty]
EffectiveShaderTarget(c) == Over(Scanned(CompilerArguments(c)), NoTarget)

\* Fault: only options followed by their value are seen.
HasSeparateOption(arguments, option) ==
  \E i \in DOMAIN arguments :
    arguments[i].option = option /\ arguments[i].attached = Empty /\ i < Len(arguments)
HasCompilerOption(arguments, option) ==
  \E i \in DOMAIN arguments :
    /\ arguments[i].option = option
    /\ arguments[i].attached # Empty \/ i < Len(arguments)

\* The key whose origin is shown as that of the entry point, or of the profile.
OriginKey(c, key) ==
  IF /\ "additionalArguments" \in DOMAIN c.scalars
     /\ HasCompilerOption(c.scalars["additionalArguments"], Option[key])
  THEN "additionalArguments" ELSE key

-----------------------------------------------------------------------------
(* What the configuration must agree with: the highest layer that declares *)
(* a name decides its value and its origin, and an include directory is    *)
(* searched before another if a layer lists it where neither that layer,   *)
(* up to there, nor a higher one lists the other.                          *)

Declaring(layers, part, key) ==
  {i \in DOMAIN layers : key \in DOMAIN layers[i].settings[part]}
Highest(layers, part, key) ==
  layers[CHOOSE i \in Declaring(layers, part, key) :
           \A j \in Declaring(layers, part, key) : j <= i]

Decides(c, layers, part, origins) ==
  LET keys == UNION {DOMAIN layers[i].settings[part] : i \in DOMAIN layers} IN
  /\ DOMAIN c[part] = keys
  /\ \A k \in keys :
       /\ c[part][k] = Highest(layers, part, k).settings[part][k]
       /\ part # "mappings" => c[origins][k] = Highest(layers, part, k).origin

SearchedBefore(layers, d, e) ==
  \E h \in DOMAIN layers : \E p \in DOMAIN layers[h].settings.includes :
    /\ layers[h].settings.includes[p] = d
    /\ \A q \in 1 .. p : layers[h].settings.includes[q] # e
    /\ \A k \in DOMAIN layers : k > h => ~Contains(layers[k].settings.includes, e)

InSearchOrder(directories, layers) ==
  /\ ToSet(directories) = UNION {ToSet(layers[i].settings.includes) : i \in DOMAIN layers}
  /\ \A i, j \in DOMAIN directories :
       i < j => SearchedBefore(layers, directories[i], directories[j])

\* What the editor says about a part replaces what the layers say about all of
\* it, but for scalars, which it replaces or clears one by one.
Without(layer, cleared) ==
  [layer EXCEPT !.settings.scalars = [k \in DOMAIN @ \ cleared |-> @[k]]]
EditorLayer(scalars) ==
  [settings |-> [NoSettings EXCEPT !.scalars = scalars], origin |-> Editor]

ScalarLayers(layers, scalars) ==
  LET cleared == {k \in DOMAIN scalars : scalars[k] = Cleared}
      kept == {k \in DOMAIN scalars : scalars[k] # Cleared}
  IN Append([i \in DOMAIN layers |-> Without(layers[i], cleared)],
            EditorLayer([k \in kept |-> scalars[k]]))

HighestLayerWins(c, layers, overrides) ==
  /\ Decides(c, ScalarLayers(layers, overrides.scalars), "scalars", "origins")
  /\ IF overrides.definitions = {} THEN Decides(c, layers, "definitions", "definitionOrigins")
     ELSE /\ c.definitions = The(overrides.definitions, 0)
          /\ \A n \in DOMAIN c.definitions : c.definitionOrigins[n] = Editor
  /\ IF overrides.mappings = {} THEN Decides(c, layers, "mappings", "origins")
     ELSE c.mappings = The(overrides.mappings, 0)
  /\ IF overrides.includes = {} THEN InSearchOrder(c.includes, layers)
     ELSE c.includes = The(overrides.includes, 0)

\* The layers that are below the editor settings.
ClientLayer(version) ==
  [settings |-> [NoSettings EXCEPT !.scalars = Only("languageVersion", version)],
   origin |-> <<"client defaults">>]
VariantLayer(variants, name) ==
  [settings |-> VariantSettings(variants, name), origin |-> <<"variant", name>>]

LayersBelow(layers, variants, state) ==
  LET name == The(state.variant, 0)
      unused == state.variant = {} \/ Selection(variants, name) # "applied"
  IN (IF state.proposed = {} THEN <<>> ELSE <<ClientLayer(The(state.proposed, 0))>>)
     \o layers
     \o (IF unused THEN <<>> ELSE <<VariantLayer(variants, name)>>)

\* What is shown as the origin of the entry point, or of the profile, is what
\* declares it.
TargetIsExplained(c, key) ==
  LET shown == OriginKey(c, key)
      effective == EffectiveShaderTarget(c)[key]
      own == IF key \in DOMAIN c.scalars THEN c.scalars[key] ELSE Empty
      given == EffectiveShaderTarget([c EXCEPT !.scalars =
                 [k \in DOMAIN @ \ DOMAIN Option |-> @[k]]])[key]
  IN /\ shown = key => effective = own
     /\ shown # key => effective = given /\ given # Empty

=============================================================================
