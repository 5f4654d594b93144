-------------------------- MODULE Resolution_proofs --------------------------
(***************************************************************************)
(* An accepted workflow finds all that it refers to.  Validation has read  *)
(* the texts of a template, each in the scope of its place, and let only   *)
(* tags pass that were in that scope; the operation reads what is left of  *)
(* the same texts after up to four substitutions, in scopes of its own.    *)
(* So the proof has four parts: what substitutions leave of a text, a step *)
(* and a template; what validation has verified, for the templates under   *)
(* way and for those done; what a frame of the operation has in scope and  *)
(* still has to resolve; and that each step of the operation finds what    *)
(* validation has seen.  A template of the entrypoint's calls has been     *)
(* verified without workflow.status, which only the exit handler is given: *)
(* these are the templates called early.                                   *)
(***************************************************************************)
EXTENDS Validation_proofs

-----------------------------------------------------------------------------
(* Texts: while a workflow runs only plain texts are put in for tags, so   *)
(* that a substitution takes tags away.                                    *)

Erases(map) == \A tag \in DOMAIN map : map[tag] = {}

(* A text of which a substitution has left the new one. *)
Left(new, old, gone) ==
  IF old = NoValue THEN new = NoValue ELSE new # NoValue /\ new = old \ gone

LEMMA Erased ==
  ASSUME NEW map, Erases(map), NEW text
  PROVE  Replace(text, map) = text \ DOMAIN map
  BY DEF Erases, Replace

LEMMA LeftOver ==
  ASSUME NEW map, Erases(map), NEW v, IsText(v)
  PROVE  Left(ReplaceOptional(v, map), v, DOMAIN map) /\ IsText(ReplaceOptional(v, map))
  <1>1. Replace(v, map) = v \ DOMAIN map
    BY Erased
  <1> QED
    BY <1>1 DEF ReplaceOptional, Left, IsText

LEMMA LeftTwice ==
  ASSUME NEW a, NEW b, NEW c, NEW S, NEW R, Left(b, a, S), Left(c, b, R)
  PROVE  Left(c, a, S \cup R)
  BY DEF Left

LEMMA LeftText ==
  ASSUME NEW a, NEW b, NEW S, Left(b, a, S)
  PROVE  /\ Text(b) = Text(a) \ S
         /\ b = NoValue <=> a = NoValue
         /\ IsText(a) => IsText(b)
  BY DEF Left, Text, IsText

ArgumentsLeft(new, old, gone) ==
  /\ DOMAIN new.params = DOMAIN old.params
  /\ \A i \in DOMAIN old.params :
       /\ new.params[i].name = old.params[i].name
       /\ Left(new.params[i].value, old.params[i].value, gone)
  /\ DOMAIN new.arts = DOMAIN old.arts
  /\ \A i \in DOMAIN old.arts :
       /\ new.arts[i].name = old.arts[i].name
       /\ Left(new.arts[i].from, old.arts[i].from, gone)

StepLeft(new, old, gone) ==
  /\ IsStep(new) /\ new.name = old.name /\ new.template = old.template /\ new.items = old.items
  /\ Left(new.withParam, old.withParam, gone) /\ Left(new.when, old.when, gone)
  /\ ArgumentsLeft(new.args, old.args, gone)

LEMMA ArgumentsOver ==
  ASSUME NEW map, Erases(map), NEW args, IsArguments(args)
  PROVE  LET new == ReplaceInArguments(args, map)
         IN  IsArguments(new) /\ ArgumentsLeft(new, args, DOMAIN map)
  <1> DEFINE new == ReplaceInArguments(args, map)
             param(i) == [args.params[i] EXCEPT !.value = ReplaceOptional(@, map)]
             art(i) == [args.arts[i] EXCEPT !.from = ReplaceOptional(@, map)]
  <1>1. /\ DOMAIN new = {"params", "arts"}
        /\ new.params = [i \in DOMAIN args.params |-> param(i)]
        /\ new.arts = [i \in DOMAIN args.arts |-> art(i)]
    BY DEF ReplaceInArguments
  <1>2. ASSUME NEW i \in DOMAIN args.params
        PROVE  /\ DOMAIN param(i) = {"name", "value"} /\ param(i).name = args.params[i].name
               /\ IsText(param(i).value) /\ Left(param(i).value, args.params[i].value, DOMAIN map)
    <2>1. DOMAIN args.params[i] = {"name", "value"} /\ IsText(args.params[i].value)
      BY DEF IsArguments
    <2>2. /\ DOMAIN param(i) = {"name", "value"} /\ param(i).name = args.params[i].name
          /\ param(i).value = ReplaceOptional(args.params[i].value, map)
      BY <2>1
    <2> HIDE DEF param
    <2> QED
      BY <2>1, <2>2, LeftOver
  <1>3. ASSUME NEW i \in DOMAIN args.arts
        PROVE  /\ IsArtifact(art(i)) /\ art(i).name = args.arts[i].name
               /\ Left(art(i).from, args.arts[i].from, DOMAIN map)
    <2>1. IsArtifact(args.arts[i])
      BY DEF IsArguments
    <2>2. /\ DOMAIN art(i) = {"name", "path", "from", "loc"} /\ art(i).name = args.arts[i].name
          /\ art(i).path = args.arts[i].path
          /\ art(i).from = ReplaceOptional(args.arts[i].from, map)
      BY <2>1 DEF IsArtifact
    <2> HIDE DEF art
    <2> QED
      BY <2>1, <2>2, LeftOver DEF IsArtifact
  <1> HIDE DEF new, param, art
  <1>4. IsList(args.params) /\ IsList(args.arts)
    BY DEF IsArguments
  <1>5. IsList(new.params) /\ DOMAIN new.params = DOMAIN args.params
    <2>1. new.params = [i \in DOMAIN args.params |-> new.params[i]]
      BY <1>1
    <2> QED
      BY <1>4, <2>1, ListFrom
  <1>6. IsList(new.arts) /\ DOMAIN new.arts = DOMAIN args.arts
    <2>1. new.arts = [i \in DOMAIN args.arts |-> new.arts[i]]
      BY <1>1
    <2> QED
      BY <1>4, <2>1, ListFrom
  <1>7. \A i \in DOMAIN args.params : new.params[i] = param(i)
    BY <1>1
  <1>8. \A i \in DOMAIN args.arts : new.arts[i] = art(i)
    BY <1>1
  <1>9. IsArguments(new)
    BY <1>1, <1>2, <1>3, <1>5, <1>6, <1>7, <1>8 DEF IsArguments
  <1>10. ArgumentsLeft(new, args, DOMAIN map)
    BY <1>2, <1>3, <1>5, <1>6, <1>7, <1>8 DEF ArgumentsLeft
  <1> QED
    BY <1>9, <1>10 DEF new

LEMMA StepOver ==
  ASSUME NEW map, Erases(map), NEW step, IsStep(step)
  PROVE  StepLeft(ReplaceInStep(step, map), step, DOMAIN map)
  <1> DEFINE new == ReplaceInStep(step, map)
  <1>1. DOMAIN step = {"name", "template", "args", "items", "withParam", "when"}
    BY DEF IsStep
  <1>2. /\ DOMAIN new = DOMAIN step
        /\ new.name = step.name /\ new.template = step.template /\ new.items = step.items
        /\ new.args = ReplaceInArguments(step.args, map)
        /\ new.withParam = ReplaceOptional(step.withParam, map)
        /\ new.when = ReplaceOptional(step.when, map)
    BY <1>1 DEF ReplaceInStep
  <1> HIDE DEF new
  <1>3. IsArguments(new.args) /\ ArgumentsLeft(new.args, step.args, DOMAIN map)
    BY <1>2, ArgumentsOver DEF IsStep
  <1>4. /\ Left(new.withParam, step.withParam, DOMAIN map) /\ IsText(new.withParam)
        /\ Left(new.when, step.when, DOMAIN map) /\ IsText(new.when)
    BY <1>2, LeftOver DEF IsStep
  <1>5. IsStep(new)
    BY <1>1, <1>2, <1>3, <1>4 DEF IsStep
  <1> QED
    BY <1>2, <1>3, <1>4, <1>5 DEF StepLeft, new

LEMMA ArgumentsTwice ==
  ASSUME NEW a, NEW b, NEW c, NEW S, NEW R, ArgumentsLeft(b, a, S), ArgumentsLeft(c, b, R)
  PROVE  ArgumentsLeft(c, a, S \cup R)
  <1>1. ASSUME NEW i \in DOMAIN a.params
        PROVE  /\ c.params[i].name = a.params[i].name
               /\ Left(c.params[i].value, a.params[i].value, S \cup R)
    BY LeftTwice DEF ArgumentsLeft
  <1>2. ASSUME NEW i \in DOMAIN a.arts
        PROVE  /\ c.arts[i].name = a.arts[i].name
               /\ Left(c.arts[i].from, a.arts[i].from, S \cup R)
    BY LeftTwice DEF ArgumentsLeft
  <1> QED
    BY <1>1, <1>2 DEF ArgumentsLeft

LEMMA StepTwice ==
  ASSUME NEW a, NEW b, NEW c, NEW S, NEW R, StepLeft(b, a, S), StepLeft(c, b, R)
  PROVE  StepLeft(c, a, S \cup R)
  BY LeftTwice, ArgumentsTwice DEF StepLeft
-----------------------------------------------------------------------------
(* Lists by name. *)

LEMMA ByNameIs ==
  ASSUME NEW list, IsList(list), NEW name \in Names(list)
  PROVE  \E i \in DOMAIN list :
           /\ ByName(list, name) = list[i] /\ list[i].name = name
           /\ \A j \in DOMAIN list : list[j].name = name => i <= j
  <1>1. Len(list) \in Nat /\ DOMAIN list = 1 .. Len(list)
    BY ListLength
  <1> DEFINE T == {i \in DOMAIN list : list[i].name = name}
  <1>2. T # {} /\ T \subseteq Nat
    BY <1>1 DEF Names
  <1>3. PICK k \in T : \A j \in T : k <= j
    BY <1>2, LeastElement
  <1> DEFINE First(i) == list[i].name = name /\ \A j \in 1 .. i - 1 : list[j].name # name
             c == CHOOSE i \in DOMAIN list : First(i)
  <1>4. k \in DOMAIN list /\ First(k)
    BY <1>1, <1>3
  <1>5. c \in DOMAIN list /\ First(c)
    BY <1>4
  <1>6. ByName(list, name) = list[c]
    BY DEF ByName
  <1> HIDE DEF c
  <1>7. ASSUME NEW j \in DOMAIN list, list[j].name = name PROVE c <= j
    BY <1>1, <1>5, <1>7
  <1> QED
    BY <1>5, <1>6, <1>7

(* Two lists with the same names. *)
LEMMA ByNameInBoth ==
  ASSUME NEW a, NEW b, IsList(a), IsList(b), DOMAIN a = DOMAIN b,
         \A i \in DOMAIN b : a[i].name = b[i].name
  PROVE  /\ Names(a) = Names(b)
         /\ \A name \in Names(b) :
              \E i \in DOMAIN b : ByName(a, name) = a[i] /\ ByName(b, name) = b[i]
  <1>1. Names(a) = Names(b)
    BY DEF Names
  <1>2. ASSUME NEW name \in Names(b)
        PROVE  \E i \in DOMAIN b : ByName(a, name) = a[i] /\ ByName(b, name) = b[i]
    <2>1. PICK i \in DOMAIN a :
            /\ ByName(a, name) = a[i] /\ a[i].name = name
            /\ \A j \in DOMAIN a : a[j].name = name => i <= j
      BY <1>1, ByNameIs
    <2>2. PICK k \in DOMAIN b :
            /\ ByName(b, name) = b[k] /\ b[k].name = name
            /\ \A j \in DOMAIN b : b[j].name = name => k <= j
      BY ByNameIs
    <2>3. i <= k /\ k <= i /\ i \in Nat /\ k \in Nat
      BY <2>1, <2>2, ListLength
    <2>4. i = k
      BY <2>3
    <2> QED
      BY <2>1, <2>2, <2>4
  <1> QED
    BY <1>1, <1>2

-----------------------------------------------------------------------------
(* Templates. *)

GroupLeft(new, old, gone) ==
  /\ IsList(new) /\ DOMAIN new = DOMAIN old
  /\ \A i \in DOMAIN old : StepLeft(new[i], old[i], gone)

ParamsLeft(new, old, gone) ==
  /\ DOMAIN new = DOMAIN old
  /\ \A i \in DOMAIN old :
       /\ new[i].name = old[i].name
       /\ Left(new[i].default, old[i].default, gone) /\ Left(new[i].value, old[i].value, gone)

OutputsLeft(new, old, gone) ==
  /\ DOMAIN new.outParams = DOMAIN old.outParams
  /\ \A i \in DOMAIN old.outParams :
       /\ new.outParams[i].name = old.outParams[i].name
       /\ Left(new.outParams[i].from, old.outParams[i].from, gone)
  /\ DOMAIN new.outArts = DOMAIN old.outArts
  /\ \A i \in DOMAIN old.outArts :
       /\ new.outArts[i].name = old.outArts[i].name /\ new.outArts[i].loc = old.outArts[i].loc
       /\ Left(new.outArts[i].from, old.outArts[i].from, gone)

StepsLeft(new, old, gone) ==
  /\ DOMAIN new = DOMAIN old
  /\ \A g \in DOMAIN old : GroupLeft(new[g], old[g], gone)

(* What no substitution changes. *)
SameKind(new, old) ==
  /\ new.name = old.name /\ new.types = old.types /\ new.daemon = old.daemon
  /\ new.archive = old.archive /\ new.mounts = old.mounts /\ new.sidecars = old.sidecars

TemplateLeft(new, old, gone) ==
  /\ SameKind(new, old) /\ new.body = old.body \ gone
  /\ ParamsLeft(new.params, old.params, gone)
  /\ OutputsLeft(new, old, gone)
  /\ StepsLeft(new.steps, old.steps, gone)

LEMMA TemplateTwice ==
  ASSUME NEW a, NEW b, NEW c, NEW S, NEW R, TemplateLeft(b, a, S), TemplateLeft(c, b, R)
  PROVE  TemplateLeft(c, a, S \cup R)
  <1>1. SameKind(c, a) /\ c.body = a.body \ (S \cup R)
    BY DEF TemplateLeft, SameKind
  <1>2. ParamsLeft(c.params, a.params, S \cup R)
    BY LeftTwice DEF TemplateLeft, ParamsLeft
  <1>3. OutputsLeft(c, a, S \cup R)
    <2>1. ASSUME NEW i \in DOMAIN a.outParams
          PROVE  /\ c.outParams[i].name = a.outParams[i].name
                 /\ Left(c.outParams[i].from, a.outParams[i].from, S \cup R)
      BY LeftTwice DEF TemplateLeft, OutputsLeft
    <2>2. ASSUME NEW i \in DOMAIN a.outArts
          PROVE  /\ c.outArts[i].name = a.outArts[i].name /\ c.outArts[i].loc = a.outArts[i].loc
                 /\ Left(c.outArts[i].from, a.outArts[i].from, S \cup R)
      BY LeftTwice DEF TemplateLeft, OutputsLeft
    <2> QED
      BY <2>1, <2>2 DEF TemplateLeft, OutputsLeft
  <1>4. StepsLeft(c.steps, a.steps, S \cup R)
    <2>1. ASSUME NEW g \in DOMAIN a.steps PROVE GroupLeft(c.steps[g], a.steps[g], S \cup R)
      <3>1. GroupLeft(b.steps[g], a.steps[g], S) /\ GroupLeft(c.steps[g], b.steps[g], R)
        BY DEF TemplateLeft, StepsLeft
      <3> QED
        BY <3>1, StepTwice DEF GroupLeft
    <2> QED
      BY <2>1 DEF TemplateLeft, StepsLeft
  <1> QED
    BY <1>1, <1>2, <1>3, <1>4 DEF TemplateLeft

LEMMA ParamsOver ==
  ASSUME NEW map, Erases(map), NEW T, IsTemplate(T), NEW new,
         new = [i \in DOMAIN T.params |-> ReplaceInInput(T.params[i], map)]
  PROVE  /\ IsList(new) /\ ParamsLeft(new, T.params, DOMAIN map)
         /\ \A i \in DOMAIN new : /\ DOMAIN new[i] = {"name", "default", "value"}
                                  /\ IsText(new[i].default) /\ IsText(new[i].value)
  <1>1. IsList(new) /\ DOMAIN new = DOMAIN T.params
    <2>1. new = [i \in DOMAIN T.params |-> new[i]] /\ IsList(T.params)
      BY DEF IsTemplate
    <2> QED
      BY <2>1, ListFrom
  <1>2. ASSUME NEW i \in DOMAIN T.params
        PROVE  /\ DOMAIN new[i] = {"name", "default", "value"} /\ new[i].name = T.params[i].name
               /\ IsText(new[i].default) /\ Left(new[i].default, T.params[i].default, DOMAIN map)
               /\ IsText(new[i].value) /\ Left(new[i].value, T.params[i].value, DOMAIN map)
    <2>1. /\ DOMAIN T.params[i] = {"name", "default", "value"}
          /\ IsText(T.params[i].default) /\ IsText(T.params[i].value)
      BY DEF IsTemplate
    <2>2. /\ DOMAIN new[i] = {"name", "default", "value"} /\ new[i].name = T.params[i].name
          /\ new[i].default = ReplaceOptional(T.params[i].default, map)
          /\ new[i].value = ReplaceOptional(T.params[i].value, map)
      BY <2>1 DEF ReplaceInInput
    <2> QED
      BY <2>1, <2>2, LeftOver
  <1> QED
    BY <1>1, <1>2 DEF ParamsLeft

LEMMA OutputsOver ==
  ASSUME NEW map, Erases(map), NEW T, IsTemplate(T), NEW new,
         new.outParams = [i \in DOMAIN T.outParams |-> ReplaceInOutput(T.outParams[i], map)],
         new.outArts = [i \in DOMAIN T.outArts |-> ReplaceInOutput(T.outArts[i], map)]
  PROVE  /\ IsList(new.outParams) /\ IsList(new.outArts) /\ OutputsLeft(new, T, DOMAIN map)
         /\ \A i \in DOMAIN new.outParams :
              DOMAIN new.outParams[i] = {"name", "from"} /\ IsText(new.outParams[i].from)
         /\ \A i \in DOMAIN new.outArts : IsArtifact(new.outArts[i])
  <1>1. IsList(new.outParams) /\ DOMAIN new.outParams = DOMAIN T.outParams
    <2>1. new.outParams = [i \in DOMAIN T.outParams |-> new.outParams[i]] /\ IsList(T.outParams)
      BY DEF IsTemplate
    <2> QED
      BY <2>1, ListFrom
  <1>2. IsList(new.outArts) /\ DOMAIN new.outArts = DOMAIN T.outArts
    <2>1. new.outArts = [i \in DOMAIN T.outArts |-> new.outArts[i]] /\ IsList(T.outArts)
      BY DEF IsTemplate
    <2> QED
      BY <2>1, ListFrom
  <1>3. ASSUME NEW i \in DOMAIN T.outParams
        PROVE  /\ DOMAIN new.outParams[i] = {"name", "from"}
               /\ new.outParams[i].name = T.outParams[i].name /\ IsText(new.outParams[i].from)
               /\ Left(new.outParams[i].from, T.outParams[i].from, DOMAIN map)
    <2>1. DOMAIN T.outParams[i] = {"name", "from"} /\ IsText(T.outParams[i].from)
      BY DEF IsTemplate
    <2>2. /\ DOMAIN new.outParams[i] = {"name", "from"}
          /\ new.outParams[i].name = T.outParams[i].name
          /\ new.outParams[i].from = ReplaceOptional(T.outParams[i].from, map)
      BY <2>1 DEF ReplaceInOutput
    <2> QED
      BY <2>1, <2>2, LeftOver
  <1>4. ASSUME NEW i \in DOMAIN T.outArts
        PROVE  /\ IsArtifact(new.outArts[i])
               /\ new.outArts[i].name = T.outArts[i].name /\ new.outArts[i].loc = T.outArts[i].loc
               /\ Left(new.outArts[i].from, T.outArts[i].from, DOMAIN map)
    <2>1. IsArtifact(T.outArts[i])
      BY DEF IsTemplate
    <2>2. /\ DOMAIN new.outArts[i] = {"name", "path", "from", "loc"}
          /\ new.outArts[i].name = T.outArts[i].name /\ new.outArts[i].loc = T.outArts[i].loc
          /\ new.outArts[i].path = T.outArts[i].path
          /\ new.outArts[i].from = ReplaceOptional(T.outArts[i].from, map)
      BY <2>1 DEF IsArtifact, ReplaceInOutput
    <2> QED
      BY <2>1, <2>2, LeftOver DEF IsArtifact
  <1> QED
    BY <1>1, <1>2, <1>3, <1>4 DEF OutputsLeft

LEMMA StepsOver ==
  ASSUME NEW map, Erases(map), NEW T, IsTemplate(T)
  PROVE  LET new == ReplaceInGroups(T.steps, map)
         IN  IsList(new) /\ StepsLeft(new, T.steps, DOMAIN map)
  <1> DEFINE new == ReplaceInGroups(T.steps, map)
  <1>1. /\ IsList(T.steps)
        /\ \A g \in DOMAIN T.steps :
             IsList(T.steps[g]) /\ \A i \in DOMAIN T.steps[g] : IsStep(T.steps[g][i])
    BY DEF IsTemplate
  <1>2. new = [g \in DOMAIN T.steps |-> new[g]]
    BY DEF ReplaceInGroups
  <1>3. \A g \in DOMAIN T.steps :
          new[g] = [i \in DOMAIN T.steps[g] |-> ReplaceInStep(T.steps[g][i], map)]
    BY DEF ReplaceInGroups
  <1> HIDE DEF new
  <1>4. IsList(new) /\ DOMAIN new = DOMAIN T.steps
    BY <1>1, <1>2, ListFrom
  <1>5. ASSUME NEW g \in DOMAIN T.steps PROVE GroupLeft(new[g], T.steps[g], DOMAIN map)
    <2>1. IsList(new[g]) /\ DOMAIN new[g] = DOMAIN T.steps[g]
      <3>1. new[g] = [i \in DOMAIN T.steps[g] |-> new[g][i]]
        BY <1>3
      <3> QED
        BY <1>1, <3>1, ListFrom
    <2>2. \A i \in DOMAIN T.steps[g] : new[g][i] = ReplaceInStep(T.steps[g][i], map)
      BY <1>3
    <2> QED
      BY <1>1, <2>1, <2>2, StepOver DEF GroupLeft
  <1> QED
    BY <1>4, <1>5 DEF StepsLeft, new

LEMMA TemplateOver ==
  ASSUME NEW map, Erases(map), NEW T, IsTemplate(T), "steps" \in T.types => T.steps # <<>>
  PROVE  LET new == ReplaceInTemplate(T, map)
         IN  /\ IsTemplate(new) /\ TemplateLeft(new, T, DOMAIN map) /\ new.arts = T.arts
             /\ "steps" \in new.types => new.steps # <<>>
  <1> DEFINE new == ReplaceInTemplate(T, map)
  <1>1. DOMAIN T = {"name", "types", "params", "arts", "outParams", "outArts", "body", "steps",
                    "daemon", "mounts", "sidecars", "archive", "deadline"}
    BY DEF IsTemplate
  <1>2. T.steps = <<>> => "steps" \notin T.types
    OBVIOUS
  <1>3. /\ DOMAIN new = DOMAIN T
        /\ new.name = T.name /\ new.types = (IF T.steps = <<>> THEN T.types \ {"steps"} ELSE T.types)
        /\ new.daemon = T.daemon
        /\ new.archive = T.archive /\ new.mounts = T.mounts /\ new.sidecars = T.sidecars
        /\ new.arts = T.arts
        /\ new.body = Replace(T.body, map)
    BY <1>1 DEF ReplaceInTemplate
  <1>4. new.types = T.types
    BY <1>2, <1>3
  <1>p. new.params = [i \in DOMAIN T.params |-> ReplaceInInput(T.params[i], map)]
    BY <1>1 DEF ReplaceInTemplate
  <1>o. /\ new.outParams = [i \in DOMAIN T.outParams |-> ReplaceInOutput(T.outParams[i], map)]
        /\ new.outArts = [i \in DOMAIN T.outArts |-> ReplaceInOutput(T.outArts[i], map)]
    BY <1>1 DEF ReplaceInTemplate
  <1>s. new.steps = ReplaceInGroups(T.steps, map)
    BY <1>1 DEF ReplaceInTemplate, ReplaceInGroups
  <1> HIDE DEF new
  <1>5. new.body = T.body \ DOMAIN map
    BY <1>3, Erased
  <1>6. /\ IsList(new.params) /\ ParamsLeft(new.params, T.params, DOMAIN map)
        /\ \A i \in DOMAIN new.params :
             /\ DOMAIN new.params[i] = {"name", "default", "value"}
             /\ IsText(new.params[i].default) /\ IsText(new.params[i].value)
    BY <1>p, ParamsOver
  <1>7. /\ IsList(new.outParams) /\ IsList(new.outArts) /\ OutputsLeft(new, T, DOMAIN map)
        /\ \A i \in DOMAIN new.outParams :
             DOMAIN new.outParams[i] = {"name", "from"} /\ IsText(new.outParams[i].from)
        /\ \A i \in DOMAIN new.outArts : IsArtifact(new.outArts[i])
    BY <1>o, OutputsOver
  <1>8. IsList(new.steps) /\ StepsLeft(new.steps, T.steps, DOMAIN map)
    BY <1>s, StepsOver
  <1>9. TemplateLeft(new, T, DOMAIN map)
    BY <1>3, <1>4, <1>5, <1>6, <1>7, <1>8 DEF TemplateLeft, SameKind
  <1>10. \A g \in DOMAIN new.steps :
           IsList(new.steps[g]) /\ \A i \in DOMAIN new.steps[g] : IsStep(new.steps[g][i])
    BY <1>8 DEF StepsLeft, GroupLeft, StepLeft
  <1>11. T.steps = <<>> <=> new.steps = <<>>
    <2>1. Len(T.steps) \in Nat /\ DOMAIN T.steps = 1 .. Len(T.steps) /\ IsList(T.steps)
      BY ListLength DEF IsTemplate
    <2>2. Len(new.steps) \in Nat /\ DOMAIN new.steps = 1 .. Len(new.steps)
      BY <1>8, ListLength
    <2>3. DOMAIN new.steps = DOMAIN T.steps
      BY <1>8 DEF StepsLeft
    <2>4. \A s : IsList(s) => (s = <<>> <=> DOMAIN s = {})
      <3>1. ASSUME NEW s, IsList(s), DOMAIN s = {} PROVE s = <<>>
        <4>1. s \in Seq({s[i] : i \in DOMAIN s}) /\ Len(s) = 0
          BY <3>1 DEF IsList
        <4> QED
          BY <4>1
      <3> QED
        BY <3>1
    <2> QED
      BY <1>8, <2>1, <2>3, <2>4
  <1>12. IsTemplate(new)
    BY <1>1, <1>3, <1>4, <1>6, <1>7, <1>8, <1>10, <1>11 DEF IsTemplate
  <1> QED
    BY <1>3, <1>4, <1>9, <1>11, <1>12 DEF new

-----------------------------------------------------------------------------
(* A template that is processed keeps its own references and those to      *)
(* artifacts; its parameters and the globals are gone.                     *)

GlobalsKnown(t, known) == \A tag \in Tags(t) : tag[1] = "workflow" => tag \in known

Gone(t, known) == known \cup {InputParameter(p) : p \in Names(t.params)}

PlainArtifact(art) == IsArtifact(art) /\ Text(art.from) = {}

PlainArguments(args) ==
  /\ IsList(args.params) /\ IsList(args.arts)
  /\ \A i \in DOMAIN args.params : Text(args.params[i].value) = {}
  /\ \A i \in DOMAIN args.arts : Text(args.arts[i].from) = {}

(* The arguments of a step as they are given to the template. *)
Fits(new, old) ==
  /\ PlainArguments(new)
  /\ DOMAIN new.params = DOMAIN old.params /\ DOMAIN new.arts = DOMAIN old.arts
  /\ \A i \in DOMAIN old.params :
       /\ new.params[i].name = old.params[i].name
       /\ new.params[i].value = NoValue <=> old.params[i].value = NoValue
  /\ \A i \in DOMAIN old.arts : new.arts[i].name = old.arts[i].name

PlainInputs(params) ==
  \A i \in DOMAIN params : Text(params[i].default) = {} /\ Text(params[i].value) = {}

ArtifactsLike(new, old) ==
  /\ IsList(new) /\ DOMAIN new = DOMAIN old
  /\ \A i \in DOMAIN old :
       PlainArtifact(new[i]) /\ new[i].name = old[i].name /\ new[i].path = old[i].path

Prepared(t, T, gone) ==
  /\ SameKind(t, T) /\ t.body = T.body \ gone
  /\ DOMAIN t.params = DOMAIN T.params /\ PlainInputs(t.params)
  /\ ArtifactsLike(t.arts, T.arts)
  /\ OutputsLeft(t, T, gone) /\ IsList(t.outParams) /\ IsList(t.outArts)
  /\ \A i \in DOMAIN t.outArts : IsArtifact(t.outArts[i])
  /\ IsList(t.steps) /\ StepsLeft(t.steps, T.steps, gone)

LEMMA SuppliedToo ==
  ASSUME NEW T, NEW old, IsArguments(old), NEW new, Fits(new, old), InputsSupplied(T, old)
  PROVE  InputsSupplied(T, new)
  <1>1. /\ IsList(old.params) /\ IsList(old.arts) /\ IsList(new.params) /\ IsList(new.arts)
        /\ DOMAIN new.params = DOMAIN old.params /\ DOMAIN new.arts = DOMAIN old.arts
    BY DEF IsArguments, Fits, PlainArguments
  <1>2. /\ Names(new.params) = Names(old.params)
        /\ \A name \in Names(old.params) : \E i \in DOMAIN old.params :
             ByName(new.params, name) = new.params[i] /\ ByName(old.params, name) = old.params[i]
    BY <1>1, ByNameInBoth DEF Fits
  <1>3. Names(new.arts) = Names(old.arts)
    BY <1>1, ByNameInBoth DEF Fits
  <1>4. ASSUME NEW i \in DOMAIN T.params PROVE InputValue(T.params[i], new) # NoValue
    <2>1. InputValue(T.params[i], old) # NoValue
      BY DEF InputsSupplied
    <2>2. IsGiven(T.params[i], new) <=> IsGiven(T.params[i], old)
      <3>1. ASSUME NEW name \in Names(old.params)
            PROVE  ByName(new.params, name).value = NoValue <=> ByName(old.params, name).value = NoValue
        <4>1. PICK k \in DOMAIN old.params :
                ByName(new.params, name) = new.params[k] /\ ByName(old.params, name) = old.params[k]
          BY <1>2
        <4> QED
          BY <4>1 DEF Fits
      <3> QED
        BY <1>2, <3>1 DEF IsGiven
    <2> QED
      BY <2>1, <2>2 DEF InputValue, IsGiven
  <1> QED
    BY <1>3, <1>4 DEF InputsSupplied

(* The value that an input takes. *)
LEMMA ValueTaken ==
  ASSUME NEW param, NEW args, PlainArguments(args), InputValue(param, args) # NoValue,
         Text(param.value) = {}
  PROVE  InputValue(param, args) = {} \/ InputValue(param, args) = param.default
  <1>1. CASE IsGiven(param, args)
    <2>1. PICK i \in DOMAIN args.params : ByName(args.params, param.name) = args.params[i]
      BY <1>1, ByNameIs DEF IsGiven, PlainArguments
    <2>2. InputValue(param, args) = args.params[i].value /\ args.params[i].value # NoValue
      BY <1>1, <2>1 DEF InputValue, IsGiven
    <2> QED
      BY <2>2 DEF PlainArguments, Text
  <1>2. CASE ~IsGiven(param, args)
    BY <1>2 DEF InputValue, Text
  <1> QED
    BY <1>1, <1>2

LEMMA WithInputsIs ==
  ASSUME NEW T, IsTemplate(T), NEW args, PlainArguments(args), InputsSupplied(T, args),
         \A i \in DOMAIN T.params : Text(T.params[i].value) = {}
  PROVE  LET w == WithInputs(T, args)
         IN  /\ IsTemplate(w)
             /\ \A field \in DOMAIN T : field # "params" => w[field] = T[field]
             /\ DOMAIN w.params = DOMAIN T.params
             /\ \A i \in DOMAIN T.params :
                  /\ w.params[i].name = T.params[i].name /\ w.params[i].value # NoValue
                  /\ w.params[i].default = T.params[i].default
                  /\ w.params[i].value = {} \/ w.params[i].value = T.params[i].default
             /\ Tags(w) \subseteq Tags(T)
  <1> DEFINE w == WithInputs(T, args)
  <1>1. DOMAIN T = {"name", "types", "params", "arts", "outParams", "outArts", "body", "steps",
                    "daemon", "mounts", "sidecars", "archive", "deadline"}
    BY DEF IsTemplate
  <1>2. /\ DOMAIN w = DOMAIN T /\ \A field \in DOMAIN T : field # "params" => w[field] = T[field]
        /\ w.params = [i \in DOMAIN T.params |-> WithInput(T.params[i], args)]
    BY <1>1 DEF WithInputs
  <1> HIDE DEF w
  <1>3. IsList(w.params) /\ DOMAIN w.params = DOMAIN T.params
    <2>1. w.params = [i \in DOMAIN T.params |-> w.params[i]] /\ IsList(T.params)
      BY <1>2 DEF IsTemplate
    <2> QED
      BY <2>1, ListFrom
  <1>4. ASSUME NEW i \in DOMAIN T.params
        PROVE  /\ DOMAIN w.params[i] = {"name", "default", "value"}
               /\ w.params[i].name = T.params[i].name /\ w.params[i].default = T.params[i].default
               /\ w.params[i].value # NoValue
               /\ w.params[i].value = {} \/ w.params[i].value = T.params[i].default
               /\ IsText(w.params[i].default) /\ IsText(w.params[i].value)
    <2>1. DOMAIN T.params[i] = {"name", "default", "value"} /\ IsText(T.params[i].default)
      BY DEF IsTemplate
    <2>2. /\ DOMAIN w.params[i] = {"name", "default", "value"}
          /\ w.params[i].name = T.params[i].name /\ w.params[i].default = T.params[i].default
          /\ w.params[i].value = InputValue(T.params[i], args)
      BY <1>2, <2>1 DEF WithInput
    <2>3. InputValue(T.params[i], args) # NoValue
      BY DEF InputsSupplied
    <2>4. w.params[i].value = {} \/ w.params[i].value = T.params[i].default
      BY <2>2, <2>3, ValueTaken
    <2>5. IsText({})
      BY NilAssumption DEF IsText
    <2> QED
      BY <2>1, <2>2, <2>3, <2>4, <2>5
  <1>5. /\ w.types = T.types /\ w.arts = T.arts /\ w.outParams = T.outParams
        /\ w.outArts = T.outArts /\ w.body = T.body /\ w.steps = T.steps /\ w.mounts = T.mounts
        /\ w.daemon = T.daemon
    BY <1>1, <1>2
  <1>6. IsTemplate(w)
    BY <1>1, <1>2, <1>3, <1>4, <1>5 DEF IsTemplate
  <1>7. Tags(w) \subseteq Tags(T)
    <2>1. OutputTags(w) = OutputTags(T)
      BY <1>5 DEF OutputTags
    <2>2. ASSUME NEW i \in DOMAIN w.params
          PROVE  Text(w.params[i].default) \cup Text(w.params[i].value)
                   \subseteq Text(T.params[i].default) \cup Text(T.params[i].value)
      BY <1>3, <1>4 DEF Text
    <2> QED
      BY <1>3, <1>5, <2>1, <2>2 DEF Tags
  <1> QED
    BY <1>2, <1>3, <1>4, <1>6, <1>7 DEF w

(* The tags of a template are those of its parts. *)
LEMMA OutputTagsAre ==
  ASSUME NEW t, NEW tag
  PROVE  tag \in OutputTags(t) <=>
           \/ \E i \in DOMAIN t.outParams : tag \in Text(t.outParams[i].from)
           \/ \E i \in DOMAIN t.outArts : tag \in Text(t.outArts[i].from)
  BY DEF OutputTags

LEMMA ArgumentTagsAre ==
  ASSUME NEW args, NEW tag
  PROVE  tag \in ArgumentTags(args) <=>
           \/ \E i \in DOMAIN args.params : tag \in Text(args.params[i].value)
           \/ \E i \in DOMAIN args.arts : tag \in Text(args.arts[i].from)
  BY DEF ArgumentTags

LEMMA TagsAre ==
  ASSUME NEW t, NEW tag
  PROVE  tag \in Tags(t) <=>
           \/ tag \in t.body \/ tag \in OutputTags(t)
           \/ \E i \in DOMAIN t.params : tag \in Text(t.params[i].default) \cup Text(t.params[i].value)
           \/ \E i \in DOMAIN t.arts : tag \in Text(t.arts[i].from)
           \/ \E g \in DOMAIN t.steps : \E i \in DOMAIN t.steps[g] : tag \in StepTags(t.steps[g][i])
  <1>1. \A g : tag \in GroupTags(t.steps[g]) <=>
                 \E i \in DOMAIN t.steps[g] : tag \in StepTags(t.steps[g][i])
    BY DEF GroupTags
  <1>2. tag \in Tags(t) <=>
           \/ tag \in t.body \/ tag \in OutputTags(t)
           \/ \E i \in DOMAIN t.params : tag \in Text(t.params[i].default) \cup Text(t.params[i].value)
           \/ \E i \in DOMAIN t.arts : tag \in Text(t.arts[i].from)
           \/ \E g \in DOMAIN t.steps : tag \in GroupTags(t.steps[g])
    <2> DEFINE input(i) == Text(t.params[i].default) \cup Text(t.params[i].value)
               X == UNION {input(i) : i \in DOMAIN t.params}
               Y == UNION {Text(t.arts[i].from) : i \in DOMAIN t.arts}
               Z == UNION {GroupTags(t.steps[i]) : i \in DOMAIN t.steps}
    <2>1. Tags(t) = t.body \cup OutputTags(t) \cup X \cup Y \cup Z
      BY DEF Tags
    <2>2. tag \in X <=> \E i \in DOMAIN t.params : tag \in input(i)
      OBVIOUS
    <2>3. tag \in Y <=> \E i \in DOMAIN t.arts : tag \in Text(t.arts[i].from)
      OBVIOUS
    <2>4. tag \in Z <=> \E g \in DOMAIN t.steps : tag \in GroupTags(t.steps[g])
      OBVIOUS
    <2> HIDE DEF X, Y, Z
    <2> QED
      BY <2>1, <2>2, <2>3, <2>4
  <1> QED
    BY <1>1, <1>2

LEMMA EmptyText == ASSUME NEW v, Text(v) = {} PROVE IsText(v)
  BY NilAssumption DEF Text, IsText

(* The inputs of a template have plain texts once the globals are put in. *)
PlainTexts(T) ==
  \A i \in DOMAIN T.params :
    Text(T.params[i].value) = {} /\ \A tag \in Text(T.params[i].default) : tag[1] = "workflow"

LEMMA InputsPlain ==
  ASSUME NEW T, NEW w, NEW g, NEW known, GlobalsKnown(T, known), PlainTexts(T),
         DOMAIN w.params = DOMAIN T.params,
         \A i \in DOMAIN T.params :
           /\ w.params[i].default = T.params[i].default /\ w.params[i].value # NoValue
           /\ w.params[i].value = {} \/ w.params[i].value = T.params[i].default,
         ParamsLeft(g.params, w.params, known)
  PROVE  \A i \in DOMAIN g.params : Text(g.params[i].default) = {} /\ g.params[i].value = {}
  <1> SUFFICES ASSUME NEW i \in DOMAIN T.params
               PROVE  Text(g.params[i].default) = {} /\ g.params[i].value = {}
    BY DEF ParamsLeft
  <1>1. Text(T.params[i].default) \subseteq known
    <2>1. Text(T.params[i].default) \subseteq Tags(T)
      BY TagsAre
    <2>2. \A tag \in Text(T.params[i].default) : tag[1] = "workflow"
      BY DEF PlainTexts
    <2> QED
      BY <2>1, <2>2 DEF GlobalsKnown
  <1>2. /\ Left(g.params[i].default, w.params[i].default, known)
        /\ Left(g.params[i].value, w.params[i].value, known)
    BY DEF ParamsLeft
  <1>3. Text(g.params[i].default) = {}
    BY <1>1, <1>2 DEF Left, Text
  <1>4. g.params[i].value = {}
    BY <1>1, <1>2 DEF Left, Text
  <1> QED
    BY <1>3, <1>4

LEMMA Prepares ==
  ASSUME NEW T, IsTemplate(T), "steps" \in T.types => T.steps # <<>>,
         PlainTexts(T), \A i \in DOMAIN T.arts : T.arts[i].from = NoValue,
         NEW args, PlainArguments(args), InputsSupplied(T, args),
         NEW globs, Erases(globs), GlobalsKnown(T, DOMAIN globs)
  PROVE  /\ CanProcess(T, args, globs)
         /\ Prepared(ProcessArgs(T, args, globs), T, Gone(T, DOMAIN globs))
  <1> DEFINE w == WithInputs(T, args)
             g == ReplaceInTemplate(w, globs)
             inputs == [tag \in {InputParameter(p) : p \in Names(g.params)} |->
                          ByName(g.params, tag[3]).value]
             h == ReplaceInTemplate(g, inputs)
             arts == [i \in DOMAIN h.arts |-> InputArtifactOf(h.arts[i], args)]
             t == ProcessArgs(T, args, globs)
             known == DOMAIN globs
             gone == Gone(T, known)
             Fields == {"name", "types", "params", "arts", "outParams", "outArts", "body", "steps",
                        "daemon", "mounts", "sidecars", "archive", "deadline"}
  <1>1. /\ IsTemplate(w)
        /\ \A field \in DOMAIN T : field # "params" => w[field] = T[field]
        /\ DOMAIN w.params = DOMAIN T.params
        /\ \A i \in DOMAIN T.params :
             /\ w.params[i].name = T.params[i].name /\ w.params[i].value # NoValue
             /\ w.params[i].default = T.params[i].default
             /\ w.params[i].value = {} \/ w.params[i].value = T.params[i].default
        /\ Tags(w) \subseteq Tags(T)
    BY WithInputsIs DEF PlainTexts
  <1>2. /\ w.name = T.name /\ w.types = T.types /\ w.arts = T.arts /\ w.outParams = T.outParams
        /\ w.outArts = T.outArts /\ w.body = T.body /\ w.steps = T.steps
        /\ w.daemon = T.daemon /\ w.mounts = T.mounts /\ w.sidecars = T.sidecars
        /\ w.archive = T.archive
    BY <1>1 DEF IsTemplate
  <1>3. CanProcess(T, args, globs)
    BY <1>1 DEF CanProcess, GlobalsResolved, GlobalsKnown
  <1>4. t = [h EXCEPT !.arts = arts]
    BY DEF ProcessArgs, substituteParams
  <1> HIDE DEF w
  <1>5. /\ IsTemplate(g) /\ TemplateLeft(g, w, known) /\ g.arts = w.arts
        /\ "steps" \in g.types => g.steps # <<>>
    BY <1>1, <1>2, TemplateOver
  <1> HIDE DEF g
  <1>6. \A i \in DOMAIN g.params : Text(g.params[i].default) = {} /\ g.params[i].value = {}
    <2>1. ParamsLeft(g.params, w.params, known)
      BY <1>5 DEF TemplateLeft
    <2>2. \A i \in DOMAIN T.params :
            /\ w.params[i].default = T.params[i].default /\ w.params[i].value # NoValue
            /\ w.params[i].value = {} \/ w.params[i].value = T.params[i].default
      BY <1>1
    <2>3. GlobalsKnown(T, known) /\ DOMAIN w.params = DOMAIN T.params
      BY <1>1
    <2> HIDE DEF known
    <2> QED
      BY <2>1, <2>2, <2>3, InputsPlain
  <1>7. Names(g.params) = Names(T.params)
    <2>1. /\ DOMAIN g.params = DOMAIN T.params
          /\ \A i \in DOMAIN T.params : g.params[i].name = T.params[i].name
      BY <1>1, <1>5 DEF TemplateLeft, ParamsLeft
    <2> QED
      BY <2>1 DEF Names
  <1>8. Erases(inputs) /\ DOMAIN inputs = {InputParameter(p) : p \in Names(T.params)}
    <2>1. IsList(g.params)
      BY <1>5 DEF IsTemplate
    <2>2. ASSUME NEW p \in Names(g.params) PROVE ByName(g.params, p).value = {}
      BY <1>6, <2>1, ByNameIs
    <2>3. \A p : InputParameter(p)[3] = p
      BY DEF InputParameter
    <2>4. ASSUME NEW tag \in DOMAIN inputs PROVE inputs[tag] = {}
      <3>1. PICK p \in Names(g.params) : tag = InputParameter(p)
        OBVIOUS
      <3>2. inputs[tag] = ByName(g.params, tag[3]).value
        OBVIOUS
      <3> QED
        BY <2>2, <2>3, <3>1, <3>2
    <2> QED
      BY <1>7, <2>4 DEF Erases
  <1> HIDE DEF inputs
  <1>9. /\ IsTemplate(h) /\ TemplateLeft(h, g, DOMAIN inputs) /\ h.arts = g.arts
    BY <1>5, <1>8, TemplateOver
  <1> HIDE DEF h
  <1>10. TemplateLeft(h, w, gone)
    BY <1>5, <1>8, <1>9, TemplateTwice DEF Gone
  <1>11. /\ DOMAIN t = Fields /\ t.arts = arts
         /\ \A field \in Fields : field # "arts" => t[field] = h[field]
    BY <1>4, <1>9 DEF IsTemplate
  <1>12. /\ t.name = h.name /\ t.types = h.types /\ t.params = h.params /\ t.outParams = h.outParams
         /\ t.outArts = h.outArts /\ t.body = h.body /\ t.steps = h.steps
         /\ t.daemon = h.daemon /\ t.mounts = h.mounts /\ t.sidecars = h.sidecars
         /\ t.archive = h.archive
    BY <1>11
  <1> HIDE DEF t
  <1>13. ArtifactsLike(arts, T.arts)
    <2>1. h.arts = T.arts /\ IsList(T.arts)
      BY <1>2, <1>5, <1>9 DEF IsTemplate
    <2>2. /\ arts = [i \in DOMAIN T.arts |-> arts[i]]
          /\ \A i \in DOMAIN T.arts : arts[i] = InputArtifactOf(T.arts[i], args)
      BY <2>1
    <2> HIDE DEF arts
    <2>3. IsList(arts) /\ DOMAIN arts = DOMAIN T.arts
      BY <2>1, <2>2, ListFrom
    <2>4. ASSUME NEW i \in DOMAIN T.arts
          PROVE  /\ PlainArtifact(arts[i]) /\ arts[i].name = T.arts[i].name
                 /\ arts[i].path = T.arts[i].path
      <3> DEFINE art == T.arts[i]
                 arg == ByName(args.arts, art.name)
      <3>1. IsArtifact(art) /\ art.from = NoValue
        BY DEF IsTemplate
      <3>2. CASE HasLocation(art)
        <4>1. arts[i] = art
          BY <2>2, <3>2 DEF InputArtifactOf
        <4> QED
          BY <3>1, <4>1 DEF PlainArtifact, Text
      <3>3. CASE ~HasLocation(art)
        <4>1. arts[i] = [art EXCEPT !.from = arg.from, !.loc = arg.loc]
          BY <2>2, <3>3 DEF InputArtifactOf
        <4>2. art.name \in Names(args.arts)
          BY <3>3 DEF InputsSupplied
        <4>3. PICK k \in DOMAIN args.arts : arg = args.arts[k]
          BY <4>2, ByNameIs DEF PlainArguments
        <4>4. Text(arg.from) = {}
          BY <4>3 DEF PlainArguments
        <4> HIDE DEF arg, art
        <4>5. /\ DOMAIN arts[i] = DOMAIN art /\ arts[i].from = arg.from
              /\ arts[i].name = art.name /\ arts[i].path = art.path
          BY <3>1, <4>1 DEF IsArtifact
        <4>6. IsText(arg.from)
          BY <4>4, EmptyText
        <4> QED
          BY <3>1, <4>4, <4>5, <4>6 DEF PlainArtifact, IsArtifact, art
      <3> QED
        BY <3>2, <3>3
    <2> QED
      BY <2>3, <2>4 DEF ArtifactsLike
  <1>14. PlainInputs(t.params)
    <2>1. ASSUME NEW i \in DOMAIN h.params
          PROVE  Text(h.params[i].default) = {} /\ Text(h.params[i].value) = {}
      <3>1. /\ i \in DOMAIN g.params
            /\ Left(h.params[i].default, g.params[i].default, DOMAIN inputs)
            /\ Left(h.params[i].value, g.params[i].value, DOMAIN inputs)
        BY <1>9 DEF TemplateLeft, ParamsLeft
      <3> QED
        BY <1>6, <3>1 DEF Left, Text
    <2> QED
      BY <1>12, <2>1 DEF PlainInputs
  <1>15. SameKind(t, T)
    BY <1>2, <1>10, <1>12 DEF TemplateLeft, SameKind
  <1>16. /\ IsList(t.outParams) /\ IsList(t.outArts) /\ IsList(t.steps)
         /\ \A i \in DOMAIN t.outArts : IsArtifact(t.outArts[i])
    BY <1>9, <1>12 DEF IsTemplate
  <1>17. OutputsLeft(t, T, gone)
    BY <1>2, <1>10, <1>12 DEF TemplateLeft, OutputsLeft
  <1>18. StepsLeft(t.steps, T.steps, gone) /\ t.body = T.body \ gone
    BY <1>2, <1>10, <1>12 DEF TemplateLeft
  <1>19. DOMAIN t.params = DOMAIN T.params
    BY <1>1, <1>10, <1>12 DEF TemplateLeft, ParamsLeft
  <1>20. Prepared(t, T, gone)
    BY <1>11, <1>13, <1>14, <1>15, <1>16, <1>17, <1>18, <1>19 DEF Prepared
  <1> QED
    BY <1>3, <1>20 DEF t

-----------------------------------------------------------------------------
(* Leafs: no tag is left, and the pod is that of the template as it is     *)
(* written.                                                                *)

LEMMA LeafTags ==
  ASSUME NEW T, IsTemplate(T), T.steps = <<>>, NEW gone, Tags(T) \subseteq gone,
         NEW t, Prepared(t, T, gone)
  PROVE  Tags(t) = {}
  <1> SUFFICES ASSUME NEW tag \in Tags(t) PROVE FALSE
    OBVIOUS
  <1>1. DOMAIN t.steps = {}
    BY DEF Prepared, StepsLeft
  <1>2. tag \notin t.body
    BY TagsAre DEF Prepared
  <1>3. ~\E i \in DOMAIN t.params : tag \in Text(t.params[i].default) \cup Text(t.params[i].value)
    BY DEF Prepared, PlainInputs
  <1>4. ~\E i \in DOMAIN t.arts : tag \in Text(t.arts[i].from)
    BY DEF Prepared, ArtifactsLike, PlainArtifact
  <1>5. tag \notin OutputTags(t)
    <2>1. OutputTags(T) \subseteq gone
      BY TagsAre
    <2>2. ASSUME NEW i \in DOMAIN t.outParams PROVE tag \notin Text(t.outParams[i].from)
      <3>1. i \in DOMAIN T.outParams /\ Left(t.outParams[i].from, T.outParams[i].from, gone)
        BY DEF Prepared, OutputsLeft
      <3>2. Text(T.outParams[i].from) \subseteq gone
        BY <2>1, <3>1, OutputTagsAre
      <3> QED
        BY <3>1, <3>2, LeftText
    <2>3. ASSUME NEW i \in DOMAIN t.outArts PROVE tag \notin Text(t.outArts[i].from)
      <3>1. i \in DOMAIN T.outArts /\ Left(t.outArts[i].from, T.outArts[i].from, gone)
        BY DEF Prepared, OutputsLeft
      <3>2. Text(T.outArts[i].from) \subseteq gone
        BY <2>1, <3>1, OutputTagsAre
      <3> QED
        BY <3>1, <3>2, LeftText
    <2> QED
      BY <2>2, <2>3, OutputTagsAre
  <1> QED
    BY <1>1, <1>2, <1>3, <1>4, <1>5, TagsAre

LEMMA SamePod ==
  ASSUME NEW T, NEW t, IsList(T.arts), t.types = T.types, t.mounts = T.mounts,
         t.sidecars = T.sidecars, ArtifactsLike(t.arts, T.arts)
  PROVE  createWorkflowPod(t) = createWorkflowPod(T)
  <1>1. IsList(t.arts) /\ DOMAIN t.arts = DOMAIN T.arts
    BY DEF ArtifactsLike
  <1>2. t.arts = <<>> <=> T.arts = <<>>
    <2>1. ASSUME NEW s, IsList(s), DOMAIN s = {} PROVE s = <<>>
      <3>1. s \in Seq({s[i] : i \in DOMAIN s}) /\ Len(s) = 0
        BY <2>1 DEF IsList
      <3> QED
        BY <3>1
    <2> QED
      BY <1>1, <2>1
  <1>3. UserMounts(t) = UserMounts(T)
    BY DEF UserMounts
  <1>4. Volumes(t) = Volumes(T)
    BY <1>2, <1>3 DEF Volumes, If
  <1>5. ArtifactMounts(t) = ArtifactMounts(T)
    <2>1. \A path : FindOverlappingVolume(t, path) = FindOverlappingVolume(T, path)
      BY DEF FindOverlappingVolume
    <2> DEFINE free(x) == {i \in DOMAIN x.arts : FindOverlappingVolume(x, x.arts[i].path) = NoValue}
               mounted == SetToSeq(free(T))
               mount(x, i) == [vol |-> "input-artifacts", path |-> x.arts[i].path,
                               sub |-> <<"/", x.arts[i].name>>]
    <2>2. free(t) = free(T)
      BY <1>1, <2>1 DEF ArtifactsLike
    <2>3. ToSet(mounted) \subseteq DOMAIN T.arts /\ \A k \in DOMAIN mounted : mounted[k] \in DOMAIN T.arts
      <3>1. IsFiniteSet(DOMAIN T.arts)
        <4>1. DOMAIN T.arts = 1 .. Len(T.arts) /\ 1 \in Int /\ Len(T.arts) \in Int
          BY ListLength
        <4> QED
          BY <4>1, FS_Interval
      <3>2. IsFiniteSet(free(T)) /\ free(T) \subseteq DOMAIN T.arts
        BY <3>1, FS_Subset
      <3> HIDE DEF free
      <3>3. ToSet(mounted) = free(T)
        BY <3>2, Enumerated
      <3> QED
        BY <3>2, <3>3 DEF ToSet
    <2>4. \A k \in DOMAIN mounted : mount(t, mounted[k]) = mount(T, mounted[k])
      BY <2>3 DEF ArtifactsLike
    <2>5. ArtifactMounts(T) = [k \in DOMAIN mounted |-> mount(T, mounted[k])]
      BY DEF ArtifactMounts
    <2>6. ArtifactMounts(t) = [k \in DOMAIN SetToSeq(free(t)) |-> mount(t, SetToSeq(free(t))[k])]
      BY DEF ArtifactMounts
    <2> HIDE DEF free, mount
    <2> QED
      BY <2>2, <2>4, <2>5, <2>6
  <1>6. MainMounts(t) = MainMounts(T) /\ InitMounts(t) = InitMounts(T) /\ HasInit(t) = HasInit(T)
    BY <1>2, <1>5 DEF MainMounts, OwnMounts, InitMounts, HasInit, If
  <1>7. addSidecars(t) = addSidecars(T)
    BY <1>6 DEF addSidecars
  <1> QED
    BY <1>4, <1>6, <1>7 DEF createWorkflowPod

(* What PodsFit says of a leaf. *)
PodFits(T) ==
  /\ VolumesFound(wf, T) /\ ArchiveKnown(T)
  /\ \A i \in DOMAIN T.arts : T.arts[i].path # NoValue
  /\ PodAccepted(createWorkflowPod(T))

LEMMA LeafStarts ==
  ASSUME NEW T, IsTemplate(T), T.steps = <<>>, T.types # {}, PodFits(T),
         NEW gone, Tags(T) \subseteq gone, NEW t, Prepared(t, T, gone)
  PROVE  LeafError(t) = "none"
  <1>1. Tags(t) = {}
    BY LeafTags
  <1>2. /\ t.types = T.types /\ t.mounts = T.mounts /\ t.sidecars = T.sidecars
        /\ t.archive = T.archive /\ ArtifactsLike(t.arts, T.arts)
    BY DEF Prepared, SameKind
  <1>3. createWorkflowPod(t) = createWorkflowPod(T)
    BY <1>2, SamePod DEF IsTemplate
  <1>4. VolumesFound(wf, t)
    BY <1>2 DEF PodFits, VolumesFound, UserMounts
  <1>5. ArchiveKnown(t)
    BY <1>2 DEF PodFits, ArchiveKnown, Prepared, OutputsLeft, HasLocation
  <1>6. ~\E i \in DOMAIN t.arts : t.arts[i].path = NoValue
    BY <1>2 DEF PodFits, ArtifactsLike
  <1>7. PodError(wf, t) = "none"
    BY <1>1, <1>4, <1>5, <1>6 DEF PodError
  <1> QED
    BY <1>2, <1>3, <1>7 DEF LeafError, PodFits

(* What a node leaves: plain texts only, and all that validation counts on. *)
PlainOutputs(outputs) ==
  /\ \A p \in DOMAIN outputs.params : outputs.params[p] = {}
  /\ \A a \in DOMAIN outputs.arts : PlainArtifact(outputs.arts[a])

Yields(outputs, T) ==
  /\ "steps" \notin T.types /\ T.daemon => outputs.ip = TRUE
  /\ "steps" \in T.types \/ ~T.daemon =>
       /\ "script" \in T.types => outputs.result = TRUE
       /\ DOMAIN outputs.params = Names(T.outParams)
       /\ "resource" \notin T.types => DOMAIN outputs.arts = Names(T.outArts)

LEMMA LeafYields ==
  ASSUME NEW T, "steps" \notin T.types, T.daemon \in BOOLEAN,
         \A i \in DOMAIN T.outParams : T.outParams[i].from # NoValue,
         NEW gone, NEW t, Prepared(t, T, gone), Tags(t) = {}
  PROVE  PlainOutputs(LeafOutputs(t)) /\ Yields(LeafOutputs(t), T)
  <1> DEFINE value(p) == IF ByName(t.outParams, p).from = NoValue THEN NoValue ELSE {}
             kept == IF "resource" \in t.types THEN {} ELSE Names(t.outArts)
             art(a) == [ByName(t.outArts, a) EXCEPT !.loc = "archive"]
             full == [ip |-> FALSE, result |-> "script" \in t.types,
                      params |-> [p \in Names(t.outParams) |-> value(p)],
                      arts |-> [a \in kept |-> art(a)]]
  <1>1. /\ t.types = T.types /\ t.daemon = T.daemon
        /\ IsList(t.outParams) /\ IsList(t.outArts)
        /\ \A i \in DOMAIN t.outArts : IsArtifact(t.outArts[i])
        /\ DOMAIN t.outParams = DOMAIN T.outParams /\ DOMAIN t.outArts = DOMAIN T.outArts
        /\ \A i \in DOMAIN T.outParams : /\ t.outParams[i].name = T.outParams[i].name
                                         /\ Left(t.outParams[i].from, T.outParams[i].from, gone)
        /\ \A i \in DOMAIN T.outArts : t.outArts[i].name = T.outArts[i].name
    BY DEF Prepared, SameKind, OutputsLeft
  <1>2. Names(t.outParams) = Names(T.outParams) /\ Names(t.outArts) = Names(T.outArts)
    BY <1>1 DEF Names
  <1>3. ASSUME NEW p \in Names(t.outParams) PROVE value(p) = {}
    <2>1. PICK i \in DOMAIN t.outParams : ByName(t.outParams, p) = t.outParams[i]
      BY <1>1, ByNameIs
    <2>2. t.outParams[i].from # NoValue
      BY <1>1 DEF Left
    <2> QED
      BY <2>1, <2>2
  <1>4. ASSUME NEW a \in Names(t.outArts) PROVE PlainArtifact(art(a))
    <2>1. PICK i \in DOMAIN t.outArts : ByName(t.outArts, a) = t.outArts[i]
      BY <1>1, ByNameIs
    <2>2. OutputTags(t) = {}
      BY TagsAre
    <2>3. Text(t.outArts[i].from) = {}
      BY <2>2, OutputTagsAre
    <2>4. IsArtifact(t.outArts[i])
      BY <1>1
    <2>5. /\ DOMAIN art(a) = DOMAIN t.outArts[i] /\ art(a).from = t.outArts[i].from
          /\ art(a).path = t.outArts[i].path
      BY <2>1, <2>4 DEF IsArtifact
    <2> HIDE DEF art
    <2> QED
      BY <2>3, <2>4, <2>5 DEF PlainArtifact, IsArtifact
  <1>5. LeafOutputs(t) = IF t.daemon THEN [NoOutputs EXCEPT !.ip = TRUE] ELSE full
    BY DEF LeafOutputs
  <1> HIDE DEF value, art
  <1>6. CASE T.daemon
    <2>1. LeafOutputs(t) = [ip |-> TRUE, result |-> FALSE, params |-> <<>>, arts |-> <<>>]
      BY <1>1, <1>5, <1>6 DEF NoOutputs
    <2> QED
      BY <1>6, <2>1 DEF PlainOutputs, Yields
  <1>7. CASE ~T.daemon
    <2>1. LeafOutputs(t) = full
      BY <1>1, <1>5, <1>7
    <2>2. PlainOutputs(full)
      BY <1>3, <1>4 DEF PlainOutputs
    <2>3. Yields(full, T)
      BY <1>1, <1>2, <1>7 DEF Yields
    <2> QED
      BY <2>1, <2>2, <2>3
  <1> QED
    BY <1>6, <1>7

-----------------------------------------------------------------------------
(* Validation: what is in scope for the groups of a template.              *)

EntryGlobals ==
  {GlobalVarWorkflowName, GlobalVarWorkflowUID}
  \cup {WorkflowParameter(p) : p \in Names(wf.args.params)}

ExitGlobals == EntryGlobals \cup {GlobalVarWorkflowStatus}

(* The outputs of the steps before a group. *)
Provided(t, g) == UNION {addOutputsToScope(t.steps[h]) : h \in {h \in DOMAIN t.steps : h < g}}

InScope(t, known, g, tag) ==
  tag \in InputScope(t) \/ tag \in known \/ tag \in Provided(t, g) \/ tag[1] = "item"

GroupKnown(t, known, g) == \A tag \in GroupTags(t.steps[g]) : InScope(t, known, g, tag)

(* A template under way has looked at its groups up to its position. *)
ScopeOk(f, known) ==
  /\ f.group > 0
  /\ GlobalsKnown(f.tmpl, known)
  /\ \A tag \in f.scope : InScope(f.tmpl, known, f.group, tag)
  /\ "steps" \notin f.tmpl.types => f.scope \subseteq InputScope(f.tmpl) \cup known
  /\ \A g \in DOMAIN f.tmpl.steps :
       g < f.group \/ (g = f.group /\ f.step > 1) => GroupKnown(f.tmpl, known, g)

(* A template that was left has looked at all. *)
Verified(n, known) ==
  LET t == Called(n)
  IN  /\ GlobalsKnown(t, known)
      /\ "steps" \in t.types =>
           /\ \A g \in DOMAIN t.steps : GroupKnown(t, known, g)
           /\ \A tag \in OutputTags(t) : InScope(t, known, Len(t.steps) + 1, tag)
      /\ "steps" \notin t.types => Tags(t) \subseteq InputScope(t) \cup known

VerifiedAll(s, set, known) == \A n \in set : UnderWay(s, n) \/ Verified(n, known)

ScopesOk(s, known) == \A k \in DOMAIN s : ScopeOk(s[k], known)

(* The templates that the entrypoint reaches are verified without the      *)
(* workflow's status.                                                      *)
ScopesAt(early, set, s, known, at) ==
  /\ early \subseteq set
  /\ at = "entrypoint" => known = EntryGlobals /\ VerifiedAll(s, set, EntryGlobals)
  /\ at = "onExit" => known = ExitGlobals
  /\ at \in {"entrypoint", "onExit"} => ScopesOk(s, known)
  /\ at \notin {"header", "rejected"} => InputsSupplied(Called(wf.entrypoint), wf.args)
  /\ at \notin {"header", "entrypoint", "rejected"} =>
       /\ wf.entrypoint \in early
       /\ \A n \in early : Closed(n, early) /\ Verified(n, EntryGlobals)
       /\ VerifiedAll(s, set, ExitGlobals)

LEMMA ScopeGrows ==
  ASSUME NEW t, NEW known, NEW more, known \subseteq more, NEW g, NEW h,
         \A k \in DOMAIN t.steps : k < g => k < h
  PROVE  /\ Provided(t, g) \subseteq Provided(t, h)
         /\ \A tag : InScope(t, known, g, tag) => InScope(t, more, h, tag)
  <1>1. Provided(t, g) \subseteq Provided(t, h)
    BY DEF Provided
  <1> QED
    BY <1>1 DEF InScope

LEMMA VerifiedGrows ==
  ASSUME NEW n, NEW known, NEW more, known \subseteq more, Verified(n, known)
  PROVE  Verified(n, more)
  <1> DEFINE t == Called(n)
  <1>1. \A g, tag : InScope(t, known, g, tag) => InScope(t, more, g, tag)
    BY DEF InScope
  <1>2. GlobalsKnown(t, more)
    BY DEF Verified, GlobalsKnown
  <1> QED
    BY <1>1, <1>2 DEF Verified, GroupKnown

LEMMA WrittenTemplate ==
  ASSUME wf \in Workflows, NEW n \in Names(wf.templates),
         \A i, j \in DOMAIN wf.templates : wf.templates[i].name = wf.templates[j].name => i = j
  PROVE  IsTemplate(Called(n)) /\ Called(n) \in TemplateSet /\ Called(n).name = n
  <1>1. PICK i \in DOMAIN wf.templates : Called(n) = wf.templates[i]
    BY NamedTemplate
  <1>2. Called(n) \in TemplateSet
    BY <1>1 DEF TemplateSet, ToSet
  <1> QED
    BY <1>1, <1>2, NamedTemplate, WorkflowsAssumption

LEMMA PlainlyWritten ==
  ASSUME Disciplined, NEW T \in TemplateSet
  PROVE  PlainTexts(T)
  <1>1. \A i \in DOMAIN T.params : T.params[i] \in ToSet(T.params)
    BY DEF ToSet
  <1>2. \A p \in ToSet(T.params) : Text(p.value) = {} /\ \A tag \in Text(p.default) : tag[1] = "workflow"
    BY DEF Disciplined, InputsArePlain
  <1> QED
    BY <1>1, <1>2 DEF PlainTexts

LEMMA TagsKept ==
  ASSUME NEW T, IsTemplate(T), PlainTexts(T), NEW args
  PROVE  Tags(T) \subseteq Tags(WithInputs(T, args))
  <1> DEFINE w == WithInputs(T, args)
  <1>1. /\ w.body = T.body /\ w.outParams = T.outParams /\ w.outArts = T.outArts
        /\ w.arts = T.arts /\ w.steps = T.steps
        /\ w.params = [i \in DOMAIN T.params |-> WithInput(T.params[i], args)]
    BY DEF WithInputs, IsTemplate
  <1> HIDE DEF w
  <1>2. ASSUME NEW i \in DOMAIN T.params PROVE w.params[i].default = T.params[i].default
    <2>1. DOMAIN T.params[i] = {"name", "default", "value"}
      BY DEF IsTemplate
    <2> QED
      BY <1>1, <2>1 DEF WithInput
  <1>3. OutputTags(w) = OutputTags(T) /\ DOMAIN w.params = DOMAIN T.params
    BY <1>1 DEF OutputTags
  <1>4. ASSUME NEW tag \in Tags(T) PROVE tag \in Tags(w)
    <2>1. \A i \in DOMAIN T.params : Text(T.params[i].value) = {}
      BY DEF PlainTexts
    <2>2. \A i \in DOMAIN T.params : tag \in Text(T.params[i].default) => tag \in Text(w.params[i].default)
      BY <1>2
    <2>3. (\E i \in DOMAIN T.params : tag \in Text(T.params[i].default) \cup Text(T.params[i].value))
          => \E i \in DOMAIN w.params : tag \in Text(w.params[i].default) \cup Text(w.params[i].value)
      BY <1>3, <2>1, <2>2
    <2> QED
      BY <1>1, <1>3, <2>3, TagsAre
  <1> QED
    BY <1>4 DEF w

LEMMA PushTail ==
  ASSUME NEW s, IsList(s), NEW f
  PROVE  Tail(<<f>> \o s) = s
  <1>1. PICK S : s \in Seq(S) /\ f \in S
    <2>1. s \in Seq({s[i] : i \in DOMAIN s})
      BY DEF IsList
    <2>2. s \in Seq({s[i] : i \in DOMAIN s} \cup {f})
      BY <2>1
    <2> QED
      BY <2>2
  <1> QED
    BY <1>1

LEMMA CallScopes ==
  ASSUME wf \in Workflows, Disciplined, TemplatesOk(results), NEW n \in Names(wf.templates),
         NEW args, NEW known, NEW below, NEW next,
         validateTemplate(Called(n), args, known, below, next), stage' # "rejected",
         IsList(below), ScopesOk(below, known), VerifiedAll(below, results, known)
  PROVE  /\ stage' = next /\ globals' = known /\ results' = results \cup {n}
         /\ ScopesOk(stack', known) /\ VerifiedAll(stack', results', known)
         /\ n \notin results => InputsSupplied(Called(n), args)
  <1> DEFINE t == Called(n)
             f == [tmpl |-> t, scope |-> InputScope(t) \cup known, group |-> 1, step |-> 1]
  <1>1. t.name = n /\ IsTemplate(t) /\ t \in TemplateSet
    BY WrittenTemplate DEF TemplatesOk
  <1>2. CASE n \in results
    <2>1. /\ stack' = below /\ stage' = next /\ results' = results /\ results \cup {n} = results
          /\ globals' = known
      BY <1>1, <1>2 DEF validateTemplate
    <2> QED
      BY <1>2, <2>1
  <1>3. CASE n \notin results
    <2>1. /\ results' = results \cup {n} /\ stack' = <<f>> \o below /\ stage' = next
          /\ globals' = known /\ CanProcess(t, args, [tag \in known |-> {}])
      BY <1>1, <1>3 DEF validateTemplate, Reject, Marked
    <2>2. InputsSupplied(t, args)
      BY <2>1 DEF CanProcess
    <2>3. GlobalsKnown(t, known)
      <3>1. Tags(t) \subseteq Tags(WithInputs(t, args))
        BY <1>1, PlainlyWritten, TagsKept
      <3> QED
        BY <2>1, <3>1 DEF CanProcess, GlobalsResolved, GlobalsKnown
    <2>4. IsList(t.steps)
      BY <1>1 DEF IsTemplate
    <2> HIDE DEF t
    <2>5. f.tmpl = t /\ f.scope = InputScope(t) \cup known /\ f.group = 1 /\ f.step = 1
      OBVIOUS
    <2> HIDE DEF f
    <2>6. ScopeOk(f, known)
      <3>1. \A g \in DOMAIN t.steps : g \in Nat \ {0}
        BY <2>4, ListLength
      <3>2. \A g \in DOMAIN t.steps : ~(g < f.group \/ (g = f.group /\ f.step > 1))
        BY <2>5, <3>1
      <3> QED
        BY <2>3, <2>5, <3>2 DEF ScopeOk, InScope
    <2>7. \A k \in DOMAIN stack' : stack'[k] = f \/ (k - 1 \in DOMAIN below /\ stack'[k] = below[k - 1])
      BY <2>1, ListPush
    <2>8. ScopesOk(stack', known)
      BY <2>6, <2>7 DEF ScopesOk
    <2>9. \A k \in DOMAIN below : k + 1 \in DOMAIN stack' /\ stack'[k + 1] = below[k]
      <3>1. /\ IsList(stack') /\ stack' # <<>> /\ Tail(stack') = below
        BY <2>1, ListPush, PushTail
      <3> QED
        BY <3>1, ListTail
    <2>10. 1 \in DOMAIN stack' /\ stack'[1] = f
      BY <2>1, ListPush, ListTail
    <2>11. VerifiedAll(stack', results', known)
      <3> SUFFICES ASSUME NEW m \in results' PROVE UnderWay(stack', m) \/ Verified(m, known)
        BY DEF VerifiedAll
      <3>1. CASE m = n
        BY <2>5, <2>10, <3>1 DEF UnderWay, t
      <3>2. CASE m # n
        <4>1. UnderWay(below, m) \/ Verified(m, known)
          BY <2>1, <3>2 DEF VerifiedAll
        <4> QED
          BY <2>9, <4>1 DEF UnderWay
      <3> QED
        BY <3>1, <3>2
    <2> QED
      BY <2>1, <2>2, <2>8, <2>11 DEF t
  <1> QED
    BY <1>2, <1>3

LEMMA ScopesEntrypoint ==
  ASSUME Walk, Disciplined, ValidateEntrypoint, stage' # "rejected"
  PROVE  ScopesAt({}, results', stack', globals', stage')
  <1>1. /\ wf \in Workflows /\ results = {} /\ wf.entrypoint \in Names(wf.templates)
        /\ validateWorkflowFieldNames(wf.templates)
    BY DEF Walk, WalkAt, ValidateEntrypoint, Reject
  <1>2. validateTemplate(Called(wf.entrypoint), wf.args, EntryGlobals, <<>>, "entrypoint")
    BY <1>1 DEF ValidateEntrypoint, Reject, Called, EntryGlobals
  <1>3. TemplatesOk(results)
    BY <1>1 DEF TemplatesOk, validateWorkflowFieldNames
  <1>4. IsList(<<>>) /\ ScopesOk(<<>>, EntryGlobals) /\ VerifiedAll(<<>>, results, EntryGlobals)
    BY <1>1, ListNone DEF ScopesOk, VerifiedAll
  <1>5. /\ stage' = "entrypoint" /\ globals' = EntryGlobals
        /\ ScopesOk(stack', EntryGlobals) /\ VerifiedAll(stack', results', EntryGlobals)
        /\ InputsSupplied(Called(wf.entrypoint), wf.args)
    BY <1>1, <1>2, <1>3, <1>4, CallScopes
  <1> QED
    BY <1>5 DEF ScopesAt

LEMMA ScopesOnExit ==
  ASSUME Walk, Disciplined, NEW early, ScopesAt(early, results, stack, globals, stage),
         ValidateOnExit, stage' # "rejected"
  PROVE  ScopesAt(results, results', stack', globals', stage')
  <1>1. /\ wf \in Workflows /\ stack = <<>> /\ stage = "entrypoint" /\ TemplatesOk(results)
        /\ RootsOk(results, "entrypoint") /\ Settled(<<>>, results)
    BY DEF Walk, WalkAt, ValidateOnExit
  <1>2. /\ globals = EntryGlobals /\ VerifiedAll(<<>>, results, EntryGlobals)
        /\ InputsSupplied(Called(wf.entrypoint), wf.args)
    BY <1>1 DEF ScopesAt
  <1>3. \A n \in results : Closed(n, results) /\ Verified(n, EntryGlobals) /\ Verified(n, ExitGlobals)
    <2>1. \A n \in results : Closed(n, results) /\ Verified(n, EntryGlobals)
      BY <1>1, <1>2, EmptyFrames DEF Settled, VerifiedAll
    <2> QED
      BY <2>1, VerifiedGrows DEF ExitGlobals
  <1>4. wf.entrypoint \in results
    BY <1>1 DEF RootsOk
  <1>5. CASE wf.onExit = NoValue
    <2>1. stage' = "accepted" /\ results' = results /\ stack' = <<>>
      BY <1>1, <1>5 DEF ValidateOnExit
    <2> QED
      BY <1>2, <1>3, <1>4, <2>1 DEF ScopesAt, VerifiedAll
  <1>6. CASE wf.onExit # NoValue
    <2>1. wf.onExit \in Names(wf.templates)
      BY <1>6 DEF ValidateOnExit, Reject
    <2>2. validateTemplate(Called(wf.onExit), wf.args, ExitGlobals, <<>>, "onExit")
      BY <1>2, <1>6, <2>1 DEF ValidateOnExit, Called, ExitGlobals
    <2>3. IsList(<<>>) /\ ScopesOk(<<>>, ExitGlobals) /\ VerifiedAll(<<>>, results, ExitGlobals)
      BY <1>3, ListNone DEF ScopesOk, VerifiedAll
    <2>4. /\ stage' = "onExit" /\ globals' = ExitGlobals /\ results \subseteq results'
          /\ ScopesOk(stack', ExitGlobals) /\ VerifiedAll(stack', results', ExitGlobals)
      BY <1>1, <2>1, <2>2, <2>3, CallScopes
    <2> QED
      BY <1>2, <1>3, <1>4, <2>4 DEF ScopesAt
  <1> QED
    BY <1>5, <1>6

LEMMA ScopesAccept ==
  ASSUME NEW early, ScopesAt(early, results, stack, globals, stage), Accept
  PROVE  ScopesAt(early, results', stack', globals', stage')
  BY DEF Accept, ScopesAt

(* The walk within the entrypoint or the exit handler. *)
LEMMA ScopesMove ==
  ASSUME NEW early, ScopesAt(early, results, stack, globals, stage),
         stage \in {"entrypoint", "onExit"}, stage' = stage, globals' = globals,
         results \subseteq results',
         ScopesOk(stack', globals), VerifiedAll(stack', results', globals)
  PROVE  ScopesAt(early, results', stack', globals', stage')
  BY DEF ScopesAt

LEMMA FrameTemplate ==
  ASSUME wf \in Workflows, TemplatesOk(results), Frames(stack, results), stack # <<>>
  PROVE  LET f == Head(stack)
         IN  /\ IsTemplate(f.tmpl) /\ f.tmpl \in TemplateSet
             /\ f.group \in Nat /\ f.step \in Nat /\ DOMAIN f = {"tmpl", "scope", "group", "step"}
             /\ IsList(stack)
  <1>1. FrameOk(Head(stack), results)
    BY Pop
  <1>2. PICK n \in results : Head(stack).tmpl = Called(n)
    BY <1>1 DEF FrameOk
  <1>3. IsTemplate(Called(n)) /\ Called(n) \in TemplateSet
    BY WrittenTemplate DEF TemplatesOk
  <1> QED
    BY <1>1, <1>2, <1>3 DEF FrameOk, Frames, IsList

(* Tags of globals and of inputs are no items. *)
LEMMA NoItems ==
  ASSUME NEW known, known \in {EntryGlobals, ExitGlobals}, NEW t
  PROVE  anyItemMagicValue \notin InputScope(t) \cup known
  <1>1. \A tag \in known : tag[1] = "workflow"
    BY DEF EntryGlobals, ExitGlobals, GlobalVarWorkflowName, GlobalVarWorkflowUID,
           GlobalVarWorkflowStatus, WorkflowParameter
  <1>2. \A tag \in InputScope(t) : tag[1] = "inputs"
    BY DEF InputScope, InputParameter, InputArtifact
  <1>3. anyItemMagicValue[1] = "item"
    BY DEF anyItemMagicValue, ItemKey
  <1> QED
    BY <1>1, <1>2, <1>3

LEMMA ScopesReturn ==
  ASSUME Walk, NEW early, ScopesAt(early, results, stack, globals, stage),
         ReturnFromTemplate, stage \in {"entrypoint", "onExit"}, stage' # "rejected"
  PROVE  ScopesAt(early, results', stack', globals', stage')
  <1> DEFINE f == Head(stack)
             t == f.tmpl
  <1>1. /\ wf \in Workflows /\ stack # <<>> /\ TemplatesOk(results) /\ Frames(stack, results)
    BY DEF Walk, WalkAt, ReturnFromTemplate
  <1>2. /\ ScopesOk(stack, globals) /\ VerifiedAll(stack, results, globals)
        /\ globals \in {EntryGlobals, ExitGlobals}
    BY DEF ScopesAt
  <1>3. /\ stack' = Tail(stack) /\ results' = results /\ stage' = stage /\ globals' = globals
        /\ "steps" \in t.types => f.group > Len(t.steps)
        /\ "steps" \notin t.types => validateLeaf(f.scope, t)
        /\ validateOutputs(f.scope, t)
    BY DEF ReturnFromTemplate, Reject
  <1>4. \A n : UnderWay(stack, n) => t = Called(n) \/ UnderWay(Tail(stack), n)
    BY <1>1, Pop
  <1>5. IsTemplate(t) /\ f.group \in Nat /\ IsList(stack)
    BY <1>1, FrameTemplate
  <1>6. ScopeOk(f, globals) /\ ScopesOk(Tail(stack), globals)
    BY <1>1, <1>2, <1>5, ListTail DEF ScopesOk
  <1> HIDE DEF f
  <1>7. ASSUME NEW n, t = Called(n) PROVE Verified(n, globals)
    <2>1. GlobalsKnown(t, globals)
      BY <1>6 DEF ScopeOk
    <2>2. ASSUME "steps" \in t.types
          PROVE  /\ \A g \in DOMAIN t.steps : GroupKnown(t, globals, g)
                 /\ \A tag \in OutputTags(t) : InScope(t, globals, Len(t.steps) + 1, tag)
      <3>1. \A g \in DOMAIN t.steps : g < f.group /\ g < Len(t.steps) + 1
        <4>1. DOMAIN t.steps = 1 .. Len(t.steps) /\ Len(t.steps) \in Nat /\ f.group > Len(t.steps)
          BY <1>3, <1>5, <2>2, ListLength DEF IsTemplate
        <4> QED
          BY <1>5, <4>1
      <3>2. \A g \in DOMAIN t.steps : GroupKnown(t, globals, g)
        BY <1>6, <3>1 DEF ScopeOk
      <3>3. ASSUME NEW tag \in OutputTags(t) PROVE InScope(t, globals, Len(t.steps) + 1, tag)
        <4>1. InScope(t, globals, f.group, tag)
          BY <1>3, <1>6 DEF validateOutputs, resolveAllVariables, ScopeOk, InScope
        <4> QED
          BY <3>1, <4>1, ScopeGrows
      <3> QED
        BY <3>2, <3>3
    <2>3. ASSUME "steps" \notin t.types PROVE Tags(t) \subseteq InputScope(t) \cup globals
      <3>1. f.scope \subseteq InputScope(t) \cup globals
        BY <1>6, <2>3 DEF ScopeOk
      <3>2. anyItemMagicValue \notin f.scope
        BY <1>2, <3>1, NoItems
      <3> QED
        BY <1>3, <2>3, <3>1, <3>2 DEF validateLeaf, resolveAllVariables
    <2> QED
      BY <1>7, <2>1, <2>2, <2>3 DEF Verified
  <1>8. VerifiedAll(Tail(stack), results, globals)
    BY <1>2, <1>4, <1>7 DEF VerifiedAll
  <1> QED
    BY <1>3, <1>6, <1>8, ScopesMove

LEMMA ItemsAdded ==
  ASSUME NEW step, NEW tag \in addItemsToScope(step)
  PROVE  tag[1] = "item"
  <1>1. ItemTag[1] = "item" /\ anyItemMagicValue[1] = "item" /\ \A k : ItemKey(k)[1] = "item"
    BY DEF ItemTag, ItemKey, anyItemMagicValue
  <1>2. CASE step.items # <<>>
    <2> DEFINE added(i) == IF step.items[i].type = "scalar" THEN {ItemTag}
                           ELSE {ItemKey(k) : k \in step.items[i].keys}
    <2>1. tag \in UNION {added(i) : i \in DOMAIN step.items}
      BY <1>2 DEF addItemsToScope
    <2>2. PICK i \in DOMAIN step.items : tag \in added(i)
      BY <2>1
    <2> QED
      BY <1>1, <2>2
  <1>3. CASE step.items = <<>>
    BY <1>1, <1>3 DEF addItemsToScope
  <1> QED
    BY <1>2, <1>3

LEMMA ScopesStep ==
  ASSUME Walk, Disciplined, NEW early, ScopesAt(early, results, stack, globals, stage),
         ValidateStep, stage \in {"entrypoint", "onExit"}, stage' # "rejected"
  PROVE  ScopesAt(early, results', stack', globals', stage')
  <1> DEFINE f == Head(stack)
             t == f.tmpl
             group == t.steps[f.group]
             step == group[f.step]
             g == WithItems(f, step)
             next == NextStep(g)
             below == <<next>> \o Tail(stack)
  <1>1. /\ wf \in Workflows /\ stack # <<>> /\ TemplatesOk(results) /\ Frames(stack, results)
    BY DEF Walk, WalkAt, ValidateStep
  <1>2. ScopesOk(stack, globals) /\ VerifiedAll(stack, results, globals)
    BY DEF ScopesAt
  <1>3. /\ StepOk(g, group, step) /\ "steps" \in t.types
        /\ validateTemplate(Called(step.template), step.args, globals, below, stage)
    BY DEF ValidateStep, Reject, Called
  <1>4. \A n : UnderWay(stack, n) => t = Called(n) \/ UnderWay(Tail(stack), n)
    BY <1>1, Pop
  <1>5. /\ IsTemplate(t) /\ f.group \in Nat /\ f.step \in Nat /\ IsList(stack)
        /\ DOMAIN f = {"tmpl", "scope", "group", "step"}
    BY <1>1, FrameTemplate
  <1>6. ScopeOk(f, globals) /\ ScopesOk(Tail(stack), globals) /\ IsList(Tail(stack))
    BY <1>1, <1>2, <1>5, ListTail DEF ScopesOk
  <1>7. step.template \in Names(wf.templates)
    BY <1>3 DEF StepOk
  <1> HIDE DEF f
  <1>8. /\ g.scope = f.scope \cup addItemsToScope(step)
        /\ next.tmpl = t /\ next.group = f.group /\ next.step = f.step + 1 /\ next.scope = g.scope
    BY <1>5 DEF WithItems, NextStep
  <1> HIDE DEF g, next, below
  <1>9. \A tag \in g.scope : InScope(t, globals, f.group, tag)
    <2>1. \A tag \in f.scope : InScope(t, globals, f.group, tag)
      BY <1>6 DEF ScopeOk
    <2> HIDE DEF step
    <2>2. \A tag \in addItemsToScope(step) : InScope(t, globals, f.group, tag)
      BY ItemsAdded DEF InScope
    <2> QED
      BY <1>8, <2>1, <2>2
  <1>10. GroupKnown(t, globals, f.group)
    <2>1. \A tag \in GroupTags(group) : tag \in g.scope \/ tag[1] = "item"
      BY <1>3 DEF StepOk, resolveAllVariables
    <2> QED
      BY <1>9, <2>1 DEF GroupKnown, InScope
  <1>11. ScopeOk(next, globals)
    BY <1>3, <1>6, <1>8, <1>9, <1>10 DEF ScopeOk
  <1>12. /\ IsList(below) /\ ScopesOk(below, globals)
         /\ \A k \in DOMAIN Tail(stack) : k + 1 \in DOMAIN below /\ below[k + 1] = Tail(stack)[k]
         /\ 1 \in DOMAIN below /\ below[1] = next
    <2>1. /\ IsList(below) /\ below # <<>> /\ Head(below) = next
          /\ \A k \in DOMAIN below :
               (k = 1 /\ below[k] = next) \/ (k # 1 /\ k - 1 \in DOMAIN Tail(stack) /\ below[k] = Tail(stack)[k - 1])
      BY <1>6, ListPush DEF below
    <2>2. Tail(below) = Tail(stack)
      BY <1>6, PushTail DEF below
    <2> QED
      BY <1>6, <1>11, <2>1, <2>2, ListTail DEF ScopesOk
  <1>13. VerifiedAll(below, results, globals)
    <2> SUFFICES ASSUME NEW n \in results PROVE UnderWay(below, n) \/ Verified(n, globals)
      BY DEF VerifiedAll
    <2>1. t = Called(n) => UnderWay(below, n)
      BY <1>8, <1>12 DEF UnderWay
    <2>2. UnderWay(Tail(stack), n) => UnderWay(below, n)
      BY <1>12 DEF UnderWay
    <2> QED
      BY <1>2, <1>4, <2>1, <2>2 DEF VerifiedAll
  <1>14. /\ stage' = stage /\ globals' = globals /\ results' = results \cup {step.template}
         /\ ScopesOk(stack', globals) /\ VerifiedAll(stack', results', globals)
    <2> HIDE DEF step
    <2> QED
      BY <1>1, <1>3, <1>7, <1>12, <1>13, CallScopes
  <1> QED
    BY <1>14, ScopesMove

(* A group whose steps were all looked at is known, an empty one anyway.   *)
LEMMA ScopesNextGroup ==
  ASSUME Walk, NEW early, ScopesAt(early, results, stack, globals, stage),
         ValidateNextGroup, stage \in {"entrypoint", "onExit"}
  PROVE  ScopesAt(early, results', stack', globals', stage')
  <1> DEFINE f == Head(stack)
             t == f.tmpl
             next == [f EXCEPT !.group = @ + 1, !.step = 1,
                               !.scope = @ \cup addOutputsToScope(t.steps[f.group])]
  <1>1. /\ wf \in Workflows /\ stack # <<>> /\ TemplatesOk(results) /\ Frames(stack, results)
    BY DEF Walk, WalkAt, ValidateNextGroup
  <1>2. ScopesOk(stack, globals) /\ VerifiedAll(stack, results, globals)
    BY DEF ScopesAt
  <1>3. /\ stack' = <<next>> \o Tail(stack) /\ results' = results /\ stage' = stage
        /\ globals' = globals
        /\ "steps" \in t.types /\ f.group <= Len(t.steps) /\ f.step > Len(t.steps[f.group])
    BY DEF ValidateNextGroup
  <1>4. \A n : UnderWay(stack, n) => t = Called(n) \/ UnderWay(Tail(stack), n)
    BY <1>1, Pop
  <1>5. /\ IsTemplate(t) /\ f.group \in Nat /\ f.step \in Nat /\ IsList(stack)
        /\ DOMAIN f = {"tmpl", "scope", "group", "step"}
    BY <1>1, FrameTemplate
  <1>6. ScopeOk(f, globals) /\ ScopesOk(Tail(stack), globals) /\ IsList(Tail(stack))
    BY <1>1, <1>2, <1>5, ListTail DEF ScopesOk
  <1> HIDE DEF f
  <1>7. /\ next.scope = f.scope \cup addOutputsToScope(t.steps[f.group])
        /\ next.tmpl = t /\ next.group = f.group + 1 /\ next.step = 1
    BY <1>5
  <1> HIDE DEF next
  <1>8. \A g \in DOMAIN t.steps : g \in Nat /\ IsList(t.steps[g])
    BY <1>5, ListLength DEF IsTemplate
  <1>9. \A tag \in next.scope : InScope(t, globals, f.group + 1, tag)
    <2>1. ASSUME NEW tag \in f.scope PROVE InScope(t, globals, f.group + 1, tag)
      <3>1. InScope(t, globals, f.group, tag)
        BY <1>6 DEF ScopeOk
      <3>2. \A k \in DOMAIN t.steps : k < f.group => k < f.group + 1
        BY <1>5, <1>8
      <3> QED
        BY <3>1, <3>2, ScopeGrows
    <2>2. ASSUME NEW tag \in addOutputsToScope(t.steps[f.group])
          PROVE  InScope(t, globals, f.group + 1, tag)
      <3>1. CASE f.group \in DOMAIN t.steps
        <4>1. f.group < f.group + 1
          BY <1>5
        <4>2. tag \in Provided(t, f.group + 1)
          BY <2>2, <3>1, <4>1 DEF Provided
        <4> QED
          BY <4>2 DEF InScope
      <3>2. f.group \in DOMAIN t.steps
        <4>1. DOMAIN t.steps = 1 .. Len(t.steps) /\ Len(t.steps) \in Nat
          BY <1>5, ListLength DEF IsTemplate
        <4> QED
          BY <1>3, <1>5, <1>6, <4>1 DEF ScopeOk
      <3> QED
        BY <3>1, <3>2
    <2> QED
      BY <1>7, <2>1, <2>2
  <1>10. ASSUME NEW g \in DOMAIN t.steps, g < f.group + 1 PROVE GroupKnown(t, globals, g)
    <2>1. CASE g < f.group
      BY <1>6, <2>1 DEF ScopeOk
    <2>2. CASE g = f.group /\ f.step > 1
      BY <1>6, <2>2 DEF ScopeOk
    <2>3. CASE g = f.group /\ ~(f.step > 1)
      <3>1. DOMAIN t.steps[g] = {}
        <4>1. DOMAIN t.steps[g] = 1 .. Len(t.steps[g]) /\ Len(t.steps[g]) \in Nat
          BY <1>8, ListLength
        <4>2. Len(t.steps[g]) < 1
          BY <1>3, <1>5, <2>3, <4>1
        <4> QED
          BY <4>1, <4>2
      <3>2. GroupTags(t.steps[g]) = {}
        BY <3>1 DEF GroupTags
      <3> QED
        BY <3>2 DEF GroupKnown
    <2> QED
      BY <1>5, <1>8, <1>10, <2>1, <2>2, <2>3
  <1>11. ScopeOk(next, globals)
    <2>1. \A g \in DOMAIN t.steps :
            g < next.group \/ (g = next.group /\ next.step > 1) => GroupKnown(t, globals, g)
      BY <1>7, <1>10
    <2>2. GlobalsKnown(t, globals) /\ next.group > 0
      BY <1>5, <1>6, <1>7 DEF ScopeOk
    <2> QED
      BY <1>3, <1>7, <1>9, <2>1, <2>2 DEF ScopeOk
  <1>12. /\ ScopesOk(stack', globals)
         /\ \A k \in DOMAIN Tail(stack) : k + 1 \in DOMAIN stack' /\ stack'[k + 1] = Tail(stack)[k]
         /\ 1 \in DOMAIN stack' /\ stack'[1] = next
    <2>1. /\ IsList(stack') /\ stack' # <<>> /\ Head(stack') = next
          /\ \A k \in DOMAIN stack' :
               (k = 1 /\ stack'[k] = next) \/ (k # 1 /\ k - 1 \in DOMAIN Tail(stack) /\ stack'[k] = Tail(stack)[k - 1])
      BY <1>3, <1>6, ListPush
    <2>2. Tail(stack') = Tail(stack)
      BY <1>3, <1>6, PushTail
    <2> QED
      BY <1>6, <1>11, <2>1, <2>2, ListTail DEF ScopesOk
  <1>13. VerifiedAll(stack', results, globals)
    <2> SUFFICES ASSUME NEW n \in results PROVE UnderWay(stack', n) \/ Verified(n, globals)
      BY DEF VerifiedAll
    <2>1. t = Called(n) => UnderWay(stack', n)
      BY <1>7, <1>12 DEF UnderWay
    <2>2. UnderWay(Tail(stack), n) => UnderWay(stack', n)
      BY <1>12 DEF UnderWay
    <2> QED
      BY <1>2, <1>4, <2>1, <2>2 DEF VerifiedAll
  <1> QED
    BY <1>3, <1>12, <1>13, ScopesMove

LEMMA ScopesValidate ==
  ASSUME Walk, Disciplined, Validate, stage' # "rejected",
         NEW early, ScopesAt(early, results, stack, globals, stage)
  PROVE  \E e : ScopesAt(e, results', stack', globals', stage')
  <1>1. stage \in {"header", "entrypoint", "onExit"}
    BY DEF Validate
  <1>2. stage = "header" => ~ReturnFromTemplate /\ ~ValidateStep /\ ~ValidateNextGroup
    BY DEF Walk, WalkAt, ReturnFromTemplate, ValidateStep, ValidateNextGroup
  <1> QED
    BY <1>1, <1>2, ScopesEntrypoint, ScopesOnExit, ScopesAccept, ScopesReturn, ScopesStep,
       ScopesNextGroup DEF Validate

-----------------------------------------------------------------------------
(* What a workflow must look after itself. *)

LEMMA DisciplinedStep ==
  ASSUME Disciplined, NEW T \in TemplateSet, NEW g \in DOMAIN T.steps, NEW i \in DOMAIN T.steps[g]
  PROVE  LET s == T.steps[g][i]
         IN  /\ s.withParam = NoValue
             /\ \A tag \in StepTags(s) : tag[1] = "item" =>
                  IsExpanded(s) /\ \A k \in DOMAIN s.items : tag \in DOMAIN ItemMap(s.items[k])
             /\ \A tag \in Text(s.when) : ~IsArtifactTag(tag)
             /\ \A k \in DOMAIN s.args.params : \A tag \in Text(s.args.params[k].value) : ~IsArtifactTag(tag)
             /\ \A k \in DOMAIN s.args.arts : s.args.arts[k].from # NoValue =>
                  IsReference(s.args.arts[k].from) /\ IsArtifactTag(TagOf(s.args.arts[k].from))
             /\ \A tag \in Tags(T) : tag[1] = "steps" /\ tag[2] = s.name => HasOutput(s, tag)
             /\ s.template \in Names(wf.templates) => InputsSupplied(Called(s.template), s.args)
  <1> DEFINE s == T.steps[g][i]
  <1>1. s \in StepsOf(T)
    <2>1. s \in ToSet(T.steps[g])
      BY DEF ToSet
    <2> QED
      BY <2>1 DEF StepsOf
  <1>2. \A k \in DOMAIN s.args.params : s.args.params[k] \in ToSet(s.args.params)
    BY DEF ToSet
  <1>3. \A k \in DOMAIN s.args.arts : s.args.arts[k] \in ToSet(s.args.arts)
    BY DEF ToSet
  <1> HIDE DEF s
  <1>4. /\ s.withParam = NoValue
        /\ \A tag \in StepTags(s) : tag[1] = "item" =>
             IsExpanded(s) /\ \A k \in DOMAIN s.items : tag \in DOMAIN ItemMap(s.items[k])
    BY <1>1 DEF Disciplined, ItemsAreThere
  <1>5. \A tag \in Tags(T) : tag[1] = "steps" /\ tag[2] = s.name => HasOutput(s, tag)
    BY <1>1 DEF Disciplined, OutputsAreThere
  <1>6. s.template \in Names(wf.templates) => InputsSupplied(Called(s.template), s.args)
    BY <1>1 DEF Disciplined, EveryCallSupplies, Called
  <1>7. /\ \A tag \in Text(s.when) \cup Text(s.withParam)
                     \cup (UNION {Text(p.value) : p \in ToSet(s.args.params)}) : ~IsArtifactTag(tag)
        /\ \A art \in ToSet(s.args.arts) :
              art.from # NoValue => IsReference(art.from) /\ IsArtifactTag(TagOf(art.from))
    BY <1>1 DEF Disciplined, KindsAgree
  <1>8. ASSUME NEW k \in DOMAIN s.args.params, NEW tag \in Text(s.args.params[k].value)
        PROVE  ~IsArtifactTag(tag)
    <2>1. tag \in UNION {Text(p.value) : p \in ToSet(s.args.params)}
      BY <1>2, <1>8
    <2> QED
      BY <1>7, <2>1
  <1> QED
    BY <1>3, <1>4, <1>5, <1>6, <1>7, <1>8 DEF s

LEMMA DisciplinedLeaf ==
  ASSUME Disciplined, NEW T \in TemplateSet, "steps" \notin T.types
  PROVE  /\ PodFits(T) /\ \A tag \in Tags(T) : ~IsArtifactTag(tag)
         /\ \A i \in DOMAIN T.outParams : T.outParams[i].from # NoValue
  <1>1. /\ VolumesFound(wf, T) /\ ArchiveKnown(T)
        /\ \A art \in ToSet(T.arts) : art.path # NoValue
        /\ PodAccepted(createWorkflowPod(T))
    BY DEF Disciplined, PodsFit
  <1>2. \A i \in DOMAIN T.arts : T.arts[i] \in ToSet(T.arts)
    BY DEF ToSet
  <1>3. PodFits(T)
    BY <1>1, <1>2 DEF PodFits
  <1>4. \A i \in DOMAIN T.outParams : T.outParams[i] \in ToSet(T.outParams)
    BY DEF ToSet
  <1>5. \A p \in ToSet(T.outParams) : p.from # NoValue
    BY DEF Disciplined, OutputsHaveSources
  <1>6. \A tag \in Tags(T) : ~IsArtifactTag(tag)
    BY DEF Disciplined, KindsAgree
  <1> QED
    BY <1>3, <1>4, <1>5, <1>6

LEMMA DisciplinedSteps ==
  ASSUME Disciplined, NEW T \in TemplateSet, "steps" \in T.types
  PROVE  /\ T.steps # <<>>
         /\ \A i \in DOMAIN T.outParams :
              LET from == T.outParams[i].from
              IN  from # NoValue /\ from = {TagOf(from)} /\ ~IsArtifactTag(TagOf(from)) /\ TagOf(from)[1] = "steps"
         /\ \A i \in DOMAIN T.outArts :
              LET from == T.outArts[i].from
              IN  from # NoValue /\ from = {TagOf(from)} /\ IsArtifactTag(TagOf(from))
  <1>1. T.steps # <<>>
    BY DEF Disciplined, PodsFit
  <1>2. \A v : IsReference(Text(v)) => v # NoValue /\ v = {TagOf(v)}
    BY DEF IsReference, Text, TagOf
  <1>3. /\ \A i \in DOMAIN T.outParams : T.outParams[i] \in ToSet(T.outParams)
        /\ \A i \in DOMAIN T.outArts : T.outArts[i] \in ToSet(T.outArts)
    BY DEF ToSet
  <1>4. /\ \A p \in ToSet(T.outParams) :
             IsReference(Text(p.from)) /\ ~IsArtifactTag(TagOf(p.from)) /\ TagOf(p.from)[1] = "steps"
        /\ \A art \in ToSet(T.outArts) : IsReference(Text(art.from)) /\ IsArtifactTag(TagOf(art.from))
    BY DEF Disciplined, KindsAgree
  <1> QED
    BY <1>1, <1>2, <1>3, <1>4

LEMMA GlobalsPlain ==
  ASSUME wf \in Workflows, Disciplined, NEW known, known \in {EntryGlobals, ExitGlobals}
  PROVE  Erases(GlobalTexts(known)) /\ DOMAIN GlobalTexts(known) = known
  <1>1. DOMAIN GlobalTexts(known) = known
    BY DEF GlobalTexts
  <1>2. ASSUME NEW tag \in known PROVE GlobalTexts(known)[tag] = {}
    <2>1. CASE tag \in {GlobalVarWorkflowName, GlobalVarWorkflowUID, GlobalVarWorkflowStatus}
      <3>1. tag[2] # "parameters"
        BY <2>1 DEF GlobalVarWorkflowName, GlobalVarWorkflowUID, GlobalVarWorkflowStatus
      <3> QED
        BY <3>1 DEF GlobalTexts
    <2>2. ASSUME NEW p \in Names(wf.args.params), tag = WorkflowParameter(p)
          PROVE  GlobalTexts(known)[tag] = {}
      <3>1. tag[2] = "parameters" /\ tag[3] = p
        BY <2>2 DEF WorkflowParameter
      <3>2. IsList(wf.args.params)
        BY WorkflowsAssumption DEF IsArguments
      <3>3. ByName(wf.args.params, p).value = {}
        BY <3>2, ByNameIs DEF Disciplined, ArgumentsArePlain
      <3> QED
        BY <3>1, <3>3 DEF GlobalTexts
    <2> QED
      BY <2>1, <2>2 DEF EntryGlobals, ExitGlobals
  <1> QED
    BY <1>1, <1>2 DEF Erases

-----------------------------------------------------------------------------
(* Tags by their kind. *)

LEMMA KnownTag ==
  ASSUME NEW known, known \in {EntryGlobals, ExitGlobals}, NEW tag \in known
  PROVE  tag[1] = "workflow" /\ ~IsArtifactTag(tag)
  <1>1. tag[1] = "workflow"
    BY DEF EntryGlobals, ExitGlobals, GlobalVarWorkflowName, GlobalVarWorkflowUID,
           GlobalVarWorkflowStatus, WorkflowParameter
  <1> QED
    BY <1>1 DEF IsArtifactTag

LEMMA GoneTag ==
  ASSUME NEW T, NEW known, known \in {EntryGlobals, ExitGlobals}, NEW tag \in Gone(T, known)
  PROVE  tag[1] \in {"workflow", "inputs"} /\ ~IsArtifactTag(tag)
  <1>1. CASE tag \in known
    BY <1>1, KnownTag
  <1>2. CASE tag \notin known
    <2>1. PICK p : tag = InputParameter(p)
      BY <1>2 DEF Gone
    <2>2. tag[1] = "inputs" /\ tag[2] = "parameters"
      BY <2>1 DEF InputParameter
    <2> QED
      BY <2>2 DEF IsArtifactTag
  <1> QED
    BY <1>1, <1>2

LEMMA InputTag ==
  ASSUME NEW T, NEW tag \in InputScope(T)
  PROVE  \/ tag \in {InputParameter(p) : p \in Names(T.params)} /\ tag[1] = "inputs" /\ ~IsArtifactTag(tag)
         \/ tag[1] = "inputs" /\ IsArtifactTag(tag) /\ Len(tag) = 3 /\ tag[3] \in Names(T.arts)
  <1>1. CASE \E p \in Names(T.params) : tag = InputParameter(p)
    BY <1>1 DEF InputParameter, IsArtifactTag
  <1>2. CASE \E a \in Names(T.arts) : tag = InputArtifact(a)
    BY <1>2 DEF InputArtifact, IsArtifactTag
  <1> QED
    BY <1>1, <1>2 DEF InputScope

LEMMA OutputOf ==
  ASSUME NEW T, NEW name, NEW tag \in OutputScope(T, name)
  PROVE  tag[1] = "steps" /\ tag[2] = name
  <1>1. \/ tag = StepIP(name) \/ tag = StepResult(name)
        \/ \E p : tag = StepParameter(name, p) \/ tag = StepArtifact(name, p)
    BY DEF OutputScope
  <1> QED
    BY <1>1 DEF StepIP, StepResult, StepParameter, StepArtifact

OutputKind(T, name, tag) ==
  \/ tag = StepIP(name) /\ T.daemon = TRUE /\ ~IsArtifactTag(tag)
  \/ tag = StepResult(name) /\ "script" \in T.types /\ tag # StepIP(name) /\ ~IsArtifactTag(tag)
  \/ \E p \in Names(T.outParams) :
       tag = StepParameter(name, p) /\ tag # StepIP(name) /\ ~IsArtifactTag(tag)
  \/ \E a \in Names(T.outArts) :
       tag = StepArtifact(name, a) /\ tag # StepIP(name) /\ IsArtifactTag(tag)

LEMMA OutputTag ==
  ASSUME NEW T, NEW name, NEW tag \in OutputScope(T, name)
  PROVE  OutputKind(T, name, tag)
  <1>1. CASE tag = StepIP(name) /\ T.daemon = TRUE
    BY <1>1 DEF StepIP, IsArtifactTag, OutputKind
  <1>2. CASE tag = StepResult(name) /\ "script" \in T.types
    <2>1. Len(tag) = 4 /\ Len(StepIP(name)) = 3
      BY <1>2 DEF StepResult, StepIP
    <2>2. tag[1] = "steps" /\ tag[2] = name
      BY <1>2 DEF StepResult
    <2> QED
      BY <1>2, <2>1, <2>2 DEF IsArtifactTag, OutputKind
  <1>3. CASE \E p \in Names(T.outParams) : tag = StepParameter(name, p)
    <2>1. Len(tag) = 5 /\ Len(StepIP(name)) = 3 /\ tag[1] = "steps" /\ tag[2] = name /\ tag[4] = "parameters"
      BY <1>3 DEF StepParameter, StepIP
    <2> QED
      BY <1>3, <2>1 DEF IsArtifactTag, OutputKind
  <1>4. CASE \E a \in Names(T.outArts) : tag = StepArtifact(name, a)
    <2>1. Len(tag) = 5 /\ Len(StepIP(name)) = 3 /\ tag[1] = "steps" /\ tag[2] = name /\ tag[4] = "artifacts"
      BY <1>4 DEF StepArtifact, StepIP
    <2> QED
      BY <1>4, <2>1 DEF IsArtifactTag, OutputKind
  <1> QED
    BY <1>1, <1>2, <1>3, <1>4 DEF OutputScope

-----------------------------------------------------------------------------
(* The scope of a steps template while it runs. *)

OutputsKept(f, step) ==
  \A tag \in OutputScope(Called(step.template), step.name) :
    HasOutput(step, tag) => tag \in IF IsArtifactTag(tag) THEN DOMAIN f.arts ELSE DOMAIN f.params

(* The scope has the outputs of the groups before. *)
Kept(f, T, g) ==
  \A h \in DOMAIN T.steps : h < g => \A i \in DOMAIN T.steps[h] : OutputsKept(f, T.steps[h][i])

PlainScope(f) ==
  /\ \A tag \in DOMAIN f.params : f.params[tag] = {} /\ ~IsArtifactTag(tag)
  /\ \A tag \in DOMAIN f.arts : PlainArtifact(f.arts[tag])

LEMMA ProvidedFound ==
  ASSUME Disciplined, NEW T \in TemplateSet, NEW f, NEW g, Kept(f, T, g),
         NEW tag \in Tags(T), tag \in Provided(T, g)
  PROVE  /\ tag[1] = "steps"
         /\ tag \in IF IsArtifactTag(tag) THEN DOMAIN f.arts ELSE DOMAIN f.params
  <1>1. PICK h \in DOMAIN T.steps : h < g /\ tag \in addOutputsToScope(T.steps[h])
    BY DEF Provided
  <1>2. PICK i \in DOMAIN T.steps[h] :
          tag \in OutputScope(Called(T.steps[h][i].template), T.steps[h][i].name)
    BY <1>1 DEF addOutputsToScope, Called
  <1>3. tag[1] = "steps" /\ tag[2] = T.steps[h][i].name
    BY <1>2, OutputOf
  <1>4. HasOutput(T.steps[h][i], tag)
    BY <1>3, DisciplinedStep
  <1> QED
    BY <1>1, <1>2, <1>3, <1>4 DEF Kept, OutputsKept

LEMMA TextFound ==
  ASSUME Disciplined, NEW T \in TemplateSet, NEW f, NEW g, Kept(f, T, g), NEW known,
         NEW tag \in Tags(T), InScope(T, known, g, tag), ~IsArtifactTag(tag)
  PROVE  tag \in Gone(T, known) \/ tag \in DOMAIN f.params \/ tag[1] = "item"
  <1>1. CASE tag \in InputScope(T)
    BY <1>1, InputTag DEF Gone
  <1>2. CASE tag \in Provided(T, g)
    BY <1>2, ProvidedFound
  <1> QED
    BY <1>1, <1>2 DEF InScope, Gone

LEMMA ArtifactFound ==
  ASSUME Disciplined, NEW T \in TemplateSet, NEW f, NEW g, Kept(f, T, g),
         NEW known, known \in {EntryGlobals, ExitGlobals},
         NEW tag \in Tags(T), InScope(T, known, g, tag), IsArtifactTag(tag),
         Names(f.tmpl.arts) = Names(T.arts)
  PROVE  tag \in DOMAIN f.arts \/ NamesInputArtifact(f, tag)
  <1>1. CASE tag \in InputScope(T)
    BY <1>1, InputTag DEF NamesInputArtifact
  <1>2. CASE tag \in Provided(T, g)
    BY <1>2, ProvidedFound
  <1>3. tag \notin known
    BY KnownTag
  <1>4. tag[1] # "item"
    BY DEF IsArtifactTag
  <1> QED
    BY <1>1, <1>2, <1>3, <1>4 DEF InScope

(* An artifact that can be resolved is plain. *)
LEMMA PlainlyResolved ==
  ASSUME NEW f, PlainScope(f), IsList(f.tmpl.arts),
         \A i \in DOMAIN f.tmpl.arts : PlainArtifact(f.tmpl.arts[i]),
         NEW text, CanResolveArtifact(f, text)
  PROVE  PlainArtifact(resolveArtifact(f, text))
  <1>1. CASE TagOf(text) \in DOMAIN f.arts
    BY <1>1 DEF resolveArtifact, PlainScope
  <1>2. CASE TagOf(text) \notin DOMAIN f.arts
    <2>1. TagOf(text)[3] \in Names(f.tmpl.arts)
      BY <1>2 DEF CanResolveArtifact, NamesInputArtifact
    <2>2. PICK i \in DOMAIN f.tmpl.arts : ByName(f.tmpl.arts, TagOf(text)[3]) = f.tmpl.arts[i]
      BY <2>1, ByNameIs
    <2> QED
      BY <1>2, <2>2 DEF resolveArtifact
  <1> QED
    BY <1>1, <1>2

-----------------------------------------------------------------------------
(* The steps of a group, resolved.                                         *)

(* Templates that were validated, with the globals that are known to them. *)
Verifiable(set, known) ==
  /\ set \subseteq results /\ known \in {EntryGlobals, ExitGlobals}
  /\ \A n \in set : Closed(n, set) /\ Verified(n, known)

(* A template under way and the scope it has gathered. *)
Scoped(f, set, known) ==
  LET T == Called(f.tmpl.name)
  IN  /\ f.tmpl.name \in set /\ "steps" \in T.types /\ Prepared(f.tmpl, T, Gone(T, known))
      /\ PlainScope(f) /\ Kept(f, T, f.group)

LEMMA AcceptedTemplate ==
  ASSUME Walk, ~Validating, stage # "rejected", NEW n \in results
  PROVE  /\ IsTemplate(Called(n)) /\ Called(n) \in TemplateSet /\ Called(n).name = n
         /\ OneType(Called(n)) /\ n \in Names(wf.templates)
         /\ \A i \in DOMAIN Called(n).arts : Called(n).arts[i].from = NoValue
  <1>1. wf \in Workflows /\ TemplatesOk(results)
    BY DEF Walk, WalkAt, Validating
  <1>2. n \in Names(wf.templates) /\ Sound(n)
    BY <1>1 DEF TemplatesOk
  <1>3. IsTemplate(Called(n)) /\ Called(n) \in TemplateSet /\ Called(n).name = n
    BY <1>1, <1>2, WrittenTemplate DEF TemplatesOk
  <1> QED
    BY <1>2, <1>3 DEF Sound, validateInputs

(* A step with its references resolved: nothing but items is left in it. *)
Resolved(r, s) ==
  /\ IsStep(r) /\ r.name = s.name /\ r.template = s.template /\ r.items = s.items
  /\ r.withParam = NoValue /\ (r.when = NoValue <=> s.when = NoValue)
  /\ \A tag \in Text(r.when) : tag[1] = "item" /\ tag \in StepTags(s)
  /\ DOMAIN r.args.params = DOMAIN s.args.params
  /\ \A i \in DOMAIN s.args.params :
       /\ r.args.params[i].name = s.args.params[i].name
       /\ r.args.params[i].value = NoValue <=> s.args.params[i].value = NoValue
       /\ \A tag \in Text(r.args.params[i].value) : tag[1] = "item" /\ tag \in StepTags(s)
  /\ DOMAIN r.args.arts = DOMAIN s.args.arts
  /\ \A i \in DOMAIN s.args.arts :
       r.args.arts[i].name = s.args.arts[i].name /\ PlainArtifact(r.args.arts[i])

LEMMA StepTagsAre ==
  ASSUME NEW s, NEW tag
  PROVE  tag \in StepTags(s) <=>
           \/ tag \in Text(s.withParam) \/ tag \in Text(s.when)
           \/ \E i \in DOMAIN s.args.params : tag \in Text(s.args.params[i].value)
           \/ \E i \in DOMAIN s.args.arts : tag \in Text(s.args.arts[i].from)
  BY ArgumentTagsAre DEF StepTags

(* What a step of a template refers to is in scope when its group starts. *)
LEMMA StepInScope ==
  ASSUME Walk, ~Validating, stage # "rejected", NEW set, NEW known, Verifiable(set, known),
         NEW n \in set, "steps" \in Called(n).types,
         NEW g \in DOMAIN Called(n).steps, NEW i \in DOMAIN Called(n).steps[g],
         NEW tag \in StepTags(Called(n).steps[g][i])
  PROVE  tag \in Tags(Called(n)) /\ InScope(Called(n), known, g, tag)
  <1>1. tag \in GroupTags(Called(n).steps[g])
    BY DEF GroupTags
  <1>2. InScope(Called(n), known, g, tag)
    BY <1>1 DEF Verifiable, Verified, GroupKnown
  <1> QED
    BY <1>2, TagsAre

(* A text of a step, once the globals, the inputs and the scope are in. *)
LEMMA TextResolves ==
  ASSUME Walk, Disciplined, ~Validating, stage # "rejected",
         NEW set, NEW known, Verifiable(set, known), NEW f, Scoped(f, set, known),
         f.group \in DOMAIN Called(f.tmpl.name).steps,
         NEW i \in DOMAIN Called(f.tmpl.name).steps[f.group],
         NEW old, \A tag \in Text(old) : tag \in StepTags(Called(f.tmpl.name).steps[f.group][i])
                                         /\ ~IsArtifactTag(tag),
         NEW new, Left(new, old, Gone(Called(f.tmpl.name), known) \cup DOMAIN f.params)
  PROVE  /\ new = NoValue <=> old = NoValue
         /\ \A tag \in Text(new) : tag[1] = "item" /\ tag \in Text(old)
  <1> DEFINE T == Called(f.tmpl.name)
  <1>1. new = NoValue <=> old = NoValue
    BY DEF Left
  <1>2. T \in TemplateSet
    BY AcceptedTemplate DEF Verifiable, Scoped
  <1>3. ASSUME NEW tag \in Text(new) PROVE tag[1] = "item" /\ tag \in Text(old)
    <2>1. tag \in Text(old) /\ tag \notin Gone(T, known) /\ tag \notin DOMAIN f.params
      BY LeftText
    <2>2. tag \in Tags(T) /\ InScope(T, known, f.group, tag)
      BY <2>1, StepInScope DEF Scoped
    <2>3. ~IsArtifactTag(tag) /\ Kept(f, T, f.group)
      BY <2>1 DEF Scoped
    <2> HIDE DEF T
    <2> QED
      BY <1>2, <2>1, <2>2, <2>3, TextFound
  <1> QED
    BY <1>1, <1>3

(* The artifact a step refers to is found. *)
LEMMA ReferenceResolves ==
  ASSUME Walk, Disciplined, ~Validating, stage # "rejected",
         NEW set, NEW known, Verifiable(set, known), NEW f, Scoped(f, set, known),
         f.group \in DOMAIN Called(f.tmpl.name).steps,
         NEW i \in DOMAIN Called(f.tmpl.name).steps[f.group],
         NEW old, old # NoValue, IsReference(old), IsArtifactTag(TagOf(old)),
         TagOf(old) \in StepTags(Called(f.tmpl.name).steps[f.group][i]),
         NEW new, Left(new, old, Gone(Called(f.tmpl.name), known) \cup DOMAIN f.params)
  PROVE  CanResolveArtifact(f, new) /\ PlainArtifact(resolveArtifact(f, new))
  <1> DEFINE T == Called(f.tmpl.name)
             tag == TagOf(old)
  <1>1. T \in TemplateSet
    BY AcceptedTemplate DEF Verifiable, Scoped
  <1>2. old = {tag}
    BY DEF IsReference, TagOf
  <1>3. tag \notin Gone(T, known) /\ tag \notin DOMAIN f.params
    BY GoneTag DEF Scoped, PlainScope, Verifiable
  <1>4. new = old
    BY <1>2, <1>3 DEF Left
  <1>5. tag \in Tags(T) /\ InScope(T, known, f.group, tag)
    BY StepInScope DEF Scoped
  <1>6. /\ Names(f.tmpl.arts) = Names(T.arts) /\ IsList(f.tmpl.arts)
        /\ \A k \in DOMAIN f.tmpl.arts : PlainArtifact(f.tmpl.arts[k])
    BY DEF Scoped, Prepared, ArtifactsLike, Names
  <1>7. tag \in DOMAIN f.arts \/ NamesInputArtifact(f, tag)
    <2>1. Kept(f, T, f.group) /\ IsArtifactTag(tag) /\ known \in {EntryGlobals, ExitGlobals}
      BY DEF Scoped, Verifiable
    <2> HIDE DEF T, tag
    <2> QED
      BY <1>1, <1>5, <1>6, <2>1, ArtifactFound
  <1>8. CanResolveArtifact(f, new)
    BY <1>4, <1>7 DEF CanResolveArtifact
  <1> QED
    BY <1>6, <1>8, PlainlyResolved DEF Scoped

ResolvedArtifact(f, art) ==
  IF art.from = NoValue THEN art
  ELSE [resolveArtifact(f, art.from) EXCEPT !.name = art.name]

LEMMA StepResolves ==
  ASSUME Walk, Disciplined, ~Validating, stage # "rejected",
         NEW set, NEW known, Verifiable(set, known), NEW f, Scoped(f, set, known),
         f.group \in DOMAIN Called(f.tmpl.name).steps,
         NEW i \in DOMAIN Called(f.tmpl.name).steps[f.group]
  PROVE  LET group == f.tmpl.steps[f.group]
         IN  /\ Resolved(resolveReferences(f, group)[i], Called(f.tmpl.name).steps[f.group][i])
             /\ \A art \in NeedsArtifact(Substituted(f, group)[i]) : CanResolveArtifact(f, art.from)
  <1> DEFINE T == Called(f.tmpl.name)
             gone == Gone(T, known) \cup DOMAIN f.params
             group == f.tmpl.steps[f.group]
             s == T.steps[f.group][i]
             w == ReplaceInStep(group[i], f.params)
             r == resolveReferences(f, group)[i]
  <1>1. T \in TemplateSet /\ IsTemplate(T)
    BY AcceptedTemplate DEF Verifiable, Scoped
  <1>2. IsStep(s)
    BY <1>1 DEF IsTemplate
  <1>3. StepLeft(w, s, gone) /\ i \in DOMAIN group
    <2>1. StepLeft(group[i], s, Gone(T, known)) /\ i \in DOMAIN group
      BY DEF Scoped, Prepared, StepsLeft, GroupLeft
    <2>2. Erases(f.params) /\ IsStep(group[i])
      BY <2>1 DEF Scoped, PlainScope, Erases, StepLeft
    <2> HIDE DEF s, group
    <2>3. StepLeft(w, group[i], DOMAIN f.params)
      BY <2>2, StepOver
    <2> HIDE DEF w, T
    <2> QED
      BY <2>1, <2>3, StepTwice
  <1>4. /\ Substituted(f, group)[i] = w
        /\ r = [w EXCEPT !.args.arts = [j \in DOMAIN w.args.arts |-> ResolvedArtifact(f, w.args.arts[j])]]
    BY <1>3 DEF resolveReferences, Substituted, ResolvedArtifact
  <1>5. /\ s.withParam = NoValue
        /\ \A tag \in Text(s.when) : ~IsArtifactTag(tag)
        /\ \A k \in DOMAIN s.args.params : \A tag \in Text(s.args.params[k].value) : ~IsArtifactTag(tag)
        /\ \A k \in DOMAIN s.args.arts : s.args.arts[k].from # NoValue =>
             IsReference(s.args.arts[k].from) /\ IsArtifactTag(TagOf(s.args.arts[k].from))
    BY <1>1, DisciplinedStep
  <1>6. (w.when = NoValue <=> s.when = NoValue) /\ \A tag \in Text(w.when) : tag[1] = "item" /\ tag \in StepTags(s)
    <2> DEFINE old == s.when
               new == w.when
    <2>1. Left(new, old, gone)
      BY <1>3 DEF StepLeft
    <2>2. \A tag \in Text(old) : tag \in StepTags(s) /\ ~IsArtifactTag(tag)
      BY <1>5, StepTagsAre
    <2> HIDE DEF w, old, new
    <2>3. (new = NoValue <=> old = NoValue) /\ \A tag \in Text(new) : tag[1] = "item" /\ tag \in Text(old)
      BY <2>1, <2>2, TextResolves
    <2> QED
      BY <2>2, <2>3 DEF old, new
  <1>7. ASSUME NEW k \in DOMAIN s.args.params
        PROVE  /\ w.args.params[k].name = s.args.params[k].name
               /\ w.args.params[k].value = NoValue <=> s.args.params[k].value = NoValue
               /\ \A tag \in Text(w.args.params[k].value) : tag[1] = "item" /\ tag \in StepTags(s)
    <2> DEFINE old == s.args.params[k].value
               new == w.args.params[k].value
    <2>1. w.args.params[k].name = s.args.params[k].name /\ Left(new, old, gone)
      BY <1>3 DEF StepLeft, ArgumentsLeft
    <2>2. \A tag \in Text(old) : tag \in StepTags(s) /\ ~IsArtifactTag(tag)
      BY <1>5, StepTagsAre
    <2> HIDE DEF w, old, new
    <2>3. (new = NoValue <=> old = NoValue) /\ \A tag \in Text(new) : tag[1] = "item" /\ tag \in Text(old)
      BY <2>1, <2>2, TextResolves
    <2> QED
      BY <2>1, <2>2, <2>3 DEF old, new
  <1> HIDE DEF w
  <1>8. ASSUME NEW k \in DOMAIN s.args.arts
        PROVE  /\ w.args.arts[k].name = s.args.arts[k].name /\ IsArtifact(w.args.arts[k])
               /\ w.args.arts[k].from # NoValue =>
                    /\ CanResolveArtifact(f, w.args.arts[k].from)
                    /\ PlainArtifact(resolveArtifact(f, w.args.arts[k].from))
    <2>1. /\ w.args.arts[k].name = s.args.arts[k].name /\ k \in DOMAIN w.args.arts
          /\ Left(w.args.arts[k].from, s.args.arts[k].from, gone)
      BY <1>3 DEF StepLeft, ArgumentsLeft
    <2>2. IsArtifact(w.args.arts[k])
      BY <1>3, <2>1 DEF StepLeft, IsStep, IsArguments
    <2>3. ASSUME s.args.arts[k].from # NoValue
          PROVE  /\ CanResolveArtifact(f, w.args.arts[k].from)
                 /\ PlainArtifact(resolveArtifact(f, w.args.arts[k].from))
      <3> DEFINE old == s.args.arts[k].from
      <3>1. IsReference(old) /\ IsArtifactTag(TagOf(old))
        BY <1>5, <2>3
      <3>2. TagOf(old) \in Text(old)
        BY <2>3, <3>1 DEF IsReference, TagOf, Text
      <3>3. TagOf(old) \in StepTags(s)
        BY <3>2, StepTagsAre
      <3> QED
        BY <2>1, <2>3, <3>1, <3>3, ReferenceResolves
    <2> QED
      BY <2>1, <2>2, <2>3 DEF Left
  <1>9. ASSUME NEW k \in DOMAIN s.args.arts
        PROVE  LET art == ResolvedArtifact(f, w.args.arts[k])
               IN  art.name = s.args.arts[k].name /\ PlainArtifact(art)
    <2> DEFINE a == w.args.arts[k]
               b == resolveArtifact(f, a.from)
    <2>1. CASE a.from = NoValue
      BY <1>8, <2>1 DEF ResolvedArtifact, PlainArtifact, Text
    <2>2. CASE a.from # NoValue
      <3>1. PlainArtifact(b) /\ a.name = s.args.arts[k].name
        BY <1>8, <2>2
      <3>2. ResolvedArtifact(f, a) = [b EXCEPT !.name = a.name]
        BY <2>2 DEF ResolvedArtifact
      <3> HIDE DEF a, b
      <3> DEFINE c == [b EXCEPT !.name = a.name]
      <3>3. /\ DOMAIN c = DOMAIN b /\ c.name = a.name /\ c.path = b.path /\ c.from = b.from
        BY <3>1 DEF PlainArtifact, IsArtifact
      <3> HIDE DEF c
      <3>4. PlainArtifact(c)
        BY <3>1, <3>3 DEF PlainArtifact, IsArtifact
      <3> QED
        BY <3>1, <3>2, <3>3, <3>4 DEF a, c
    <2> QED
      BY <2>1, <2>2
  <1>10. Resolved(r, s)
    <2> DEFINE arts == [j \in DOMAIN w.args.arts |-> ResolvedArtifact(f, w.args.arts[j])]
    <2>1. IsStep(w) /\ IsArguments(w.args)
      BY <1>3 DEF StepLeft, IsStep
    <2>2. r = [w EXCEPT !.args.arts = arts]
      BY <1>4
    <2> HIDE DEF r, arts
    <2>3. /\ DOMAIN r = DOMAIN w /\ r.name = w.name /\ r.template = w.template /\ r.items = w.items
          /\ r.withParam = w.withParam /\ r.when = w.when
          /\ DOMAIN r.args = DOMAIN w.args /\ r.args.params = w.args.params /\ r.args.arts = arts
      BY <2>1, <2>2 DEF IsStep, IsArguments
    <2>4. IsList(arts) /\ DOMAIN arts = DOMAIN w.args.arts
      <3>1. arts = [j \in DOMAIN w.args.arts |-> arts[j]] /\ IsList(w.args.arts)
        BY <2>1 DEF arts, IsArguments
      <3> QED
        BY <3>1, ListFrom
    <2>5. DOMAIN w.args.arts = DOMAIN s.args.arts /\ DOMAIN w.args.params = DOMAIN s.args.params
      BY <1>3 DEF StepLeft, ArgumentsLeft
    <2>6. ASSUME NEW k \in DOMAIN s.args.arts
          PROVE  arts[k].name = s.args.arts[k].name /\ PlainArtifact(arts[k])
      BY <1>9, <2>5 DEF arts
    <2>7. IsArguments(r.args)
      BY <2>1, <2>3, <2>4, <2>5, <2>6 DEF IsArguments, PlainArtifact
    <2>8. IsStep(r)
      BY <2>1, <2>3, <2>7 DEF IsStep
    <2>9. r.name = s.name /\ r.template = s.template /\ r.items = s.items /\ r.withParam = NoValue
      BY <1>3, <1>5, <2>3 DEF StepLeft, Left
    <2> HIDE DEF s
    <2> QED
      BY <1>6, <1>7, <2>3, <2>4, <2>5, <2>6, <2>8, <2>9 DEF Resolved
  <1>11. ASSUME NEW art \in NeedsArtifact(w) PROVE CanResolveArtifact(f, art.from)
    <2>1. PICK k \in DOMAIN w.args.arts : art = w.args.arts[k]
      BY DEF NeedsArtifact, ToSet
    <2>2. k \in DOMAIN s.args.arts /\ art.from # NoValue
      BY <1>3, <2>1 DEF StepLeft, ArgumentsLeft, NeedsArtifact
    <2> QED
      BY <1>8, <2>1, <2>2
  <1> QED
    BY <1>4, <1>10, <1>11

-----------------------------------------------------------------------------
(* A group under way.                                                      *)

(* A step that can be launched. *)
Ready(new, step) ==
  /\ new.template = step.template /\ (new.when = NoValue <=> step.when = NoValue)
  /\ Fits(new.args, step.args)

(* A step that others may refer to is yet to come, or has left its outputs. *)
Awaited(f, i, step) ==
  step.when = NoValue /\ ~IsExpanded(step) =>
    \/ f.todo[i] # <<>> /\ Head(f.todo[i]).name = step.name
    \/ \E d \in f.done : d.name = step.name /\ Yields(d.outputs, Called(step.template))

Launching(f, group) ==
  /\ DOMAIN f.todo = DOMAIN group
  /\ \A i \in DOMAIN group :
       /\ \A k \in DOMAIN f.todo[i] : Ready(f.todo[i][k], group[i])
       /\ Awaited(f, i, group[i])

FrameGood(f, set, known) ==
  /\ Scoped(f, set, known)
  /\ \A d \in f.done : PlainOutputs(d.outputs)
  /\ f.todo # NoValue => /\ f.group \in DOMAIN Called(f.tmpl.name).steps
                         /\ Launching(f, Called(f.tmpl.name).steps[f.group])

LEMMA NoTagsFit ==
  ASSUME NEW new, NEW s, IsStep(new),
         DOMAIN new.args.params = DOMAIN s.args.params, DOMAIN new.args.arts = DOMAIN s.args.arts,
         \A i \in DOMAIN s.args.params :
           /\ new.args.params[i].name = s.args.params[i].name
           /\ new.args.params[i].value = NoValue <=> s.args.params[i].value = NoValue
           /\ Text(new.args.params[i].value) = {},
         \A i \in DOMAIN s.args.arts :
           new.args.arts[i].name = s.args.arts[i].name /\ Text(new.args.arts[i].from) = {}
  PROVE  Fits(new.args, s.args)
  BY DEF Fits, PlainArguments, IsStep, IsArguments

LEMMA ItemMapErases == ASSUME NEW item PROVE Erases(ItemMap(item))
  BY DEF Erases, ItemMap

(* A resolved step with an item put in. *)
WithItem(r, item) ==
  [ReplaceInStep(r, ItemMap(item)) EXCEPT !.name = NoValue, !.items = <<>>, !.withParam = NoValue]

LEMMA ItemResolves ==
  ASSUME NEW r, NEW s, Resolved(r, s), NEW item,
         \A tag \in StepTags(s) : tag[1] = "item" => tag \in DOMAIN ItemMap(item)
  PROVE  Ready(WithItem(r, item), s) /\ StepTags(WithItem(r, item)) = {}
  <1> DEFINE new == WithItem(r, item)
             q == ReplaceInStep(r, ItemMap(item))
             gone == DOMAIN ItemMap(item)
  <1>1. StepLeft(q, r, gone)
    BY ItemMapErases, StepOver DEF Resolved
  <1>2. new = [q EXCEPT !.name = NoValue, !.items = <<>>, !.withParam = NoValue]
    BY DEF WithItem
  <1> HIDE DEF q, new
  <1>3. /\ DOMAIN new = DOMAIN q /\ new.template = q.template /\ new.args = q.args
        /\ new.when = q.when /\ new.withParam = NoValue
    BY <1>1, <1>2 DEF StepLeft, IsStep
  <1>4. \A tag \in StepTags(s) : tag[1] = "item" => tag \in gone
    OBVIOUS
  <1> HIDE DEF gone
  <1>5. (q.when = NoValue <=> s.when = NoValue) /\ Text(q.when) = {}
    <2>1. Left(q.when, r.when, gone)
      BY <1>1 DEF StepLeft
    <2>2. (r.when = NoValue <=> s.when = NoValue) /\ Text(r.when) \subseteq gone
      BY <1>4 DEF Resolved
    <2> QED
      BY <2>1, <2>2, LeftText
  <1>6. DOMAIN q.args.params = DOMAIN s.args.params /\ DOMAIN q.args.arts = DOMAIN s.args.arts
    BY <1>1 DEF StepLeft, ArgumentsLeft, Resolved
  <1>7. ASSUME NEW i \in DOMAIN s.args.params
        PROVE  /\ q.args.params[i].name = s.args.params[i].name
               /\ q.args.params[i].value = NoValue <=> s.args.params[i].value = NoValue
               /\ Text(q.args.params[i].value) = {}
    <2>1. /\ r.args.params[i].name = s.args.params[i].name
          /\ (r.args.params[i].value = NoValue <=> s.args.params[i].value = NoValue)
          /\ Text(r.args.params[i].value) \subseteq gone /\ i \in DOMAIN r.args.params
      BY <1>4 DEF Resolved
    <2>2. /\ q.args.params[i].name = r.args.params[i].name
          /\ Left(q.args.params[i].value, r.args.params[i].value, gone)
      BY <1>1, <2>1 DEF StepLeft, ArgumentsLeft
    <2> QED
      BY <2>1, <2>2, LeftText
  <1>8. ASSUME NEW i \in DOMAIN s.args.arts
        PROVE  q.args.arts[i].name = s.args.arts[i].name /\ Text(q.args.arts[i].from) = {}
    <2>1. /\ r.args.arts[i].name = s.args.arts[i].name /\ i \in DOMAIN r.args.arts
          /\ Text(r.args.arts[i].from) = {}
      BY DEF Resolved, PlainArtifact
    <2>2. /\ q.args.arts[i].name = r.args.arts[i].name
          /\ Left(q.args.arts[i].from, r.args.arts[i].from, gone)
      BY <1>1, <2>1 DEF StepLeft, ArgumentsLeft
    <2> QED
      BY <2>1, <2>2, LeftText
  <1>9. Fits(q.args, s.args)
    BY <1>1, <1>6, <1>7, <1>8, NoTagsFit DEF StepLeft
  <1>10. Ready(new, s)
    BY <1>1, <1>3, <1>5, <1>9 DEF Ready, StepLeft, Resolved
  <1>11. ASSUME NEW tag \in StepTags(new) PROVE FALSE
    <2>1. Text(new.withParam) = {}
      BY <1>3 DEF Text
    <2> QED
      BY <1>3, <1>5, <1>6, <1>7, <1>8, <2>1, StepTagsAre
  <1> QED
    BY <1>10, <1>11 DEF new

(* What a resolved step expands to. *)
LEMMA ExpansionReady ==
  ASSUME NEW r, NEW s, Resolved(r, s), s.withParam = NoValue,
         \A tag \in StepTags(s) : tag[1] = "item" =>
           IsExpanded(s) /\ \A k \in DOMAIN s.items : tag \in DOMAIN ItemMap(s.items[k]),
         NEW param, NEW list,
         list = IF ~IsExpanded(r) THEN <<r>>
                ELSE ExpandedSteps(r, IF r.items # <<>> THEN r.items ELSE param)
  PROVE  /\ \A k \in DOMAIN list :
              Ready(list[k], s) /\ (list[k].name = NoValue => StepTags(list[k]) = {})
         /\ ~IsExpanded(s) => list # <<>> /\ Head(list).name = s.name
  <1>1. IsExpanded(r) <=> IsExpanded(s)
    BY DEF IsExpanded, Resolved
  <1>2. CASE ~IsExpanded(s)
    <2>1. list = <<r>>
      BY <1>1, <1>2
    <2>2. DOMAIN list = {1} /\ list[1] = r /\ list # <<>> /\ Head(list) = r
      BY <2>1
    <2>3. r.name = s.name /\ r.name # NoValue
      BY DEF Resolved, IsStep
    <2>4. Ready(r, s)
      <3>1. ASSUME NEW i \in DOMAIN s.args.params
            PROVE  /\ r.args.params[i].name = s.args.params[i].name
                   /\ r.args.params[i].value = NoValue <=> s.args.params[i].value = NoValue
                   /\ Text(r.args.params[i].value) = {}
        BY <1>2 DEF Resolved
      <3>2. IsStep(r) /\ DOMAIN r.args.params = DOMAIN s.args.params
        BY DEF Resolved
      <3>3. /\ DOMAIN r.args.arts = DOMAIN s.args.arts
            /\ \A i \in DOMAIN s.args.arts :
                 r.args.arts[i].name = s.args.arts[i].name /\ Text(r.args.arts[i].from) = {}
        BY DEF Resolved, PlainArtifact
      <3>4. Fits(r.args, s.args)
        BY <3>1, <3>2, <3>3, NoTagsFit
      <3> QED
        BY <3>4 DEF Ready, Resolved
    <2> QED
      BY <2>2, <2>3, <2>4
  <1>3. CASE IsExpanded(s)
    <2>1. r.items # <<>> /\ r.items = s.items
      BY <1>3 DEF IsExpanded, Resolved
    <2>2. list = ExpandedSteps(r, s.items)
      BY <1>1, <1>3, <2>1
    <2>3. ASSUME NEW k \in DOMAIN s.items
          PROVE  Ready(list[k], s) /\ StepTags(list[k]) = {}
      <3>1. list[k] = WithItem(r, s.items[k])
        BY <2>2 DEF ExpandedSteps, WithItem
      <3>2. \A tag \in StepTags(s) : tag[1] = "item" => tag \in DOMAIN ItemMap(s.items[k])
        OBVIOUS
      <3> QED
        BY <3>1, <3>2, ItemResolves
    <2>4. DOMAIN list = DOMAIN s.items
      BY <2>2 DEF ExpandedSteps
    <2> QED
      BY <1>3, <2>3, <2>4
  <1> QED
    BY <1>2, <1>3

-----------------------------------------------------------------------------
(* The templates under way.                                                *)

(* Each but the outermost runs for the step that is next in the one below. *)
CalledBy(name, s) == s # <<>> => Upcoming(Head(s)).template = name

GoodFrames(s, set, known) ==
  /\ \A k \in DOMAIN s : FrameGood(s[k], set, known)
  /\ \A k \in DOMAIN s : k > 1 => Upcoming(s[k]).template = s[k - 1].tmpl.name

LEMMA GoodTail ==
  ASSUME NEW s, IsList(s), s # <<>>, NEW set, NEW known, GoodFrames(s, set, known)
  PROVE  /\ FrameGood(Head(s), set, known) /\ GoodFrames(Tail(s), set, known)
         /\ CalledBy(Head(s).tmpl.name, Tail(s))
  <1>1. /\ 1 \in DOMAIN s /\ Head(s) = s[1] /\ IsList(Tail(s))
        /\ \A k \in DOMAIN Tail(s) : k \in Nat \ {0} /\ k + 1 \in DOMAIN s /\ Tail(s)[k] = s[k + 1]
    BY ListTail
  <1>2. FrameGood(Head(s), set, known) /\ \A k \in DOMAIN Tail(s) : FrameGood(Tail(s)[k], set, known)
    BY <1>1 DEF GoodFrames
  <1>3. ASSUME NEW k \in DOMAIN Tail(s), k > 1
        PROVE  Upcoming(Tail(s)[k]).template = Tail(s)[k - 1].tmpl.name
    <2>1. k - 1 \in DOMAIN Tail(s) /\ k + 1 > 1 /\ k + 1 - 1 = k /\ k - 1 + 1 = k
      <3>1. Len(Tail(s)) \in Nat /\ DOMAIN Tail(s) = 1 .. Len(Tail(s))
        BY <1>1, ListLength
      <3> QED
        BY <1>3, <3>1
    <2>2. Tail(s)[k] = s[k + 1] /\ Tail(s)[k - 1] = s[k] /\ k + 1 \in DOMAIN s
      BY <1>1, <2>1
    <2> QED
      BY <2>1, <2>2 DEF GoodFrames
  <1>4. CalledBy(Head(s).tmpl.name, Tail(s))
    <2> SUFFICES ASSUME Tail(s) # <<>> PROVE Upcoming(Head(Tail(s))).template = Head(s).tmpl.name
      BY DEF CalledBy
    <2>1. 1 \in DOMAIN Tail(s) /\ Head(Tail(s)) = Tail(s)[1]
      BY <1>1, ListTail
    <2>2. 2 \in DOMAIN s /\ Tail(s)[1] = s[2]
      BY <1>1, <2>1
    <2>3. Upcoming(s[2]).template = s[2 - 1].tmpl.name
      BY <2>2 DEF GoodFrames
    <2> QED
      BY <1>1, <2>1, <2>2, <2>3
  <1> QED
    BY <1>2, <1>3, <1>4 DEF GoodFrames

LEMMA GoodPush ==
  ASSUME NEW s, IsList(s), NEW set, NEW known, GoodFrames(s, set, known),
         NEW f, FrameGood(f, set, known), CalledBy(f.tmpl.name, s)
  PROVE  GoodFrames(<<f>> \o s, set, known)
  <1> DEFINE p == <<f>> \o s
  <1>1. /\ IsList(p)
        /\ \A k \in DOMAIN p : (k = 1 /\ p[k] = f) \/ (k # 1 /\ k - 1 \in DOMAIN s /\ p[k] = s[k - 1])
    BY ListPush
  <1> HIDE DEF p
  <1>2. \A k \in DOMAIN p : FrameGood(p[k], set, known)
    BY <1>1 DEF GoodFrames
  <1>3. ASSUME NEW k \in DOMAIN p, k > 1 PROVE Upcoming(p[k]).template = p[k - 1].tmpl.name
    <2>1. DOMAIN p = 1 .. Len(p) /\ Len(p) \in Nat /\ DOMAIN s = 1 .. Len(s) /\ Len(s) \in Nat
      BY <1>1, ListLength
    <2>2. k - 1 \in DOMAIN p /\ k - 1 \in DOMAIN s /\ p[k] = s[k - 1]
      BY <1>1, <1>3, <2>1
    <2>3. CASE k = 2
      <3>1. p[k - 1] = f /\ s # <<>> /\ p[k] = s[1]
        BY <1>1, <2>2, <2>3
      <3>2. Head(s) = s[1]
        BY <3>1, ListTail
      <3> QED
        BY <3>1, <3>2 DEF CalledBy
    <2>4. CASE k # 2
      <3>1. k - 1 > 1 /\ k - 1 # 1
        BY <1>3, <2>1, <2>4
      <3>2. p[k - 1] = s[(k - 1) - 1]
        BY <1>1, <2>2, <3>1
      <3> QED
        BY <2>2, <3>1, <3>2 DEF GoodFrames
    <2> QED
      BY <2>3, <2>4
  <1> QED
    BY <1>2, <1>3 DEF GoodFrames, p

LEMMA NoneGood == ASSUME NEW set, NEW known PROVE GoodFrames(<<>>, set, known)
  BY DEF GoodFrames

(* A group starts: all its references are resolved.                        *)
LEMMA GroupStarts ==
  ASSUME Walk, Disciplined, ~Validating, stage # "rejected", Operation,
         NEW set, NEW known, Verifiable(set, known), GoodFrames(frames, set, known),
         StartStepGroup
  PROVE  GoodFrames(frames', set, known) /\ stage' = stage /\ globals' = globals
  <1> DEFINE f == Head(frames)
             T == Called(f.tmpl.name)
             group == f.tmpl.steps[f.group]
             steps == resolveReferences(f, group)
             todo(param) == expandStepGroup(steps, param)
  <1>1. /\ frames # <<>> /\ f.todo = NoValue /\ f.group <= Len(f.tmpl.steps)
        /\ IF ~ArtifactsResolve(f, Substituted(f, group)) THEN Fail("reference")
           ELSE \/ /\ \E i \in DOMAIN group : group[i].withParam # NoValue
                   /\ Fail("param")
                \/ \E param \in ParamItems :
                     IF ItemsResolve(todo(param))
                     THEN /\ frames' = <<[f EXCEPT !.todo = todo(param)]>> \o Tail(frames)
                          /\ UNCHANGED <<globals, stage, pod, cause>>
                     ELSE Fail("item")
    BY DEF StartStepGroup
  <1>2. /\ FrameGood(f, set, known) /\ GoodFrames(Tail(frames), set, known)
        /\ CalledBy(f.tmpl.name, Tail(frames)) /\ IsList(Tail(frames))
    BY <1>1, GoodTail, NestedTail DEF Operation, Nested
  <1>3. RunningOk(f, results)
    BY <1>1, NestedTail DEF Operation
  <1> HIDE DEF f
  <1>4. Scoped(f, set, known)
    BY <1>2 DEF FrameGood
  <1>5. T \in TemplateSet /\ IsTemplate(T)
    BY <1>4, AcceptedTemplate DEF Verifiable, Scoped
  <1>6. f.group \in DOMAIN T.steps
    <2>1. f.group \in Nat \ {0} /\ IsList(f.tmpl.steps)
      BY <1>3 DEF RunningOk, GroupsCallOnly
    <2>2. DOMAIN f.tmpl.steps = DOMAIN T.steps
      BY <1>4 DEF Scoped, Prepared, StepsLeft
    <2> QED
      BY <1>1, <2>1, <2>2, ListLength
  <1>7. GroupLeft(group, T.steps[f.group], Gone(T, known))
    BY <1>4, <1>6 DEF Scoped, Prepared, StepsLeft
  <1>8. ASSUME NEW i \in DOMAIN T.steps[f.group]
        PROVE  /\ Resolved(steps[i], T.steps[f.group][i])
               /\ \A art \in NeedsArtifact(Substituted(f, group)[i]) : CanResolveArtifact(f, art.from)
    BY <1>4, <1>6, StepResolves
  <1>9. DOMAIN Substituted(f, group) = DOMAIN T.steps[f.group] /\ DOMAIN steps = DOMAIN T.steps[f.group]
    BY <1>7 DEF GroupLeft, Substituted, resolveReferences
  <1>10. ArtifactsResolve(f, Substituted(f, group))
    <2>1. ASSUME NEW i \in DOMAIN Substituted(f, group),
                 NEW art \in NeedsArtifact(Substituted(f, group)[i])
          PROVE  CanResolveArtifact(f, art.from)
      BY <1>8, <1>9
    <2>2. \A old : (\A i \in DOMAIN old : \A art \in NeedsArtifact(old[i]) : CanResolveArtifact(f, art.from))
                     => ArtifactsResolve(f, old)
      BY DEF ArtifactsResolve
    <2> HIDE DEF group
    <2> QED
      BY <2>1, <2>2
  <1>11. ~\E i \in DOMAIN group : group[i].withParam # NoValue
    <2> SUFFICES ASSUME NEW i \in DOMAIN T.steps[f.group] PROVE group[i].withParam = NoValue
      BY <1>7 DEF GroupLeft
    <2>1. T.steps[f.group][i].withParam = NoValue
      BY <1>5, <1>6, DisciplinedStep
    <2> QED
      BY <1>7, <2>1 DEF GroupLeft, StepLeft, Left
  <1> HIDE DEF group, steps, T
  <1>12. ASSUME NEW param, NEW i \in DOMAIN T.steps[f.group]
         PROVE  LET s == T.steps[f.group][i]
                    list == todo(param)[i]
                IN  /\ \A k \in DOMAIN list :
                         Ready(list[k], s) /\ (list[k].name = NoValue => StepTags(list[k]) = {})
                    /\ ~IsExpanded(s) => list # <<>> /\ Head(list).name = s.name
    <2> DEFINE s == T.steps[f.group][i]
               r == steps[i]
               list == todo(param)[i]
    <2>1. /\ s.withParam = NoValue
          /\ \A tag \in StepTags(s) : tag[1] = "item" =>
               IsExpanded(s) /\ \A k \in DOMAIN s.items : tag \in DOMAIN ItemMap(s.items[k])
      BY <1>5, <1>6, DisciplinedStep
    <2>2. list = IF ~IsExpanded(r) THEN <<r>>
                 ELSE ExpandedSteps(r, IF r.items # <<>> THEN r.items ELSE param)
      BY <1>9 DEF expandStepGroup
    <2>3. Resolved(r, s)
      BY <1>8
    <2> HIDE DEF s, r, list
    <2>4. /\ \A k \in DOMAIN list :
               Ready(list[k], s) /\ (list[k].name = NoValue => StepTags(list[k]) = {})
          /\ ~IsExpanded(s) => list # <<>> /\ Head(list).name = s.name
      BY <2>1, <2>2, <2>3, ExpansionReady
    <2> QED
      BY <2>4 DEF s, list
  <1>13. \A param : DOMAIN todo(param) = DOMAIN T.steps[f.group]
    BY <1>9 DEF expandStepGroup
  <1> HIDE DEF todo
  <1>14. \A param : ItemsResolve(todo(param))
    BY <1>12, <1>13 DEF ItemsResolve
  <1>15. PICK param \in ParamItems :
           /\ frames' = <<[f EXCEPT !.todo = todo(param)]>> \o Tail(frames)
           /\ UNCHANGED <<globals, stage>>
    BY <1>1, <1>10, <1>11, <1>14
  <1> DEFINE g == [f EXCEPT !.todo = todo(param)]
  <1>16. /\ g.todo = todo(param) /\ g.tmpl = f.tmpl /\ g.group = f.group /\ g.done = f.done
         /\ g.params = f.params /\ g.arts = f.arts
    BY <1>3 DEF RunningOk
  <1>17. frames' = <<g>> \o Tail(frames)
    BY <1>15
  <1> HIDE DEF g
  <1>18. Scoped(g, set, known)
    BY <1>4, <1>16 DEF Scoped, PlainScope, Kept, OutputsKept
  <1>19. Launching(g, T.steps[f.group])
    BY <1>12, <1>13, <1>16 DEF Launching, Awaited
  <1>20. FrameGood(g, set, known)
    BY <1>2, <1>6, <1>16, <1>18, <1>19 DEF FrameGood, T
  <1> QED
    BY <1>2, <1>15, <1>16, <1>17, <1>20, GoodPush

-----------------------------------------------------------------------------
(* A group ends: the scope takes in what its steps have left.              *)

LEMMA OverlaidIs ==
  ASSUME NEW scope, NEW maps
  PROVE  /\ DOMAIN scope \subseteq DOMAIN Overlaid(scope, maps)
         /\ \A m \in maps : DOMAIN m \subseteq DOMAIN Overlaid(scope, maps)
         /\ \A tag \in DOMAIN Overlaid(scope, maps) :
              \/ tag \in DOMAIN scope /\ Overlaid(scope, maps)[tag] = scope[tag]
              \/ \E m \in maps : tag \in DOMAIN m /\ Overlaid(scope, maps)[tag] = m[tag]
  <1>1. DOMAIN Overlaid(scope, maps) = DOMAIN scope \cup (UNION {DOMAIN m : m \in maps})
    BY DEF Overlaid
  <1>2. ASSUME NEW tag \in DOMAIN Overlaid(scope, maps)
        PROVE  \/ tag \in DOMAIN scope /\ Overlaid(scope, maps)[tag] = scope[tag]
               \/ \E m \in maps : tag \in DOMAIN m /\ Overlaid(scope, maps)[tag] = m[tag]
    <2> DEFINE with == CHOOSE m \in maps : tag \in DOMAIN m
    <2>1. Overlaid(scope, maps)[tag] = IF \E m \in maps : tag \in DOMAIN m THEN with[tag] ELSE scope[tag]
      BY <1>1 DEF Overlaid
    <2>2. (\E m \in maps : tag \in DOMAIN m) => with \in maps /\ tag \in DOMAIN with
      OBVIOUS
    <2> HIDE DEF with
    <2> QED
      BY <1>1, <2>1, <2>2
  <1> QED
    BY <1>1, <1>2

LEMMA ParamsOfIs ==
  ASSUME NEW d, PlainOutputs(d.outputs)
  PROVE  /\ d.outputs.ip = TRUE => StepIP(d.name) \in DOMAIN ParamsOf(d)
         /\ d.outputs.result = TRUE => StepResult(d.name) \in DOMAIN ParamsOf(d)
         /\ \A p \in DOMAIN d.outputs.params : StepParameter(d.name, p) \in DOMAIN ParamsOf(d)
         /\ \A tag \in DOMAIN ParamsOf(d) : ParamsOf(d)[tag] = {} /\ ~IsArtifactTag(tag)
  <1> DEFINE Ip == {StepIP(d.name) : b \in {d.outputs.ip} \cap {TRUE}}
             Result == {StepResult(d.name) : b \in {d.outputs.result} \cap {TRUE}}
             Params == {StepParameter(d.name, p) : p \in DOMAIN d.outputs.params}
             value(tag) == IF Len(tag) = 5 THEN d.outputs.params[tag[5]] ELSE {}
  <1>1. ParamsOf(d) = [tag \in Ip \cup Result \cup Params |-> value(tag)]
    BY DEF ParamsOf
  <1>2. ASSUME NEW tag \in Ip PROVE value(tag) = {} /\ ~IsArtifactTag(tag)
    <2>1. tag = StepIP(d.name)
      OBVIOUS
    <2>2. Len(tag) = 3 /\ tag[1] = "steps"
      BY <2>1 DEF StepIP
    <2> QED
      BY <2>2 DEF IsArtifactTag
  <1>3. ASSUME NEW tag \in Result PROVE value(tag) = {} /\ ~IsArtifactTag(tag)
    <2>1. tag = StepResult(d.name)
      OBVIOUS
    <2>2. Len(tag) = 4
      BY <2>1 DEF StepResult
    <2> QED
      BY <2>2 DEF IsArtifactTag
  <1>4. ASSUME NEW tag \in Params PROVE value(tag) = {} /\ ~IsArtifactTag(tag)
    <2>1. PICK p \in DOMAIN d.outputs.params : tag = StepParameter(d.name, p)
      OBVIOUS
    <2>2. Len(tag) = 5 /\ tag[4] = "parameters" /\ tag[5] = p
      BY <2>1 DEF StepParameter
    <2> QED
      BY <2>2 DEF IsArtifactTag, PlainOutputs
  <1>5. d.outputs.ip = TRUE => StepIP(d.name) \in Ip
    OBVIOUS
  <1>6. d.outputs.result = TRUE => StepResult(d.name) \in Result
    OBVIOUS
  <1>7. \A p \in DOMAIN d.outputs.params : StepParameter(d.name, p) \in Params
    OBVIOUS
  <1> HIDE DEF Ip, Result, Params, value
  <1> QED
    BY <1>1, <1>2, <1>3, <1>4, <1>5, <1>6, <1>7

LEMMA ArtsOfIs ==
  ASSUME NEW d, PlainOutputs(d.outputs)
  PROVE  /\ \A a \in DOMAIN d.outputs.arts : StepArtifact(d.name, a) \in DOMAIN ArtsOf(d)
         /\ \A tag \in DOMAIN ArtsOf(d) : PlainArtifact(ArtsOf(d)[tag])
  <1>1. DOMAIN ArtsOf(d) = {StepArtifact(d.name, a) : a \in DOMAIN d.outputs.arts}
    BY DEF ArtsOf
  <1>2. ASSUME NEW tag \in DOMAIN ArtsOf(d) PROVE PlainArtifact(ArtsOf(d)[tag])
    <2>1. PICK a \in DOMAIN d.outputs.arts : tag = StepArtifact(d.name, a)
      BY <1>1
    <2>2. tag[5] = a
      BY <2>1 DEF StepArtifact
    <2>3. ArtsOf(d)[tag] = d.outputs.arts[a]
      BY <1>1, <2>2 DEF ArtsOf
    <2> QED
      BY <2>3 DEF PlainOutputs
  <1> QED
    BY <1>1, <1>2

(* A step that was not skipped has all of the outputs validation counts on. *)
LEMMA StepKept ==
  ASSUME NEW s, OneType(Called(s.template)), NEW d, d.name = s.name, PlainOutputs(d.outputs),
         Yields(d.outputs, Called(s.template)),
         NEW tag \in OutputScope(Called(s.template), s.name), HasOutput(s, tag)
  PROVE  tag \in IF IsArtifactTag(tag) THEN DOMAIN ArtsOf(d) ELSE DOMAIN ParamsOf(d)
  <1> DEFINE U == Called(s.template)
             o == d.outputs
  <1>1. /\ IF tag = StepIP(s.name) THEN U.types # {"steps"} ELSE ~U.daemon \/ U.types = {"steps"}
        /\ U.types = {"resource"} => ~IsArtifactTag(tag)
    BY DEF HasOutput, Called
  <1>2. \A type \in {"container", "script", "resource", "steps"} : type \in U.types <=> U.types = {type}
    BY DEF OneType
  <1>3. /\ "steps" \notin U.types /\ U.daemon => o.ip = TRUE
        /\ "steps" \in U.types \/ ~U.daemon =>
             /\ "script" \in U.types => o.result = TRUE
             /\ DOMAIN o.params = Names(U.outParams)
             /\ "resource" \notin U.types => DOMAIN o.arts = Names(U.outArts)
    BY DEF Yields
  <1>4. OutputKind(U, s.name, tag)
    BY OutputTag
  <1> HIDE DEF U, o
  <1>5. CASE tag = StepIP(s.name) /\ U.daemon = TRUE /\ ~IsArtifactTag(tag)
    <2>1. o.ip = TRUE
      BY <1>1, <1>2, <1>3, <1>5
    <2> QED
      BY <1>5, <2>1, ParamsOfIs DEF o
  <1>6. CASE tag = StepResult(s.name) /\ "script" \in U.types /\ tag # StepIP(s.name) /\ ~IsArtifactTag(tag)
    <2>1. o.result = TRUE
      BY <1>1, <1>2, <1>3, <1>6
    <2> QED
      BY <1>6, <2>1, ParamsOfIs DEF o
  <1>7. ASSUME NEW p \in Names(U.outParams), tag = StepParameter(s.name, p),
               tag # StepIP(s.name), ~IsArtifactTag(tag)
        PROVE  tag \in IF IsArtifactTag(tag) THEN DOMAIN ArtsOf(d) ELSE DOMAIN ParamsOf(d)
    <2>1. p \in DOMAIN o.params
      BY <1>1, <1>2, <1>3, <1>7
    <2> QED
      BY <1>7, <2>1, ParamsOfIs DEF o
  <1>8. ASSUME NEW a \in Names(U.outArts), tag = StepArtifact(s.name, a),
               tag # StepIP(s.name), IsArtifactTag(tag)
        PROVE  tag \in IF IsArtifactTag(tag) THEN DOMAIN ArtsOf(d) ELSE DOMAIN ParamsOf(d)
    <2>1. a \in DOMAIN o.arts
      BY <1>1, <1>2, <1>3, <1>8
    <2> QED
      BY <1>8, <2>1, ArtsOfIs DEF o
  <1> QED
    BY <1>4, <1>5, <1>6, <1>7, <1>8 DEF OutputKind

LEMMA GroupEnds ==
  ASSUME Walk, Disciplined, ~Validating, stage # "rejected", Operation,
         NEW set, NEW known, Verifiable(set, known), GoodFrames(frames, set, known),
         EndStepGroup
  PROVE  GoodFrames(frames', set, known) /\ stage' = stage /\ globals' = globals
  <1> DEFINE f == Head(frames)
             T == Called(f.tmpl.name)
             found == {d \in f.done : d.name # NoValue}
             ParamMaps == {ParamsOf(d) : d \in found}
             ArtMaps == {ArtsOf(d) : d \in found}
             params == Overlaid(f.params, ParamMaps)
             arts == Overlaid(f.arts, ArtMaps)
             g == [f EXCEPT !.group = @ + 1, !.todo = NoValue, !.done = {},
                            !.params = params, !.arts = arts]
  <1>1. /\ frames # <<>> /\ f.todo # NoValue /\ Waiting(f) = {}
        /\ IF \E tag \in DOMAIN params : params[tag] = NoValue THEN Fail("no value")
           ELSE frames' = <<g>> \o Tail(frames) /\ UNCHANGED <<globals, stage, pod, cause>>
    BY DEF EndStepGroup
  <1>2. /\ FrameGood(f, set, known) /\ GoodFrames(Tail(frames), set, known)
        /\ CalledBy(f.tmpl.name, Tail(frames)) /\ IsList(Tail(frames))
    BY <1>1, GoodTail, NestedTail DEF Operation, Nested
  <1>3. RunningOk(f, results)
    BY <1>1, NestedTail DEF Operation
  <1> HIDE DEF f
  <1>4. /\ g.todo = NoValue /\ g.tmpl = f.tmpl /\ g.group = f.group + 1 /\ g.done = {}
        /\ g.params = params /\ g.arts = arts
    BY <1>3 DEF RunningOk
  <1> HIDE DEF g
  <1>5. Scoped(f, set, known) /\ \A d \in f.done : PlainOutputs(d.outputs)
    BY <1>2 DEF FrameGood
  <1>6. f.group \in DOMAIN T.steps /\ Launching(f, T.steps[f.group]) /\ f.group \in Nat
    BY <1>1, <1>2, <1>3 DEF FrameGood, RunningOk
  <1>7. \A m \in ParamMaps : \A tag \in DOMAIN m : m[tag] = {} /\ ~IsArtifactTag(tag)
    BY <1>5, ParamsOfIs
  <1>8. \A m \in ArtMaps : \A tag \in DOMAIN m : PlainArtifact(m[tag])
    BY <1>5, ArtsOfIs
  <1>9. /\ \A d \in found : d \in f.done /\ ParamsOf(d) \in ParamMaps /\ ArtsOf(d) \in ArtMaps
        /\ \A d \in f.done : d.name # NoValue => d \in found
    OBVIOUS
  <1> HIDE DEF found, ParamMaps, ArtMaps
  <1>10. /\ DOMAIN f.params \subseteq DOMAIN params /\ \A m \in ParamMaps : DOMAIN m \subseteq DOMAIN params
         /\ \A tag \in DOMAIN params :
              \/ tag \in DOMAIN f.params /\ params[tag] = f.params[tag]
              \/ \E m \in ParamMaps : tag \in DOMAIN m /\ params[tag] = m[tag]
    BY OverlaidIs
  <1>11. /\ DOMAIN f.arts \subseteq DOMAIN arts /\ \A m \in ArtMaps : DOMAIN m \subseteq DOMAIN arts
         /\ \A tag \in DOMAIN arts :
              \/ tag \in DOMAIN f.arts /\ arts[tag] = f.arts[tag]
              \/ \E m \in ArtMaps : tag \in DOMAIN m /\ arts[tag] = m[tag]
    BY OverlaidIs
  <1> HIDE DEF params, arts
  <1>12. \A tag \in DOMAIN params : params[tag] = {} /\ ~IsArtifactTag(tag)
    BY <1>5, <1>7, <1>10 DEF Scoped, PlainScope
  <1>13. \A tag \in DOMAIN arts : PlainArtifact(arts[tag])
    BY <1>5, <1>8, <1>11 DEF Scoped, PlainScope
  <1>14. frames' = <<g>> \o Tail(frames) /\ stage' = stage /\ globals' = globals
    BY <1>1, <1>12, NilAssumption
  <1>15. PlainScope(g)
    BY <1>4, <1>12, <1>13 DEF PlainScope
  <1>16. Called(f.tmpl.name) \in TemplateSet /\ IsTemplate(T) /\ Closed(f.tmpl.name, set)
    BY <1>5, AcceptedTemplate DEF Verifiable, Scoped
  <1>17. ASSUME NEW i \in DOMAIN T.steps[f.group] PROVE OutputsKept(g, T.steps[f.group][i])
    <2> DEFINE s == T.steps[f.group][i]
    <2>1. IsStep(s) /\ s.template \in set
      BY <1>6, <1>16 DEF IsTemplate, Closed
    <2>2. OneType(Called(s.template))
      BY <2>1, AcceptedTemplate DEF Verifiable
    <2>3. f.todo[i] = <<>> /\ Awaited(f, i, s)
      BY <1>1, <1>6 DEF Launching, Waiting
    <2> HIDE DEF s
    <2>4. ASSUME NEW tag \in OutputScope(Called(s.template), s.name), HasOutput(s, tag)
          PROVE  tag \in IF IsArtifactTag(tag) THEN DOMAIN arts ELSE DOMAIN params
      <3>1. s.when = NoValue /\ ~IsExpanded(s)
        BY <2>4 DEF HasOutput
      <3>2. PICK d \in f.done : d.name = s.name /\ Yields(d.outputs, Called(s.template))
        BY <2>3, <3>1 DEF Awaited
      <3>3. d \in found /\ PlainOutputs(d.outputs)
        BY <1>5, <1>9, <2>1, <3>2 DEF IsStep
      <3>4. tag \in IF IsArtifactTag(tag) THEN DOMAIN ArtsOf(d) ELSE DOMAIN ParamsOf(d)
        BY <2>2, <2>4, <3>2, <3>3, StepKept
      <3>5. DOMAIN ParamsOf(d) \subseteq DOMAIN params /\ DOMAIN ArtsOf(d) \subseteq DOMAIN arts
        BY <1>9, <1>10, <1>11, <3>3
      <3> QED
        BY <3>4, <3>5
    <2>5. OutputsKept(g, s)
      BY <1>4, <2>4 DEF OutputsKept
    <2> QED
      BY <2>5 DEF s
  <1>18. Kept(g, T, f.group + 1)
    <2> SUFFICES ASSUME NEW h \in DOMAIN T.steps, h < f.group + 1, NEW i \in DOMAIN T.steps[h]
                 PROVE  OutputsKept(g, T.steps[h][i])
      BY DEF Kept
    <2>1. h \in Nat
      BY <1>16, ListLength DEF IsTemplate
    <2>2. CASE h < f.group
      <3>1. OutputsKept(f, T.steps[h][i])
        BY <1>5, <2>2 DEF Scoped, Kept
      <3> QED
        BY <1>4, <1>10, <1>11, <3>1 DEF OutputsKept
    <2>3. CASE h = f.group
      BY <1>17, <2>3
    <2> QED
      BY <1>6, <2>1, <2>2, <2>3
  <1>19. Scoped(g, set, known)
    BY <1>4, <1>5, <1>15, <1>18 DEF Scoped
  <1>20. FrameGood(g, set, known)
    BY <1>4, <1>19 DEF FrameGood
  <1> QED
    BY <1>2, <1>4, <1>14, <1>20, GoodPush

-----------------------------------------------------------------------------
(* Entering and leaving templates.                                         *)

LEMMA StepReturns ==
  ASSUME NEW f, NEW set, NEW known, RunningOk(f, results), FrameGood(f, set, known), Waiting(f) # {},
         NEW outputs, PlainOutputs(outputs),
         Upcoming(f).when = NoValue => Yields(outputs, Called(Upcoming(f).template))
  PROVE  LET new == [name |-> Upcoming(f).name, outputs |-> outputs]
             g == [f EXCEPT !.todo[FirstOf(f)] = Tail(@), !.done = @ \cup {new}]
         IN  FrameGood(g, set, known) /\ g.tmpl = f.tmpl
  <1> DEFINE new == [name |-> Upcoming(f).name, outputs |-> outputs]
             k == FirstOf(f)
             todo == [f.todo EXCEPT ![k] = Tail(@)]
             g == [f EXCEPT !.todo[k] = Tail(@), !.done = @ \cup {new}]
             T == Called(f.tmpl.name)
             group == T.steps[f.group]
  <1>1. /\ k \in DOMAIN f.todo /\ f.todo # NoValue /\ IsList(f.todo[k]) /\ f.todo[k] # <<>>
        /\ Upcoming(f) = Head(f.todo[k])
    BY NextStepIs DEF CallsOnly, Upcoming
  <1>2. /\ g.group = f.group /\ g.tmpl = f.tmpl /\ g.todo = todo /\ g.done = f.done \cup {new}
        /\ g.params = f.params /\ g.arts = f.arts
    BY DEF RunningOk
  <1>3. new.name = Upcoming(f).name /\ new.outputs = outputs
    OBVIOUS
  <1> HIDE DEF g, new, k
  <1>4. /\ DOMAIN todo = DOMAIN f.todo
        /\ \A i \in DOMAIN f.todo : todo[i] = IF i = k THEN Tail(f.todo[k]) ELSE f.todo[i]
    OBVIOUS
  <1> HIDE DEF todo
  <1>5. f.group \in DOMAIN T.steps /\ Launching(f, group) /\ Scoped(f, set, known)
    BY <1>1 DEF FrameGood
  <1> HIDE DEF group, T
  <1>6. /\ 1 \in DOMAIN f.todo[k] /\ Head(f.todo[k]) = f.todo[k][1]
        /\ \A j \in DOMAIN Tail(f.todo[k]) : j + 1 \in DOMAIN f.todo[k] /\ Tail(f.todo[k])[j] = f.todo[k][j + 1]
    BY <1>1, ListTail
  <1>7. ASSUME NEW i \in DOMAIN group
        PROVE  (\A j \in DOMAIN todo[i] : Ready(todo[i][j], group[i])) /\ Awaited(g, i, group[i])
    <2>1. (\A j \in DOMAIN f.todo[i] : Ready(f.todo[i][j], group[i])) /\ Awaited(f, i, group[i])
      BY <1>5 DEF Launching
    <2>2. \A j \in DOMAIN todo[i] : Ready(todo[i][j], group[i])
      BY <1>4, <1>5, <1>6, <2>1 DEF Launching
    <2> DEFINE s == group[i]
    <2>3. Awaited(g, i, s)
      <3> SUFFICES ASSUME s.when = NoValue, ~IsExpanded(s)
                   PROVE  \/ g.todo[i] # <<>> /\ Head(g.todo[i]).name = s.name
                          \/ \E d \in g.done : d.name = s.name /\ Yields(d.outputs, Called(s.template))
        BY DEF Awaited
      <3>1. \/ f.todo[i] # <<>> /\ Head(f.todo[i]).name = s.name
            \/ \E d \in f.done : d.name = s.name /\ Yields(d.outputs, Called(s.template))
        BY <2>1 DEF Awaited
      <3>2. CASE \E d \in f.done : d.name = s.name /\ Yields(d.outputs, Called(s.template))
        BY <1>2, <3>2
      <3>3. CASE f.todo[i] # <<>> /\ Head(f.todo[i]).name = s.name /\ i = k
        <4>1. Ready(Upcoming(f), s)
          BY <1>1, <1>6, <2>1, <3>3
        <4>2. Yields(outputs, Called(s.template))
          BY <4>1 DEF Ready
        <4> QED
          BY <1>1, <1>2, <1>3, <3>3, <4>2
      <3>4. CASE f.todo[i] # <<>> /\ Head(f.todo[i]).name = s.name /\ i # k
        BY <1>2, <1>4, <1>5, <3>4 DEF Launching
      <3> QED
        BY <3>1, <3>2, <3>3, <3>4
    <2> QED
      BY <2>2, <2>3
  <1>8. Launching(g, group)
    BY <1>2, <1>4, <1>5, <1>7 DEF Launching
  <1>9. Scoped(g, set, known)
    BY <1>2, <1>5 DEF Scoped, PlainScope, Kept, OutputsKept
  <1>10. \A d \in g.done : PlainOutputs(d.outputs)
    BY <1>2, <1>3 DEF FrameGood
  <1>11. FrameGood(g, set, known)
    BY <1>2, <1>5, <1>8, <1>9, <1>10 DEF FrameGood, T, group
  <1> QED
    BY <1>2, <1>11 DEF g, new, k

(* The stage, once a node of the entrypoint or of the exit handler is done. *)
Ends(part) ==
  \/ stage' = part
  \/ frames' = <<>> /\ stage' = IF part = "operating" /\ wf.onExit # NoValue THEN "exiting" ELSE "done"

LEMMA Returns ==
  ASSUME NEW below, Nested(below, results), Awaits(below),
         NEW set, NEW known, GoodFrames(below, set, known), NEW outputs, PlainOutputs(outputs),
         below # <<>> => (Upcoming(Head(below)).when = NoValue =>
                            Yields(outputs, Called(Upcoming(Head(below)).template))),
         NEW part, Return(below, outputs, part)
  PROVE  GoodFrames(frames', set, known) /\ Ends(part)
  <1>1. CASE below = <<>>
    BY <1>1, NoneGood DEF Return, Ends
  <1>2. CASE below # <<>>
    <2> DEFINE f == Head(below)
               new == [name |-> Upcoming(f).name, outputs |-> outputs]
               g == [f EXCEPT !.todo[FirstOf(f)] = Tail(@), !.done = @ \cup {new}]
    <2>1. frames' = <<g>> \o Tail(below) /\ stage' = part
      BY <1>2 DEF Return
    <2>2. RunningOk(f, results) /\ Waiting(f) # {} /\ IsList(Tail(below))
      BY <1>2, NestedTail DEF Awaits, Nested
    <2>3. /\ FrameGood(f, set, known) /\ GoodFrames(Tail(below), set, known)
          /\ CalledBy(f.tmpl.name, Tail(below))
      BY <1>2, GoodTail DEF Nested
    <2>4. Upcoming(f).when = NoValue => Yields(outputs, Called(Upcoming(f).template))
      BY <1>2
    <2> HIDE DEF f
    <2>5. FrameGood(g, set, known) /\ g.tmpl = f.tmpl
      BY <2>2, <2>3, <2>4, StepReturns
    <2> HIDE DEF g
    <2> QED
      BY <2>1, <2>2, <2>3, <2>5, GoodPush DEF Ends
  <1> QED
    BY <1>1, <1>2

(* A template is executed: its inputs are there, and a leaf gets its pod.  *)
LEMMA Executes ==
  ASSUME Walk, Disciplined, ~Validating, stage # "rejected",
         NEW set, NEW known, Verifiable(set, known), NEW n \in set, NEW args, PlainArguments(args),
         InputsSupplied(Called(n), args), NEW below, Nested(below, results), Awaits(below),
         GoodFrames(below, set, known), CalledBy(n, below), NEW part,
         executeTemplate(n, args, known, below, part)
  PROVE  GoodFrames(frames', set, known) /\ Ends(part) /\ globals' = known
  <1> DEFINE T == Called(n)
             globs == GlobalTexts(known)
             t == ProcessArgs(T, args, globs)
             gone == Gone(T, known)
  <1>1. /\ IsTemplate(T) /\ T \in TemplateSet /\ T.name = n /\ OneType(T)
        /\ \A i \in DOMAIN T.arts : T.arts[i].from = NoValue
    BY AcceptedTemplate DEF Verifiable
  <1>2. Erases(globs) /\ DOMAIN globs = known
    BY GlobalsPlain DEF Verifiable, Walk
  <1>3. /\ GlobalsKnown(T, known)
        /\ "steps" \notin T.types => Tags(T) \subseteq InputScope(T) \cup known
    BY DEF Verifiable, Verified
  <1> HIDE DEF globs
  <1>4. CanProcess(T, args, globs) /\ Prepared(t, T, gone)
    <2>1. "steps" \in T.types => T.steps # <<>>
      BY <1>1, DisciplinedSteps
    <2>2. PlainTexts(T)
      BY <1>1, PlainlyWritten
    <2> HIDE DEF T
    <2> QED
      BY <1>1, <1>2, <1>3, <2>1, <2>2, Prepares DEF T
  <1>5. IF "steps" \in t.types
        THEN frames' = <<NewFrame(t)>> \o below /\ stage' = part /\ globals' = known
        ELSE IF LeafError(t) # "none" THEN Fail(LeafError(t))
        ELSE Return(below, LeafOutputs(t), part) /\ globals' = known
    BY <1>4 DEF executeTemplate, Called, globs
  <1> HIDE DEF t, T, gone
  <1>6. t.types = T.types /\ t.name = n
    BY <1>1, <1>4 DEF Prepared, SameKind
  <1>7. CASE "steps" \in T.types
    <2> DEFINE f == NewFrame(t)
    <2>1. /\ f.tmpl = t /\ f.group = 1 /\ f.todo = NoValue /\ f.done = {}
          /\ f.params = <<>> /\ f.arts = <<>>
      BY DEF NewFrame
    <2> HIDE DEF f
    <2>2. PlainScope(f)
      BY <2>1 DEF PlainScope
    <2>3. Kept(f, T, 1)
      <3>1. \A h \in DOMAIN T.steps : ~(h < 1)
        BY <1>1, ListLength DEF IsTemplate
      <3> QED
        BY <3>1 DEF Kept
    <2>4. Scoped(f, set, known)
      BY <1>4, <1>6, <1>7, <2>1, <2>2, <2>3 DEF Scoped, T, gone
    <2>5. FrameGood(f, set, known)
      BY <2>1, <2>4 DEF FrameGood
    <2>6. GoodFrames(<<f>> \o below, set, known)
      BY <1>6, <2>1, <2>5, GoodPush DEF Nested
    <2> QED
      BY <1>5, <1>6, <1>7, <2>6 DEF f, Ends
  <1>8. CASE "steps" \notin T.types
    <2>1. /\ PodFits(T) /\ \A tag \in Tags(T) : ~IsArtifactTag(tag)
          /\ \A i \in DOMAIN T.outParams : T.outParams[i].from # NoValue
      BY <1>1, <1>8, DisciplinedLeaf
    <2>2. Tags(T) \subseteq gone
      BY <1>3, <1>8, <2>1, InputTag DEF gone, Gone
    <2>3. T.steps = <<>> /\ T.types # {} /\ T.daemon \in BOOLEAN
      BY <1>1, <1>8 DEF IsTemplate, OneType
    <2>4. LeafError(t) = "none" /\ Tags(t) = {}
      BY <1>1, <1>4, <2>1, <2>2, <2>3, LeafStarts, LeafTags
    <2>5. PlainOutputs(LeafOutputs(t)) /\ Yields(LeafOutputs(t), T)
      BY <1>4, <1>8, <2>1, <2>3, <2>4, LeafYields
    <2>6. Return(below, LeafOutputs(t), part) /\ globals' = known
      BY <1>5, <1>6, <1>8, <2>4
    <2>7. below # <<>> => Called(Upcoming(Head(below)).template) = T
      BY DEF CalledBy, T
    <2> QED
      BY <2>5, <2>6, <2>7, Returns
  <1> QED
    BY <1>7, <1>8

LEMMA StepSkipped ==
  ASSUME Operation, NEW set, NEW known, GoodFrames(frames, set, known), SkipStep
  PROVE  GoodFrames(frames', set, known) /\ Ends(stage) /\ globals' = globals
  <1>1. PlainOutputs(NoOutputs)
    BY DEF PlainOutputs, NoOutputs
  <1>2. /\ Nested(frames, results) /\ Awaits(frames) /\ Return(frames, NoOutputs, stage)
        /\ Upcoming(Head(frames)).when # NoValue /\ globals' = globals
    BY DEF SkipStep, Operation, Awaits
  <1> QED
    BY <1>1, <1>2, Returns

LEMMA StepLaunched ==
  ASSUME Walk, Disciplined, ~Validating, stage # "rejected", Operation,
         NEW set, Verifiable(set, globals), GoodFrames(frames, set, globals), LaunchStep
  PROVE  GoodFrames(frames', set, globals) /\ Ends(stage) /\ globals' = globals
  <1> DEFINE f == Head(frames)
             T == Called(f.tmpl.name)
             step == Upcoming(f)
             k == FirstOf(f)
             s == T.steps[f.group][k]
  <1>1. /\ frames # <<>> /\ Waiting(f) # {}
        /\ executeTemplate(step.template, step.args, globals, frames, stage)
    BY DEF LaunchStep
  <1>2. /\ FrameGood(f, set, globals) /\ RunningOk(f, results)
        /\ Nested(frames, results) /\ Awaits(frames)
    BY <1>1, GoodTail, NestedTail DEF Operation, Nested, Awaits
  <1>3. CalledBy(step.template, frames)
    BY DEF CalledBy
  <1> HIDE DEF f
  <1>4. /\ k \in DOMAIN f.todo /\ f.todo # NoValue /\ f.todo[k] # <<>> /\ IsList(f.todo[k])
        /\ step = Head(f.todo[k])
    BY <1>1, <1>2, NextStepIs DEF CallsOnly, Upcoming
  <1>5. 1 \in DOMAIN f.todo[k] /\ step = f.todo[k][1]
    BY <1>4, ListTail
  <1> HIDE DEF step, k
  <1>6. /\ f.group \in DOMAIN T.steps /\ k \in DOMAIN T.steps[f.group] /\ Ready(step, s)
        /\ f.tmpl.name \in set
    BY <1>2, <1>4, <1>5 DEF FrameGood, Launching, Scoped
  <1>7. T \in TemplateSet /\ IsTemplate(T) /\ Closed(f.tmpl.name, set)
    BY <1>6, AcceptedTemplate DEF Verifiable
  <1>8. IsStep(s) /\ s.template \in set /\ step.template = s.template /\ Fits(step.args, s.args)
    BY <1>6, <1>7 DEF IsTemplate, Closed, Ready
  <1>9. s.template \in Names(wf.templates)
    BY <1>8, AcceptedTemplate DEF Verifiable
  <1>10. InputsSupplied(Called(s.template), s.args)
    BY <1>6, <1>7, <1>9, DisciplinedStep
  <1> HIDE DEF s, T
  <1>11. InputsSupplied(Called(step.template), step.args) /\ PlainArguments(step.args)
    BY <1>8, <1>10, SuppliedToo DEF IsStep, Fits
  <1> QED
    BY <1>1, <1>2, <1>3, <1>8, <1>11, Executes

(* The outputs of a template of steps are found in its scope.              *)
LEMMA OutputsReturned ==
  ASSUME Walk, Disciplined, ~Validating, stage # "rejected", Operation,
         NEW set, NEW known, Verifiable(set, known), GoodFrames(frames, set, known),
         getTemplateOutputsFromScope
  PROVE  GoodFrames(frames', set, known) /\ Ends(stage) /\ globals' = globals
  <1> DEFINE f == Head(frames)
             t == f.tmpl
             T == Called(t.name)
             gone == Gone(T, known)
             param(p) == f.params[TagOf(ByName(t.outParams, p).from)]
             art(a) == resolveArtifact(f, ByName(t.outArts, a).from)
             params == [p \in Names(t.outParams) |-> param(p)]
             arts == [a \in Names(t.outArts) |-> art(a)]
             outputs == [NoOutputs EXCEPT !.params = params, !.arts = arts]
  <1>1. /\ frames # <<>> /\ f.group > Len(t.steps)
        /\ IF /\ \A i \in DOMAIN t.outParams : CanResolveParameter(f, Text(t.outParams[i].from))
              /\ \A i \in DOMAIN t.outArts : CanResolveArtifact(f, Text(t.outArts[i].from))
           THEN Return(Tail(frames), outputs, stage) /\ UNCHANGED <<globals, pod, cause>>
           ELSE Fail("outputs")
    BY DEF getTemplateOutputsFromScope
  <1>2. /\ FrameGood(f, set, known) /\ GoodFrames(Tail(frames), set, known)
        /\ CalledBy(t.name, Tail(frames)) /\ RunningOk(f, results)
        /\ Nested(Tail(frames), results) /\ Awaits(Tail(frames))
    BY <1>1, GoodTail, NestedTail DEF Operation, Nested
  <1>3. /\ outputs.params = params /\ outputs.arts = arts
    BY DEF NoOutputs
  <1> HIDE DEF f, outputs
  <1>4. /\ t.name \in set /\ "steps" \in T.types /\ Prepared(t, T, gone) /\ PlainScope(f)
        /\ Kept(f, T, f.group)
    BY <1>2 DEF FrameGood, Scoped
  <1>5. T \in TemplateSet /\ IsTemplate(T) /\ OneType(T)
    BY <1>4, AcceptedTemplate DEF Verifiable
  <1> DEFINE last == Len(T.steps) + 1
  <1>6. Kept(f, T, last)
    <2>1. IsList(T.steps) /\ IsList(t.steps) /\ DOMAIN t.steps = DOMAIN T.steps
      BY <1>4, <1>5 DEF Prepared, StepsLeft, IsTemplate
    <2>2. Len(T.steps) = Len(t.steps)
      BY <2>1, ListLength
    <2>3. \A h \in DOMAIN T.steps : h < f.group
      <3>1. f.group \in Nat
        BY <1>2 DEF RunningOk
      <3> QED
        BY <1>1, <2>1, <2>2, <3>1, ListLength
    <2> QED
      BY <1>4, <2>3 DEF Kept
  <1>7. \A tag \in OutputTags(T) : tag \in Tags(T) /\ InScope(T, known, last, tag)
    BY <1>4, TagsAre DEF Verifiable, Verified
  <1>8. /\ DOMAIN t.outParams = DOMAIN T.outParams /\ DOMAIN t.outArts = DOMAIN T.outArts
        /\ IsList(t.outParams) /\ IsList(t.outArts)
        /\ \A i \in DOMAIN T.outParams : /\ t.outParams[i].name = T.outParams[i].name
                                         /\ Left(t.outParams[i].from, T.outParams[i].from, gone)
        /\ \A i \in DOMAIN T.outArts : /\ t.outArts[i].name = T.outArts[i].name
                                       /\ Left(t.outArts[i].from, T.outArts[i].from, gone)
    BY <1>4 DEF Prepared, OutputsLeft
  <1>9. known \in {EntryGlobals, ExitGlobals}
    BY DEF Verifiable
  <1> HIDE DEF t, T, last
  <1>10. ASSUME NEW i \in DOMAIN t.outParams
         PROVE  LET from == t.outParams[i].from
                IN  from # NoValue /\ CanResolveParameter(f, from) /\ f.params[TagOf(from)] = {}
    <2> DEFINE from == t.outParams[i].from
               old == T.outParams[i].from
               tag == TagOf(old)
    <2>1. old # NoValue /\ old = {tag} /\ ~IsArtifactTag(tag) /\ tag[1] = "steps"
      BY <1>4, <1>5, <1>8, DisciplinedSteps
    <2>2. Left(from, old, gone)
      BY <1>8
    <2>3. tag \in OutputTags(T)
      BY <1>8, <2>1, OutputTagsAre DEF Text
    <2> HIDE DEF tag, old, from
    <2>4. tag \notin gone
      BY <1>9, <2>1, GoneTag
    <2>5. from # NoValue /\ from = {tag}
      BY <2>1, <2>2, <2>4 DEF Left
    <2>6. TagOf(from) = tag
      BY <2>5 DEF TagOf
    <2>7. tag \in Tags(T) /\ InScope(T, known, last, tag)
      BY <1>7, <2>3
    <2>8. tag \notin InputScope(T)
      BY <2>1, InputTag
    <2>9. tag \notin known
      BY <1>9, <2>1, KnownTag
    <2>10. tag \in Provided(T, last)
      BY <2>1, <2>7, <2>8, <2>9 DEF InScope
    <2>11. tag \in DOMAIN f.params
      BY <1>5, <1>6, <2>1, <2>7, <2>10, ProvidedFound
    <2>12. CanResolveParameter(f, from)
      BY <2>5, <2>6, <2>11 DEF CanResolveParameter, IsReference
    <2> QED
      BY <1>4, <2>5, <2>6, <2>11, <2>12 DEF PlainScope, from
  <1>11. ASSUME NEW i \in DOMAIN t.outArts
         PROVE  LET from == t.outArts[i].from
                IN  from # NoValue /\ CanResolveArtifact(f, from) /\ PlainArtifact(resolveArtifact(f, from))
    <2> DEFINE from == t.outArts[i].from
               old == T.outArts[i].from
               tag == TagOf(old)
    <2>1. old # NoValue /\ old = {tag} /\ IsArtifactTag(tag)
      BY <1>4, <1>5, <1>8, DisciplinedSteps
    <2>2. Left(from, old, gone)
      BY <1>8
    <2>3. tag \in OutputTags(T)
      BY <1>8, <2>1, OutputTagsAre DEF Text
    <2> HIDE DEF tag, old, from
    <2>4. tag \notin gone
      BY <1>9, <2>1, GoneTag
    <2>5. from # NoValue /\ from = {tag}
      BY <2>1, <2>2, <2>4 DEF Left
    <2>6. TagOf(from) = tag
      BY <2>5 DEF TagOf
    <2>7. tag \in Tags(T) /\ InScope(T, known, last, tag)
      BY <1>7, <2>3
    <2>8. /\ Names(f.tmpl.arts) = Names(T.arts) /\ IsList(f.tmpl.arts)
          /\ \A k \in DOMAIN f.tmpl.arts : PlainArtifact(f.tmpl.arts[k])
      BY <1>4 DEF Prepared, ArtifactsLike, Names, t
    <2>9. tag \in DOMAIN f.arts \/ NamesInputArtifact(f, tag)
      BY <1>5, <1>6, <1>9, <2>1, <2>7, <2>8, ArtifactFound
    <2>10. CanResolveArtifact(f, from)
      BY <2>5, <2>6, <2>9 DEF CanResolveArtifact, IsReference
    <2>11. PlainArtifact(resolveArtifact(f, from))
      BY <1>4, <2>8, <2>10, PlainlyResolved
    <2> QED
      BY <2>5, <2>10, <2>11 DEF from
  <1>12. Return(Tail(frames), outputs, stage) /\ globals' = globals
    <2>1. \A i \in DOMAIN t.outParams : CanResolveParameter(f, Text(t.outParams[i].from))
      BY <1>10 DEF Text
    <2>2. \A i \in DOMAIN t.outArts : CanResolveArtifact(f, Text(t.outArts[i].from))
      BY <1>11 DEF Text
    <2> QED
      BY <1>1, <2>1, <2>2
  <1>13. ASSUME NEW p \in Names(t.outParams) PROVE param(p) = {}
    <2>1. PICK i \in DOMAIN t.outParams : ByName(t.outParams, p) = t.outParams[i]
      BY <1>8, ByNameIs
    <2> QED
      BY <1>10, <2>1
  <1>14. ASSUME NEW a \in Names(t.outArts) PROVE PlainArtifact(art(a))
    <2>1. PICK i \in DOMAIN t.outArts : ByName(t.outArts, a) = t.outArts[i]
      BY <1>8, ByNameIs
    <2> QED
      BY <1>11, <2>1
  <1> HIDE DEF param, art
  <1>15. PlainOutputs(outputs)
    BY <1>3, <1>13, <1>14 DEF PlainOutputs
  <1>16. Yields(outputs, T)
    <2>1. Names(t.outParams) = Names(T.outParams) /\ Names(t.outArts) = Names(T.outArts)
      BY <1>8 DEF Names
    <2>2. "script" \notin T.types
      BY <1>4, <1>5 DEF OneType
    <2> QED
      BY <1>3, <1>4, <2>1, <2>2 DEF Yields
  <1>17. Tail(frames) # <<>> => Called(Upcoming(Head(Tail(frames))).template) = T
    BY <1>2 DEF CalledBy, T
  <1> QED
    BY <1>2, <1>12, <1>15, <1>16, <1>17, Returns

-----------------------------------------------------------------------------
(* The operation of an accepted workflow.                                  *)

(* The exit handler may have called what the entrypoint did not.           *)
Reached(early, set, at) == IF at = "exit" THEN set ELSE early

RunsAt(early, set, s, known, at) ==
  /\ at # "error"
  /\ at \notin {"operating", "exit"} => s = <<>>
  /\ at \in {"operating", "exiting"} => known = EntryGlobals
  /\ at = "exit" => known = ExitGlobals
  /\ GoodFrames(s, Reached(early, set, at), known)

LEMMA WorkflowArguments ==
  ASSUME Walk, Disciplined
  PROVE  /\ PlainArguments(wf.args) /\ ~\E i \in DOMAIN wf.args.params : wf.args.params[i].value = NoValue
         /\ wf.onExit \in results => InputsSupplied(Called(wf.onExit), wf.args) \/ wf.onExit \notin Names(wf.templates)
  <1>1. IsList(wf.args.params) /\ IsList(wf.args.arts)
    BY WorkflowsAssumption DEF Walk, IsArguments
  <1>2. /\ \A i \in DOMAIN wf.args.params : wf.args.params[i].value = {}
        /\ \A i \in DOMAIN wf.args.arts : Text(wf.args.arts[i].from) = {}
    BY DEF Disciplined, ArgumentsArePlain
  <1>3. wf.onExit \in Names(wf.templates) => InputsSupplied(Called(wf.onExit), wf.args)
    BY DEF Disciplined, EveryCallSupplies, Called
  <1> QED
    BY <1>1, <1>2, <1>3, NilAssumption DEF PlainArguments, Text

LEMMA Reachable ==
  ASSUME Walk, ~Validating, stage # "rejected",
         NEW early, ScopesAt(early, results, stack, globals, stage)
  PROVE  Verifiable(early, EntryGlobals) /\ Verifiable(results, ExitGlobals)
  <1>1. stage \notin {"header", "entrypoint", "onExit", "rejected"}
    BY DEF Validating
  <1>2. /\ early \subseteq results
        /\ \A n \in early : Closed(n, early) /\ Verified(n, EntryGlobals)
        /\ VerifiedAll(stack, results, ExitGlobals)
    BY <1>1 DEF ScopesAt
  <1>3. stack = <<>> /\ Settled(stack, results)
    BY <1>1 DEF Walk, WalkAt
  <1>4. \A n \in results : Closed(n, results) /\ Verified(n, ExitGlobals)
    BY <1>2, <1>3, EmptyFrames DEF VerifiedAll, Settled
  <1> QED
    BY <1>2, <1>4 DEF Verifiable

LEMMA EntrypointRuns ==
  ASSUME Walk, Disciplined, Operate, results' = results,
         NEW early, ScopesAt(early, results, stack, globals, stage)
  PROVE  RunsAt(early, results', frames', globals', stage')
  <1>1. stage = "accepted" /\ ~Validating
    BY DEF Operate, Validating
  <1>2. Verifiable(early, EntryGlobals)
    BY <1>1, Reachable
  <1>3. wf.entrypoint \in early /\ InputsSupplied(Called(wf.entrypoint), wf.args)
    BY <1>1 DEF ScopesAt
  <1>4. executeTemplate(wf.entrypoint, wf.args, EntryGlobals, <<>>, "operating")
    BY WorkflowArguments DEF Operate, EntryGlobals
  <1>5. /\ Nested(<<>>, results) /\ Awaits(<<>>) /\ GoodFrames(<<>>, early, EntryGlobals)
        /\ CalledBy(wf.entrypoint, <<>>)
    BY ListNone, NoneGood DEF Nested, Awaits, CalledBy
  <1>6. GoodFrames(frames', early, EntryGlobals) /\ Ends("operating") /\ globals' = EntryGlobals
    BY <1>1, <1>2, <1>3, <1>4, <1>5, WorkflowArguments, Executes
  <1> QED
    BY <1>6 DEF RunsAt, Reached, Ends

LEMMA ExitHandlerRuns ==
  ASSUME Walk, Disciplined, Operation, OperateOnExit, results' = results,
         NEW early, ScopesAt(early, results, stack, globals, stage),
         RunsAt(early, results, frames, globals, stage)
  PROVE  RunsAt(early, results', frames', globals', stage')
  <1>1. stage = "exiting" /\ ~Validating /\ wf.onExit # NoValue
    BY DEF OperateOnExit, Validating, Operation
  <1>2. Verifiable(results, ExitGlobals)
    BY <1>1, Reachable
  <1>3. wf.onExit \in results
    BY <1>1 DEF Walk, WalkAt, RootsOk
  <1>4. wf.onExit \in Names(wf.templates)
    BY <1>1, <1>3, AcceptedTemplate
  <1>5. InputsSupplied(Called(wf.onExit), wf.args) /\ PlainArguments(wf.args)
    BY <1>3, <1>4, WorkflowArguments
  <1>6. executeTemplate(wf.onExit, wf.args, ExitGlobals, <<>>, "exit")
    BY <1>1 DEF OperateOnExit, RunsAt, ExitGlobals
  <1>7. /\ Nested(<<>>, results) /\ Awaits(<<>>) /\ GoodFrames(<<>>, results, ExitGlobals)
        /\ CalledBy(wf.onExit, <<>>)
    BY ListNone, NoneGood DEF Nested, Awaits, CalledBy
  <1>8. GoodFrames(frames', results, ExitGlobals) /\ Ends("exit") /\ globals' = ExitGlobals
    BY <1>1, <1>2, <1>3, <1>5, <1>6, <1>7, Executes
  <1>9. stage' = "exit" \/ (frames' = <<>> /\ stage' = "done")
    BY <1>8 DEF Ends
  <1> QED
    BY <1>8, <1>9, NoneGood DEF RunsAt, Reached

LEMMA StepsRun ==
  ASSUME Walk, Disciplined, Operation, stage # "rejected", results' = results,
         StartStepGroup \/ SkipStep \/ LaunchStep \/ EndStepGroup \/ getTemplateOutputsFromScope,
         NEW early, ScopesAt(early, results, stack, globals, stage),
         RunsAt(early, results, frames, globals, stage)
  PROVE  RunsAt(early, results', frames', globals', stage')
  <1> DEFINE set == Reached(early, results, stage)
  <1>1. frames # <<>>
    BY DEF StartStepGroup, SkipStep, LaunchStep, EndStepGroup, getTemplateOutputsFromScope
  <1>2. stage \in {"operating", "exit"} /\ ~Validating
    BY <1>1 DEF RunsAt, Validating
  <1>3. Verifiable(set, globals) /\ GoodFrames(frames, set, globals)
    BY <1>2, Reachable DEF RunsAt, Reached
  <1> HIDE DEF set
  <1>4. GoodFrames(frames', set, globals) /\ Ends(stage) /\ globals' = globals
    <2>1. CASE StartStepGroup
      BY <1>2, <1>3, <2>1, GroupStarts DEF Ends
    <2>2. CASE EndStepGroup
      BY <1>2, <1>3, <2>2, GroupEnds DEF Ends
    <2>3. CASE SkipStep
      BY <1>3, <2>3, StepSkipped
    <2>4. CASE LaunchStep
      BY <1>2, <1>3, <2>4, StepLaunched
    <2>5. CASE getTemplateOutputsFromScope
      BY <1>2, <1>3, <2>5, OutputsReturned
    <2> QED
      BY <2>1, <2>2, <2>3, <2>4, <2>5
  <1>5. CASE stage' = stage
    BY <1>2, <1>4, <1>5 DEF RunsAt, set
  <1>6. CASE stage' # stage
    <2>1. frames' = <<>> /\ (stage' = "done" \/ (stage = "operating" /\ stage' = "exiting"))
      BY <1>2, <1>4, <1>6 DEF Ends
    <2> QED
      BY <1>4, <2>1, NoneGood DEF RunsAt
  <1> QED
    BY <1>5, <1>6

LEMMA ScopesRun ==
  ASSUME Walk, stage # "rejected", Run,
         NEW early, ScopesAt(early, results, stack, globals, stage)
  PROVE  ScopesAt(early, results', stack', globals', stage')
  <1>1. ~Validating /\ ~Validating' /\ stage' # "rejected"
    BY RunsOn DEF Walk
  <1>2. results' = results /\ stack' = stack
    BY DEF Run
  <1> QED
    BY <1>1, <1>2 DEF ScopesAt, Validating

(* The workflow stays what it is. *)
LEMMA SameWorkflow ==
  ASSUME wf' = wf
  PROVE  /\ Disciplined' <=> Disciplined
         /\ \A e, set, s, known, at : ScopesAt(e, set, s, known, at)' <=> ScopesAt(e, set, s, known, at)
         /\ \A e, set, s, known, at : RunsAt(e, set, s, known, at)' <=> RunsAt(e, set, s, known, at)
  <1>1. \A n : Called(n)' = Called(n)
    BY DEF Called
  <1>2. EntryGlobals' = EntryGlobals /\ ExitGlobals' = ExitGlobals
    BY DEF EntryGlobals, ExitGlobals
  <1>3. \A group : addOutputsToScope(group)' = addOutputsToScope(group)
    BY DEF addOutputsToScope
  <1>4. \A t, g : Provided(t, g)' = Provided(t, g)
    BY <1>3 DEF Provided
  <1>5. \A t, known, g : GroupKnown(t, known, g)' <=> GroupKnown(t, known, g)
    BY <1>4 DEF GroupKnown, InScope
  <1>6. \A f, known : ScopeOk(f, known)' <=> ScopeOk(f, known)
    BY <1>4, <1>5 DEF ScopeOk, InScope
  <1>7. \A n, known : Verified(n, known)' <=> Verified(n, known)
    BY <1>1, <1>4, <1>5 DEF Verified, InScope
  <1>8. \A s, n : UnderWay(s, n)' <=> UnderWay(s, n)
    BY <1>1 DEF UnderWay
  <1>9. \A n, set : Closed(n, set)' <=> Closed(n, set)
    BY <1>1 DEF Closed
  <1>10. \A s, set, known : VerifiedAll(s, set, known)' <=> VerifiedAll(s, set, known)
    BY <1>7, <1>8 DEF VerifiedAll
  <1>11. \A s, known : ScopesOk(s, known)' <=> ScopesOk(s, known)
    BY <1>6 DEF ScopesOk
  <1>12. \A e, set, s, known, at : ScopesAt(e, set, s, known, at)' <=> ScopesAt(e, set, s, known, at)
    BY <1>1, <1>2, <1>7, <1>9, <1>10, <1>11 DEF ScopesAt
  <1>13. \A s, tag : HasOutput(s, tag)' <=> HasOutput(s, tag)
    BY DEF HasOutput
  <1>14. \A f, s : OutputsKept(f, s)' <=> OutputsKept(f, s)
    BY <1>1, <1>13 DEF OutputsKept
  <1>15. \A f, set, known : Scoped(f, set, known)' <=> Scoped(f, set, known)
    BY <1>1, <1>14 DEF Scoped, Kept
  <1>16. \A f, i, s : Awaited(f, i, s)' <=> Awaited(f, i, s)
    BY <1>1 DEF Awaited
  <1>17. \A f, set, known : FrameGood(f, set, known)' <=> FrameGood(f, set, known)
    BY <1>1, <1>15, <1>16 DEF FrameGood, Launching
  <1>18. \A s, set, known : GoodFrames(s, set, known)' <=> GoodFrames(s, set, known)
    BY <1>17 DEF GoodFrames
  <1>19. \A e, set, s, known, at : RunsAt(e, set, s, known, at)' <=> RunsAt(e, set, s, known, at)
    BY <1>2, <1>18 DEF RunsAt
  <1>20. Disciplined' <=> Disciplined
    <2>1. TemplateSet' = TemplateSet
      BY DEF TemplateSet
    <2>2. (ArgumentsArePlain' <=> ArgumentsArePlain) /\ (EveryCallSupplies' <=> EveryCallSupplies)
      BY <2>1 DEF ArgumentsArePlain, EveryCallSupplies
    <2>3. (InputsArePlain' <=> InputsArePlain) /\ (KindsAgree' <=> KindsAgree)
      BY <2>1 DEF InputsArePlain, KindsAgree
    <2>4. (OutputsAreThere' <=> OutputsAreThere) /\ (OutputsHaveSources' <=> OutputsHaveSources)
      BY <1>13, <2>1 DEF OutputsAreThere, OutputsHaveSources
    <2>5. (ItemsAreThere' <=> ItemsAreThere) /\ (PodsFit' <=> PodsFit)
      BY <2>1 DEF ItemsAreThere, PodsFit
    <2> QED
      BY <2>2, <2>3, <2>4, <2>5 DEF Disciplined
  <1> QED
    BY <1>12, <1>19, <1>20

(* What validation has seen in scope is what the operation finds there.    *)
Resolution ==
  Disciplined =>
    \/ stage = "rejected" /\ frames = <<>>
    \/ \E early : /\ ScopesAt(early, results, stack, globals, stage)
                  /\ RunsAt(early, results, frames, globals, stage)

LEMMA ResolutionInit == Init => Resolution
  <1> SUFFICES ASSUME Init PROVE Resolution
    OBVIOUS
  <1>1. ScopesAt({}, results, stack, globals, stage)
    BY DEF Init, ValidationInit, ScopesAt
  <1>2. RunsAt({}, results, frames, globals, stage)
    BY NoneGood DEF Init, ValidationInit, RunsAt
  <1> QED
    BY <1>1, <1>2 DEF Resolution

LEMMA ResolutionNext ==
  ASSUME Walk, Operation, Resolution, [Next]_vars
  PROVE  Resolution'
  <1>1. wf' = wf
    BY DEF Next, Validate, Run, vars, validation
  <1> SUFFICES ASSUME Disciplined
               PROVE  \/ stage' = "rejected" /\ frames' = <<>>
                      \/ \E early : /\ ScopesAt(early, results', stack', globals', stage')
                                    /\ RunsAt(early, results', frames', globals', stage')
    <2>1. /\ Disciplined' <=> Disciplined
          /\ \A e : ScopesAt(e, results', stack', globals', stage')
                      => ScopesAt(e, results, stack, globals, stage)'
          /\ \A e : RunsAt(e, results', frames', globals', stage')
                      => RunsAt(e, results, frames, globals, stage)'
      BY <1>1, SameWorkflow
    <2> QED
      BY <2>1 DEF Resolution
  <1>2. CASE UNCHANGED vars
    BY <1>2 DEF Resolution, vars, validation, running
  <1>3. CASE Validate /\ UNCHANGED running
    <2>1. stage \in {"header", "entrypoint", "onExit"} /\ frames' = <<>>
      BY <1>3 DEF Validate, Walk, Validating, running
    <2>2. PICK early : ScopesAt(early, results, stack, globals, stage)
      BY <2>1 DEF Resolution
    <2>3. CASE stage' = "rejected"
      BY <2>1, <2>3
    <2>4. CASE stage' # "rejected"
      <3>1. PICK e : ScopesAt(e, results', stack', globals', stage')
        BY <1>3, <2>2, <2>4, ScopesValidate
      <3>2. stage' \notin {"error", "operating", "exiting", "exit"}
        BY <1>3, <2>1 DEF Validate, ValidateEntrypoint, ValidateOnExit, Accept, ReturnFromTemplate,
           ValidateStep, ValidateNextGroup, validateTemplate, Reject
      <3>3. RunsAt(e, results', frames', globals', stage')
        BY <2>1, <3>2, NoneGood DEF RunsAt
      <3> QED
        BY <3>1, <3>3
    <2> QED
      BY <2>3, <2>4
  <1>4. CASE stage \notin {"rejected", "done", "error"} /\ Run
    <2>1. PICK early : /\ ScopesAt(early, results, stack, globals, stage)
                       /\ RunsAt(early, results, frames, globals, stage)
      BY <1>4 DEF Resolution
    <2>2. ScopesAt(early, results', stack', globals', stage')
      BY <1>4, <2>1, ScopesRun
    <2>3. RunsAt(early, results', frames', globals', stage')
      <3>1. results' = results
        BY <1>4 DEF Run
      <3> QED
        BY <1>4, <2>1, <3>1, EntrypointRuns, ExitHandlerRuns, StepsRun DEF Run
    <2> QED
      BY <2>2, <2>3
  <1> QED
    BY <1>2, <1>3, <1>4 DEF Next

(* An accepted workflow, of any templates, finds all that it refers to     *)
(* while it runs, but for the gaps that Disciplined names: the references  *)
(* that ValidateWorkflow has seen in scope are resolved by processArgs,    *)
(* resolveReferences, expandStepGroup and getTemplateOutputsFromScope, in  *)
(* the scopes of however many nested templates and in the exit handler.    *)
THEOREM AcceptedFindsAll == Spec => []AcceptedResolves
  <1>1. Walk /\ Operation /\ [Next]_vars => Walk' /\ Operation'
    <2> SUFFICES ASSUME Walk, Operation, [Next]_vars PROVE Walk' /\ Operation'
      OBVIOUS
    <2>1. Walk'
      BY WalkNext
    <2>2. UNCHANGED vars => Operation'
      BY DEF vars, validation, running, Operation
    <2>3. Operation'
      BY <2>2, ValidateKeeps, RunKeeps DEF Next
    <2> QED
      BY <2>1, <2>3
  <1>2. Walk /\ Operation /\ Resolution /\ [Next]_vars => Resolution'
    BY ResolutionNext
  <1>3. Resolution => AcceptedResolves
    BY DEF Resolution, RunsAt, AcceptedResolves
  <1>4. Init => Operation
    BY ListNone DEF Init, ValidationInit, Operation, Nested
  <1> QED
    BY WalkInit, ResolutionInit, <1>1, <1>2, <1>3, <1>4, PTL DEF Spec
=============================================================================
