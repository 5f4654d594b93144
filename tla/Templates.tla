------------------------------ MODULE Templates ------------------------------
(***************************************************************************)
(* A workflow's spec as validation, substitution and the construction of   *)
(* pods see it (types.go), and the substitution of variables (util.go).    *)
(*                                                                         *)
(* A text is abstracted to the set of the tags {{...}} in it, a tag to the *)
(* sequence of its dotted parts; plain text is the empty set.  A field     *)
(* that may be nil, or empty with the same meaning, is NoValue then.       *)
(*                                                                         *)
(* workflow  [templates, entrypoint, onExit, args, volumes, claims]        *)
(* template  [name, types, params, arts, outParams, outArts, body, steps,  *)
(*            daemon, mounts, sidecars, archive, deadline]                 *)
(* step      [name, template, args, items, withParam, when]                *)
(* args      [params, arts]                                                *)
(* parameter [name, default, value]; of outputs [name, from]               *)
(* artifact  [name, path, from, loc]                                       *)
(* item      [type, keys]                                                  *)
(*                                                                         *)
(* "types" says which of container, script, resource and steps are given,  *)
(* "body" is what they say.  All lists are sequences.                      *)
(***************************************************************************)
EXTENDS Naturals, Sequences

CONSTANTS
  NoValue,    \* nil
  FieldName   \* the well-formed names

ASSUME NilAssumption == NoValue # {}

(* The elements of a list have names, well-formed ones, each its own. *)
validateWorkflowFieldNames(list) ==
  \A i \in DOMAIN list :
    /\ list[i].name \in FieldName
    /\ \A j \in DOMAIN list : list[i].name = list[j].name => i = j

Names(list) == {list[i].name : i \in DOMAIN list}

(* The first element with the name, or nil. *)
ByName(list, name) ==
  IF name \notin Names(list) THEN NoValue
  ELSE list[CHOOSE i \in DOMAIN list :
              /\ list[i].name = name
              /\ \A j \in 1 .. i - 1 : list[j].name # name]

GetTemplate(wf, name) == ByName(wf.templates, name)

IsLeaf(t) == "container" \in t.types \/ "script" \in t.types

HasLocation(art) == art.loc # "none"

-----------------------------------------------------------------------------
(* Tags.                                                                   *)

InputParameter(p) == <<"inputs", "parameters", p>>
InputArtifact(a)  == <<"inputs", "artifacts", a>>
StepIP(s)         == <<"steps", s, "ip">>
StepResult(s)     == <<"steps", s, "outputs", "result">>
StepParameter(s, p) == <<"steps", s, "outputs", "parameters", p>>
StepArtifact(s, a)  == <<"steps", s, "outputs", "artifacts", a>>
GlobalVarWorkflowName   == <<"workflow", "name">>
GlobalVarWorkflowUID    == <<"workflow", "uid">>
GlobalVarWorkflowStatus == <<"workflow", "status">>
WorkflowParameter(p)    == <<"workflow", "parameters", p>>

ItemTag    == <<"item">>
ItemKey(k) == <<"item", k>>
anyItemMagicValue == ItemKey("*")

Text(v) == IF v = NoValue THEN {} ELSE v

ArgumentTags(args) ==
  UNION ({Text(args.params[i].value) : i \in DOMAIN args.params}
         \cup {Text(args.arts[i].from) : i \in DOMAIN args.arts})

StepTags(step) == ArgumentTags(step.args) \cup Text(step.withParam) \cup Text(step.when)

GroupTags(group) == UNION {StepTags(group[i]) : i \in DOMAIN group}

OutputTags(t) ==
  UNION ({Text(t.outParams[i].from) : i \in DOMAIN t.outParams}
         \cup {Text(t.outArts[i].from) : i \in DOMAIN t.outArts})

(* All the tags in the JSON of a template. *)
Tags(t) ==
  t.body \cup OutputTags(t)
  \cup (UNION {Text(t.params[i].default) \cup Text(t.params[i].value) : i \in DOMAIN t.params})
  \cup (UNION {Text(t.arts[i].from) : i \in DOMAIN t.arts})
  \cup (UNION {GroupTags(t.steps[i]) : i \in DOMAIN t.steps})

-----------------------------------------------------------------------------
(* Substitution: a map from tags to texts is laid over a text, once.       *)

Replace(text, map) ==
  UNION {IF tag \in DOMAIN map THEN map[tag] ELSE {tag} : tag \in text}

ReplaceOptional(v, map) == IF v = NoValue THEN v ELSE Replace(v, map)

ReplaceInArguments(args, map) ==
  [params |-> [i \in DOMAIN args.params |->
                 [args.params[i] EXCEPT !.value = ReplaceOptional(@, map)]],
   arts   |-> [i \in DOMAIN args.arts |->
                 [args.arts[i] EXCEPT !.from = ReplaceOptional(@, map)]]]

ReplaceInStep(step, map) ==
  [step EXCEPT !.args = ReplaceInArguments(@, map),
               !.withParam = ReplaceOptional(@, map),
               !.when = ReplaceOptional(@, map)]

ReplaceInInput(p, map) ==
  [p EXCEPT !.default = ReplaceOptional(@, map), !.value = ReplaceOptional(@, map)]

ReplaceInOutput(out, map) == [out EXCEPT !.from = ReplaceOptional(@, map)]

(* An empty list of steps does not survive the way through JSON. *)
ReplaceInTemplate(t, map) ==
  [t EXCEPT
     !.types     = IF t.steps = <<>> THEN @ \ {"steps"} ELSE @,
     !.body      = Replace(@, map),
     !.params    = [i \in DOMAIN @ |-> ReplaceInInput(@[i], map)],
     !.outParams = [i \in DOMAIN @ |-> ReplaceInOutput(@[i], map)],
     !.outArts   = [i \in DOMAIN @ |-> ReplaceInOutput(@[i], map)],
     !.steps     = [i \in DOMAIN @ |-> [j \in DOMAIN @[i] |-> ReplaceInStep(@[i][j], map)]]]

(* An input takes its value from the argument, from the default, or has it *)
(* already, in this order.                                                 *)
IsGiven(param, args) ==
  param.name \in Names(args.params) /\ ByName(args.params, param.name).value # NoValue

InputValue(param, args) ==
  IF IsGiven(param, args) THEN ByName(args.params, param.name).value
  ELSE IF param.default # NoValue THEN param.default
  ELSE param.value

WithInput(param, args) == [param EXCEPT !.value = InputValue(param, args)]

WithInputs(t, args) == [t EXCEPT !.params = [i \in DOMAIN @ |-> WithInput(@[i], args)]]

(* Every global a template mentions must be there. *)
GlobalsResolved(t, globals) ==
  \A tag \in Tags(t) : tag[1] = "workflow" => tag \in DOMAIN globals

substituteParams(t, globals) ==
  LET g == ReplaceInTemplate(t, globals)
      inputs == [tag \in {InputParameter(p) : p \in Names(g.params)} |->
                   ByName(g.params, tag[3]).value]
  IN  ReplaceInTemplate(g, inputs)

InputsSupplied(t, args) ==
  /\ \A i \in DOMAIN t.params : InputValue(t.params[i], args) # NoValue
  /\ \A i \in DOMAIN t.arts :
       HasLocation(t.arts[i]) \/ t.arts[i].name \in Names(args.arts)

(* An artifact without a location is the argument of its name, put to the  *)
(* template's own path.                                                    *)
InputArtifactOf(art, args) ==
  LET arg == ByName(args.arts, art.name)
  IN  IF HasLocation(art) THEN art ELSE [art EXCEPT !.from = arg.from, !.loc = arg.loc]

CanProcess(t, args, globals) ==
  InputsSupplied(t, args) /\ GlobalsResolved(WithInputs(t, args), globals)

(* The template with its inputs set and substituted, if it can be. *)
ProcessArgs(t, args, globals) ==
  [substituteParams(WithInputs(t, args), globals) EXCEPT
     !.arts = [i \in DOMAIN @ |-> InputArtifactOf(@[i], args)]]
=============================================================================
