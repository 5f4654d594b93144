----------------------------- MODULE Validation ------------------------------
(***************************************************************************)
(* ValidateWorkflow (validate.go): a walk over the templates that can be   *)
(* reached from the entrypoint, then from the exit handler.  A template is *)
(* visited once, with the arguments of the step that comes first; it is    *)
(* marked when it is entered.  The calls of validateTemplate that are      *)
(* under way form the stack, its top first, each with the scope it has     *)
(* gathered and the step it has reached.                                   *)
(***************************************************************************)
EXTENDS Templates

CONSTANT Workflows   \* the specs considered

(* The shape of a spec (types.go), as far as the proofs need it.           *)
IsList(s) == s \in Seq({s[i] : i \in DOMAIN s})

IsMount(m) == m # NoValue /\ DOMAIN m = {"vol", "path", "sub"} /\ IsList(m.path)

(* Nil is no text, nor what a substitution may leave of one. *)
IsText(v) == v = NoValue \/ \A part \in SUBSET v : part # NoValue

IsArtifact(art) ==
  /\ DOMAIN art = {"name", "path", "from", "loc"}
  /\ art.path # NoValue => IsList(art.path)
  /\ IsText(art.from)

IsArguments(args) ==
  /\ DOMAIN args = {"params", "arts"} /\ IsList(args.params) /\ IsList(args.arts)
  /\ \A i \in DOMAIN args.params :
       DOMAIN args.params[i] = {"name", "value"} /\ IsText(args.params[i].value)
  /\ \A i \in DOMAIN args.arts : IsArtifact(args.arts[i])

IsStep(step) ==
  /\ DOMAIN step = {"name", "template", "args", "items", "withParam", "when"}
  /\ step.name # NoValue /\ IsArguments(step.args) /\ IsList(step.items)
  /\ IsText(step.withParam) /\ IsText(step.when)

(* Only a container has mounts, only a template of steps has steps.        *)
IsTemplate(t) ==
  /\ DOMAIN t = {"name", "types", "params", "arts", "outParams", "outArts", "body", "steps",
                 "daemon", "mounts", "sidecars", "archive", "deadline"}
  /\ IsList(t.params)
  /\ \A i \in DOMAIN t.params :
       /\ DOMAIN t.params[i] = {"name", "default", "value"}
       /\ IsText(t.params[i].default) /\ IsText(t.params[i].value)
  /\ IsList(t.outParams)
  /\ \A i \in DOMAIN t.outParams :
       DOMAIN t.outParams[i] = {"name", "from"} /\ IsText(t.outParams[i].from)
  /\ IsList(t.arts) /\ \A i \in DOMAIN t.arts : IsArtifact(t.arts[i])
  /\ IsList(t.outArts) /\ \A i \in DOMAIN t.outArts : IsArtifact(t.outArts[i])
  /\ IsList(t.mounts) /\ \A i \in DOMAIN t.mounts : IsMount(t.mounts[i])
  /\ t.daemon \in BOOLEAN
  /\ "container" \notin t.types => t.mounts = <<>>
  /\ "steps" \notin t.types => t.steps = <<>>
  /\ IsList(t.steps)
  /\ \A g \in DOMAIN t.steps :
       IsList(t.steps[g]) /\ \A i \in DOMAIN t.steps[g] : IsStep(t.steps[g][i])

ASSUME WorkflowsAssumption ==
  \A w \in Workflows :
    /\ IsList(w.templates) /\ \A i \in DOMAIN w.templates : IsTemplate(w.templates[i])
    /\ IsArguments(w.args)

VARIABLES
  wf,        \* the workflow's spec
  globals,   \* globalParams: the tags that are known everywhere
  results,   \* the names of the templates visited
  stack,     \* Seq of [tmpl, scope, group, step]
  stage      \* where ValidateWorkflow, and later the operation, is

validation == <<wf, globals, results, stack, stage>>

ValidationInit ==
  /\ wf \in Workflows
  /\ globals = {} /\ results = {} /\ stack = <<>> /\ stage = "header"

-----------------------------------------------------------------------------
(* The checks.                                                             *)

(* Every tag is in scope; where an item is unknown so are its keys. *)
resolveAllVariables(scope, tags) ==
  \A tag \in tags : tag \in scope \/ (tag[1] = "item" /\ anyItemMagicValue \in scope)

validateArguments(args) ==
  validateWorkflowFieldNames(args.params) /\ validateWorkflowFieldNames(args.arts)

(* A path is for containers and scripts, and they need it. *)
PathsFit(t, arts) == \A i \in DOMAIN arts : (arts[i].path # NoValue) = IsLeaf(t)

validateInputs(t) ==
  /\ validateWorkflowFieldNames(t.params) /\ validateWorkflowFieldNames(t.arts)
  /\ PathsFit(t, t.arts)
  /\ \A i \in DOMAIN t.arts : t.arts[i].from = NoValue /\ t.arts[i].loc # "git without repo"

InputScope(t) ==
  {InputParameter(p) : p \in Names(t.params)} \cup {InputArtifact(a) : a \in Names(t.arts)}

OneType(t) == \E type \in {"container", "script", "resource", "steps"} : t.types = {type}

(* The mounts and artifacts of a container are at different paths. *)
validateLeaf(scope, t) ==
  LET path(i) == IF i <= Len(t.mounts) THEN t.mounts[i].path
                 ELSE t.arts[i - Len(t.mounts)].path
  IN  /\ resolveAllVariables(scope, Tags(t))
      /\ "container" \in t.types =>
           \A i, j \in 1 .. Len(t.mounts) + Len(t.arts) : path(i) = path(j) => i = j
      /\ t.deadline # "not positive"

validateOutputs(scope, t) ==
  /\ validateWorkflowFieldNames(t.outParams) /\ validateWorkflowFieldNames(t.outArts)
  /\ resolveAllVariables(scope, OutputTags(t))
  /\ PathsFit(t, t.outArts)

ItemsFit(step) ==
  /\ step.items = <<>> \/ step.withParam = NoValue
  /\ \A i \in DOMAIN step.items : step.items[i].type \in {"scalar", "map"}

(* The tags that the items of a step bring into the scope of the template. *)
addItemsToScope(step) ==
  IF step.items # <<>>
  THEN UNION {IF step.items[i].type = "scalar" THEN {ItemTag}
              ELSE {ItemKey(k) : k \in step.items[i].keys} : i \in DOMAIN step.items}
  ELSE IF step.withParam # NoValue THEN {ItemTag, anyItemMagicValue}
  ELSE {}

OutputScope(t, name) ==
  {StepIP(name) : d \in {t.daemon} \cap {TRUE}}
  \cup {StepResult(name) : type \in t.types \cap {"script"}}
  \cup {StepParameter(name, p) : p \in Names(t.outParams)}
  \cup {StepArtifact(name, a) : a \in Names(t.outArts)}

addOutputsToScope(group) ==
  UNION {OutputScope(GetTemplate(wf, group[i].template), group[i].name) : i \in DOMAIN group}

-----------------------------------------------------------------------------
Reject == stage' = "rejected" /\ UNCHANGED <<globals, results, stack>>

(* Mutant: a template is marked when validateTemplate returns. *)
Marked_Late(t) == results

Marked(t) == results \cup {t.name}

(* validateTemplate up to the point where it looks at the steps: nothing   *)
(* to do for a template visited before, otherwise it gets a frame.         *)
validateTemplate(t, args, known, below, next) ==
  IF t.name \in results
  THEN stack' = below /\ stage' = next /\ globals' = known /\ UNCHANGED results
  ELSE IF /\ CanProcess(t, args, [tag \in known |-> {}])
          /\ validateInputs(t) /\ OneType(t)
  THEN /\ results' = Marked(t)
       /\ stack' = <<[tmpl |-> t, scope |-> InputScope(t) \cup known, group |-> 1, step |-> 1]>>
                   \o below
       /\ stage' = next /\ globals' = known
  ELSE Reject

(* ValidateWorkflow up to the call for the entrypoint. *)
ValidateEntrypoint ==
  /\ stage = "header"
  /\ IF /\ validateWorkflowFieldNames(wf.templates) /\ validateArguments(wf.args)
        /\ wf.entrypoint \in Names(wf.templates)
     THEN validateTemplate(GetTemplate(wf, wf.entrypoint), wf.args,
                           {GlobalVarWorkflowName, GlobalVarWorkflowUID}
                             \cup {WorkflowParameter(p) : p \in Names(wf.args.params)},
                           <<>>, "entrypoint")
     ELSE Reject

(* Only the exit handler knows the workflow's status. *)
ValidateOnExit ==
  /\ stage = "entrypoint" /\ stack = <<>>
  /\ IF wf.onExit = NoValue THEN stage' = "accepted" /\ UNCHANGED <<globals, results, stack>>
     ELSE IF wf.onExit \in Names(wf.templates)
     THEN validateTemplate(GetTemplate(wf, wf.onExit), wf.args,
                           globals \cup {GlobalVarWorkflowStatus}, <<>>, "onExit")
     ELSE Reject

Accept ==
  /\ stage = "onExit" /\ stack = <<>>
  /\ stage' = "accepted" /\ UNCHANGED <<globals, results, stack>>

(* validateLeaf or the end of validateSteps, and the outputs. *)
ReturnFromTemplate ==
  /\ stack # <<>>
  /\ LET f == Head(stack)
     IN  /\ "steps" \in f.tmpl.types => f.group > Len(f.tmpl.steps)
         /\ IF /\ "steps" \notin f.tmpl.types => validateLeaf(f.scope, f.tmpl)
               /\ validateOutputs(f.scope, f.tmpl)
            THEN stack' = Tail(stack) /\ UNCHANGED <<globals, results, stage>>
            ELSE Reject

(* The names of the steps before the one that is looked at. *)
StepNames(f) ==
  (UNION {Names(f.tmpl.steps[g]) : g \in 1 .. f.group - 1})
  \cup {f.tmpl.steps[f.group][i].name : i \in 1 .. f.step - 1}

(* All the tags of the group must be known when any of its steps is looked *)
(* at, with the items of this step and of those before.                    *)
StepOk(f, group, step) ==
  /\ step.name \in FieldName \ StepNames(f)
  /\ ItemsFit(step)
  /\ resolveAllVariables(f.scope, GroupTags(group))
  /\ step.template \in Names(wf.templates)
  /\ validateArguments(step.args)

(* Mutant: the outputs of a step are known to the steps beside it. *)
WithItems_AndOutputs(f, step) ==
  LET known == SelectSeq(f.tmpl.steps[f.group], LAMBDA s : s.template \in Names(wf.templates))
  IN  [f EXCEPT !.scope = @ \cup addItemsToScope(step) \cup addOutputsToScope(known)]

WithItems(f, step) == [f EXCEPT !.scope = @ \cup addItemsToScope(step)]

(* Mutant: the last step of a group is not looked at. *)
NextStep_TooFar(f) == [f EXCEPT !.step = Len(f.tmpl.steps[f.group]) + 1]

NextStep(f) == [f EXCEPT !.step = @ + 1]

(* One round of the inner loop of validateSteps. *)
ValidateStep ==
  /\ stack # <<>>
  /\ LET f == Head(stack)
     IN  /\ "steps" \in f.tmpl.types /\ f.group <= Len(f.tmpl.steps)
         /\ f.step <= Len(f.tmpl.steps[f.group])
         /\ LET group == f.tmpl.steps[f.group]
                step  == group[f.step]
                g     == WithItems(f, step)
            IN  IF StepOk(g, group, step)
                THEN validateTemplate(GetTemplate(wf, step.template), step.args, globals,
                                      <<NextStep(g)>> \o Tail(stack), stage)
                ELSE Reject

(* The outputs of a group are known to the groups after it. *)
ValidateNextGroup ==
  /\ stack # <<>>
  /\ LET f == Head(stack)
     IN  /\ "steps" \in f.tmpl.types /\ f.group <= Len(f.tmpl.steps)
         /\ f.step > Len(f.tmpl.steps[f.group])
         /\ stack' = <<[f EXCEPT !.group = @ + 1, !.step = 1,
                                 !.scope = @ \cup addOutputsToScope(f.tmpl.steps[f.group])]>>
                     \o Tail(stack)
  /\ UNCHANGED <<globals, results, stage>>

Validate ==
  /\ stage \in {"header", "entrypoint", "onExit"}
  /\ \/ ValidateEntrypoint \/ ValidateOnExit \/ Accept
     \/ ReturnFromTemplate \/ ValidateStep \/ ValidateNextGroup
  /\ UNCHANGED wf

ValidationSpec == ValidationInit /\ [][Validate]_validation
=============================================================================
