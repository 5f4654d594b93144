-------------------------- MODULE AcceptedWorkflow ---------------------------
(***************************************************************************)
(* An accepted workflow as the controller then runs it: the inputs of each *)
(* template are set and substituted, the references of a group of steps    *)
(* are resolved in the scope of the steps before, items are expanded, and  *)
(* leafs get a pod (executeSteps, executeStepGroup, executeTemplate).      *)
(*                                                                         *)
(* The steps of a group are taken one after the other, and each pod ends   *)
(* well with the outputs the executor finds, so that what goes wrong here  *)
(* is the workflow's own fault.  Retries, failures and the order in which  *)
(* pods end are the matter of WorkflowOperator.                            *)
(***************************************************************************)
EXTENDS Validation, PodConstruction

CONSTANT MaxDepth   \* bounds the steps within steps, which may be endless

VARIABLES
  frames,   \* the steps templates under way, the innermost first
  pod,      \* the pod created last with its template, or nil
  cause     \* why the operation ended in an error

running == <<frames, pod, cause>>
vars == <<validation, running>>

Init ==
  /\ ValidationInit
  /\ frames = <<>> /\ pod = NoValue /\ cause = "none"

(* What follows an error is left out: the exit handler, which is operated  *)
(* for a workflow that failed as well, is walked after success only.       *)
Fail(why) == stage' = "error" /\ cause' = why /\ UNCHANGED <<globals, frames, pod>>

-----------------------------------------------------------------------------
(* The scope of a steps template: texts by tag, and artifacts by tag.      *)

NoOutputs == [ip |-> FALSE, result |-> FALSE, params |-> <<>>, arts |-> <<>>]

(* A reference is a single tag.  Of a text without tags nothing is known;  *)
(* resolveVar gives an error or panics, and the operation recovers.        *)
IsReference(text) == \E tag \in text : text = {tag}

TagOf(text) == CHOOSE tag \in text : TRUE

NamesInputArtifact(f, tag) == tag[1] # "steps" /\ Len(tag) > 2 /\ tag[3] \in Names(f.tmpl.arts)

CanResolveArtifact(f, text) ==
  IsReference(text) /\ (TagOf(text) \in DOMAIN f.arts \/ NamesInputArtifact(f, TagOf(text)))

(* The artifact that a reference stands for, if it can be resolved. *)
resolveArtifact(f, text) ==
  LET tag == TagOf(text)
  IN  IF tag \in DOMAIN f.arts THEN f.arts[tag] ELSE ByName(f.tmpl.arts, tag[3])

CanResolveParameter(f, text) == IsReference(text) /\ TagOf(text) \in DOMAIN f.params

(* The steps of a group with the parameters of earlier steps put in. *)
Substituted(f, group) == [i \in DOMAIN group |-> ReplaceInStep(group[i], f.params)]

NeedsArtifact(step) == {art \in ToSet(step.args.arts) : art.from # NoValue}

ArtifactsResolve(f, group) ==
  \A i \in DOMAIN group : \A art \in NeedsArtifact(group[i]) : CanResolveArtifact(f, art.from)

resolveReferences(f, group) ==
  LET steps == Substituted(f, group)
      resolved(art) == IF art.from = NoValue THEN art
                       ELSE [resolveArtifact(f, art.from) EXCEPT !.name = art.name]
  IN  [i \in DOMAIN steps |->
         [steps[i] EXCEPT !.args.arts = [j \in DOMAIN @ |-> resolved(@[j])]]]

(* The items that a withParam may turn out to hold. *)
ParamItems ==
  {<<>>, <<[type |-> "scalar", keys |-> {}]>>, <<[type |-> "map", keys |-> {"k"}]>>}

ItemMap(item) ==
  [tag \in {ItemTag} \cup {ItemKey(k) : k \in item.keys} |-> {}]

IsExpanded(step) == step.items # <<>> \/ step.withParam # NoValue

(* An expanded step has a name of its own, which nobody refers to, and no  *)
(* tag may be left in it.                                                  *)
ExpandedSteps(step, items) ==
  [i \in DOMAIN items |-> [ReplaceInStep(step, ItemMap(items[i])) EXCEPT
                             !.name = NoValue, !.items = <<>>, !.withParam = NoValue]]

(* The steps a group expands to, a list for each of its steps, with the    *)
(* choice for its withParams.                                              *)
expandStepGroup(steps, param) ==
  [i \in DOMAIN steps |->
    IF ~IsExpanded(steps[i]) THEN <<steps[i]>>
    ELSE ExpandedSteps(steps[i], IF steps[i].items # <<>> THEN steps[i].items ELSE param)]

ItemsResolve(expanded) ==
  \A i \in DOMAIN expanded : \A j \in DOMAIN expanded[i] :
    expanded[i][j].name = NoValue => StepTags(expanded[i][j]) = {}

-----------------------------------------------------------------------------
(* Entering and leaving templates.                                         *)

(* What the controller learns from a leaf that ended well, or from a       *)
(* daemon that is ready.                                                   *)
LeafOutputs(t) ==
  IF t.daemon THEN [NoOutputs EXCEPT !.ip = TRUE]
  ELSE [ip     |-> FALSE,
        result |-> "script" \in t.types,
        params |-> [p \in Names(t.outParams) |->
                      IF ByName(t.outParams, p).from = NoValue THEN NoValue ELSE {}],
        arts   |-> [a \in (IF "resource" \in t.types THEN {} ELSE Names(t.outArts)) |->
                      [ByName(t.outArts, a) EXCEPT !.loc = "archive"]]]

(* The lists of the group under way that have steps to launch yet; the     *)
(* first step of the first of them is next.                                *)
Waiting(f) == IF f.todo = NoValue THEN {} ELSE {i \in DOMAIN f.todo : f.todo[i] # <<>>}

FirstOf(f) == CHOOSE i \in Waiting(f) : \A j \in Waiting(f) : i <= j

Upcoming(f) == Head(f.todo[FirstOf(f)])

(* A node is done: its outputs go to the step it was started for.  "part"  *)
(* says whether the entrypoint or the exit handler runs.                   *)
Return(below, outputs, part) ==
  IF below = <<>>
  THEN /\ frames' = <<>>
       /\ stage' = IF part = "operating" /\ wf.onExit # NoValue THEN "exiting" ELSE "done"
  ELSE /\ LET f == Head(below)
          IN  frames' = <<[f EXCEPT
                             !.todo[FirstOf(f)] = Tail(@),
                             !.done = @ \cup {[name |-> Upcoming(f).name, outputs |-> outputs]}]>>
                        \o Tail(below)
       /\ stage' = part

NewFrame(t) ==
  [tmpl |-> t, group |-> 1, todo |-> NoValue, done |-> {}, params |-> <<>>, arts |-> <<>>]

(* Why a leaf gets no pod, or "none". *)
LeafError(t) ==
  IF t.types = {} THEN "type"
  ELSE IF PodError(wf, t) # "none" THEN PodError(wf, t)
  ELSE IF PodAccepted(createWorkflowPod(t)) THEN "none" ELSE "pod"

(* The texts of the global variables: a parameter is that of the workflow. *)
GlobalTexts(known) ==
  [tag \in known |-> IF tag[2] = "parameters" THEN ByName(wf.args.params, tag[3]).value ELSE {}]

(* executeTemplate for a node that has no status yet. *)
executeTemplate(name, args, known, below, part) ==
  LET can == CanProcess(GetTemplate(wf, name), args, GlobalTexts(known))
      t == ProcessArgs(GetTemplate(wf, name), args, GlobalTexts(known))
  IN  \/ ~can /\ Fail("inputs")
      \/ /\ can
         /\ IF "steps" \in t.types
            THEN /\ Len(below) < MaxDepth
                 /\ frames' = <<NewFrame(t)>> \o below /\ stage' = part
                 /\ globals' = known /\ UNCHANGED <<pod, cause>>
            ELSE IF LeafError(t) # "none" THEN Fail(LeafError(t))
            ELSE /\ pod' = [tmpl |-> t, spec |-> createWorkflowPod(t)]
                 /\ Return(below, LeafOutputs(t), part)
                 /\ globals' = known /\ UNCHANGED cause

(* operate: an argument without a value is a nil pointer that is followed. *)
Operate ==
  /\ stage = "accepted"
  /\ IF \E i \in DOMAIN wf.args.params : wf.args.params[i].value = NoValue THEN Fail("argument")
     ELSE executeTemplate(wf.entrypoint, wf.args,
                          {GlobalVarWorkflowName, GlobalVarWorkflowUID}
                            \cup {WorkflowParameter(p) : p \in Names(wf.args.params)},
                          <<>>, "operating")

OperateOnExit ==
  /\ stage = "exiting"
  /\ executeTemplate(wf.onExit, wf.args, globals \cup {GlobalVarWorkflowStatus}, <<>>, "exit")

-----------------------------------------------------------------------------
(* A group of steps.  A withParam may hold anything, or be no list at all. *)
StartStepGroup ==
  /\ frames # <<>>
  /\ LET f == Head(frames)
     IN  /\ f.todo = NoValue /\ f.group <= Len(f.tmpl.steps)
         /\ LET group == f.tmpl.steps[f.group]
            IN  IF ~ArtifactsResolve(f, Substituted(f, group)) THEN Fail("reference")
                ELSE \/ /\ \E i \in DOMAIN group : group[i].withParam # NoValue
                        /\ Fail("param")
                     \/ \E param \in ParamItems :
                          LET resolved == resolveReferences(f, group)
                              steps    == expandStepGroup(resolved, param)
                          IN  /\ \A i \in DOMAIN resolved : Text(resolved[i].withParam) = {}
                              /\ IF ItemsResolve(steps)
                                 THEN /\ frames' = <<[f EXCEPT !.todo = steps]>> \o Tail(frames)
                                      /\ UNCHANGED <<globals, stage, pod, cause>>
                                 ELSE Fail("item")

(* A step whose when clause is false is skipped and has no outputs. *)
SkipStep ==
  /\ frames # <<>> /\ Waiting(Head(frames)) # {}
  /\ Upcoming(Head(frames)).when # NoValue
  /\ Return(frames, NoOutputs, stage)
  /\ UNCHANGED <<globals, pod, cause>>

LaunchStep ==
  /\ frames # <<>> /\ Waiting(Head(frames)) # {}
  /\ LET step == Upcoming(Head(frames))
     IN  executeTemplate(step.template, step.args, globals, frames, stage)

(* What the node of a step adds to the scope. *)
ParamsOf(d) ==
  [tag \in {StepIP(d.name) : b \in {d.outputs.ip} \cap {TRUE}}
           \cup {StepResult(d.name) : b \in {d.outputs.result} \cap {TRUE}}
           \cup {StepParameter(d.name, p) : p \in DOMAIN d.outputs.params}
     |-> IF Len(tag) = 5 THEN d.outputs.params[tag[5]] ELSE {}]

ArtsOf(d) ==
  [tag \in {StepArtifact(d.name, a) : a \in DOMAIN d.outputs.arts} |-> d.outputs.arts[tag[5]]]

(* A scope with the maps laid over it; as the names of steps differ, so do *)
(* the tags of the maps.                                                   *)
Overlaid(scope, maps) ==
  [tag \in DOMAIN scope \cup (UNION {DOMAIN m : m \in maps}) |->
     IF \E m \in maps : tag \in DOMAIN m
     THEN (CHOOSE m \in maps : tag \in DOMAIN m)[tag] ELSE scope[tag]]

(* The node of an expanded step is not found under the step's name; an     *)
(* output parameter without a value is a nil pointer that is followed.     *)
EndStepGroup ==
  /\ frames # <<>> /\ Head(frames).todo # NoValue /\ Waiting(Head(frames)) = {}
  /\ LET f == Head(frames)
         found  == {d \in f.done : d.name # NoValue}
         params == Overlaid(f.params, {ParamsOf(d) : d \in found})
     IN  IF \E tag \in DOMAIN params : params[tag] = NoValue THEN Fail("no value")
         ELSE /\ frames' = <<[f EXCEPT !.group = @ + 1, !.todo = NoValue, !.done = {},
                                       !.params = params,
                                       !.arts = Overlaid(@, {ArtsOf(d) : d \in found})]>>
                           \o Tail(frames)
              /\ UNCHANGED <<globals, stage, pod, cause>>

(* The outputs of a steps template, once all groups are done. *)
getTemplateOutputsFromScope ==
  /\ frames # <<>>
  /\ LET f == Head(frames)
         t == f.tmpl
     IN  /\ f.group > Len(t.steps)
         /\ IF /\ \A i \in DOMAIN t.outParams : CanResolveParameter(f, Text(t.outParams[i].from))
               /\ \A i \in DOMAIN t.outArts :
                    CanResolveArtifact(f, Text(t.outArts[i].from))
            THEN /\ Return(Tail(frames),
                           [NoOutputs EXCEPT
                              !.params = [p \in Names(t.outParams) |->
                                f.params[TagOf(ByName(t.outParams, p).from)]],
                              !.arts = [a \in Names(t.outArts) |->
                                resolveArtifact(f, ByName(t.outArts, a).from)]],
                           stage)
                 /\ UNCHANGED <<globals, pod, cause>>
            ELSE Fail("outputs")

Run ==
  /\ \/ Operate \/ OperateOnExit
     \/ StartStepGroup \/ SkipStep \/ LaunchStep \/ EndStepGroup
     \/ getTemplateOutputsFromScope
  /\ UNCHANGED <<wf, results, stack>>

Next ==
  \/ Validate /\ UNCHANGED running
  \/ stage \notin {"rejected", "done", "error"} /\ Run

Spec == Init /\ [][Next]_vars
=============================================================================
