------------------------- MODULE AcceptedProperties --------------------------
(***************************************************************************)
(* What it means for a workflow to have been validated.                    *)
(***************************************************************************)
EXTENDS AcceptedWorkflow

(* Validation ends although templates may call each other in a circle:     *)
(* none is under way twice, so the walk is never deeper than there are     *)
(* templates (the map results, validate.go:91-97).                         *)
VisitedOnce ==
  \A i, j \in DOMAIN stack : stack[i].tmpl.name = stack[j].tmpl.name => i = j

Validating == stage \in {"header", "entrypoint", "onExit"}

StepsOf(t) == UNION {ToSet(t.steps[g]) : g \in DOMAIN t.steps}

(* The templates visited are closed under calls, and each is there and of  *)
(* one type, when a workflow is accepted: none is run unseen, however the  *)
(* walk was cut short by templates visited before (validateSteps).         *)
EveryCallChecked ==
  stage \notin {"rejected"} /\ ~Validating =>
    /\ wf.entrypoint \in results
    /\ wf.onExit # NoValue => wf.onExit \in results
    /\ \A n \in results :
         LET t == GetTemplate(wf, n)
         IN  /\ n \in Names(wf.templates) /\ OneType(t)
             /\ \A g \in DOMAIN t.steps : \A i \in DOMAIN t.steps[g] :
                  t.steps[g][i].template \in results

-----------------------------------------------------------------------------
(* What validation does not look at, each with the place where the         *)
(* operation trips over it.                                                *)

TemplateSet == ToSet(wf.templates)

(* An argument of the workflow without a value is a nil pointer that is    *)
(* followed (operator.go:124), and nobody resolves a reference in one.     *)
ArgumentsArePlain ==
  /\ \A i \in DOMAIN wf.args.params : wf.args.params[i].value = {}
  /\ \A i \in DOMAIN wf.args.arts : Text(wf.args.arts[i].from) = {}

(* A template's inputs are checked for the first of its calls only         *)
(* (validate.go:92), and the exit handler may have been called before.     *)
EveryCallSupplies ==
  /\ \A t \in TemplateSet : \A s \in StepsOf(t) :
       s.template \in Names(wf.templates) => InputsSupplied(GetTemplate(wf, s.template), s.args)
  /\ wf.onExit \in Names(wf.templates) => InputsSupplied(GetTemplate(wf, wf.onExit), wf.args)

(* Inputs are substituted once (util.go:190), so that the text of one      *)
(* cannot refer to another, as validation lets a leaf (validate.go:212);   *)
(* in a template of steps it does not look at these texts at all.          *)
InputsArePlain ==
  \A t \in TemplateSet : \A p \in ToSet(t.params) :
    Text(p.value) = {} /\ \A tag \in Text(p.default) : tag[1] = "workflow"

IsArtifactTag(tag) ==
  \/ Len(tag) = 3 /\ tag[1] = "inputs" /\ tag[2] = "artifacts"
  \/ Len(tag) = 5 /\ tag[1] = "steps" /\ tag[4] = "artifacts"

(* Artifacts and texts share one scope in validation, not in the operation *)
(* (operator.go:982-1023).                                                 *)
KindsAgree ==
  \A t \in TemplateSet :
    /\ "steps" \notin t.types => \A tag \in Tags(t) : ~IsArtifactTag(tag)
    /\ \A s \in StepsOf(t) :
         /\ \A tag \in Text(s.when) \cup Text(s.withParam)
                     \cup (UNION {Text(p.value) : p \in ToSet(s.args.params)}) : ~IsArtifactTag(tag)
         /\ \A art \in ToSet(s.args.arts) :
              art.from # NoValue => IsReference(art.from) /\ IsArtifactTag(TagOf(art.from))
    /\ "steps" \in t.types =>
         /\ \A p \in ToSet(t.outParams) :
              IsReference(Text(p.from)) /\ ~IsArtifactTag(TagOf(p.from)) /\ TagOf(p.from)[1] = "steps"
         /\ \A art \in ToSet(t.outArts) : IsReference(Text(art.from)) /\ IsArtifactTag(TagOf(art.from))

(* The outputs of a step that may be skipped, is expanded (steps.go:57), or *)
(* does not have them: a daemon has an address only, a resource no         *)
(* artifacts, and only a pod has an address.                               *)
HasOutput(s, tag) ==
  LET t == GetTemplate(wf, s.template)
  IN  /\ s.when = NoValue /\ ~IsExpanded(s)
      /\ IF tag = StepIP(s.name) THEN t.types # {"steps"} ELSE ~t.daemon \/ t.types = {"steps"}
      /\ t.types = {"resource"} => ~IsArtifactTag(tag)

OutputsAreThere ==
  \A t \in TemplateSet : \A s \in StepsOf(t) :
    \A tag \in Tags(t) : tag[1] = "steps" /\ tag[2] = s.name => HasOutput(s, tag)

OutputsHaveSources == \A t \in TemplateSet : \A p \in ToSet(t.outParams) : p.from # NoValue

(* The scope of items ends with the template, not with the step, and what  *)
(* a withParam holds is not known (validate.go:322-345).                   *)
ItemsAreThere ==
  \A t \in TemplateSet : \A s \in StepsOf(t) :
    /\ s.withParam = NoValue
    /\ \A tag \in StepTags(s) : tag[1] = "item" =>
         IsExpanded(s) /\ \A i \in DOMAIN s.items : tag \in DOMAIN ItemMap(s.items[i])

(* Empty steps vanish; volumes, mounts and archive locations are not       *)
(* looked at, nor that a resource has no use for an artifact               *)
(* (workflowpod.go:284, 395, 458).                                         *)
PodsFit ==
  \A t \in TemplateSet :
    IF "steps" \in t.types THEN t.steps # <<>>
    ELSE /\ VolumesFound(wf, t) /\ ArchiveKnown(t)
         /\ \A art \in ToSet(t.arts) : art.path # NoValue
         /\ PodAccepted(createWorkflowPod(t))

Disciplined ==
  /\ ArgumentsArePlain /\ EveryCallSupplies /\ InputsArePlain /\ KindsAgree
  /\ OutputsAreThere /\ OutputsHaveSources /\ ItemsAreThere /\ PodsFit

(* An accepted workflow never stumbles over its own references: whatever   *)
(* tag survived validation has a value by the time it is needed, through   *)
(* four rounds of substitution in the scopes of nested templates, but for  *)
(* the gaps above (resolveReferences, verifyResolvedVariables).            *)
AcceptedResolves == stage = "error" => ~Disciplined

(* The executor puts an input artifact where the main container finds it   *)
(* at its path, although the controller and the executor decide on their   *)
(* own whether it overlaps a volume of the user's (addInputArtifactsVolumes*)
(* and LoadArtifacts).                                                     *)
InPlace(p, art) ==
  LET loaded == LoadPath(p.tmpl, art)
  IN  /\ Covering(p.spec.init, loaded) # {}
      /\ Place(p.spec.init, loaded) = Place(p.spec.main, art.path)

(* A mount whose path only starts the same text as an artifact's.          *)
MisledByPrefix(p, art) ==
  \E m \in ToSet(p.tmpl.mounts) : IsPrefix(m.path, art.path) /\ ~Under(art.path, m.path)

ArtifactsReachMain ==
  pod # NoValue =>
    \A art \in ToSet(pod.tmpl.arts) : InPlace(pod, art) \/ MisledByPrefix(pod, art)

(* "the executor will load the artifact in the in user's volume (as        *)
(* opposed to the emptydir)" (workflowpod.go:345): no artifact is lost.    *)
NoArtifactLost == pod # NoValue => \A art \in ToSet(pod.tmpl.arts) : InPlace(pod, art)
=============================================================================
