# A verification of KubeTasker

KubeTasker runs workflows of containers on Kubernetes.  A workflow is a custom
resource; a controller turns its templates into pods and records what became
of them in the resource's status; inside every pod an executor runs beside the
main container.  This directory holds TLA+ models of the parts whose state
changes under concurrency and failure, the configurations that check them with
TLC, and theorems about them that TLAPS proves.

    tlc -workers 2 -config nested.cfg MCWorkflow     # one run
    tlapm AnyLag_proofs.tla                          # one proof module

## 1. Inventory

### Components

| Component | State it keeps | Operations | Interacts with | Hard behaviour | Correct when |
|---|---|---|---|---|---|
| Operation of one workflow (`workflow/controller/operator.go`, `steps.go`) | `wfOperationCtx`: working copy and original of the workflow, `updated`, completed pods, deadline | `operate`, `podReconciliation`, `createPVCs`, `executeTemplate` and its recursion over steps, groups, retries, `killDeamonedChildren`, `deletePVCs`, `markWorkflowPhase`, `persistUpdates` | reads the informer's cache, lists and creates pods and claims, patches the workflow, sends names to the labeler | stale cache; stop between an effect and the patch that records it; deadline in the middle of a template; one call of several failing | steps run in order and once, success is earned, one completion, claims removed, daemons stopped |
| Controller (`workflow/controller/controller.go`) | two rate limited queues, two informers, the channel `completedPods`, the config | `runWorker`/`processNextItem`, `podWorker`/`processNextPodItem`, `podLabeler`, `ResyncConfig`, watch of the config map | watches workflows, pods and its config map; starts operations; labels pods | events that overtake the patch, lost wake-ups, a full channel, a configuration replaced in the middle of a use | every workflow completes, every completed pod is labelled, never too early; the configuration in use was in the map |
| Pod construction (`workflow/controller/workflowpod.go`) | none | `createWorkflowPod` and its helpers | called by the operation; reads the configuration; the executor follows its layout of volumes | the pod exists already; mounts and artifacts that overlap | the pod that exists is taken for the node's own; an artifact is where the main container looks for it |
| Resource types (`pkg/apis/workflow/v1alpha1`) | the status of workflow and nodes | predicates on the status, `NodeID` | all | 32-bit node IDs | terminal phases stay terminal |
| Validation and substitution (`workflow/common`) | the scope of names, the templates visited | `ValidateWorkflow`, `ProcessArgs`, `Replace` | called by the operation and by `lint`/`submit`; the operation resolves in scopes of its own | two scopings of the same names; templates visited once though called often | an accepted workflow has no reference that cannot resolve |
| Executor (`workflow/executor/executor.go`, `cmd/taskerexec`) | the template, errors, the deadline from the pod's annotations | `Wait`, `monitorAnnotations`, `monitorDeadline`, `killSidecars`, `SaveArtifacts`, `SaveParameters`, `CaptureScriptResult`, `AnnotateOutputs` | docker, kubectl, the pod's annotations, which the controller changes | file events and signals racing the end of the main container; two kills | main is waited for, sidecars are killed, outputs are saved after the wait |
| Resource executor (`workflow/executor/resource.go`) | the retries left | `ExecResource`, `WaitResource`, `SaveResourceParameters` | kubectl, which prints the versions of a resource that others change | a watch that ends, versions that are missed, two conditions | success was seen, failure was not |
| Installation (`cmd/tasker/commands/install.go`) | none; the flags | `install`: definition, accounts, role, bindings, config map, deployment | the API server; the controller reads the config map | commands at the same time, a call that fails half way, an administrator's edits | what the deployment needs is there before it, an upgrade keeps the latest edit of what it knows |
| Artifact drivers (`workflow/artifacts`) | none | load and save | S3, git, HTTP, Artifactory | none of its own | - |
| Command line (the rest of `cmd/tasker`) | none | submit, wait, get, list, logs, delete, uninstall, lint | the API server | `wait` polls until `finishedAt` | ends when the workflow has |
| Controller process, generated client, utilities | none | set-up, generated code, retry, errors | - | - | - |

### How the parts interact

A workflow event of the informer puts the workflow's key into `wfQueue`.  A
worker takes the key, copies the workflow **from the cache** and operates on
the copy: it reconciles the nodes with the pods it lists, walks the tree of
templates, creates pods and claims **directly in the API server**, and only at
the end sends one merge patch with the difference between the original and the
copy.  Then it sleeps for a second, "to give the informer a chance", and sends
the completed pods to the labeler.  The pod informer sees pods labelled
`completed=false`; its events put the pod's workflow back into `wfQueue`.

So effects come before the record of them, the record is computed from a copy
that may be old, and it is merged without a resource version.  Everything that
is hard about this system follows from these three facts.

### Hazards

`PROJECT.json` lists them under `hazards`, each at the line where it bites and
with the properties that watch it; those without a property say why.

## 2. Modules

    NodeStatus           phases of nodes and pods, assessNodeStatus
      WorkflowTree       the tree of nodes, constants and their assumptions
        WorkflowOperator     one operation, step by step; the variables
          WorkflowController     queues, informers, labeler, cluster, restart, fairness
            WorkflowProperties       the properties; instance of WorkflowLifecycle
              MCWorkflow                 small workflows for TLC
              AnyLag_proofs              types; what holds however old the copies are
                InSync_proofs              what holds from the last version: labels, claims,
                                           the refinement of WorkflowLifecycle
                  Success_proofs             success that was earned, groups in order
                    Faultless_proofs           without failures: no pod forgotten, retries in turn
    WorkflowLifecycle    what a user may rely on (abstract specification)

    NodeStatus
      PodContainers        the containers of one pod, the kubelet's report, the verdict
        Executor             init and wait container, the controller's cancellation
          ResourceExecutor       the main container of a resource template; the whole pod, fairness
            ExecutorProperties       the properties
              MCExecutor                 small pods for TLC
              Executor_proofs            types, stops with a reason, success that was shown,
                                         no outputs lost in silence

    Templates            a spec, its texts as sets of tags, substitution
      Validation           ValidateWorkflow
      PodConstruction      volumes and mounts of a pod, where artifacts are loaded
        AcceptedWorkflow     (both) the run of a workflow that validation let pass
          AcceptedProperties     the properties
            MCAccepted               small workflows for TLC
            Validation_proofs        no template under way twice, none run unseen,
                                     artifacts found where they are looked for
              Resolution_proofs        an accepted workflow finds all that it refers to

    Installation         the install command against the objects of the cluster
      ControllerProcess    the controller's configuration; fairness
        InstallationProperties the properties
          MCInstallation           two commands for TLC
          Installation_proofs      the deployment comes last, what is known of a config map
                                   is kept; the process

Each module extends the one above it.  `WorkflowOperator` and `Executor` meet in
`NodeStatus`: what the executor makes of a pod (`PodPhaseOf`) is what the
operation reads from one (`assessNodeStatus`); in `WorkflowController` the
cluster chooses it freely.  `AcceptedWorkflow` is about the data of the same
operation whose control is in `WorkflowOperator`: what is put in for which name,
with every pod ending well.  There, a bad reference is one of the constants
(`Unresolvable`); here it is found out which workflows have one.

**WorkflowTree.**  The nodes of one workflow as the operator names them: node
names are paths, so the tree is known before the run.  Its constants say what
the code reads from the workflow: which nodes are steps templates, step groups,
retried containers or pods, their order, limits, daemons, how a `when` clause
turns out, which references do not resolve, whether validation accepts the
workflow, the number of volume claims.  `withItems` is taken as expanded: a
step per item.  Distinct nodes have distinct IDs.

**WorkflowOperator.**  State:

| Variable | Code |
|---|---|
| `store` | the workflow's status in the API server: phase, completed, nodes, `PersistentVolumeClaims` (`vols`: the claims it names, `slots`: the length of the list) |
| `pods`, `pvcs` | pods (phase, label completed, told to stop) and claims in the API server |
| `watch`, `cache` | versions of the workflow the informer has not delivered yet, and the one it has |
| `queued`, `podQueue`, `completedCh` | the two queues and the channel of completed pods, which holds `ChannelSize` of them (512 in the code) |
| `pc`, `cur`, `ret` | where `operate` is: the step, the node whose template is executed, and the result it returns with |
| `orig`, `wf`, `updated`, `completedPods` | `woc.orig`, `woc.wf`, `woc.updated`, `woc.completedPods` |
| `budget` | the faults left |

The recursion of `executeTemplate` is a walk over the tree: `cur` is the node
at hand, its parent is found in the tree, and the loops over groups and steps
resume at the following sibling.  One action per step that an operation does
between two effects that others can see: `StartOperation`, `ValidateOnce`,
`podReconciliation`, `ListPodsFails`, `createPVCs`, `ExecutePodTemplate`,
`ExecuteRetryTemplate`, `ExecuteStepsTemplate`, `executeStepGroup`,
`LaunchStep`, `StepReturns`, `GroupReturns`, `killDeamonedChildren`,
`TemplateReturns`, `FinishWorkflow`, `NothingToPersist`, `persistUpdates`,
`SendCompletedPod`, `EndOperation`; `DrainItem` drops the key of a completed
workflow.

**WorkflowController.**  `WatchEvent` and `Resync` (workflow informer),
`processNextPodItem`, `podLabeler`, `Crash` (restart: everything in memory is
lost and the informers list again), and the cluster: `PodRuns`, `DaemonReady`,
`PodTerminates`, `PodUnreachable`, `PodReachable`, `PodDeleted`.

**WorkflowLifecycle** is the abstract specification: a workflow starts, may
show an error while its claims cannot be removed, completes once, and never
changes afterwards; its nodes only move towards an outcome.
`ImplementsLifecycle` is the refinement, with the stored status as the mapping.

**PodContainers.**  `ctr` is docker's view of the containers, `status` what the
kubelet last reported to the API server; everything the executor knows of other
containers, IDs included, it knows from `status`, and everything it does to them
it does by docker.  `Phase` and `FailedReason` are the pod's phase (kubelet) and
the controller's reading of a failed pod (`inferFailedReason`).

**Executor.**  The process of the wait container has three goroutines and a
timer, all of them in one module because they share variables:

| Variable | Code |
|---|---|
| `pc` | where `waitContainer` is; `"gone"` when the process has ended |
| `errors`, `saved`, `exit` | `we.errors`, the outputs copied from an ended main container, the exit code |
| `targets`, `force` | the arguments of `killContainers`, and those of its timer after the wait was killed |
| `monitor`, `deadline` | the goroutines of `monitorAnnotations` and `monitorDeadline`, with the send on the unbuffered channel between them |
| `watching`, `event`, `signal` | the watch on the annotations file and SIGUSR2 |
| `execution`, `file`, `execCtl` | the cancellation in the pod's annotation, in the mounted file, in `ExecutionControl` |
| `cancelled` | the context |
| `outputs`, `message` | the annotations the executor writes |

**ResourceExecutor.**  A resource template runs the executor as the main
container, so its process and the wait container share a pod.  `resource` is
the object in the cluster, `feed` what `kubectl get -w` has still to print,
`attempts` the retries of `wait.ExponentialBackoff`, `shown` a history of what
was printed.  The actions are `StageFiles`, `ExecResource`, `WaitResource`,
`startKubectlWaitCmd`, `checkResourceState`, `WatchEnds`,
`SaveResourceParameters`, and `ResourceChanges` for everybody else in the
cluster.  A condition is a predicate on a version.

**Templates, Validation, PodConstruction, AcceptedWorkflow.**  A text is the set of
the tags in it, a tag is the sequence of its parts (`{{steps.a.ip}}` is
`<<"steps", "a", "ip">>`), so that substitution is a matter of sets, and "a tag
is left" one of emptiness.  `Validation` is the recursion of `validateTemplate`
with an explicit stack; `AcceptedWorkflow` is the recursion of
`executeTemplate` with the scope of each steps template in a frame.  Paths in
`PodConstruction` are sequences of names and slashes, because the code compares
them as texts.

**Installation, ControllerProcess.**  One action per call of `install`, `step` is
where a command is.  A call may fail, take effect and lose its answer, or be
answered; the command ends at the first error and may be given again.  The config
map of a namespace is the sequence of its versions, so that "read, then replace
with the version that was read" is visible.  A version says whether there is
anything in it besides the fields of `WorkflowControllerConfig` (`others`); both the
upgrade and the controller only see what the struct holds (`Known`), and the upgrade
writes that back (`Upgraded`).  The process of the controller reads the map at its
start, gets later versions by the watch, and reads its fields one after the other
while it builds a pod (`CheckInstance`, `LabelInstance`, `ReadImage`,
`CheckResources`, `UseResources`).

An output counts as saved only if it was copied when the main container had
ended: `docker cp` fails in a pipe and `docker logs` drops its error, so that an
output may be saved empty without anybody noticing (`Copy`).

## 3. Runs

The controller is checked for one workflow: workflows share nothing but the queues
and the labeler's channel.

| Run | Workflow | Faults | What it shows |
|---|---|---|---|
| `stale` | two steps in sequence | cache up to two patches behind, restart, failed call, lost answer | `TypeOK`, `LabelledAfterPersist`, `SuccessIsEarned`, `StepsInOrder` |
| `nested` | steps in steps, parallel steps, empty group, skipped step, exit handler with a bad reference | restart, deadline | `StepsInOrder`, `ImplementsLifecycle` |
| `cluster_faults` | two steps, two claims | restart, failed call, deleted pod, unreachable kubelet | `SuccessIsEarned`, `ClaimsReleased`, `ImplementsLifecycle` |
| `retries` | a retried container, exit handler | restart, deadline, a full channel | `RetriesBounded`, `NoneForgotten`, `RetriesSequential`, `OnExitLast` |
| `invalid` | one that validation rejects | stale cache, two restarts, two failed calls, two lost answers | `InvalidRunsNothing` |
| `progress` | a daemon, outputs that do not resolve, a bad `when` in a nested template and in the exit handler, a claim | restart, failed call, lost answer, deadline | `LabelledAfterPersist`, `EventuallyCompleted`, `DaemonsStopped`, `CompletedPodsLabelled` |
| `executor` | one pod: a script with a sidecar, inputs and all outputs, a daemon, or a template that creates, reads, applies or deletes a resource | a failed call of the API server, a failed docker or kubectl command, a failed save, an eviction | `TypeOK`, `SuccessHasOutputs`, `StoppedForReason`, `SuccessWasShown`, `ExecutorEnds`, `CancelIsNoticed`, `SidecarsTold`, `ResourceWaitEnds` |
| `accepted` | some four thousand, valid and not: a producer and a consumer with every reference between them, inputs and outputs whose texts refer on, templates that call each other, pods with mounts | the workflow's own | `VisitedOnce`, `EveryCallChecked`, `AcceptedResolves`, `ArtifactsReachMain` |
| `installation` | two install commands of two releases, an administrator with three edits, a controller | any call failing or losing its answer, crashes of the controller | `TypeOK`, `DeployedLast`, `KnownFieldsSurvive`, `ImagesFromConfigMap`, `PodsWatched`, `PanicsOnRemoval`, `ConfigTaken` |

`DaemonsStopped` and `CompletedPodsLabelled` except a failed call: neither the
kill of a daemon nor a label is tried again.  A restart loses labels as well.
`NoneForgotten` is the part of `CompletedPodsLabelled` that is the worker's: the
last operation is the last chance of a pod to get to the labeler.

`AcceptedResolves` says that an operation that stumbles does so for one of the
reasons in `Disciplined`: each of its conjuncts names a gap of the validation and
the place in the operation where it shows.  The proof has found three
that no run had shown: an argument of the workflow that holds a reference
(`ArgumentsArePlain`), the default of an input that refers to another input, which
one substitution does not follow (`InputsArePlain`), and an exit handler that was
validated as a step of the entrypoint, with the arguments of that step
(`EveryCallSupplies`).

Three more runs state what a comment of the source says and the code does not
do; TLC finds the counterexample (`findings` in `PROJECT.json`):

- `claims_again`: a restart after the claims were created makes the next
  operation create them again, which ends the workflow in Error.
- `deleted_pod`: "we will get to them eventually", but a deleted pod is not
  noticed while a sibling's pod object exists.
- `lost_artifact`: a mount at `/src` counts as above an artifact at `/srcdata`,
  as paths are compared as texts; the artifact is loaded where nobody sees it.

Other departures from comments show in the models but have no run of their own:

- `retryStrategy.limit` is documented as the maximum number of attempts
  (`types.go:337`); the code allows one more (`operator.go:295`,
  `RetriesBounded`, with its proof).
- a daemon under a retry node is never told to stop (`steps.go:315` looks at
  the children of groups only).
- a sidecar that the pod's status does not show as started when the main
  container has ended has no container ID yet; `docker kill` fails and nobody
  tries again (`executor.go:761`; hence the premise of `SidecarsTold`).
- a resource that is deleted while it is waited for keeps the watch open
  (`resource.go`; hence the exception in `ResourceWaitEnds`).
- when the output of `kubectl get -w` cannot be read any more, it is killed, and the
  comment says that if it was still running "we give up and don't retry"
  (`resource.go:136-143`).  The code returns `true, resultErr` in every case, and
  `WaitResource` retries for as long as it is told `true` (`WatchEnds`, `Retry`).
- "an update to a new executor image" (`install.go:298`) does more than that: the
  known fields are marshalled again and become all of the map's data
  (`install.go:309-327`).  Other keys of the map, and fields and comments under the
  key `config` that `WorkflowControllerConfig` has not, are lost, even if an
  administrator put them there; the controller reads none of them.
  `KnownFieldsSurvive` is therefore about the known fields and states the loss of the
  rest.

**Bounds.**  `MaxLag` bounds the patches the informer has not delivered: two
are enough for an operation to start from a workflow that misses both the
creation and the outcome of a node.  `Budget` gives the number of each fault:
`crash` (restart), `api` (a call fails), `lost` (a patch takes effect and its
answer is lost), `slow` (the operation hits its deadline), `delete` (a pod is
deleted from outside), `unreachable` (phase Unknown).  `ChannelSize` is 1 in
`retries`, where one operation sends up to three pods, and 2 elsewhere: the
worker meets the channel full and waits.  A retry node is offered
a fixed pool of attempts, one more than its limit allows, so that exceeding
the limit is possible in the model; nothing else is bounded, as the nodes of a
workflow are finite.  In `Executor` everything is finite too: `Budget` gives the
number of failed calls of the API server, of docker and kubectl, of saving, and of
evictions: one of each, which may all strike.  `Attempts` = 5 is the number of
steps of the back-off in the code.  `MaxFeed` = 2 bounds the versions of the
resource that kubectl has not printed: two are enough for one that meets a
condition to be followed by one that does not, or to be missed between watches.
In `AcceptedWorkflow` `MaxDepth` = 3 bounds steps within steps, as validation
lets templates call each other in a circle and the operation then never ends;
three are enough for outputs that pass through two scopes.  In `Installation`
`MaxVersions` = 3 bounds the versions of the config map: made, edited, replaced;
commands may be given any number of times.  One namespace is checked; that
namespaces share the cluster role is covered by the proof.

**InSync.**  `persistUpdates` sleeps for a second so that the informer catches
up.  Nothing guarantees that it does, so what must hold regardless is checked
with `InSync = FALSE`.  The life cycle, the claims, the order of attempts and
liveness are checked with `InSync = TRUE`: with a stale cache together with a
deleted pod or a failed creation a workflow that has completed can change
again, because the merge patch has no resource version.  `LabelledAfterPersist`
holds in `stale`, but not in general: let the creation of a first attempt lose
its answer, so that an operation records the attempt as an error; the next,
from the version before, finds the pod and records it as running; one that
still starts from the first record labels it.  With a restart *and* a failed
creation two attempts of a retry can run at once, so `retries` has no `api`
fault.  Both are listed as hazards.

**Deadlock** is not checked: when a pod has ended and its status is reported, when
a workflow has completed, its pods have been labelled and no faults are left, or
when a workflow is rejected, nothing happens any more, which is right; in
`Installation` no command starts once the bound on versions is reached.

**Fairness** (`FairSpec`).  Weak fairness for the worker, the labeler, the pod
worker (goroutines in endless loops), the workflow informer's delivery and its
periodic resync (`workflowResyncPeriod`), and the kubelet running and ending
the pods it has.  None for faults.  The pod informer's resync (`podResyncPeriod`, 30
minutes) is left out: with it a pod event would be repeated, so that leaving it out
only makes liveness harder.  In `Executor`: weak fairness for each goroutine and the
timer while the process lives, and for the kubelet, which starts containers,
reports their status and refreshes the annotations file; each without faults, as
a wait for a container must not be ended by a failure that is bound to come.  A
container never has to end by itself, and a signal may be lost.  None is assumed
of `WatchEnds` or of anything that happens to the resource.  In
`ControllerProcess`: the kubelet starts the process again (a deployment), the
watch of the config map delivers what there is, and the set-up of the informers
goes on; none for the install commands, the administrator or crashes.
`AcceptedWorkflow` has safety properties only.

## 4. Proofs

For every tree, limit, number of claims, lag and budget of faults:

- `TypeCorrect` (`AnyLag_proofs`): `Spec => []TypeOK`.  The
  inductive invariant `TypeInv` adds to the types where the walk may be: at a
  step of a group only with a node whose parent is a group, and so on; without
  it `Parent(cur)` and `Following` have no value.
- `InvalidNeverRuns` (`AnyLag_proofs`): `Spec => []InvalidRunsNothing`.
  `InvalidInv` says that no version of a rejected workflow, stored, delivered or
  on its way, is ever between "no phase" and "failed", and that no operation
  gets beyond the validation.
- `RetriesNeverExceed` (`AnyLag_proofs`): `Spec => []RetriesBounded`.  The
  bound is on pods, and the code compares the limit with the recorded children.
  `RetryInv` relates the two: in every version of the workflow, however old,
  a retry node has at most `limit + 1` recorded attempts and the stored one
  keeps whatever an older one recorded (`VersionsInv`); the walk only enters
  an attempt that is the last recorded one (`CursorInv`); and no pod lies
  beyond what any operation can record (`NoPodBeyond`).

The theorems that follow assume `InSync`: an operation starts from the last persisted
version.  Then a patch makes the stored workflow equal to the operation's copy
(`SyncInv`, `Patched`), and what an operation keeps in its copy, a sequence of
operations keeps in the store, through restarts, failed calls and lost answers.

- `LabelsComeLast` (`InSync_proofs`): `InSync => (Spec => []LabelledAfterPersist)`.
  An operation never takes the completion of a pod's node back (`Keeps`): it
  marks such a node running only if the node does not exist, which for a new
  attempt needs that no attempt beyond the recorded ones exists (`NoneBeyond`).
- `NoClaimLeft` (`InSync_proofs`): `InSync => (Spec => []ClaimsReleased)`.
  Claims exist before they are recorded, so the bare statement is not inductive.
  `ClaimInv` says that every claim is listed, or is yet to be created, or the
  workflow ended because it could not be (`Accounted`), and that an operation
  beyond `createPVCs` lists every claim there is.
- `FollowsLifecycle` (`InSync_proofs`): `InSync => (Spec => ImplementsLifecycle)`,
  for every tree of templates.  A patch is one step of the abstract
  specification and every other step a stutter (`PatchAdvances`, `OnlyPatched`),
  if the copy is only ever ahead of the store (`NodesOnward`).  Two things make
  that hard.  The walk judges a steps node and a group again when it comes back
  to them, so that none of the nodes it will come back to may have succeeded:
  `Open(wf, cur)` says there is a path of such nodes from the top to the node at
  hand, and the lemmas `OpenDown`, `OpenUp`, `OpenSideways` move it along with
  the recursion.  And a node assessed from its pod must not lose a success:
  `Backed` says that the pod of a succeeded node has succeeded or is gone, and
  that of a skipped one was never there.  `PhaseInv` has the phases a workflow
  have at each step of an operation.
- `SuccessWasEarned` and `GroupsInOrder` (`Success_proofs`):
  `InSync => (Spec => []SuccessIsEarned)` and `InSync => (Spec => StepsInOrder)`.
  Both relate the operator's nodes to the cluster's own view of the pods.  The
  operator records the success of a node on one of three grounds - a pod's phase,
  the last attempt of a retry, the nodes below - and never looks at the ground
  again.  `Earned` says that it still stands, by induction over the tree: `Won` is
  the set of pods that have succeeded, are a started daemon or may have been
  deleted since, and a pod that won never runs again because its node exists in
  every later version (`Remembered`, `WonGrows`).  For the groups before the one it
  is in, the operator relies on how it got there; `Placed` says that of the node
  it has come to (`Reached`).  `Within` is
  the least closed set of nodes, not a recursive function, so that it can be
  reasoned about: a node is below another one when every set that holds the one
  and all children of its members holds the other.
- `NoneIsForgotten` (`Faultless_proofs`): `InSync => (Spec => []NoneForgotten)`.  As
  long as there was no restart and every call was answered (`Spared`), the operation's
  copy records every pod there is (`PodsRecorded`), the completed ones it has seen are
  in `completedPods` (`Collected`), and each completed pod of a completed workflow is
  labelled, in the channel, or still to be sent (`Given`).  That an operation which
  finds nothing to persist may go without sending needs `CopyMarked`: a copy that
  differs from the original is marked `updated`.
- `RetriesInOrder` (`Faultless_proofs`): `Spec => RetriesSequential` when `InSync` and
  no call fails and no kubelet becomes unreachable (their `Budget` is 0); restarts,
  deadlines and deleted pods are free.  The operator goes by the status of the last
  recorded attempt.  `InTurn` says that a recorded failure is one of the pod
  (`FailedIsOver`), that all but the last recorded attempt have failed
  (`Superseded`), and that what exists beyond the record is at most the attempt an
  operation was about to record (`NoneAhead`, `OneAhead`).  Without the hypotheses a
  node is marked Error although its pod may run: its creation failed, or its phase
  was Unknown for a while.

- `NoneUnderWayTwice` (`Validation_proofs`): `Spec => []VisitedOnce`, for any set of
  specs, circular ones included: whatever is under way is marked in `results`, and a
  template is only entered when it is not.
- `NoneRunsUnseen` (`Validation_proofs`): `Spec => []EveryCallChecked`, for any
  set of specs, circular ones included.  The marks of the walk form a
  depth-first search: `Walk` says that every marked template is under way, and
  then the steps it has passed call marked templates only, or is done, and then
  all of its steps do.  When the stack is empty, what remains is closed.
- `ArtifactsAreFound` (`Validation_proofs`): `Spec => []ArtifactsReachMain`, for any
  set of specs, volumes and mounts.  `Operation` carries what validation has found
  into the run: every step under way calls a template that was validated
  (`RunningOk`, and `Nested` for the frames that wait for the innermost one), so that
  a pod is always that of a template of one type, whose substitution left mounts and
  paths alone (`ProcessedTemplate`).  Then the two decisions about an artifact agree.
  Without an overlap both containers see the volume of artifacts at its path
  (`InItsVolume`).  With one, the deepest of the user's mounts is the same in both
  (`InTheUsersVolume`): no artifact is mounted deeper, as it would overlap that mount
  itself.  That there is a deepest one is `LeastElement`.  Used on the way: only
  containers have mounts, which `IsTemplate` takes from the types, and that the API
  server takes no pod that mounts two volumes at one path (`PodAccepted`).
- `AcceptedFindsAll` (`Resolution_proofs`): `Spec => []AcceptedResolves`, for any set
  of specs.  Validation and operation read the same texts at different times and in
  scopes of their own; `Resolution` ties them together, beside `Walk` and `Operation`.
  While a disciplined workflow runs only plain texts are put in for tags
  (`Erases`), so that a text is always the one of the spec less the tags that had a
  value (`Left`, `StepLeft`, `TemplateLeft`), however many substitutions it went through.  What
  validation has verified is `Verified`: of every template in `results` but those
  under way, each group's tags are in the scope of inputs, globals and the steps of
  the groups before (`InScope`), and of one under way this holds of the groups passed
  (`ScopeOk`).  A template that the entrypoint reaches has been verified
  without `{{workflow.status}}`, one that only the exit handler reaches with it, and
  the exit handler may call either; `ScopesAt` therefore names the set of templates
  visited early, and validation never visits those again.  `RunsAt` says what the
  operation may rely on: each frame is what the substitutions leave of a verified
  template, its scope holds the outputs of the steps before the one it is in
  (`Scoped`, from `OutputKind`: which template yields which outputs), the group it is in has been
  resolved, and the outer frames wait for the inner one (`GoodFrames`).
  From that follows that arguments suffice, references to parameters and
  artifacts resolve, items have the fields that are asked for, and the outputs of a
  template of steps are there when it ends.
- `DeploymentIsLast` (`Installation_proofs`): `Spec => []DeployedLast`, for any
  number of commands with any flags, namespaces and edits.  `Inv` says of each
  command what it knows at the step where it is (`Knows`); all of that is about
  objects that are never taken away (`Grows`), so that no other command can
  disturb it, and a deployment is made only at steps where all is known.
- `KnownFieldsAreKept` (`Installation_proofs`): `Spec => KnownFieldsSurvive`, from
  the same invariant: an update that names the version it has read replaces the
  current one, so that no edit made meanwhile is lost, but for what the command does
  not know of the map (`KnownFields`).
- `InstallationTypes`, `ImageWasConfigured`, `PodsAreWatched` and `OnlyRemovalPanics`
  (`Installation_proofs`): `Spec => []TypeOK` and the three properties of the
  controller's process.  `ProcessInv` (`ProcessCorrect`) says which versions of the map
  the configuration and the fields of a half-built pod come from (`ConfigSeen`), and
  that without a move the instance id is that of the first version
  (`InstanceKept`).  Versions are only ever appended (`OneMore`), so that the
  installers and the administrator do not disturb it.
- `ExecutorTypes`, `NothingStoppedWithoutReason` and `SuccessIsShown`
  (`Executor_proofs`): `Spec => []TypeOK`, `Spec => []StoppedForReason` and
  `Spec => []SuccessWasShown`, for any templates, sidecars, number of watches
  and budget of faults.  `Inv` adds to the types: where the two executors may be
  and how many watches have ended by then (`Places`); that every trace of a
  cancellation - the file, what a goroutine has loaded, the signal to the main
  container - goes back to the annotation (`CancelInv`); that sidecars are only
  killed when the wait for the main container is over (`KillInv`); and what is
  known of the versions shown at each step of the command `resource`
  (`ShownInv`).
- `NoOutputsLost` (`Executor_proofs`): `Spec => []SuccessHasOutputs`, for the
  same constants.  `OutputsInv` says what has been seen and saved when the wait
  command (`WaitSaved`) or the command `resource` (`ResourceSaved`) is at a step,
  as long as no docker command and no call of the API server has failed, and that
  the status never runs ahead of docker (`StatusOK`).  Steps that neither save nor
  annotate have one lemma together (`QuietInv`).

The proofs use `TreeAssumption` and `SpecAssumption` of `WorkflowTree`,
`NilAssumption`, `WorkflowsAssumption`, `InstallationAssumption`, `ContainerAssumption`,
`BudgetAssumption` and `ResourceAssumption`, and the library's facts about finite
sets and sequences.

Only model-checked: liveness (fairness is out of the prover's reach); `OnExitLast`,
which holds in its run and not for every tree and budget - a failing call, a
reference that does not resolve, a bad `when` clause, or a daemon that fails between a
restart and its record ends a template while pods of it run.  Every other invariant
and every other action property of a run is a theorem.  Why the theorems with `InSync` need it is said in section 3:
with a stale cache `SuccessIsEarned` and `StepsInOrder` are checked for two steps
(`stale`) and not proved.

## 5. Not modelled

- Recovery from panics; messages, outputs and timestamps of nodes.
- In `WorkflowOperator`, errors of template arguments and undefined templates: they
  end a node the same way a failed creation does (see `AcceptedWorkflow`).
- In `AcceptedWorkflow`: what happens after an error, retries, failures of pods;
  the JSON of items; what an expression of a `when` clause says.
- A retry strategy without a limit, which never fails.
- The list of pods is taken as current, as it is read from the API server.
- That a Go string or struct may be torn when it is read without a lock; the
  namespace a configuration restricts the controller to; two controllers during
  the update of a deployment.
- `install --dry-run`, the user interface (commented out), `uninstall`; the fields
  of a configuration other than image, resources and instance id, which upgrades
  carry along in the same way.
- That `executeResource` (`operator.go:1050`) reads the executor's image for the main
  container of a resource template: one more read of the same field, before the label.
- The executor's start-up (a template that cannot be read), its panics, secrets;
  `waitContainer` without sidecars in the template is `sidecars = {}`.  Sidecars
  of a resource pod.
- Artifact drivers: one call of a client each.  The commands `submit`, `wait`,
  `get`, `list`, `logs`, `delete`, `lint`: one call of the API server for each
  workflow, or a poll (`EventuallyCompleted`).  Generated code.

## 6. Plan

1. **Several workflows** that wait for each other at the channel of completed
   pods.
2. **A window before the watch**: a cancellation that comes before
   `monitorAnnotations` has set up the watch (hazard at `executor.go:606`).
3. **Item codec** and the printing of items.
4. **Proofs**: `OnExitLast` for trees without bad `when` clauses and unresolved
   references and without failing calls; `SuccessIsEarned` for a stale cache.

Small runs are merged when new ones come (`invalid` into a run with several
kinds of workflow chosen by `Init`), so that the project stays quick to check.
