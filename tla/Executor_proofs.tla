--------------------------- MODULE Executor_proofs ---------------------------
(***************************************************************************)
(* Proofs about the executor, for any templates, sidecars and budget of    *)
(* faults: its types, that nothing is told to stop without a reason, that  *)
(* a resource step only succeeds on a version that met its condition, and  *)
(* that no step succeeds without its outputs.                              *)
(***************************************************************************)
EXTENDS ExecutorProperties, TLAPS

PodOK ==
  /\ tmpl \in Template /\ ctr \in [Container -> ContainerState] /\ evicted \in BOOLEAN
  /\ status \in [containers : [Container -> ContainerState], message : BOOLEAN]
  /\ term \subseteq {"main"} \cup Sidecar

NotesOK ==
  /\ execution \in BOOLEAN /\ file \in BOOLEAN /\ outputs \subseteq saved /\ message \in BOOLEAN
  /\ signal \in {"none", "sent", "pending"} /\ event \in BOOLEAN

CommandOK ==
  /\ pc \in Step /\ errors \in BOOLEAN /\ saved \subseteq tmpl.outputs
  /\ targets \subseteq Sidecar /\ exit \in {"zero", "nonzero"}

GoroutinesOK ==
  /\ cancelled \in BOOLEAN /\ watching \in BOOLEAN /\ execCtl \in BOOLEAN
  /\ monitor \in {"off", "select", "sendFile", "sendSignal", "reload", "stopped"}
  /\ deadline \in {"off", "poll", "killing", "stopped"}
  /\ force \subseteq {"main"} \cup Sidecar

BudgetOK == budget \in [Fault -> Nat]

ResourceOK ==
  /\ resource \in Version /\ feed \in Seq(Version) /\ attempts \in 0..Attempts
  /\ shown \subseteq [success : BOOLEAN, failure : BOOLEAN]

BeforeWatch   == {"none", "stage", "exec", "waitResource"}
WhileWatching == {"watch", "readJSON"}
AfterWatch    == {"resourceParameters", "annotate", "handle"}
OnlyResource  == {"stage", "exec", "waitResource", "watch", "readJSON", "resourceParameters"}

(* Where the two executors are, and how many watches have ended by then.   *)
Places ==
  /\ pc \in OnlyResource => IsResource
  /\ IsResource => pc \in BeforeWatch \cup WhileWatching \cup AfterWatch \cup {"gone"}
  /\ pc \in BeforeWatch => attempts = 0
  /\ pc \in WhileWatching => attempts < Attempts

(* Every trace of a cancellation goes back to the annotation. *)
CancelInv ==
  /\ file => execution
  /\ execCtl => execution
  /\ "main" \in term => execution

(* Sidecars are killed when the wait for the main container is over. *)
MainDone == Ended(ctr["main"]) \/ errors
KillInv ==
  /\ pc = "killSidecars" => MainDone
  /\ term \cap Sidecar # {} => MainDone

(* What success of a resource with conditions stands for. *)
NoFailure == \A v \in shown : ~v.failure
Earned == NoFailure /\ \E v \in shown : v.success

ShownInv ==
  IsResource =>
    /\ ctr["main"] = "waiting" => pc = "none"
    /\ status.containers["main"] = "zero" => ctr["main"] = "zero"
    /\ ctr["main"] = "zero" => pc = "gone"
    /\ tmpl.conditions # {} =>
         /\ pc \in BeforeWatch => shown = {}
         /\ pc \in WhileWatching => NoFailure
         /\ pc \in AfterWatch /\ exit = "zero" => Earned
         /\ ctr["main"] = "zero" => Earned

Inv ==
  /\ PodOK /\ NotesOK /\ CommandOK /\ GoroutinesOK /\ BudgetOK /\ ResourceOK
  /\ Places /\ CancelInv /\ KillInv /\ ShownInv

-----------------------------------------------------------------------------
LEMMA TemplateFacts ==
  ASSUME tmpl \in Template
  PROVE  /\ tmpl.sidecars \subseteq Sidecar /\ tmpl.outputs \subseteq Output
         /\ tmpl.conditions \subseteq Condition
         /\ IsResource => ~tmpl.daemon /\ tmpl.outputs \subseteq {"parameters"}
         /\ "main" \notin Sidecar /\ "init" \notin Sidecar /\ "wait" \notin Sidecar
  BY ContainerAssumption DEF ContainerAssumption, TemplateType, IsResource

LEMMA SpendOK ==
  ASSUME BudgetOK, NEW f \in Fault, Spend(f)
  PROVE  BudgetOK'
  BY DEF BudgetOK, Spend

(* What an action leaves alone keeps its type. *)
LEMMA Frames ==
  /\ PodOK /\ UNCHANGED containers => PodOK'
  /\ NotesOK /\ UNCHANGED <<annotations, signal, event, saved>> => NotesOK'
  /\ GoroutinesOK /\ UNCHANGED <<goroutines, force>> => GoroutinesOK'
  /\ BudgetOK /\ UNCHANGED budget => BudgetOK'
  /\ ResourceOK /\ UNCHANGED resourceVars => ResourceOK'
<1>1. PodOK /\ UNCHANGED containers => PodOK'
  BY DEF PodOK, containers
<1>2. NotesOK /\ UNCHANGED <<annotations, signal, event, saved>> => NotesOK'
  BY DEF NotesOK, annotations
<1>3. GoroutinesOK /\ UNCHANGED <<goroutines, force>> => GoroutinesOK'
  BY DEF GoroutinesOK, goroutines
<1>4. BudgetOK /\ UNCHANGED budget => BudgetOK'
  BY DEF BudgetOK
<1>5. ResourceOK /\ UNCHANGED resourceVars => ResourceOK'
  BY DEF ResourceOK, resourceVars
<1> QED
  BY <1>1, <1>2, <1>3, <1>4, <1>5

LEMMA waitMainContainerStartInv ==
  ASSUME Inv, waitMainContainerStart, UNCHANGED resourceVars
  PROVE  Inv'
<1>1. BudgetOK'
  BY SpendOK DEF Inv, waitMainContainerStart, Fault, BudgetOK
<1>2. PodOK' /\ NotesOK' /\ GoroutinesOK' /\ ResourceOK'
  BY Frames DEF Inv, waitMainContainerStart
<1>3. CommandOK'
  BY DEF Inv, CommandOK, waitMainContainerStart, Step, Fails, containers
<1>4. Places' /\ CancelInv' /\ KillInv' /\ ShownInv'
  BY DEF Inv, Places, CancelInv, KillInv, ShownInv, waitMainContainerStart,
         containers, annotations, goroutines, resourceVars, Fails, IsResource, MainDone, Ended,
         BeforeWatch, WhileWatching, AfterWatch, OnlyResource
<1> QED
  BY <1>1, <1>2, <1>3, <1>4 DEF Inv

LEMMA loadArtifactsInv ==
  ASSUME Inv, loadArtifacts, UNCHANGED resourceVars
  PROVE  Inv'
<1>1. BudgetOK'
  BY SpendOK DEF Inv, BudgetOK, Fault, loadArtifacts
<1>2. GoroutinesOK' /\ ResourceOK'
  BY Frames DEF Inv, loadArtifacts
<1>3. PodOK'
  BY TemplateFacts DEF Inv, PodOK, loadArtifacts, ContainerState, Container
<1>4. NotesOK'
  BY TemplateFacts DEF Inv, NotesOK, loadArtifacts, annotations, command
<1>5. CommandOK'
  BY TemplateFacts DEF Inv, CommandOK, loadArtifacts, command
<1>6. ctr'["main"] = ctr["main"]
  BY DEF Inv, PodOK, Container, loadArtifacts
<1>7. Places' /\ CancelInv' /\ KillInv' /\ ShownInv'
  BY <1>6, TemplateFacts DEF Inv, Places, CancelInv, KillInv, ShownInv, MainDone, Ended,
         NoFailure, Earned, IsResource, BeforeWatch, WhileWatching, AfterWatch,
         OnlyResource, loadArtifacts, containers, annotations, goroutines, command,
         resourceVars
<1> QED
  BY <1>1, <1>2, <1>3, <1>4, <1>5, <1>7 DEF Inv

LEMMA ContainerStartsInv ==
  ASSUME Inv, NEW c \in Container, ContainerStarts(c), UNCHANGED resourceVars
  PROVE  Inv'
<1>1. NotesOK' /\ GoroutinesOK' /\ BudgetOK' /\ ResourceOK'
  BY Frames DEF Inv, ContainerStarts
<1>2. PodOK'
  BY TemplateFacts DEF Inv, PodOK, ContainerStarts, Host, Regular, ContainerState
<1>3. CommandOK'
  BY TemplateFacts DEF Inv, CommandOK, ContainerStarts, Host, Regular, Step
<1>4. ctr'["main"] = IF c = "main" THEN "running" ELSE ctr["main"]
  BY DEF Inv, PodOK, Container, ContainerStarts
<1>5. Places' /\ CancelInv' /\ KillInv' /\ ShownInv'
  BY <1>4, TemplateFacts DEF Inv, Places, CancelInv, KillInv, ShownInv, MainDone, Ended,
         NoFailure, Earned, IsResource, BeforeWatch, WhileWatching, AfterWatch,
         OnlyResource, ContainerStarts, containers, annotations, goroutines, command,
         resourceVars, Host, Regular
<1> QED
  BY <1>1, <1>2, <1>3, <1>5 DEF Inv

LEMMA EvictInv ==
  ASSUME Inv, Evict, UNCHANGED resourceVars
  PROVE  Inv'
<1>1. BudgetOK'
  BY SpendOK DEF Inv, BudgetOK, Fault, Evict, Gone
<1>2. ResourceOK'
  BY Frames DEF Inv, Evict
<1>3. PodOK'
  BY TemplateFacts DEF Inv, PodOK, Evict, Gone, ContainerState
<1>4. NotesOK'
  BY TemplateFacts DEF Inv, NotesOK, Evict, Gone, annotations
<1>5. CommandOK'
  BY TemplateFacts DEF Inv, CommandOK, Evict, Gone, Step
<1>6. GoroutinesOK'
  BY TemplateFacts DEF Inv, GoroutinesOK, Evict, Gone
<1>7. ctr'["main"] = IF Ended(ctr["main"]) THEN ctr["main"] ELSE "nonzero"
  BY DEF Inv, Container, Evict
<1>8. Places' /\ CancelInv' /\ KillInv' /\ ShownInv'
  BY <1>7, TemplateFacts DEF Inv, Places, CancelInv, KillInv, ShownInv, MainDone, Ended,
         NoFailure, Earned, IsResource, BeforeWatch, WhileWatching, AfterWatch,
         OnlyResource, Evict, containers, annotations, goroutines, command,
         resourceVars, Gone
<1> QED
  BY <1>1, <1>2, <1>3, <1>4, <1>5, <1>6, <1>8 DEF Inv

LEMMA ContainerEndsInv ==
  ASSUME Inv, NEW c \in Container, ContainerEnds(c),
         UNCHANGED <<annotations, signal, event, command, goroutines, force, budget, resourceVars>>
  PROVE  Inv'
<1>1. PodOK'
  BY TemplateFacts DEF Inv, PodOK, ContainerEnds, Host, Regular, ContainerState
<1>2. NotesOK'
  BY TemplateFacts DEF Inv, NotesOK, ContainerEnds, Host, Regular, annotations,
         command
<1>3. CommandOK'
  BY TemplateFacts DEF Inv, CommandOK, ContainerEnds, Host, Regular, command
<1>4. GoroutinesOK'
  BY TemplateFacts DEF Inv, GoroutinesOK, ContainerEnds, Host, Regular, goroutines
<1>5. BudgetOK'
  BY TemplateFacts DEF Inv, BudgetOK, ContainerEnds, Host, Regular
<1>6. ResourceOK'
  BY TemplateFacts DEF Inv, ResourceOK, ContainerEnds, Host, Regular, resourceVars
<1>7. Places' /\ CancelInv' /\ KillInv' /\ ShownInv'
  BY TemplateFacts DEF Inv, Places, CancelInv, KillInv, ShownInv, MainDone, Ended,
         NoFailure, Earned, IsResource, BeforeWatch, WhileWatching, AfterWatch,
         OnlyResource, ContainerEnds, containers, annotations, goroutines, command,
         resourceVars, Host, Regular
<1> QED
  BY <1>1, <1>2, <1>3, <1>4, <1>5, <1>6, <1>7 DEF Inv

LEMMA ReportInv ==
  ASSUME Inv, Report,
         UNCHANGED <<annotations, signal, event, command, goroutines, force, budget, resourceVars>>
  PROVE  Inv'
<1>1. PodOK'
  BY DEF Inv, PodOK, Report
<1>2. NotesOK'
  BY DEF Inv, NotesOK, Report, annotations, command
<1>3. CommandOK'
  BY DEF Inv, CommandOK, Report, command
<1>4. GoroutinesOK'
  BY DEF Inv, GoroutinesOK, Report, goroutines
<1>5. BudgetOK'
  BY DEF Inv, BudgetOK, Report
<1>6. ResourceOK'
  BY DEF Inv, ResourceOK, Report, resourceVars
<1>7. Places' /\ CancelInv' /\ KillInv' /\ ShownInv'
  BY DEF Inv, Places, CancelInv, KillInv, ShownInv, MainDone, Ended, NoFailure,
         Earned, IsResource, BeforeWatch, WhileWatching, AfterWatch, OnlyResource,
         Report, containers, annotations, goroutines, command, resourceVars
<1> QED
  BY <1>1, <1>2, <1>3, <1>4, <1>5, <1>6, <1>7 DEF Inv

LEMMA updateExecutionControlInv ==
  ASSUME Inv, updateExecutionControl, UNCHANGED resourceVars
  PROVE  Inv'
<1>1. PodOK' /\ GoroutinesOK' /\ BudgetOK' /\ ResourceOK'
  BY Frames DEF Inv, updateExecutionControl
<1>2. NotesOK'
  BY DEF Inv, NotesOK, updateExecutionControl, command
<1>3. CommandOK'
  BY DEF Inv, CommandOK, updateExecutionControl, command, containers
<1>4. Places' /\ CancelInv' /\ KillInv' /\ ShownInv'
  BY DEF Inv, Places, CancelInv, KillInv, ShownInv, MainDone, Ended, NoFailure,
         Earned, IsResource, BeforeWatch, WhileWatching, AfterWatch, OnlyResource,
         updateExecutionControl, containers, annotations, goroutines, command,
         resourceVars
<1> QED
  BY <1>1, <1>2, <1>3, <1>4 DEF Inv

LEMMA SignalArrivesInv ==
  ASSUME Inv, SignalArrives, UNCHANGED resourceVars
  PROVE  Inv'
<1>1. PodOK' /\ GoroutinesOK' /\ BudgetOK' /\ ResourceOK'
  BY Frames DEF Inv, SignalArrives
<1>2. NotesOK'
  BY DEF Inv, NotesOK, SignalArrives, command, annotations
<1>3. CommandOK'
  BY DEF Inv, CommandOK, SignalArrives, command, containers
<1>4. Places' /\ CancelInv' /\ KillInv' /\ ShownInv'
  BY DEF Inv, Places, CancelInv, KillInv, ShownInv, MainDone, Ended, NoFailure,
         Earned, IsResource, BeforeWatch, WhileWatching, AfterWatch, OnlyResource,
         SignalArrives, containers, annotations, goroutines, command, resourceVars
<1> QED
  BY <1>1, <1>2, <1>3, <1>4 DEF Inv

LEMMA FileUpdatedInv ==
  ASSUME Inv, FileUpdated, UNCHANGED resourceVars
  PROVE  Inv'
<1>1. PodOK' /\ GoroutinesOK' /\ BudgetOK' /\ ResourceOK'
  BY Frames DEF Inv, FileUpdated
<1>2. NotesOK'
  BY DEF Inv, NotesOK, FileUpdated, command, GoroutinesOK
<1>3. CommandOK'
  BY DEF Inv, CommandOK, FileUpdated, command, containers
<1>4. Places' /\ CancelInv' /\ KillInv' /\ ShownInv'
  BY DEF Inv, Places, CancelInv, KillInv, ShownInv, MainDone, Ended, NoFailure,
         Earned, IsResource, BeforeWatch, WhileWatching, AfterWatch, OnlyResource,
         FileUpdated, containers, annotations, goroutines, command, resourceVars
<1> QED
  BY <1>1, <1>2, <1>3, <1>4 DEF Inv

LEMMA monitorAnnotationsInv ==
  ASSUME Inv, monitorAnnotations, UNCHANGED resourceVars
  PROVE  Inv'
<1>1. PodOK' /\ NotesOK' /\ BudgetOK' /\ ResourceOK'
  BY Frames DEF Inv, monitorAnnotations
<1>2. CommandOK'
  BY DEF Inv, CommandOK, monitorAnnotations, containers, Step
<1>3. GoroutinesOK'
  BY DEF Inv, GoroutinesOK, monitorAnnotations
<1>4. Places' /\ CancelInv' /\ KillInv' /\ ShownInv'
  BY DEF Inv, Places, CancelInv, KillInv, ShownInv, MainDone, Ended, NoFailure,
         Earned, IsResource, BeforeWatch, WhileWatching, AfterWatch, OnlyResource,
         monitorAnnotations, containers, annotations, goroutines, command,
         resourceVars
<1> QED
  BY <1>1, <1>2, <1>3, <1>4 DEF Inv

LEMMA WaitInv ==
  ASSUME Inv, Wait, UNCHANGED resourceVars
  PROVE  Inv'
<1>1. BudgetOK'
  BY SpendOK DEF Inv, BudgetOK, Fault, Wait, Fails
<1>2. PodOK' /\ NotesOK' /\ ResourceOK'
  BY Frames DEF Inv, Wait
<1>3. CommandOK'
  BY DEF Inv, CommandOK, Wait, Fails, containers, Step
<1>4. GoroutinesOK'
  BY DEF Inv, GoroutinesOK, Wait, Fails
<1>5. Places' /\ CancelInv' /\ KillInv' /\ ShownInv'
  BY DEF Inv, Places, CancelInv, KillInv, ShownInv, MainDone, Ended, NoFailure,
         Earned, IsResource, BeforeWatch, WhileWatching, AfterWatch, OnlyResource,
         Wait, containers, annotations, goroutines, command, resourceVars, Fails
<1> QED
  BY <1>1, <1>2, <1>3, <1>4, <1>5 DEF Inv

LEMMA killSidecarsInv ==
  ASSUME Inv, killSidecars, UNCHANGED resourceVars
  PROVE  Inv'
<1>1. BudgetOK'
  BY SpendOK DEF Inv, BudgetOK, Fault, killSidecars, Fails, Terminate
<1>2. NotesOK' /\ GoroutinesOK' /\ ResourceOK'
  BY Frames DEF Inv, killSidecars
<1>3. PodOK'
  BY TemplateFacts DEF Inv, PodOK, killSidecars, Fails, Terminate
<1>4. CommandOK'
  BY TemplateFacts DEF Inv, CommandOK, killSidecars, Fails, Terminate, Step
<1>5. "main" \in term' => "main" \in term
  <2>1. term' \subseteq term \cup Sidecar
    BY DEF killSidecars, Terminate
  <2> QED
    BY <2>1, TemplateFacts DEF Inv, PodOK
<1>6. Places' /\ CancelInv' /\ KillInv' /\ ShownInv'
  BY <1>5, TemplateFacts DEF Inv, Places, CancelInv, KillInv, ShownInv, MainDone, Ended,
         NoFailure, Earned, IsResource, BeforeWatch, WhileWatching, AfterWatch,
         OnlyResource, killSidecars, containers, annotations, goroutines, command,
         resourceVars, Fails, Terminate
<1> QED
  BY <1>1, <1>2, <1>3, <1>4, <1>6 DEF Inv

LEMMA killContainersInv ==
  ASSUME Inv, killContainers, UNCHANGED resourceVars
  PROVE  Inv'
<1>1. BudgetOK'
  BY SpendOK DEF Inv, BudgetOK, Fault, killContainers, Fails
<1>2. PodOK' /\ NotesOK' /\ ResourceOK'
  BY Frames DEF Inv, killContainers
<1>3. CommandOK'
  BY DEF Inv, CommandOK, killContainers, Fails, containers, Step
<1>4. GoroutinesOK'
  BY DEF Inv, GoroutinesOK, killContainers, Fails, goroutines, CommandOK
<1>5. Places' /\ CancelInv' /\ KillInv' /\ ShownInv'
  BY DEF Inv, Places, CancelInv, KillInv, ShownInv, MainDone, Ended, NoFailure,
         Earned, IsResource, BeforeWatch, WhileWatching, AfterWatch, OnlyResource,
         killContainers, containers, annotations, goroutines, command, resourceVars,
         Fails
<1> QED
  BY <1>1, <1>2, <1>3, <1>4, <1>5 DEF Inv

LEMMA ForceKillInv ==
  ASSUME Inv, ForceKill, UNCHANGED resourceVars
  PROVE  Inv'
<1>1. BudgetOK'
  BY SpendOK DEF Inv, BudgetOK, Fault, ForceKill, Alive
<1>2. ResourceOK'
  BY Frames DEF Inv, ForceKill
<1>3. PodOK'
  BY DEF Inv, PodOK, ForceKill, Alive, ContainerState
<1>4. NotesOK'
  BY DEF Inv, NotesOK, ForceKill, Alive, annotations, command
<1>5. CommandOK'
  BY DEF Inv, CommandOK, ForceKill, Alive, command
<1>6. GoroutinesOK'
  BY DEF Inv, GoroutinesOK, ForceKill, Alive, goroutines
<1>7. \/ ctr'["main"] = ctr["main"]
      \/ ctr["main"] = "running" /\ ctr'["main"] = "nonzero"
  BY DEF Inv, PodOK, Container, ForceKill
<1>8. Places' /\ CancelInv' /\ KillInv' /\ ShownInv'
  BY <1>7, TemplateFacts DEF Inv, Places, CancelInv, KillInv, ShownInv, MainDone, Ended, NoFailure,
         Earned, IsResource, BeforeWatch, WhileWatching, AfterWatch, OnlyResource,
         ForceKill, containers, annotations, goroutines, command, resourceVars,
         Alive
<1> QED
  BY <1>1, <1>2, <1>3, <1>4, <1>5, <1>6, <1>8 DEF Inv

LEMMA AnnotateOutputsInv ==
  ASSUME Inv, AnnotateOutputs, UNCHANGED resourceVars
  PROVE  Inv'
<1>1. BudgetOK'
  BY SpendOK DEF Inv, BudgetOK, Fault, AnnotateOutputs, GiveUp, Fails
<1>2. PodOK' /\ GoroutinesOK' /\ ResourceOK'
  BY Frames DEF Inv, AnnotateOutputs
<1>3. NotesOK'
  BY DEF Inv, NotesOK, AnnotateOutputs, GiveUp, Fails, CommandOK
<1>4. CommandOK'
  BY DEF Inv, CommandOK, AnnotateOutputs, GiveUp, Fails, containers, Step
<1>5. Places' /\ CancelInv' /\ KillInv' /\ ShownInv'
  BY DEF Inv, Places, CancelInv, KillInv, ShownInv, MainDone, Ended, NoFailure,
         Earned, IsResource, BeforeWatch, WhileWatching, AfterWatch, OnlyResource,
         AnnotateOutputs, containers, annotations, goroutines, command, resourceVars,
         GiveUp, Fails
<1> QED
  BY <1>1, <1>2, <1>3, <1>4, <1>5 DEF Inv

LEMMA HandleErrorInv ==
  ASSUME Inv, HandleError, UNCHANGED resourceVars
  PROVE  Inv'
<1>1. BudgetOK'
  BY SpendOK DEF Inv, BudgetOK, Fault, HandleError, Gone, Host
<1>2. ResourceOK'
  BY Frames DEF Inv, HandleError
<1>3. PodOK'
  BY TemplateFacts DEF Inv, PodOK, HandleError, Gone, Host, ContainerState,
         CommandOK
<1>4. NotesOK'
  BY TemplateFacts DEF Inv, NotesOK, HandleError, Gone, Host, CommandOK
<1>5. CommandOK'
  BY TemplateFacts DEF Inv, CommandOK, HandleError, Gone, Host, Step
<1>6. GoroutinesOK'
  BY TemplateFacts DEF Inv, GoroutinesOK, HandleError, Gone, Host
<1>7. ctr'["main"] = IF Host = "main" THEN exit ELSE ctr["main"]
  BY DEF Inv, PodOK, Container, HandleError, Host
<1>8. Places' /\ CancelInv' /\ KillInv' /\ ShownInv'
  BY <1>7, TemplateFacts DEF Inv, CommandOK, Places, CancelInv, KillInv, ShownInv, MainDone, Ended,
         NoFailure, Earned, IsResource, BeforeWatch, WhileWatching, AfterWatch,
         OnlyResource, HandleError, containers, annotations, goroutines, command,
         resourceVars, Gone, Host
<1> QED
  BY <1>1, <1>2, <1>3, <1>4, <1>5, <1>6, <1>8 DEF Inv

(* Saving the outputs of one kind, with whatever error. *)
LEMMA SavesInv ==
  ASSUME Inv, NEW output \in Output, NEW next \in {"parameters", "result", "annotate"},
         pc \in {"artifacts", "parameters", "result"}, ~ IsResource,
         UNCHANGED <<containers, annotations, signal, event, targets, goroutines, force, resourceVars>>,
         saved' \in {saved, saved \cup {output}}, output \in tmpl.outputs \/ saved' = saved,
         BudgetOK',
         \/ pc' = next /\ UNCHANGED <<errors, exit>>
         \/ GiveUp
  PROVE  Inv'
<1>1. PodOK' /\ GoroutinesOK' /\ ResourceOK'
  BY Frames DEF Inv
<1>2. NotesOK'
  BY DEF Inv, NotesOK, annotations
<1>3. CommandOK'
  BY DEF Inv, CommandOK, containers, Step, GiveUp, Fails
<1>4. Places' /\ CancelInv' /\ KillInv' /\ ShownInv'
  BY DEF Inv, Places, CancelInv, KillInv, ShownInv, MainDone, Ended, IsResource, BeforeWatch,
         WhileWatching, AfterWatch, OnlyResource, containers, annotations, goroutines,
         resourceVars, GiveUp, Fails
<1> QED
  BY <1>1, <1>2, <1>3, <1>4 DEF Inv

LEMMA SaveFacts ==
  ASSUME Inv, NEW output \in Output, NEW next, NEW failure \in BOOLEAN,
         Save(output, next, failure), failure => BudgetOK'
  PROVE  /\ saved' \in {saved, saved \cup {output}}
         /\ output \in tmpl.outputs \/ saved' = saved
         /\ BudgetOK'
         /\ \/ pc' = next /\ UNCHANGED <<errors, exit>>
            \/ GiveUp
<1>1. saved \cup {o \in {output} : Final} \in {saved, saved \cup {output}}
  OBVIOUS
<1>2. CASE Copy(output)
  <2>1. BudgetOK'
    BY <1>2, SpendOK DEF Copy, Inv, BudgetOK, Fault
  <2> QED
    BY <1>1, <1>2, <2>1 DEF Copy, Save
<1>3. CASE ~ Copy(output)
  <2>1. BudgetOK'
    BY <1>3, SpendOK DEF Save, Inv, BudgetOK, Fault
  <2> QED
    BY <1>3, <2>1 DEF Save
<1> QED
  BY <1>2, <1>3

LEMMA SaveArtifactsInv ==
  ASSUME Inv, SaveArtifacts, UNCHANGED resourceVars
  PROVE  Inv'
<1> DEFINE failure == Spend("save")
<1>1. Save("artifacts", "parameters", failure)
  BY DEF SaveArtifacts
<1>2. failure => BudgetOK'
  BY SpendOK DEF Inv, BudgetOK, Fault
<1>3. failure \in BOOLEAN
  BY DEF Spend
<1>4. /\ saved' \in {saved, saved \cup {"artifacts"}}
      /\ "artifacts" \in tmpl.outputs \/ saved' = saved
      /\ BudgetOK'
      /\ \/ pc' = "parameters" /\ UNCHANGED <<errors, exit>>
         \/ GiveUp
  <2> HIDE DEF failure
  <2> QED
    BY <1>1, <1>2, <1>3, SaveFacts DEF Output
<1>5. ~ IsResource /\ pc \in {"artifacts", "parameters", "result"}
  BY DEF SaveArtifacts, Inv, Places, BeforeWatch, WhileWatching, AfterWatch
<1> QED
  BY <1>4, <1>5, SavesInv DEF SaveArtifacts, Output

LEMMA SaveParametersInv ==
  ASSUME Inv, SaveParameters, UNCHANGED resourceVars
  PROVE  Inv'
<1> DEFINE failure == \/ \E fault \in {"save", "docker"} : Spend(fault)
                      \/ status.containers["main"] = "waiting" /\ UNCHANGED budget
<1>1. Save("parameters", "result", failure)
  BY DEF SaveParameters
<1>2. failure => BudgetOK'
  BY SpendOK DEF Inv, BudgetOK, Fault
<1>3. failure \in BOOLEAN
  BY DEF Spend
<1>4. /\ saved' \in {saved, saved \cup {"parameters"}}
      /\ "parameters" \in tmpl.outputs \/ saved' = saved
      /\ BudgetOK'
      /\ \/ pc' = "result" /\ UNCHANGED <<errors, exit>>
         \/ GiveUp
  <2> HIDE DEF failure
  <2> QED
    BY <1>1, <1>2, <1>3, SaveFacts DEF Output
<1>5. ~ IsResource /\ pc \in {"artifacts", "parameters", "result"}
  BY DEF SaveParameters, Inv, Places, BeforeWatch, WhileWatching, AfterWatch
<1> QED
  BY <1>4, <1>5, SavesInv DEF SaveParameters, Output

LEMMA CaptureScriptResultInv ==
  ASSUME Inv, CaptureScriptResult, UNCHANGED resourceVars
  PROVE  Inv'
<1> DEFINE failure == FALSE
<1>1. Save("result", "annotate", failure)
  BY DEF CaptureScriptResult
<1>2. failure => BudgetOK'
  BY SpendOK DEF Inv, BudgetOK, Fault
<1>3. failure \in BOOLEAN
  BY DEF Spend
<1>4. /\ saved' \in {saved, saved \cup {"result"}}
      /\ "result" \in tmpl.outputs \/ saved' = saved
      /\ BudgetOK'
      /\ \/ pc' = "annotate" /\ UNCHANGED <<errors, exit>>
         \/ GiveUp
  <2> HIDE DEF failure
  <2> QED
    BY <1>1, <1>2, <1>3, SaveFacts DEF Output
<1>5. ~ IsResource /\ pc \in {"artifacts", "parameters", "result"}
  BY DEF CaptureScriptResult, Inv, Places, BeforeWatch, WhileWatching, AfterWatch
<1> QED
  BY <1>4, <1>5, SavesInv DEF CaptureScriptResult, Output

LEMMA FileEventInv ==
  ASSUME Inv, FileEvent,
         Alive, UNCHANGED <<containers, annotations, command, cancelled, deadline, force, resourceVars>>
  PROVE  Inv'
<1>1. PodOK' /\ ResourceOK' /\ BudgetOK'
  BY Frames DEF Inv, FileEvent
<1>2. NotesOK'
  BY DEF Inv, NotesOK, FileEvent, Alive, command, annotations
<1>3. CommandOK'
  BY DEF Inv, CommandOK, FileEvent, Alive, command, containers
<1>4. GoroutinesOK'
  BY DEF Inv, GoroutinesOK, FileEvent, Alive
<1>5. Places' /\ CancelInv' /\ KillInv' /\ ShownInv'
  BY DEF Inv, Places, CancelInv, KillInv, ShownInv, MainDone, Ended, NoFailure,
         Earned, IsResource, BeforeWatch, WhileWatching, AfterWatch, OnlyResource,
         FileEvent, containers, annotations, goroutines, command, resourceVars,
         Alive
<1> QED
  BY <1>1, <1>2, <1>3, <1>4, <1>5 DEF Inv

LEMMA SignalReceivedInv ==
  ASSUME Inv, SignalReceived,
         Alive, UNCHANGED <<containers, annotations, command, cancelled, deadline, force, resourceVars>>
  PROVE  Inv'
<1>1. PodOK' /\ ResourceOK' /\ BudgetOK'
  BY Frames DEF Inv, SignalReceived
<1>2. NotesOK'
  BY DEF Inv, NotesOK, SignalReceived, Alive, command, annotations
<1>3. CommandOK'
  BY DEF Inv, CommandOK, SignalReceived, Alive, command, containers
<1>4. GoroutinesOK'
  BY DEF Inv, GoroutinesOK, SignalReceived, Alive
<1>5. Places' /\ CancelInv' /\ KillInv' /\ ShownInv'
  BY DEF Inv, Places, CancelInv, KillInv, ShownInv, MainDone, Ended, NoFailure,
         Earned, IsResource, BeforeWatch, WhileWatching, AfterWatch, OnlyResource,
         SignalReceived, containers, annotations, goroutines, command, resourceVars,
         Alive
<1> QED
  BY <1>1, <1>2, <1>3, <1>4, <1>5 DEF Inv

LEMMA MonitorStopsInv ==
  ASSUME Inv, MonitorStops,
         Alive, UNCHANGED <<containers, annotations, command, cancelled, deadline, force, resourceVars>>
  PROVE  Inv'
<1>1. PodOK' /\ ResourceOK' /\ BudgetOK'
  BY Frames DEF Inv, MonitorStops
<1>2. NotesOK'
  BY DEF Inv, NotesOK, MonitorStops, Alive, command, annotations
<1>3. CommandOK'
  BY DEF Inv, CommandOK, MonitorStops, Alive, command, containers
<1>4. GoroutinesOK'
  BY DEF Inv, GoroutinesOK, MonitorStops, Alive
<1>5. Places' /\ CancelInv' /\ KillInv' /\ ShownInv'
  BY DEF Inv, Places, CancelInv, KillInv, ShownInv, MainDone, Ended, NoFailure,
         Earned, IsResource, BeforeWatch, WhileWatching, AfterWatch, OnlyResource,
         MonitorStops, containers, annotations, goroutines, command, resourceVars,
         Alive
<1> QED
  BY <1>1, <1>2, <1>3, <1>4, <1>5 DEF Inv

LEMMA ReloadInv ==
  ASSUME Inv, Reload,
         Alive, UNCHANGED <<containers, annotations, command, cancelled, deadline, force, resourceVars>>
  PROVE  Inv'
<1>1. BudgetOK'
  BY SpendOK DEF Inv, BudgetOK, Fault, Reload, Alive
<1>2. PodOK' /\ ResourceOK'
  BY Frames DEF Inv, Reload
<1>3. NotesOK'
  BY DEF Inv, NotesOK, Reload, Alive, command, annotations
<1>4. CommandOK'
  BY DEF Inv, CommandOK, Reload, Alive, command, containers
<1>5. GoroutinesOK'
  BY DEF Inv, GoroutinesOK, NotesOK, Reload, goroutines, Alive
<1>6. Places' /\ CancelInv' /\ KillInv' /\ ShownInv'
  BY DEF Inv, Places, CancelInv, KillInv, ShownInv, MainDone, Ended, NoFailure,
         Earned, IsResource, BeforeWatch, WhileWatching, AfterWatch, OnlyResource,
         Reload, containers, annotations, goroutines, command, resourceVars, Alive
<1> QED
  BY <1>1, <1>2, <1>3, <1>4, <1>5, <1>6 DEF Inv

LEMMA AnnotationsUpdateInv ==
  ASSUME Inv, AnnotationsUpdate, Alive,
         UNCHANGED <<tmpl, ctr, evicted, status, annotations, signal, event, command,
                     cancelled, watching, execCtl, resourceVars>>
  PROVE  Inv'
<1>1. ResourceOK' /\ BudgetOK'
  BY Frames DEF Inv, AnnotationsUpdate
<1>2. PodOK'
  BY TemplateFacts DEF Inv, PodOK, AnnotationsUpdate, Alive, Terminate
<1>3. NotesOK'
  BY TemplateFacts DEF Inv, NotesOK, AnnotationsUpdate, Alive, Terminate, command,
         annotations
<1>4. CommandOK'
  BY TemplateFacts DEF Inv, CommandOK, AnnotationsUpdate, Alive, Terminate, command
<1>5. GoroutinesOK'
  BY TemplateFacts DEF Inv, GoroutinesOK, AnnotationsUpdate, Alive, Terminate
<1>6. Places' /\ CancelInv' /\ KillInv' /\ ShownInv'
  BY TemplateFacts DEF Inv, Places, CancelInv, KillInv, ShownInv, MainDone, Ended,
         NoFailure, Earned, IsResource, BeforeWatch, WhileWatching, AfterWatch,
         OnlyResource, AnnotationsUpdate, containers, annotations, goroutines,
         command, resourceVars, Alive, Terminate
<1> QED
  BY <1>1, <1>2, <1>3, <1>4, <1>5, <1>6 DEF Inv

LEMMA DeadlineStopsInv ==
  ASSUME Inv, DeadlineStops, Alive,
         UNCHANGED <<tmpl, ctr, evicted, status, annotations, signal, event, command,
                     cancelled, watching, execCtl, resourceVars>>
  PROVE  Inv'
<1>1. ResourceOK' /\ BudgetOK'
  BY Frames DEF Inv, DeadlineStops
<1>2. PodOK'
  BY TemplateFacts DEF Inv, PodOK, DeadlineStops, Alive, Terminate
<1>3. NotesOK'
  BY TemplateFacts DEF Inv, NotesOK, DeadlineStops, Alive, Terminate, command,
         annotations
<1>4. CommandOK'
  BY TemplateFacts DEF Inv, CommandOK, DeadlineStops, Alive, Terminate, command
<1>5. GoroutinesOK'
  BY TemplateFacts DEF Inv, GoroutinesOK, DeadlineStops, Alive, Terminate
<1>6. Places' /\ CancelInv' /\ KillInv' /\ ShownInv'
  BY TemplateFacts DEF Inv, Places, CancelInv, KillInv, ShownInv, MainDone, Ended,
         NoFailure, Earned, IsResource, BeforeWatch, WhileWatching, AfterWatch,
         OnlyResource, DeadlineStops, containers, annotations, goroutines, command,
         resourceVars, Alive, Terminate
<1> QED
  BY <1>1, <1>2, <1>3, <1>4, <1>5, <1>6 DEF Inv

LEMMA DeadlineExceededInv ==
  ASSUME Inv, DeadlineExceeded, Alive,
         UNCHANGED <<tmpl, ctr, evicted, status, annotations, signal, event, command,
                     cancelled, watching, execCtl, resourceVars>>
  PROVE  Inv'
<1>1. BudgetOK'
  BY SpendOK DEF Inv, BudgetOK, Fault, DeadlineExceeded, Alive, Terminate
<1>2. ResourceOK'
  BY Frames DEF Inv, DeadlineExceeded
<1>3. PodOK'
  BY TemplateFacts DEF Inv, PodOK, DeadlineExceeded, Alive, Terminate
<1>4. NotesOK'
  BY TemplateFacts DEF Inv, NotesOK, DeadlineExceeded, Alive, Terminate, command,
         annotations
<1>5. CommandOK'
  BY TemplateFacts DEF Inv, CommandOK, DeadlineExceeded, Alive, Terminate, command
<1>6. GoroutinesOK'
  BY TemplateFacts DEF Inv, GoroutinesOK, DeadlineExceeded, Alive, Terminate
<1>7. term' \cap Sidecar \subseteq term
  BY TemplateFacts DEF Inv, PodOK, DeadlineExceeded, Terminate
<1>8. Places' /\ CancelInv' /\ KillInv' /\ ShownInv'
  BY <1>7 DEF Inv, Places, CancelInv, KillInv, ShownInv, MainDone, Ended,
         NoFailure, Earned, IsResource, BeforeWatch, WhileWatching, AfterWatch,
         OnlyResource, DeadlineExceeded, containers, annotations, goroutines,
         command, resourceVars, Alive, Terminate
<1> QED
  BY <1>1, <1>2, <1>3, <1>4, <1>5, <1>6, <1>8 DEF Inv

LEMMA KillMainReturnsInv ==
  ASSUME Inv, KillMainReturns, Alive,
         UNCHANGED <<tmpl, ctr, evicted, status, annotations, signal, event, command,
                     cancelled, watching, execCtl, resourceVars>>
  PROVE  Inv'
<1>1. BudgetOK'
  BY SpendOK DEF Inv, BudgetOK, Fault, KillMainReturns, Alive, Terminate
<1>2. ResourceOK'
  BY Frames DEF Inv, KillMainReturns
<1>3. PodOK'
  BY TemplateFacts DEF Inv, PodOK, KillMainReturns, Alive, Terminate
<1>4. NotesOK'
  BY TemplateFacts DEF Inv, NotesOK, KillMainReturns, Alive, Terminate, command,
         annotations
<1>5. CommandOK'
  BY TemplateFacts DEF Inv, CommandOK, KillMainReturns, Alive, Terminate, command
<1>6. GoroutinesOK'
  BY TemplateFacts DEF Inv, GoroutinesOK, KillMainReturns, Alive, Terminate
<1>7. Places' /\ CancelInv' /\ KillInv' /\ ShownInv'
  BY TemplateFacts DEF Inv, Places, CancelInv, KillInv, ShownInv, MainDone, Ended,
         NoFailure, Earned, IsResource, BeforeWatch, WhileWatching, AfterWatch,
         OnlyResource, KillMainReturns, containers, annotations, goroutines, command,
         resourceVars, Alive, Terminate
<1> QED
  BY <1>1, <1>2, <1>3, <1>4, <1>5, <1>6, <1>7 DEF Inv

-----------------------------------------------------------------------------
(* The executor as the main container. *)

LEMMA FeedFacts ==
  ASSUME ResourceOK
  PROVE  /\ <<>> \in Seq(Version) /\ <<resource>> \in Seq(Version)
         /\ feed # <<>> => Head(feed) \in Version /\ Tail(feed) \in Seq(Version)
         /\ \A v \in Version : Append(feed, v) \in Seq(Version)
         /\ Fresh \in Version /\ Absent \in Version
<1>1. resource \in Version /\ feed \in Seq(Version)
  BY DEF ResourceOK
<1>2. <<>> \in Seq(Version) /\ <<resource>> \in Seq(Version)
  BY <1>1
<1>3. feed # <<>> => Head(feed) \in Version /\ Tail(feed) \in Seq(Version)
  BY <1>1
<1>4. \A v \in Version : Append(feed, v) \in Seq(Version)
  BY <1>1
<1>5. Fresh \in Version /\ Absent \in Version
  BY DEF Fresh, Absent, Version
<1> QED
  BY <1>2, <1>3, <1>4, <1>5

LEMMA RetryFacts ==
  ASSUME Inv, Retry, pc \in WhileWatching
  PROVE  /\ attempts' \in 0..Attempts /\ feed' \in Seq(Version) /\ BudgetOK'
         /\ GiveUp \/ (Goes("watch") /\ attempts' < Attempts)
<1>1. attempts \in 0..Attempts /\ attempts < Attempts /\ Attempts \in Nat
  BY ResourceAssumption DEF Inv, Places, ResourceOK, ResourceAssumption
<1>2. attempts' \in 0..Attempts
  BY <1>1 DEF Retry
<1>3. feed' \in Seq(Version)
  BY FeedFacts DEF Inv, Retry
<1>4. BudgetOK'
  BY DEF Inv, BudgetOK, Retry
<1>5. GiveUp \/ (Goes("watch") /\ attempts' < Attempts)
  BY DEF Retry
<1> QED
  BY <1>2, <1>3, <1>4, <1>5

(* The invariant after a step that leaves the pod and the goroutines alone *)
(* and, for a resource with conditions, keeps what success stands for.     *)
LEMMA ResourceStepInv ==
  ASSUME Inv, IsResource, Unchanged, NotesOK', BudgetOK', ResourceOK',
         saved' \subseteq tmpl.outputs,
         pc \in OnlyResource, pc' \in OnlyResource \cup AfterWatch,
         (UNCHANGED <<errors, exit>>) \/ GiveUp,
         pc' \in BeforeWatch => attempts' = 0,
         pc' \in WhileWatching => attempts' < Attempts,
         tmpl.conditions # {} =>
           /\ pc' \in BeforeWatch => shown' = {}
           /\ pc' \in WhileWatching => NoFailure'
           /\ pc' \in AfterWatch /\ exit' = "zero" => Earned'
  PROVE  Inv'
<1>1. PodOK' /\ GoroutinesOK'
  BY Frames DEF Inv, Unchanged
<1>2. CommandOK'
  BY DEF Inv, CommandOK, Unchanged, containers, Step, OnlyResource, AfterWatch, GiveUp, Fails
<1>3. Places'
  BY DEF Places, Unchanged, containers, IsResource, OnlyResource, AfterWatch, BeforeWatch,
         WhileWatching
<1>4. CancelInv' /\ KillInv'
  BY DEF Inv, CancelInv, KillInv, MainDone, Unchanged, containers, annotations, goroutines,
         GiveUp, Fails, OnlyResource, AfterWatch
<1>5. ctr["main"] # "zero" /\ ctr["main"] # "waiting"
  BY DEF Inv, ShownInv, OnlyResource
<1>6. ShownInv'
  BY <1>5 DEF Inv, ShownInv, Unchanged, containers, IsResource, OnlyResource
<1> QED
  BY <1>1, <1>2, <1>3, <1>4, <1>6 DEF Inv

LEMMA OnResource ==
  ASSUME Inv, pc \in OnlyResource
  PROVE  IsResource /\ saved \subseteq tmpl.outputs
  BY DEF Inv, Places, CommandOK

LEMMA StageFilesInv ==
  ASSUME Inv, StageFiles
  PROVE  Inv'
<1>1. pc = "stage" /\ IsResource /\ saved \subseteq tmpl.outputs
  BY OnResource DEF StageFiles, OnlyResource
<1>2. BudgetOK'
  BY SpendOK DEF Inv, BudgetOK, Fault, StageFiles
<1>3. NotesOK' /\ ResourceOK'
  BY Frames DEF Inv, StageFiles, Unchanged
<1>4. \/ pc' = "exec" /\ UNCHANGED <<errors, exit>>
      \/ GiveUp
  BY DEF StageFiles, Goes
<1>5. attempts = 0 /\ (tmpl.conditions # {} => shown = {})
  BY <1>1 DEF Inv, Places, ShownInv, BeforeWatch
<1> QED
  BY <1>1, <1>2, <1>3, <1>4, <1>5, ResourceStepInv
  DEF StageFiles, resourceVars, GiveUp, OnlyResource, BeforeWatch, WhileWatching, AfterWatch

LEMMA WaitResourceInv ==
  ASSUME Inv, WaitResource
  PROVE  Inv'
<1>1. pc = "waitResource" /\ IsResource /\ saved \subseteq tmpl.outputs
  BY OnResource DEF WaitResource, OnlyResource
<1>2. NotesOK' /\ ResourceOK' /\ BudgetOK'
  BY Frames DEF Inv, WaitResource, Unchanged
<1>3. /\ pc' = IF tmpl.conditions = {} THEN "resourceParameters" ELSE "watch"
      /\ UNCHANGED <<errors, exit>>
  BY DEF WaitResource, Goes
<1>4. attempts = 0 /\ (tmpl.conditions # {} => shown = {})
  BY <1>1 DEF Inv, Places, ShownInv, BeforeWatch
<1>5. 0 < Attempts
  BY ResourceAssumption DEF ResourceAssumption
<1>6. tmpl.conditions # {} => NoFailure'
  BY <1>4 DEF NoFailure, WaitResource, resourceVars
<1> QED
  BY <1>1, <1>2, <1>3, <1>4, <1>5, <1>6, ResourceStepInv
  DEF WaitResource, resourceVars, OnlyResource, BeforeWatch, WhileWatching, AfterWatch

LEMMA ExecResourceInv ==
  ASSUME Inv, ExecResource
  PROVE  Inv'
<1>1. pc = "exec" /\ IsResource /\ saved \subseteq tmpl.outputs
  BY OnResource DEF ExecResource, OnlyResource
<1>2. BudgetOK'
  BY SpendOK DEF Inv, BudgetOK, Fault, ExecResource
<1>3. NotesOK'
  BY Frames DEF Inv, ExecResource, Unchanged
<1>4. resource' \in Version
  <2>1. resource \in Version /\ Fresh \in Version /\ Absent \in Version
    BY FeedFacts DEF Inv, ResourceOK
  <2>2. tmpl.action \in {"get", "create", "apply", "delete", "replace"}
    BY <1>1, ContainerAssumption DEF ContainerAssumption, TemplateType, IsResource, Inv, PodOK
  <2>3. Act => resource' = resource \/ resource' = Fresh \/ resource' = Absent
    BY <2>2 DEF Act
  <2> QED
    BY <2>1, <2>3 DEF ExecResource
<1>5. ResourceOK'
  BY <1>4 DEF Inv, ResourceOK, ExecResource
<1>6. \/ pc' = "waitResource" /\ UNCHANGED <<errors, exit>>
      \/ GiveUp
  BY DEF ExecResource, Goes
<1>7. attempts = 0 /\ (tmpl.conditions # {} => shown = {})
  BY <1>1 DEF Inv, Places, ShownInv, BeforeWatch
<1> QED
  BY <1>1, <1>2, <1>3, <1>5, <1>6, <1>7, ResourceStepInv
  DEF ExecResource, GiveUp, OnlyResource, BeforeWatch, WhileWatching, AfterWatch

LEMMA startKubectlWaitCmdInv ==
  ASSUME Inv, startKubectlWaitCmd
  PROVE  Inv'
<1>1. pc = "watch" /\ IsResource /\ saved \subseteq tmpl.outputs
  BY OnResource DEF startKubectlWaitCmd, OnlyResource
<1>2. NotesOK'
  BY Frames DEF Inv, startKubectlWaitCmd, Unchanged
<1>3. /\ attempts' \in 0..Attempts /\ feed' \in Seq(Version) /\ BudgetOK'
      /\ \/ pc' \in {"watch", "readJSON"} /\ attempts' < Attempts /\ UNCHANGED <<errors, exit>>
         \/ GiveUp
  <2>1. attempts \in 0..Attempts /\ attempts < Attempts /\ feed \in Seq(Version)
        /\ <<resource>> \in Seq(Version)
    BY <1>1, FeedFacts DEF Inv, Places, ResourceOK, WhileWatching
  <2>2. CASE Goes("readJSON") /\ feed' = <<resource>> /\ UNCHANGED <<attempts, budget>>
    BY <2>1, <2>2 DEF Inv, BudgetOK, Goes
  <2>3. CASE Retry
    BY <1>1, <2>3, RetryFacts DEF WhileWatching, Goes
  <2>4. CASE GiveUp /\ Spend("docker") /\ UNCHANGED <<feed, attempts>>
    BY <2>1, <2>4, SpendOK DEF Inv, Fault
  <2> QED
    BY <2>2, <2>3, <2>4 DEF startKubectlWaitCmd
<1>4. ResourceOK'
  BY <1>3 DEF Inv, ResourceOK, startKubectlWaitCmd
<1>5. tmpl.conditions # {} => NoFailure'
  BY <1>1 DEF Inv, ShownInv, NoFailure, WhileWatching, startKubectlWaitCmd
<1> QED
  BY <1>1, <1>2, <1>3, <1>4, <1>5, ResourceStepInv
  DEF startKubectlWaitCmd, GiveUp, OnlyResource, BeforeWatch, WhileWatching, AfterWatch

LEMMA WatchEndsInv ==
  ASSUME Inv, WatchEnds
  PROVE  Inv'
<1>1. pc = "readJSON" /\ IsResource /\ saved \subseteq tmpl.outputs
  BY OnResource DEF WatchEnds, OnlyResource
<1>2. NotesOK'
  BY Frames DEF Inv, WatchEnds, Unchanged
<1>3. /\ attempts' \in 0..Attempts /\ feed' \in Seq(Version) /\ BudgetOK'
      /\ \/ pc' = "watch" /\ attempts' < Attempts /\ UNCHANGED <<errors, exit>>
         \/ GiveUp
  BY <1>1, RetryFacts DEF WhileWatching, Goes, WatchEnds
<1>4. ResourceOK'
  BY <1>3 DEF Inv, ResourceOK, WatchEnds
<1>5. tmpl.conditions # {} => NoFailure'
  BY <1>1 DEF Inv, ShownInv, NoFailure, WhileWatching, WatchEnds
<1> QED
  BY <1>1, <1>2, <1>3, <1>4, <1>5, ResourceStepInv
  DEF WatchEnds, GiveUp, OnlyResource, BeforeWatch, WhileWatching, AfterWatch

LEMMA checkResourceStateInv ==
  ASSUME Inv, checkResourceState
  PROVE  Inv'
<1> DEFINE v == Head(feed)
           met == [success |-> MeetsSuccess(v), failure |-> MeetsFailure(v)]
<1>1. pc = "readJSON" /\ IsResource /\ saved \subseteq tmpl.outputs
  BY OnResource DEF checkResourceState, OnlyResource
<1>2. NotesOK' /\ BudgetOK'
  BY Frames DEF Inv, checkResourceState, Unchanged
<1>3. feed' \in Seq(Version) /\ shown' = shown \cup {met}
  BY FeedFacts DEF Inv, checkResourceState, Reads
<1>4. met \in [success : BOOLEAN, failure : BOOLEAN]
  BY DEF MeetsSuccess, MeetsFailure
<1>5. ResourceOK'
  <2> HIDE DEF met, v
  <2> QED
    BY <1>3, <1>4 DEF Inv, ResourceOK, checkResourceState
<1>6. \/ GiveUp
      \/ /\ pc' = "resourceParameters" /\ UNCHANGED <<errors, exit>>
         /\ ~met.failure /\ met.success
      \/ pc' = "readJSON" /\ UNCHANGED <<errors, exit>> /\ ~met.failure
  BY DEF checkResourceState, Goes
<1>7. attempts < Attempts /\ (tmpl.conditions # {} => NoFailure)
  BY <1>1 DEF Inv, Places, ShownInv, WhileWatching
<1>8. tmpl.conditions # {} /\ ~met.failure => NoFailure' /\ (met.success => Earned')
  <2> HIDE DEF met, v
  <2> QED
    BY <1>3, <1>7 DEF NoFailure, Earned
<1>9. tmpl.conditions # {} =>
        /\ pc' \in BeforeWatch => shown' = {}
        /\ pc' \in WhileWatching => NoFailure'
        /\ pc' \in AfterWatch /\ exit' = "zero" => Earned'
  <2> HIDE DEF met, v
  <2> QED
    BY <1>6, <1>8 DEF GiveUp, BeforeWatch, WhileWatching, AfterWatch
<1>10. pc' \in {"handle", "resourceParameters", "readJSON"}
       /\ ((UNCHANGED <<errors, exit>>) \/ GiveUp) /\ attempts' = attempts
       /\ Unchanged /\ saved' = saved
  BY <1>6 DEF GiveUp, checkResourceState
<1> QED
  BY <1>1, <1>2, <1>5, <1>7, <1>9, <1>10, ResourceStepInv
  DEF OnlyResource, BeforeWatch, WhileWatching, AfterWatch

LEMMA SaveResourceParametersInv ==
  ASSUME Inv, SaveResourceParameters
  PROVE  Inv'
<1>1. pc = "resourceParameters" /\ IsResource /\ saved \subseteq tmpl.outputs
  BY OnResource DEF SaveResourceParameters, OnlyResource
<1>2. BudgetOK'
  BY SpendOK DEF Inv, BudgetOK, Fault, SaveResourceParameters
<1>3. saved \subseteq saved' /\ saved' \subseteq tmpl.outputs
  <2>1. tmpl.outputs # {} => "parameters" \in tmpl.outputs
    BY <1>1, TemplateFacts DEF Inv, PodOK
  <2> QED
    BY <1>1, <2>1 DEF SaveResourceParameters
<1>4. NotesOK'
  BY <1>3 DEF Inv, NotesOK, SaveResourceParameters, Unchanged, annotations
<1>5. ResourceOK'
  BY Frames DEF Inv, SaveResourceParameters
<1>6. /\ pc' \in {"handle", "annotate"}
      /\ (UNCHANGED <<errors, exit>>) \/ GiveUp
      /\ UNCHANGED resourceVars /\ Unchanged
  BY DEF SaveResourceParameters, Goes, GiveUp
<1>7. tmpl.conditions # {} /\ exit' = "zero" => Earned'
  <2>1. tmpl.conditions # {} /\ exit = "zero" => Earned
    BY <1>1 DEF Inv, ShownInv, AfterWatch
  <2> QED
    BY <1>6, <2>1 DEF Earned, NoFailure, resourceVars, GiveUp
<1> QED
  BY <1>1, <1>2, <1>3, <1>4, <1>5, <1>6, <1>7, ResourceStepInv
  DEF OnlyResource, BeforeWatch, WhileWatching, AfterWatch

LEMMA ResourceChangesInv ==
  ASSUME Inv, ResourceChanges
  PROVE  Inv'
<1>1. UNCHANGED executorVars /\ attempts' = attempts /\ shown' = shown
  BY DEF ResourceChanges
<1>2. PodOK' /\ NotesOK' /\ GoroutinesOK' /\ BudgetOK'
  BY <1>1, Frames DEF Inv, executorVars, command
<1>3. CommandOK'
  BY <1>1 DEF Inv, CommandOK, executorVars, command, containers
<1>4. PICK v \in {Absent} \cup [exists : {TRUE}, meets : SUBSET tmpl.conditions] : Becomes(v)
  BY DEF ResourceChanges
<1>5. v \in Version
  <2>1. Absent \in Version /\ tmpl.conditions \subseteq Condition
    BY FeedFacts, TemplateFacts DEF Inv, PodOK
  <2> QED
    BY <2>1 DEF Version
<1>6. resource' \in Version /\ feed' \in Seq(Version)
  BY <1>4, <1>5, FeedFacts DEF Inv, ResourceOK, Becomes
<1>7. ResourceOK'
  BY <1>1, <1>6 DEF Inv, ResourceOK
<1>8. Places' /\ CancelInv' /\ KillInv' /\ ShownInv'
  BY <1>1 DEF Inv, Places, CancelInv, KillInv, ShownInv, MainDone, NoFailure, Earned,
              IsResource, executorVars, command, containers, annotations, goroutines
<1> QED
  BY <1>2, <1>3, <1>7, <1>8 DEF Inv

-----------------------------------------------------------------------------
LEMMA InitInv ==
  ASSUME Init
  PROVE  Inv
<1>1. tmpl \in Template
  BY DEF Init, ExecutorInit, ContainersInit
<1>2. ctr = [c \in Container |-> IF c \in Present THEN "waiting" ELSE "zero"]
  BY DEF Init, ExecutorInit, ContainersInit
<1>3. ctr \in [Container -> ContainerState] /\ ctr["main"] = "waiting"
  BY <1>2 DEF ContainerState, Container, Present
<1>4. status = [containers |-> ctr, message |-> FALSE] /\ term = {} /\ evicted = FALSE
  BY DEF Init, ExecutorInit, ContainersInit
<1>5. PodOK
  BY <1>1, <1>3, <1>4 DEF PodOK
<1>6. NotesOK /\ CommandOK /\ GoroutinesOK
  BY DEF Init, ExecutorInit, NotesOK, CommandOK, GoroutinesOK, Step
<1>7. BudgetOK
  BY BudgetAssumption DEF Init, ExecutorInit, BudgetOK, BudgetAssumption
<1>8. ResourceOK
  <2>1. Fresh \in Version /\ Absent \in Version
    BY DEF Fresh, Absent, Version
  <2>2. resource \in Version /\ feed = <<>> /\ attempts = 0 /\ shown = {}
    BY <2>1 DEF Init
  <2>3. <<>> \in Seq(Version)
    OBVIOUS
  <2> QED
    BY <2>2, <2>3, ResourceAssumption DEF ResourceOK, ResourceAssumption
<1>9. Places /\ CancelInv /\ KillInv
  BY <1>4 DEF Init, ExecutorInit, Places, CancelInv, KillInv, BeforeWatch, WhileWatching,
              OnlyResource
<1>10. ShownInv
  BY <1>3, <1>4 DEF Init, ExecutorInit, ShownInv, BeforeWatch, WhileWatching, AfterWatch
<1> QED
  BY <1>5, <1>6, <1>7, <1>8, <1>9, <1>10 DEF Inv

LEMMA NextInv ==
  ASSUME Inv, [Next]_vars
  PROVE  Inv'
<1>1. CASE ExecutorNext /\ UNCHANGED resourceVars
  <2>1. CASE loadArtifacts
    BY <1>1, <2>1, loadArtifactsInv
  <2>2. ASSUME NEW c \in Container, ContainerStarts(c)
        PROVE  Inv'
    BY <1>1, <2>2, ContainerStartsInv
  <2>3. CASE Evict
    BY <1>1, <2>3, EvictInv
  <2>4. CASE Cluster
    BY <1>1, <2>4, ContainerEndsInv, ReportInv DEF Cluster
  <2>5. CASE updateExecutionControl \/ SignalArrives \/ FileUpdated
    BY <1>1, <2>5, updateExecutionControlInv, SignalArrivesInv, FileUpdatedInv
  <2>6. CASE Command
    BY <1>1, <2>6, waitMainContainerStartInv, monitorAnnotationsInv, WaitInv, killSidecarsInv,
       killContainersInv, SaveArtifactsInv, SaveParametersInv, CaptureScriptResultInv,
       AnnotateOutputsInv, HandleErrorInv DEF Command
  <2>7. CASE ForceKill
    BY <1>1, <2>7, ForceKillInv
  <2>8. CASE Monitor
    BY <1>1, <2>8, FileEventInv, SignalReceivedInv, ReloadInv, MonitorStopsInv DEF Monitor
  <2>9. CASE monitorDeadline
    BY <1>1, <2>9, AnnotationsUpdateInv, DeadlineStopsInv, DeadlineExceededInv,
       KillMainReturnsInv DEF monitorDeadline
  <2> QED
    BY <1>1, <2>1, <2>2, <2>3, <2>4, <2>5, <2>6, <2>7, <2>8, <2>9 DEF ExecutorNext
<1>2. CASE execResource
  BY <1>2, StageFilesInv, ExecResourceInv, WaitResourceInv, startKubectlWaitCmdInv,
     checkResourceStateInv, SaveResourceParametersInv DEF execResource
<1>3. CASE WatchEnds \/ ResourceChanges
  BY <1>3, WatchEndsInv, ResourceChangesInv
<1>4. CASE UNCHANGED vars
  <2>1. PodOK' /\ NotesOK' /\ GoroutinesOK' /\ BudgetOK' /\ ResourceOK'
    BY <1>4, Frames DEF Inv, vars, executorVars, command
  <2>2. CommandOK'
    BY <1>4 DEF Inv, CommandOK, vars, executorVars, command, containers
  <2>3. Places' /\ CancelInv' /\ KillInv' /\ ShownInv'
    BY <1>4 DEF Inv, Places, CancelInv, KillInv, ShownInv, MainDone, NoFailure, Earned,
                IsResource, vars, executorVars, command, containers, annotations, goroutines,
                resourceVars
  <2> QED
    BY <2>1, <2>2, <2>3 DEF Inv
<1> QED
  BY <1>1, <1>2, <1>3, <1>4 DEF Next

LEMMA SpecInv == Spec => []Inv
<1>1. Init => Inv
  BY InitInv
<1>2. Inv /\ [Next]_vars => Inv'
  BY NextInv
<1> QED
  BY <1>1, <1>2, PTL DEF Spec

-----------------------------------------------------------------------------
(* Every variable of a pod has its type (WorkflowExecutor). *)
THEOREM ExecutorTypes == Spec => []TypeOK
<1>1. Inv => TypeOK
  BY DEF Inv, TypeOK, PodOK, NotesOK, CommandOK, GoroutinesOK, BudgetOK, ResourceOK
<1> QED
  BY <1>1, SpecInv, PTL

(* The main container is only told to stop when the step was cancelled, a  *)
(* sidecar only when the main container has ended or after an error        *)
(* (monitorDeadline, killSidecars).                                        *)
THEOREM NothingStoppedWithoutReason == Spec => []StoppedForReason
<1>1. Inv => StoppedForReason
  BY DEF Inv, CancelInv, KillInv, MainDone, StoppedForReason
<1> QED
  BY <1>1, SpecInv, PTL

(* A step that is not a daemon only succeeds if every container of its pod *)
(* has ended with zero: an absent pod has no say.                          *)
LEMMA SucceededContainers ==
  ASSUME PodOK, Verdict = "Succeeded", PodPhaseOf(status) # "Ready"
  PROVE  \A c \in Regular : status.containers[c] = "zero"
<1>1. Phase(status) = "Succeeded"
  <2>1. Phase(status) \in {"Failed", "Succeeded", "Pending", "Running"}
    BY DEF Phase
  <2>2. CASE Phase(status) = "Failed"
    <3>1. PodPhaseOf(status) \in {"Errored", "Failed"}
      BY <2>2 DEF PodPhaseOf
    <3> QED
      BY <3>1 DEF Verdict, assessNodeStatus, inferFailedReason, NoStatus
  <2>3. CASE Phase(status) = "Running"
    <3>1. PodPhaseOf(status) = "Running"
      BY <2>3 DEF PodPhaseOf
    <3> QED
      BY <3>1 DEF Verdict, assessNodeStatus, inferFailedReason, NoStatus
  <2>4. CASE Phase(status) = "Pending"
    <3>1. PodPhaseOf(status) = "Pending"
      BY <2>4 DEF PodPhaseOf
    <3> QED
      BY <3>1 DEF Verdict, assessNodeStatus, inferFailedReason, NoStatus
  <2> QED
    BY <2>1, <2>2, <2>3, <2>4
<1>2. \A c \in Regular : status.containers[c] \in ContainerState
  BY DEF PodOK, Regular
<1>3. /\ \A c \in Regular : Ended(status.containers[c])
      /\ ~ Some(status, Regular)
  BY <1>1 DEF Phase
<1> QED
  BY <1>2, <1>3 DEF Ended, Some

(* The pod of a resource template is never a daemon's. *)
LEMMA SucceededMain ==
  ASSUME PodOK, IsResource, Verdict = "Succeeded"
  PROVE  status.containers["main"] = "zero"
<1>1. ~ tmpl.daemon
  BY TemplateFacts DEF PodOK
<1>2. Phase(status) # "Ready"
  BY DEF Phase
<1>3. PodPhaseOf(status) # "Ready"
  BY <1>1, <1>2 DEF PodPhaseOf
<1>4. "main" \in Regular
  BY DEF Regular, Container
<1> QED
  BY <1>3, <1>4, SucceededContainers

(* A resource template with conditions only succeeds on a version that met *)
(* the one for success, and never after one that met the one for failure   *)
(* (WaitResource, checkResourceState).                                     *)
THEOREM SuccessIsShown == Spec => []SuccessWasShown
<1>1. Inv => SuccessWasShown
  BY SucceededMain DEF Inv, ShownInv, Earned, NoFailure, SuccessWasShown
<1> QED
  BY <1>1, SpecInv, PTL

-----------------------------------------------------------------------------
(* The outputs of a step. *)

(* Without the faults whose errors are dropped. *)
Spared == ~ Struck("docker") /\ ~ Struck("api")

AfterStart == {"monitor", "dockerWait", "killSidecars", "killWait",
               "artifacts", "parameters", "result", "annotate"}
AfterMain  == AfterStart \ {"monitor", "dockerWait"}

(* What a success promises. *)
Complete == outputs = tmpl.outputs \/ (IsResource /\ ~resource.exists)

(* The status never runs ahead of docker, and the executor does not outlive*)
(* its container.                                                          *)
StatusOK ==
  /\ ctr[Host] = "zero" => pc = "gone"
  /\ status.containers["main"] # "waiting" => ctr["main"] # "waiting"
  /\ status.containers[Host] = "zero" => ctr[Host] = "zero"

Kept(output) == output \in tmpl.outputs => output \in saved

(* What the wait command has seen, and saved, by the time it is there. *)
WaitSaved ==
  /\ pc \in AfterStart => status.containers["main"] # "waiting"
  /\ pc \in AfterMain => Ended(ctr["main"])
  /\ pc \in {"parameters", "result", "annotate"} => Kept("artifacts")
  /\ pc \in {"result", "annotate"} => Kept("parameters")
  /\ pc = "annotate" => Kept("result")

(* The same of the command resource. *)
ResourceSaved == pc = "annotate" => saved = tmpl.outputs \/ ~resource.exists

Promise ==
  /\ ~IsResource => WaitSaved
  /\ IsResource => ResourceSaved
  /\ pc = "handle" /\ exit = "zero" => Complete
  /\ ctr[Host] = "zero" => Complete

BudgetBound == \A f \in Fault : budget[f] <= Budget[f]

OutputsInv == BudgetBound /\ StatusOK /\ (Spared => Promise)

-----------------------------------------------------------------------------
Charge == UNCHANGED budget \/ \E f \in Fault : Spend(f)

(* Faults are not given back. *)
LEMMA ChargeFacts ==
  ASSUME BudgetOK, BudgetBound, Charge
  PROVE  /\ BudgetBound'
         /\ Spared' => Spared /\ ~Spend("docker") /\ ~Spend("api")
<1>1. \A f \in Fault : budget[f] \in Nat /\ Budget[f] \in Nat
  BY BudgetAssumption DEF BudgetOK, BudgetAssumption
<1>2. \A f \in Fault : budget'[f] = budget[f] \/ budget'[f] = budget[f] - 1
  BY <1>1 DEF Charge, Spend, BudgetOK
<1>3. BudgetBound'
  BY <1>1, <1>2 DEF BudgetBound
<1>4. \A f \in Fault : Spend(f) => budget'[f] = budget[f] - 1
  BY DEF Spend, BudgetOK
<1>5. \A f \in Fault : ~ Struck(f)' => ~ Struck(f) /\ ~ Spend(f)
  BY <1>1, <1>2, <1>4 DEF BudgetBound, Struck
<1> QED
  BY <1>3, <1>5 DEF Spared, Fault

Elsewhere == {"gone", "start", "stage", "exec", "waitResource", "watch", "readJSON",
              "resourceParameters"}

(* Steps that neither save nor annotate, nor end the executor well.  The   *)
(* host may start or be killed; a resource that is gone does not come back *)
(* after kubectl's action.                                                 *)
Quiet ==
  /\ UNCHANGED <<tmpl, status, outputs, saved>>
  /\ \/ UNCHANGED <<pc, exit>>
     \/ pc' \in Elsewhere
     \/ pc' = "handle" /\ exit' = "nonzero"
  /\ \A c \in Container :
       /\ ctr[c] # "waiting" => ctr'[c] # "waiting"
       /\ Ended(ctr[c]) => ctr'[c] = ctr[c]
  /\ ctr'[Host] = "zero" => ctr[Host] = "zero" /\ (pc' \in {pc, "gone"} \/ pc # "gone")
  /\ ~resource.exists => ~resource'.exists \/ (pc = "exec" /\ pc' # pc)

LEMMA HostFacts ==
  ASSUME tmpl \in Template
  PROVE  /\ Host \in Regular /\ Host \in Container /\ "main" \in Container
         /\ Host = "wait" <=> ~IsResource
         /\ Host = "main" <=> IsResource
  BY DEF Host, Regular, Container

LEMMA QuietInv ==
  ASSUME Inv, OutputsInv, Quiet, Charge
  PROVE  OutputsInv'
<1>1. BudgetBound' /\ (Spared' => Spared)
  BY ChargeFacts DEF Inv, OutputsInv
<1>2. UNCHANGED <<IsResource, Host>> /\ Host \in Container /\ "main" \in Container
  BY HostFacts DEF Inv, PodOK, Quiet, IsResource, Host
<1>3. StatusOK'
  BY <1>2 DEF OutputsInv, StatusOK, Quiet, Ended
<1>4. ASSUME Spared PROVE Promise'
  <2>1. pc = "exec" => ctr[Host] # "zero"
    BY DEF OutputsInv, StatusOK
  <2>2. WaitSaved /\ ~IsResource => WaitSaved'
    BY <1>2 DEF Quiet, WaitSaved, Kept, Elsewhere, AfterStart, AfterMain
  <2>3. ResourceSaved /\ IsResource => ResourceSaved'
    BY DEF Quiet, ResourceSaved, Elsewhere
  <2>4. (pc' = "handle" /\ exit' = "zero") \/ ctr'[Host] = "zero" => Complete'
    BY <1>2, <1>4, <2>1 DEF OutputsInv, Promise, Complete, Quiet, Elsewhere
  <2> QED
    BY <1>2, <1>4, <2>2, <2>3, <2>4 DEF OutputsInv, Promise
<1> QED
  BY <1>1, <1>3, <1>4 DEF OutputsInv

LEMMA PodStepsQuiet ==
  ASSUME Inv, UNCHANGED resourceVars,
         \/ loadArtifacts \/ \E c \in Container : ContainerStarts(c)
         \/ Evict \/ ForceKill
         \/ updateExecutionControl \/ SignalArrives \/ FileUpdated
  PROVE  Quiet /\ Charge
<1>1. Host \in Regular
  BY HostFacts DEF Inv, PodOK
<1>2. CASE loadArtifacts
  BY <1>1, <1>2 DEF Inv, PodOK, loadArtifacts, Quiet, Charge, Fault, Elsewhere, Regular,
     command, resourceVars, Ended
<1>3. ASSUME NEW c \in Container, ContainerStarts(c) PROVE Quiet /\ Charge
  BY <1>1, <1>3 DEF Inv, PodOK, ContainerStarts, Quiet, Charge, Elsewhere, Regular,
     annotations, resourceVars, Ended
<1>4. CASE Evict
  BY <1>1, <1>4 DEF Inv, PodOK, Evict, Gone, Quiet, Charge, Fault, Elsewhere, Regular,
     annotations, resourceVars, Ended
<1>5. CASE ForceKill
  BY <1>1, <1>5 DEF Inv, PodOK, ForceKill, Quiet, Charge, Fault, Regular,
     annotations, command, resourceVars, Ended
<1>6. CASE updateExecutionControl \/ SignalArrives \/ FileUpdated
  BY <1>1, <1>6 DEF updateExecutionControl, SignalArrives, FileUpdated, Quiet, Charge,
     containers, annotations, command, resourceVars
<1> QED
  BY <1>2, <1>3, <1>4, <1>5, <1>6

LEMMA GoroutinesQuiet ==
  ASSUME UNCHANGED resourceVars, Monitor \/ monitorDeadline
  PROVE  Quiet /\ Charge
<1>1. CASE Monitor
  BY <1>1 DEF Monitor, FileEvent, SignalReceived, Reload, MonitorStops, Quiet, Charge, Fault,
     containers, annotations, command, resourceVars
<1>2. CASE monitorDeadline
  BY <1>2 DEF monitorDeadline, AnnotationsUpdate, DeadlineStops, DeadlineExceeded,
     KillMainReturns, Quiet, Charge, Fault, annotations, command, resourceVars
<1> QED
  BY <1>1, <1>2

LEMMA ResourceQuiet ==
  ASSUME \/ StageFiles \/ ExecResource \/ WaitResource \/ startKubectlWaitCmd
         \/ checkResourceState \/ WatchEnds \/ ResourceChanges
  PROVE  Quiet /\ Charge
<1>1. CASE StageFiles \/ WaitResource
  BY <1>1 DEF StageFiles, WaitResource, Goes, GiveUp, Fails, Unchanged, Quiet, Charge, Fault,
     Elsewhere, containers, annotations, resourceVars
<1>2. CASE ExecResource
  BY <1>2 DEF ExecResource, Goes, GiveUp, Fails, Unchanged, Quiet, Charge, Fault,
     Elsewhere, containers, annotations, resourceVars
<1>3. CASE startKubectlWaitCmd \/ checkResourceState \/ WatchEnds
  BY <1>3 DEF startKubectlWaitCmd, checkResourceState, WatchEnds, Retry, Goes, GiveUp, Fails,
     Unchanged, Quiet, Charge, Fault, Elsewhere, containers, annotations
<1>4. CASE ResourceChanges
  BY <1>4 DEF ResourceChanges, Quiet, Charge, executorVars, containers, annotations, command
<1> QED
  BY <1>1, <1>2, <1>3, <1>4

-----------------------------------------------------------------------------
LEMMA ClusterInv ==
  ASSUME Inv, OutputsInv, Cluster, UNCHANGED resourceVars
  PROVE  OutputsInv'
<1>1. ASSUME NEW c \in Container, ContainerEnds(c) PROVE OutputsInv'
  <2>1. Quiet /\ Charge
    BY <1>1, HostFacts DEF Inv, PodOK, ContainerEnds, Cluster, Quiet, Charge, annotations,
       command, resourceVars, Ended
  <2> QED
    BY <2>1, QuietInv
<1>2. CASE Report
  <2>1. BudgetBound' /\ (Spared' => Spared)
    BY <1>2, ChargeFacts DEF Inv, OutputsInv, Cluster, Charge
  <2>2. UNCHANGED <<IsResource, Host>> /\ Host \in Container /\ "main" \in Container
    BY <1>2, HostFacts DEF Inv, PodOK, Report, IsResource, Host
  <2>3. StatusOK'
    BY <1>2, <2>2 DEF OutputsInv, StatusOK, Report, Cluster, command
  <2>4. Promise => Promise'
    BY <1>2, <2>2 DEF OutputsInv, StatusOK, Promise, WaitSaved, Kept, ResourceSaved,
       Complete, Report, Cluster, annotations, command, resourceVars
  <2> QED
    BY <2>1, <2>3, <2>4 DEF OutputsInv
<1> QED
  BY <1>1, <1>2 DEF Cluster

(* The steps of the wait command that leave the containers alone. *)
Onward ==
  /\ UNCHANGED <<tmpl, ctr, status, outputs, exit>> /\ UNCHANGED resourceVars
  /\ pc \in {"start"} \cup AfterStart /\ pc' \in AfterStart

LEMMA OnwardInv ==
  ASSUME Inv, OutputsInv, Onward, Charge, ~IsResource,
         Spared /\ Spared' => WaitSaved'
  PROVE  OutputsInv'
<1>1. BudgetBound' /\ (Spared' => Spared)
  BY ChargeFacts DEF Inv, OutputsInv
<1>2. UNCHANGED <<IsResource, Host>>
  BY DEF Onward, IsResource, Host
<1>3. StatusOK'
  BY <1>2 DEF OutputsInv, StatusOK, Onward, AfterStart
<1>4. Spared' => Promise'
  BY <1>1, <1>2 DEF OutputsInv, Promise, Complete, Onward, AfterStart, resourceVars
<1> QED
  BY <1>1, <1>3, <1>4 DEF OutputsInv

LEMMA StartInv ==
  ASSUME Inv, OutputsInv, waitMainContainerStart \/ monitorAnnotations, UNCHANGED resourceVars
  PROVE  OutputsInv'
<1>1. ~IsResource
  BY DEF waitMainContainerStart, monitorAnnotations, Inv, Places, BeforeWatch, WhileWatching,
     AfterWatch
<1>2. Onward /\ Charge
  BY DEF waitMainContainerStart, monitorAnnotations, Onward, Charge, Fault, AfterStart,
     containers, annotations
<1>3. ASSUME Spared, Spared' PROVE WaitSaved'
  <2>1. ~ Spend("api")
    BY <1>2, <1>3, ChargeFacts DEF Inv, OutputsInv
  <2> QED
    BY <1>1, <1>3, <2>1 DEF waitMainContainerStart, monitorAnnotations, OutputsInv, Promise,
       WaitSaved, AfterStart, AfterMain, containers
<1> QED
  BY <1>1, <1>2, <1>3, OnwardInv

LEMMA StopInv ==
  ASSUME Inv, OutputsInv, Wait \/ killSidecars \/ killContainers, UNCHANGED resourceVars
  PROVE  OutputsInv'
<1>1. ~IsResource
  BY DEF Wait, killSidecars, killContainers, Inv, Places, BeforeWatch, WhileWatching, AfterWatch
<1>2. Onward /\ Charge
  <2>1. CASE Wait
    BY <2>1 DEF Wait, Onward, Charge, Fault, AfterStart, containers, annotations
  <2>2. CASE killSidecars
    BY <2>2 DEF killSidecars, Onward, Charge, Fault, AfterStart, annotations
  <2>3. CASE killContainers
    BY <2>3 DEF killContainers, Onward, Charge, Fault, AfterStart, containers, annotations
  <2> QED
    BY <2>1, <2>2, <2>3
<1>3. ASSUME Spared, Spared' PROVE WaitSaved'
  <2>1. ~ Spend("docker")
    BY <1>2, <1>3, ChargeFacts DEF Inv, OutputsInv
  <2>2. WaitSaved
    BY <1>1, <1>3 DEF OutputsInv, Promise
  <2>3. CASE Wait
    BY <2>1, <2>2, <2>3 DEF Wait, WaitSaved, AfterStart, AfterMain, containers
  <2>4. CASE killSidecars
    BY <2>2, <2>4 DEF killSidecars, WaitSaved, AfterStart, AfterMain
  <2>5. CASE killContainers
    BY <2>2, <2>5 DEF killContainers, WaitSaved, AfterStart, AfterMain, containers
  <2> QED
    BY <2>3, <2>4, <2>5
<1> QED
  BY <1>1, <1>2, <1>3, OnwardInv

(* One kind of outputs is saved, if the command goes on. *)
LEMMA SaveInv ==
  ASSUME Inv, OutputsInv, NEW output, NEW next, NEW failure \in BOOLEAN,
         Save(output, next, failure), failure => Charge,
         <<pc, output, next>> \in {<<"artifacts", "artifacts", "parameters">>,
                                  <<"parameters", "parameters", "result">>,
                                  <<"result", "result", "annotate">>},
         UNCHANGED <<containers, annotations, resourceVars>>
  PROVE  OutputsInv'
<1>1. ~IsResource
  BY DEF Inv, Places, BeforeWatch, WhileWatching, AfterWatch
<1>2. CASE GiveUp
  <2>1. next # "handle" /\ pc # "gone"
    OBVIOUS
  <2>2. Quiet /\ Charge
    BY <1>2, <2>1 DEF Save, GiveUp, Quiet, Charge, Fault, containers, annotations, resourceVars
  <2> QED
    BY <2>2, QuietInv
<1>3. CASE ~ GiveUp
  <2>1. Onward /\ Charge
    BY <1>3 DEF Save, Copy, Onward, Charge, Fault, AfterStart, containers, annotations
  <2>2. ASSUME Spared, Spared' PROVE WaitSaved'
    <3>1. WaitSaved
      BY <1>1, <2>2 DEF OutputsInv, Promise
    <3>2. Final
      BY <3>1 DEF Final, WaitSaved, AfterStart, AfterMain
    <3>3. ~ Spend("docker")
      BY <2>1, <2>2, ChargeFacts DEF Inv, OutputsInv
    <3>4. pc' = next /\ Kept(output)' /\ saved \subseteq saved'
      BY <1>3, <2>1, <3>2, <3>3 DEF Save, Copy, Kept, Onward
    <3> QED
      BY <2>1, <3>1, <3>4 DEF WaitSaved, Kept, AfterStart, AfterMain, Onward
  <2> QED
    BY <1>1, <2>1, <2>2, OnwardInv
<1> QED
  BY <1>2, <1>3

LEMMA SavingInv ==
  ASSUME Inv, OutputsInv, SaveArtifacts \/ SaveParameters \/ CaptureScriptResult,
         UNCHANGED resourceVars
  PROVE  OutputsInv'
<1>1. CASE SaveArtifacts
  <2> DEFINE failure == Spend("save")
  <2>1. Save("artifacts", "parameters", failure)
    BY <1>1 DEF SaveArtifacts
  <2>2. failure \in BOOLEAN /\ (failure => Charge)
    BY DEF Spend, Charge, Fault
  <2>3. pc = "artifacts" /\ UNCHANGED <<containers, annotations>>
    BY <1>1 DEF SaveArtifacts
  <2> HIDE DEF failure
  <2> QED
    BY <2>1, <2>2, <2>3, SaveInv
<1>2. CASE SaveParameters
  <2> DEFINE failure == \/ \E fault \in {"save", "docker"} : Spend(fault)
                        \/ status.containers["main"] = "waiting" /\ UNCHANGED budget
  <2>1. Save("parameters", "result", failure)
    BY <1>2 DEF SaveParameters
  <2>2. failure \in BOOLEAN /\ (failure => Charge)
    BY DEF Spend, Charge, Fault
  <2>3. pc = "parameters" /\ UNCHANGED <<containers, annotations>>
    BY <1>2 DEF SaveParameters
  <2> HIDE DEF failure
  <2> QED
    BY <2>1, <2>2, <2>3, SaveInv
<1>3. CASE CaptureScriptResult
  <2>1. Save("result", "annotate", FALSE)
    BY <1>3 DEF CaptureScriptResult
  <2>2. pc = "result" /\ UNCHANGED <<containers, annotations>>
    BY <1>3 DEF CaptureScriptResult
  <2> QED
    BY <2>1, <2>2, SaveInv
<1> QED
  BY <1>1, <1>2, <1>3

LEMMA AnnotateInv ==
  ASSUME Inv, OutputsInv, AnnotateOutputs, UNCHANGED resourceVars
  PROVE  OutputsInv'
<1>1. Charge
  BY DEF AnnotateOutputs, Charge, Fault
<1>2. BudgetBound' /\ (Spared' => Spared)
  BY <1>1, ChargeFacts DEF Inv, OutputsInv
<1>3. UNCHANGED <<tmpl, ctr, status>> /\ UNCHANGED <<IsResource, Host>>
  BY DEF AnnotateOutputs, containers, IsResource, Host
<1>4. StatusOK'
  BY <1>3 DEF OutputsInv, StatusOK, AnnotateOutputs
<1>5. ASSUME Spared PROVE Promise'
  <2>1. saved = tmpl.outputs \/ (IsResource /\ ~resource.exists)
    BY <1>5, TemplateFacts DEF Inv, PodOK, CommandOK, OutputsInv, Promise, WaitSaved, Kept,
       ResourceSaved, AnnotateOutputs, Output
  <2>2. exit' = "zero" => Complete'
    BY <1>3, <2>1 DEF AnnotateOutputs, GiveUp, Complete, resourceVars
  <2>3. ctr[Host] = "zero" => Complete'
    BY <1>3, <1>5, <2>1 DEF AnnotateOutputs, OutputsInv, Promise, Complete, resourceVars
  <2>4. pc' = "handle"
    BY DEF AnnotateOutputs, GiveUp
  <2>5. WaitSaved => WaitSaved'
    BY <1>3, <2>4 DEF WaitSaved, AfterStart, AfterMain
  <2> QED
    BY <1>3, <1>5, <2>2, <2>3, <2>4, <2>5 DEF OutputsInv, Promise, ResourceSaved
<1> QED
  BY <1>2, <1>4, <1>5 DEF OutputsInv

LEMMA HandleInv ==
  ASSUME Inv, OutputsInv, HandleError, UNCHANGED resourceVars
  PROVE  OutputsInv'
<1>1. Charge
  BY DEF HandleError, Charge, Fault
<1>2. BudgetBound' /\ (Spared' => Spared)
  BY <1>1, ChargeFacts DEF Inv, OutputsInv
<1>3. UNCHANGED <<tmpl, status, outputs>> /\ UNCHANGED <<IsResource, Host>>
  BY DEF HandleError, IsResource, Host
<1>4. /\ ctr'[Host] = exit
      /\ Host # "main" => ctr'["main"] = ctr["main"]
      /\ pc = "handle" /\ pc' = "gone" /\ exit' = exit /\ exit \in {"zero", "nonzero"}
  BY HostFacts DEF Inv, PodOK, CommandOK, HandleError, Gone
<1>5. StatusOK'
  BY <1>3, <1>4 DEF OutputsInv, StatusOK
<1>6. Promise => Promise'
  BY <1>3, <1>4 DEF Promise, WaitSaved, ResourceSaved, Complete, AfterStart, AfterMain,
     resourceVars
<1> QED
  BY <1>2, <1>5, <1>6 DEF OutputsInv

LEMMA ResourceParametersInv ==
  ASSUME Inv, OutputsInv, SaveResourceParameters
  PROVE  OutputsInv'
<1>1. Charge
  BY DEF SaveResourceParameters, Charge, Fault
<1>2. BudgetBound' /\ (Spared' => Spared /\ ~Spend("api"))
  BY <1>1, ChargeFacts DEF Inv, OutputsInv
<1>3. UNCHANGED <<tmpl, ctr, status, outputs>> /\ UNCHANGED <<IsResource, Host>>
  BY DEF SaveResourceParameters, Unchanged, containers, annotations, IsResource, Host
<1>4. IsResource
  BY DEF SaveResourceParameters, Inv, Places, OnlyResource
<1>5. tmpl.outputs \subseteq {"parameters"} /\ outputs \subseteq saved /\ saved \subseteq tmpl.outputs
  BY <1>4, TemplateFacts DEF Inv, PodOK, NotesOK, CommandOK
<1>6. StatusOK'
  BY <1>3 DEF OutputsInv, StatusOK, SaveResourceParameters
<1>7. ctr[Host] # "zero"
  BY DEF OutputsInv, StatusOK, SaveResourceParameters
<1>8. ASSUME Spared' PROVE ResourceSaved'
  BY <1>2, <1>3, <1>5, <1>8 DEF ResourceSaved, SaveResourceParameters, Goes, GiveUp, resourceVars
<1>9. pc' = "handle" /\ exit' = "zero" => Complete'
  BY <1>3, <1>5 DEF SaveResourceParameters, Goes, GiveUp, Complete
<1> QED
  BY <1>2, <1>3, <1>4, <1>6, <1>7, <1>8, <1>9 DEF OutputsInv, Promise

-----------------------------------------------------------------------------
LEMMA OutputsInit == Init => OutputsInv
<1> SUFFICES ASSUME Init PROVE OutputsInv
  OBVIOUS
<1> USE DEF Init, ExecutorInit, ContainersInit
<1>1. BudgetBound
  BY BudgetAssumption DEF BudgetAssumption, BudgetBound
<1>2. ctr[Host] = "waiting" /\ status.containers = ctr
  BY HostFacts DEF Present
<1>3. StatusOK
  BY <1>2 DEF StatusOK
<1>4. Promise
  BY <1>2 DEF Promise, WaitSaved, ResourceSaved, AfterStart, AfterMain
<1> QED
  BY <1>1, <1>3, <1>4 DEF OutputsInv

LEMMA OutputsNext == Inv /\ OutputsInv /\ [Next]_vars => OutputsInv'
<1> SUFFICES ASSUME Inv, OutputsInv, [Next]_vars PROVE OutputsInv'
  OBVIOUS
<1>1. CASE UNCHANGED vars
  <2>1. Quiet /\ Charge
    BY <1>1 DEF Quiet, Charge, vars, executorVars, containers, annotations, command, resourceVars
  <2> QED
    BY <2>1, QuietInv
<1>2. CASE ExecutorNext /\ UNCHANGED resourceVars
  <2>1. CASE Command
    BY <1>2, <2>1, StartInv, StopInv, SavingInv, AnnotateInv, HandleInv DEF Command
  <2>2. CASE Cluster
    BY <1>2, <2>2, ClusterInv
  <2>3. CASE Monitor \/ monitorDeadline
    BY <1>2, <2>3, GoroutinesQuiet, QuietInv
  <2> QED
    BY <1>2, <2>1, <2>2, <2>3, PodStepsQuiet, QuietInv DEF ExecutorNext
<1>3. CASE execResource \/ WatchEnds \/ ResourceChanges
  BY <1>3, ResourceParametersInv, ResourceQuiet, QuietInv DEF execResource
<1> QED
  BY <1>1, <1>2, <1>3 DEF Next

LEMMA OutputsSpec == Spec => []OutputsInv
<1>1. Inv /\ OutputsInv /\ [Next]_vars => OutputsInv'
  BY OutputsNext
<1> QED
  BY <1>1, OutputsInit, SpecInv, PTL DEF Spec

(* A step that is not a daemon only succeeds with all of its outputs in    *)
(* the annotation, copied from a main container that had ended, unless one *)
(* of the errors that are dropped has struck, or the resource it was to    *)
(* read parameters from is gone (waitContainer, inferFailedReason).        *)
THEOREM NoOutputsLost == Spec => []SuccessHasOutputs
<1>1. Inv /\ OutputsInv => SuccessHasOutputs
  <2> SUFFICES ASSUME Inv, OutputsInv, Verdict = "Succeeded", PodPhaseOf(status) # "Ready", Spared
               PROVE  Complete
    BY DEF SuccessHasOutputs, Spared, Complete
  <2>1. status.containers[Host] = "zero"
    BY SucceededContainers, HostFacts DEF Inv, PodOK
  <2> QED
    BY <2>1 DEF OutputsInv, StatusOK, Promise
<1> QED
  BY <1>1, OutputsSpec, SpecInv, PTL
=============================================================================
