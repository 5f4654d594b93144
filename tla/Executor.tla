------------------------------ MODULE Executor ------------------------------
(***************************************************************************)
(* The executor in the init and the wait container of one pod (package     *)
(* executor and the commands init and wait of taskerexec), with the        *)
(* controller that cancels a daemon by an annotation and a signal.         *)
(*                                                                         *)
(* The wait command is a goroutine that waits for the main container,      *)
(* kills the sidecars and saves the outputs ("pc").  Beside it one         *)
(* goroutine watches the annotations ("monitor") and one the deadline      *)
(* ("deadline"); they share an unbuffered channel and ExecutionControl.    *)
(* All of them end with the process (pc = "gone").                         *)
(***************************************************************************)
EXTENDS PodContainers

CONSTANT Budget   \* [Fault -> Nat]: how often each fault may strike

(* "api": a call of the API server fails for good.  "docker": a docker     *)
(* command fails.  "save": an artifact or parameter cannot be saved or     *)
(* loaded.  "evict": the kubelet fails the pod, for its active deadline or *)
(* for lack of resources.                                                  *)
Fault == {"api", "docker", "save", "evict"}

ASSUME BudgetAssumption == Budget \in [Fault -> Nat]

VARIABLES
  execution,  \* the execution control annotation carries a (past) deadline
  file,       \* so does the annotations file of the downward API volume
  outputs,    \* the outputs annotation
  message,    \* the pod has a message annotation
  signal,     \* SIGUSR2: "none", "sent", or "pending" in the channel sigs
  event,      \* a file event is pending in the watcher
  pc,         \* where the wait command is
  errors,     \* an error was recorded
  saved,      \* the outputs it has saved
  targets,    \* the sidecars it is killing
  exit,       \* its exit code
  cancelled,  \* the context is done
  watching,   \* the file and the signal are being watched
  monitor,    \* where monitorAnnotations is
  deadline,   \* where monitorDeadline is
  execCtl,    \* ExecutionControl carries a (past) deadline
  force,      \* containers a timer is about to kill
  budget

annotations == <<execution, file, outputs, message>>
command     == <<pc, errors, saved, targets, exit>>
goroutines  == <<cancelled, watching, monitor, deadline, execCtl>>
executorVars == <<containers, annotations, signal, event, command, goroutines, force, budget>>

Step == {"none", "start", "monitor", "dockerWait", "killSidecars", "killWait",
         "artifacts", "parameters", "result", "annotate", "handle", "gone",
         "stage", "exec", "waitResource", "watch", "readJSON", "resourceParameters"}

ExecutorInit ==
  /\ ContainersInit
  /\ execution = FALSE /\ file = FALSE /\ outputs = {} /\ message = FALSE
  /\ signal = "none" /\ event = FALSE
  /\ pc = "none" /\ errors = FALSE /\ saved = {} /\ targets = {} /\ exit = "zero"
  /\ cancelled = FALSE /\ watching = FALSE /\ monitor = "off" /\ deadline = "off"
  /\ execCtl = FALSE /\ force = {}
  /\ budget = Budget

Spend(fault) ==
  /\ budget[fault] > 0
  /\ budget' = [budget EXCEPT ![fault] = @ - 1]

Alive == pc \notin {"none", "gone"}

(* The process is gone, and with it its goroutines, timer and watches. *)
Gone ==
  /\ pc' = "gone" /\ targets' = {} /\ force' = {} /\ event' = FALSE
  /\ cancelled' = FALSE /\ watching' = FALSE /\ monitor' = "off" /\ deadline' = "off"
  /\ execCtl' = FALSE

-----------------------------------------------------------------------------
(* The init container stages files and loads artifacts; an error is        *)
(* annotated if the API server takes it.                                   *)
loadArtifacts ==
  /\ ctr["init"] = "waiting" /\ ~evicted
  /\ \/ ctr' = [ctr EXCEPT !["init"] = "zero"] /\ UNCHANGED <<message, budget>>
     \/ /\ ctr' = [ctr EXCEPT !["init"] = "nonzero"]
        /\ message' \in {message, TRUE} /\ Spend("save")
  /\ UNCHANGED <<tmpl, evicted, status, term, execution, file, outputs,
                 signal, event, command, goroutines, force>>

(* The kubelet starts a container, the executor's process with the wait    *)
(* container.                                                              *)
ContainerStarts(c) ==
  /\ c \in Regular
  /\ ctr["init"] = "zero" /\ ctr[c] = "waiting"
  /\ ctr' = [ctr EXCEPT ![c] = "running"]
  /\ pc' = IF c # Host THEN pc ELSE IF IsResource THEN "stage" ELSE "start"
  /\ UNCHANGED <<tmpl, evicted, status, term, annotations, signal, event,
                 errors, saved, targets, exit, goroutines, force, budget>>

(* The pod is failed from outside and whatever runs in it is killed. *)
Evict ==
  /\ ~evicted /\ Spend("evict")
  /\ evicted' = TRUE
  /\ ctr' = [c \in Container |-> IF Ended(ctr[c]) THEN ctr[c] ELSE "nonzero"]
  /\ Gone
  /\ UNCHANGED <<tmpl, status, term, annotations, signal, errors, saved, exit>>

Cluster ==
  /\ \/ \E c \in Container : ContainerEnds(c)
     \/ Report
  /\ UNCHANGED <<annotations, signal, event, command, goroutines, force, budget>>

-----------------------------------------------------------------------------
(* The controller cancels a daemon, which it has seen ready, by a view of  *)
(* the pod that may be old: it annotates the pod, then it has the wait     *)
(* container's process signalled, which is best effort.  A signal nobody   *)
(* is notified of has no effect.                                           *)

updateExecutionControl ==
  /\ tmpl.daemon /\ ~execution
  /\ \A c \in Regular : status.containers[c] # "waiting"
  /\ execution' = TRUE
  /\ signal' = "sent"
  /\ UNCHANGED <<containers, file, outputs, message, event, command, goroutines, force, budget>>

SignalArrives ==
  /\ signal = "sent"
  /\ signal' \in {"none", IF Alive /\ watching THEN "pending" ELSE "none"}
  /\ UNCHANGED <<containers, annotations, event, command, goroutines, force, budget>>

(* The kubelet refreshes the annotations file, minutes later.  Nobody      *)
(* reads it once the process is gone.                                      *)
FileUpdated ==
  /\ execution /\ ~file /\ pc # "gone"
  /\ file' = TRUE
  /\ event' = watching
  /\ UNCHANGED <<containers, execution, outputs, message, signal, command,
                 goroutines, force, budget>>

-----------------------------------------------------------------------------
(* The wait command.                                                       *)

Fails == errors' = TRUE

waitMainContainerStart ==
  /\ pc = "start"
  /\ \/ /\ status.containers["main"] # "waiting"
        /\ pc' = "monitor" /\ UNCHANGED <<errors, budget>>
     \/ pc' = "killSidecars" /\ Fails /\ Spend("api")
  /\ UNCHANGED <<containers, annotations, signal, event, saved, targets, exit,
                 goroutines, force>>

(* The watches are set up and both goroutines started.  ExecutionControl   *)
(* keeps its zero value until the first event.                             *)
monitorAnnotations ==
  /\ pc = "monitor"
  /\ pc' = "dockerWait"
  /\ watching' = TRUE /\ monitor' = "select" /\ deadline' = "poll"
  /\ UNCHANGED <<containers, annotations, signal, event, errors, saved, targets, exit,
                 cancelled, execCtl, force, budget>>

(* Mutant: the wait command does not wait. *)
Wait_NotAtAll ==
  /\ pc = "dockerWait"
  /\ pc' = "killSidecars" /\ cancelled' = TRUE
  /\ UNCHANGED <<containers, annotations, signal, event, errors, saved, targets, exit,
                 watching, monitor, deadline, execCtl, force, budget>>

(* "docker wait" of the main container; the context is cancelled, then the *)
(* deferred killSidecars runs, whether or not it went well.                *)
Wait ==
  /\ pc = "dockerWait"
  /\ \/ Ended(ctr["main"]) /\ UNCHANGED <<errors, budget>>
     \/ Fails /\ Spend("docker")
  /\ pc' = "killSidecars" /\ cancelled' = TRUE
  /\ UNCHANGED <<containers, annotations, signal, event, saved, targets, exit,
                 watching, monitor, deadline, execCtl, force>>

(* Mutant: the test for an ended sidecar is the wrong way round. *)
killSidecars_Ended ==
  /\ pc = "killSidecars" /\ pc' = "artifacts"
  /\ Terminate({s \in tmpl.sidecars : Ended(status.containers[s])})
  /\ UNCHANGED <<tmpl, ctr, evicted, status, annotations, signal, event, errors, saved,
                 targets, exit, goroutines, force, budget>>

(* Sidecars that have ended according to the API server are left out.  One *)
(* that docker does not run makes the kill fail, and nobody waits for the  *)
(* others then.                                                            *)
killSidecars ==
  /\ pc = "killSidecars"
  /\ LET live == {s \in Sidecar : ~Ended(status.containers[s])}
     IN  \/ /\ live = {}
            /\ pc' = "artifacts" /\ UNCHANGED <<term, errors, targets, budget>>
         \/ /\ live # {} /\ Terminate(live)
            /\ \/ /\ \A s \in live : Reached(s)
                  /\ pc' = "killWait" /\ targets' = live /\ UNCHANGED errors
               \/ /\ \E s \in live : ~Reached(s)
                  /\ pc' = "artifacts" /\ Fails /\ UNCHANGED targets
            /\ UNCHANGED budget
         \/ /\ tmpl.sidecars # {}
            /\ \/ Spend("api")
               \/ live # {} /\ Spend("docker")
            /\ pc' = "artifacts" /\ Fails /\ UNCHANGED <<term, targets>>
  /\ UNCHANGED <<tmpl, ctr, evicted, status, annotations, signal, event, saved, exit,
                 goroutines, force>>

(* Mutant: no timer kills the containers that ignore the signal. *)
killContainers_NoTimer ==
  /\ pc = "killWait"
  /\ \A s \in targets : Ended(ctr[s])
  /\ pc' = "artifacts"
  /\ UNCHANGED <<containers, annotations, signal, event, errors, saved, targets, exit,
                 goroutines, force, budget>>

(* "docker wait" of the sidecars.  After the grace period a timer kills    *)
(* the wait, which is an error, and then, on its own, the containers.      *)
killContainers ==
  /\ pc = "killWait"
  /\ \/ /\ \A s \in targets : Ended(ctr[s])
        /\ UNCHANGED <<errors, force, budget>>
     \/ /\ \E s \in targets : ~Ended(ctr[s])
        /\ force' = force \cup targets
        /\ Fails /\ UNCHANGED budget
     \/ Fails /\ Spend("docker") /\ UNCHANGED force
  /\ pc' = "artifacts"
  /\ UNCHANGED <<containers, annotations, signal, event, saved, targets, exit, goroutines>>

(* The second half of the timer.  It is lost when the process ends first.  *)
ForceKill ==
  /\ Alive /\ force # {}
  /\ force' = {}
  /\ \/ /\ ctr' = [c \in Container |-> IF c \in force /\ ctr[c] = "running" THEN "nonzero"
                                       ELSE ctr[c]]
        /\ UNCHANGED budget
     \/ Spend("docker") /\ UNCHANGED ctr
  /\ UNCHANGED <<tmpl, evicted, status, term, annotations, signal, event, command, goroutines>>

(* The main container's ID comes from the pod's status and is kept: it is  *)
(* empty until the kubelet has reported the container.                     *)
Final == status.containers["main"] # "waiting" /\ Ended(ctr["main"])

(* An output is copied from the main container.  A docker command that     *)
(* fails in a pipe, or whose error is dropped, leaves the output empty.    *)
Copy(output) ==
  \/ saved' = saved \cup {o \in {output} : Final} /\ UNCHANGED budget
  \/ Spend("docker") /\ UNCHANGED saved

GiveUp == Fails /\ exit' = "nonzero" /\ pc' = "handle"

(* The outputs of one kind are saved, or the command returns the error of  *)
(* the given failure, or that of looking up a container ID it did not get. *)
Save(output, next, failure) ==
  \/ /\ output \notin tmpl.outputs
     /\ pc' = next /\ UNCHANGED <<saved, errors, exit, budget>>
  \/ /\ output \in tmpl.outputs /\ Copy(output)
     /\ pc' = next /\ UNCHANGED <<errors, exit>>
  \/ /\ output \in tmpl.outputs /\ GiveUp
     /\ \/ failure
        \/ monitor = "off" /\ Spend("api")
     /\ UNCHANGED saved

SaveArtifacts ==
  /\ pc = "artifacts" /\ Save("artifacts", "parameters", Spend("save"))
  /\ UNCHANGED <<containers, annotations, signal, event, targets, goroutines, force>>

(* Mutant: the error of SaveParameters is not returned. *)
SaveParameters_GoesOn ==
  /\ pc = "parameters" /\ pc' = "result"
  /\ \/ saved' = saved \cup ({"parameters"} \cap tmpl.outputs) /\ UNCHANGED <<errors, budget>>
     \/ Fails /\ Spend("save") /\ UNCHANGED saved
  /\ UNCHANGED <<containers, annotations, signal, event, targets, exit, goroutines, force>>

(* Here "tar" may or may not complain that it got nothing from docker. *)
SaveParameters ==
  /\ pc = "parameters"
  /\ Save("parameters", "result",
          \/ \E fault \in {"save", "docker"} : Spend(fault)
          \/ status.containers["main"] = "waiting" /\ UNCHANGED budget)
  /\ UNCHANGED <<containers, annotations, signal, event, targets, goroutines, force>>

(* Mutant: the test for a script template is missing. *)
CaptureScriptResult_Always ==
  /\ pc = "result" /\ pc' = "annotate"
  /\ saved' = saved \cup {"result"}
  /\ UNCHANGED <<containers, annotations, signal, event, errors, targets, exit,
                 goroutines, force, budget>>

CaptureScriptResult ==
  /\ pc = "result" /\ Save("result", "annotate", FALSE)
  /\ UNCHANGED <<containers, annotations, signal, event, targets, goroutines, force>>

AnnotateOutputs ==
  /\ pc = "annotate"
  /\ \/ outputs' = saved /\ pc' = "handle" /\ UNCHANGED <<errors, exit, budget>>
     \/ tmpl.outputs # {} /\ Spend("api") /\ GiveUp /\ UNCHANGED outputs
  /\ UNCHANGED <<containers, execution, file, message, signal, event, saved, targets,
                 goroutines, force>>

(* The first error becomes the pod's message, unless the API server        *)
(* refuses; the process ends with all of its goroutines.                   *)
HandleError ==
  /\ pc = "handle" /\ Gone
  /\ ctr' = [ctr EXCEPT ![Host] = exit]
  /\ \/ message' = (message \/ errors) /\ UNCHANGED budget
     \/ errors /\ Spend("api") /\ UNCHANGED message
  /\ UNCHANGED <<tmpl, evicted, status, term, execution, file, outputs, signal,
                 errors, saved, exit>>

Command ==
  \/ waitMainContainerStart \/ monitorAnnotations \/ Wait \/ killSidecars \/ killContainers
  \/ SaveArtifacts \/ SaveParameters \/ CaptureScriptResult \/ AnnotateOutputs \/ HandleError

-----------------------------------------------------------------------------
(* The goroutine of monitorAnnotations.                                    *)

(* Mutant: the file is not read again. *)
FileEvent_NoReload ==
  /\ monitor = "select" /\ event
  /\ event' = FALSE /\ monitor' = "sendFile"
  /\ UNCHANGED <<signal, watching, execCtl, budget>>

(* The file is read again; a key that is not in it leaves everything as it *)
(* was.                                                                    *)
FileEvent ==
  /\ monitor = "select" /\ event
  /\ event' = FALSE
  /\ execCtl' = (execCtl \/ file)
  /\ monitor' = "sendFile"
  /\ UNCHANGED <<signal, watching, budget>>

SignalReceived ==
  /\ monitor = "select" /\ signal = "pending"
  /\ signal' = "none" /\ monitor' = "sendSignal"
  /\ UNCHANGED <<event, watching, execCtl, budget>>

(* After the send, the annotation is read from the API server.  If that    *)
(* fails the old value stays.                                              *)
Reload ==
  /\ monitor = "reload" /\ monitor' = "select"
  /\ \/ execCtl' = execution /\ UNCHANGED budget
     \/ Spend("api") /\ UNCHANGED execCtl
  /\ UNCHANGED <<signal, event, watching>>

MonitorStops ==
  /\ monitor = "select" /\ cancelled
  /\ monitor' = "stopped" /\ watching' = FALSE
  /\ UNCHANGED <<signal, event, execCtl, budget>>

Monitor ==
  /\ Alive
  /\ \/ FileEvent \/ SignalReceived \/ Reload \/ MonitorStops
  /\ UNCHANGED <<containers, annotations, command, cancelled, deadline, force>>

-----------------------------------------------------------------------------
(* The goroutine of monitorDeadline.                                       *)

Sending == monitor \in {"sendFile", "sendSignal"}

AnnotationsUpdate ==
  /\ deadline = "poll" /\ Sending
  /\ monitor' = IF monitor = "sendSignal" THEN "reload" ELSE "select"
  /\ UNCHANGED <<term, deadline, force, budget>>

DeadlineStops ==
  /\ deadline = "poll" /\ cancelled
  /\ deadline' = "stopped"
  /\ UNCHANGED <<term, monitor, force, budget>>

(* Mutant: the deadline is taken for exceeded when there is none. *)
DeadlineExceeded_NoCheck ==
  /\ deadline = "poll" /\ ~cancelled /\ ~Sending
  /\ Terminate({"main"})
  /\ deadline' = IF Reached("main") THEN "killing" ELSE "stopped"
  /\ UNCHANGED <<monitor, force, budget>>

(* The default branch, when neither channel is ready.  A kill that fails   *)
(* is not tried again.                                                     *)
DeadlineExceeded ==
  /\ deadline = "poll" /\ ~cancelled /\ ~Sending /\ execCtl
  /\ \/ /\ Terminate({"main"}) /\ UNCHANGED budget
        /\ deadline' = IF Reached("main") THEN "killing" ELSE "stopped"
     \/ deadline' = "stopped" /\ Spend("docker") /\ UNCHANGED term
  /\ UNCHANGED <<monitor, force>>

KillMainReturns ==
  /\ deadline = "killing" /\ deadline' = "stopped"
  /\ \/ Ended(ctr["main"]) /\ UNCHANGED <<force, budget>>
     \/ ~Ended(ctr["main"]) /\ force' = force \cup {"main"} /\ UNCHANGED budget
     \/ Spend("docker") /\ UNCHANGED force
  /\ UNCHANGED <<term, monitor>>

monitorDeadline ==
  /\ Alive
  /\ \/ AnnotationsUpdate \/ DeadlineStops \/ DeadlineExceeded \/ KillMainReturns
  /\ UNCHANGED <<tmpl, ctr, evicted, status, annotations, signal, event, command,
                 cancelled, watching, execCtl>>

-----------------------------------------------------------------------------
ExecutorNext ==
  \/ loadArtifacts \/ \E c \in Container : ContainerStarts(c)
  \/ Evict \/ Cluster
  \/ updateExecutionControl \/ SignalArrives \/ FileUpdated
  \/ Command \/ ForceKill \/ Monitor \/ monitorDeadline

(* What the kubelet does without anybody's leave.  That a container ends   *)
(* by itself or that a signal arrives is not assumed.                      *)
Kubelet ==
  \/ loadArtifacts \/ \E c \in Container : ContainerStarts(c)
  \/ Cluster /\ status' # status
  \/ FileUpdated
=============================================================================
