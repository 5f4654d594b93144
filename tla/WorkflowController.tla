------------------------- MODULE WorkflowController -------------------------
(***************************************************************************)
(* The workflow controller around one workflow (controller.go): the work   *)
(* queues, the two informers, the labeler, a restart; and the cluster that *)
(* runs, loses and deletes the workflow's pods.                            *)
(***************************************************************************)
EXTENDS WorkflowOperator

-----------------------------------------------------------------------------
(* The other goroutines of the controller.                                 *)

(* The informer hands on the next version of the workflow and enqueues it. *)
WatchEvent ==
  /\ watch # <<>>
  /\ cache' = Head(watch)
  /\ watch' = Tail(watch)
  /\ queued' = TRUE
  /\ UNCHANGED <<store, cluster, podQueue, completedCh, operation, budget>>

(* The informer's periodic resync enqueues every workflow in its index.    *)
Resync ==
  /\ ~cache.done
  /\ queued' = TRUE
  /\ UNCHANGED <<store, cluster, watch, cache, podQueue, completedCh, operation, budget>>

(* The pods the pod informer selects: not pending, labelled completed=false. *)
Selected(p) == pods[p].phase \notin {"Absent", "Pending"} /\ ~pods[p].labelled

processNextPodItem ==
  /\ \E p \in podQueue :
       /\ podQueue' = podQueue \ {p}
       /\ queued' = (queued \/ Selected(p))
  /\ UNCHANGED <<store, cluster, watch, cache, completedCh, operation, budget>>

(* What becomes of the label of pod p; an error is only logged. *)
AddPodLabel(p) ==
  \/ /\ pods[p].phase # "Absent"
     /\ pods' = [pods EXCEPT ![p].labelled = TRUE]
     /\ UNCHANGED budget
  \/ /\ pods[p].phase = "Absent" /\ UNCHANGED <<pods, budget>>
  \/ /\ pods[p].phase # "Absent" /\ Spend("api") /\ UNCHANGED pods

podLabeler ==
  /\ completedCh # <<>>
  /\ AddPodLabel(Head(completedCh))
  /\ completedCh' = Tail(completedCh)
  /\ UNCHANGED <<store, pvcs, watch, cache, queued, podQueue, operation>>

(* The controller dies and starts again with fresh caches; what was in its *)
(* queues and in its channel is gone.                                      *)
Crash ==
  /\ Spend("crash")
  /\ Leave
  /\ cache' = store
  /\ watch' = <<>>
  /\ queued' = ~store.done
  /\ podQueue' = {p \in Pod : Selected(p)}
  /\ completedCh' = <<>>
  /\ UNCHANGED <<store, cluster>>

-----------------------------------------------------------------------------
(* Pods, as the cluster runs them.  A daemon runs until it is told to stop *)
(* but may fail before.                                                    *)

PodMoves(p, from, to) ==
  /\ pods[p].phase \in from
  /\ pods' = [pods EXCEPT ![p].phase = to]
  /\ podQueue' = IF ~pods[p].labelled THEN podQueue \cup {p} ELSE podQueue
  /\ UNCHANGED <<store, pvcs, watch, cache, queued, completedCh, operation>>

PodRuns(p) ==
  /\ PodMoves(p, {"Pending"}, "Running")
  /\ UNCHANGED budget

DaemonReady(p) ==
  /\ p \in Daemon
  /\ PodMoves(p, {"Running"}, "Ready")
  /\ UNCHANGED budget

PodTerminates(p) ==
  /\ \E outcome \in PodTerminated :
       PodMoves(p, IF outcome = "Succeeded" THEN {"Running", "Ready"}
                   ELSE {"Pending", "Running", "Ready"}, outcome)
  /\ UNCHANGED budget

PodUnreachable(p) ==
  /\ PodMoves(p, {"Running"}, "Unknown")
  /\ Spend("unreachable")

PodReachable(p) ==
  /\ PodMoves(p, {"Unknown"}, "Running")
  /\ UNCHANGED budget

(* The key of a deleted pod still goes through the pod queue, but the pod  *)
(* is no longer in the index when it is taken from there.                  *)
PodDeleted(p) ==
  /\ pods[p].phase # "Absent"
  /\ pods' = [pods EXCEPT ![p] = NoPod]
  /\ podQueue' = IF Selected(p) THEN podQueue \cup {p} ELSE podQueue
  /\ Spend("delete")
  /\ UNCHANGED <<store, pvcs, watch, cache, queued, completedCh, operation>>

Environment ==
  \E p \in Pod : PodRuns(p) \/ DaemonReady(p) \/ PodTerminates(p)
                 \/ PodUnreachable(p) \/ PodReachable(p) \/ PodDeleted(p)

Next == Worker \/ WatchEvent \/ Resync \/ processNextPodItem \/ podLabeler \/ Crash
        \/ Environment

Spec == Init /\ [][Next]_vars

(* The worker, the informers and the labeler are goroutines that the Go    *)
(* runtime schedules forever, the resync is periodic, and the cluster runs *)
(* every pod to its end, a daemon to readiness and, once killed, its end.  *)
Fairness ==
  /\ WF_vars(Worker)
  /\ WF_vars(WatchEvent)
  /\ WF_vars(Resync)
  /\ WF_vars(processNextPodItem)
  /\ WF_vars(podLabeler)
  /\ \A p \in Pod : /\ WF_vars(PodRuns(p) \/ PodReachable(p))
                    /\ WF_vars(DaemonReady(p))
                    /\ WF_vars((p \notin Daemon \/ pods[p].killed) /\ PodTerminates(p))

FairSpec == Spec /\ Fairness
=============================================================================
