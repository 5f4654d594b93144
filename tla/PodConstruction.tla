--------------------------- MODULE PodConstruction ---------------------------
(***************************************************************************)
(* The pod of a leaf template: its volumes and who mounts them where       *)
(* (createWorkflowPod and its helpers), and where the init container puts  *)
(* an input artifact (LoadArtifacts).                                      *)
(*                                                                         *)
(* A path is the sequence of its names and slashes, so that a prefix of    *)
(* the text need not be a directory above.  A mount is a record            *)
(* [vol, path, sub] with sub the path inside of the volume.                *)
(***************************************************************************)
EXTENDS Templates, SequencesExt, FiniteSetsExt

CONSTANT Repository   \* the controller's artifact repository, "none" without one

MainFilesystem == <<"/", "mainctrfs">>
ArtifactBase   == <<"/", "kubetasker", "/", "inputs", "/", "artifacts">>
StagingDir     == <<"/", "kubetasker", "/", "staging">>
MetadataDir    == <<"/", "kubetasker", "/", "podmetadata">>

Mount(vol, path) == [vol |-> vol, path |-> path, sub |-> <<>>]

(* What every pod has, and what the wait container mounts. *)
InternalVolumes == <<"podmetadata", "docker-lib", "docker-sock">>
WaitMounts ==
  <<Mount("podmetadata", MetadataDir), Mount("docker-lib", <<"/", "var", "/", "lib", "/", "docker">>),
    Mount("docker-sock", <<"/", "var", "/", "run", "/", "docker.sock">>)>>

(* The deepest mount of the user's whose path starts the given one. *)
FindOverlappingVolume(t, path) ==
  LET found == {m \in ToSet(t.mounts) : IsPrefix(m.path, path)}
  IN  IF found = {} THEN NoValue
      ELSE CHOOSE m \in found : \A o \in found : Len(o.path) <= Len(m.path)

-----------------------------------------------------------------------------
(* A mount must name a volume of the spec or a claim that was created.     *)
UserMounts(t) ==
  t.mounts \o FlattenSeq([i \in DOMAIN t.sidecars |-> t.sidecars[i].mounts])

getVolByName(wf, vol) == vol \in ToSet(wf.volumes) \cup wf.claims

VolumesFound(wf, t) == \A m \in ToSet(UserMounts(t)) : getVolByName(wf, m.vol)

(* Each is added once, unless the pod has a volume of the name already. *)
addVolumeReferences(mounts) ==
  LET names == [i \in DOMAIN mounts |-> mounts[i].vol]
      add(volumes, vol) == IF Contains(volumes, vol) THEN volumes ELSE Append(volumes, vol)
  IN  FoldLeft(add, InternalVolumes, names)

If(condition, list) == IF condition THEN list ELSE <<>>

Volumes(t) ==
  addVolumeReferences(UserMounts(t))
  \o If(t.arts # <<>>, <<"input-artifacts">>)
  \o If("script" \in t.types, <<"kubetasker-staging">>)

HasInit(t) == t.arts # <<>> \/ "script" \in t.types

(* The init container also sees the user's mounts, below a directory of    *)
(* their own, if it has artifacts to load.                                 *)
InitMounts(t) ==
  <<Mount("podmetadata", MetadataDir)>>
  \o If(t.arts # <<>>,
        <<Mount("input-artifacts", ArtifactBase)>>
        \o [i \in DOMAIN t.mounts |-> [t.mounts[i] EXCEPT !.path = MainFilesystem \o @]])
  \o If("script" \in t.types, <<Mount("kubetasker-staging", StagingDir)>>)

(* An artifact is mounted at its path, unless that overlaps a mount.  No   *)
(* two mounts have the same path, so that their order makes no difference. *)
ArtifactMounts(t) ==
  LET mounted == SetToSeq({i \in DOMAIN t.arts :
                             FindOverlappingVolume(t, t.arts[i].path) = NoValue})
  IN  [k \in DOMAIN mounted |-> [vol |-> "input-artifacts", path |-> t.arts[mounted[k]].path,
                                 sub |-> <<"/", t.arts[mounted[k]].name>>]]

OwnMounts(t) ==
  IF "resource" \in t.types THEN <<Mount("podmetadata", MetadataDir)>> ELSE t.mounts

MainMounts(t) ==
  OwnMounts(t) \o ArtifactMounts(t)
  \o If("script" \in t.types, <<Mount("kubetasker-staging", StagingDir)>>)

(* A sidecar that mirrors the main container has all of its mounts. *)
addSidecars(t) ==
  [i \in DOMAIN t.sidecars |->
     t.sidecars[i].mounts \o If(t.sidecars[i].mirror, MainMounts(t))]

(* Without an archive location of its own and a repository, the outputs    *)
(* must say where they go.                                                 *)
ArchiveKnown(t) ==
  \/ t.archive \/ Repository # "none"
  \/ \A i \in DOMAIN t.outArts : HasLocation(t.outArts[i])

(* Why no pod can be created, or "none". *)
PodError(wf, t) ==
  IF ~VolumesFound(wf, t) THEN "volume"
  ELSE IF \E i \in DOMAIN t.arts : t.arts[i].path = NoValue THEN "path"
  ELSE IF ~ArchiveKnown(t) THEN "archive"
  ELSE IF Tags(t) # {} THEN "unresolved"
  ELSE "none"

createWorkflowPod(t) ==
  [volumes |-> Volumes(t),
   main    |-> MainMounts(t),
   wait    |-> If("resource" \notin t.types, WaitMounts),
   init    |-> If(HasInit(t), InitMounts(t)),
   sidecars |-> addSidecars(t)]

(* The API server's own rules for volumes and mounts. *)
PodAccepted(p) ==
  LET containers == {p.main, p.wait, p.init} \cup ToSet(p.sidecars)
  IN  /\ IsInjective(p.volumes)
      /\ \A mounts \in containers :
           /\ \A i \in DOMAIN mounts : mounts[i].vol \in ToSet(p.volumes)
           /\ IsInjective([i \in DOMAIN mounts |-> mounts[i].path])

-----------------------------------------------------------------------------
(* Mutant: the executor does not ask for mounts. *)
LoadPath_NoOverlap(t, art) == ArtifactBase \o <<"/", art.name>>

(* Where the init container puts an artifact. *)
LoadPath(t, art) ==
  IF FindOverlappingVolume(t, art.path) = NoValue THEN ArtifactBase \o <<"/", art.name>>
  ELSE MainFilesystem \o art.path

Under(path, dir) == path = dir \/ IsPrefix(dir \o <<"/">>, path)

(* The mounts a path lies in. *)
Covering(mounts, path) == {m \in ToSet(mounts) : Under(path, m.path)}

(* The place a container finds at a path: in the innermost of its volumes  *)
(* there, or nil for its own file system.                                  *)
Place(mounts, path) ==
  LET covering == Covering(mounts, path)
  IN  IF covering = {} THEN NoValue
      ELSE LET m == CHOOSE m \in covering : \A o \in covering : Len(o.path) <= Len(m.path)
           IN  [vol |-> m.vol, at |-> m.sub \o SubSeq(path, Len(m.path) + 1, Len(path))]
=============================================================================
