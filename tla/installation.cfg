SPECIFICATION FairSpec
CONSTANTS
  Namespace = {"ns"}
  NoNamespace = "none"
  Installer = {"install", "upgrade"}
  Flags <- TwoReleases
  RBAC = TRUE
  Edit <- Edits
  MaxVersions = 3
INVARIANTS
  TypeOK
  DeployedLast
  ImagesFromConfigMap
  PodsWatched
  PanicsOnRemoval
PROPERTIES
  KnownFieldsSurvive
  ConfigTaken
CHECK_DEADLOCK FALSE
