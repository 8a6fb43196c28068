CONSTANTS
  app = app
  db = db
  ca = ca
  ca2 = ca2
  tls = tls
  hot = hot
  zone = zone
  sites = sites
  svc = svc
  t1 = t1
  t2 = t2
  repo = repo
  None = None
  Top = Top
  Dirs = {app, db, ca, ca2}
  Label <- MCLabel
  Repo <- MCRepo
  Scalars = {zone}
  MapInputs = {sites}
  Required = {zone}
  Entrypoints <- MCEntrypoints
  Manifests <- MCManifests
  StackLimit = 9
  Successes = 2
  Failures = 2
SPECIFICATION EndsSpec
INVARIANT FeaturesExact
INVARIANT StackAgrees
INVARIANT ExhaustedOnlyByCycles
INVARIANT LeaderSpeaks
PROPERTY ToolchainSetOnce
PROPERTY TreeLoadEnds
PROPERTY DeadAlphaReaped
PROPERTY StopEnds
