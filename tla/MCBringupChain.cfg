CONSTANTS
  db = db
  api = api
  migrate = migrate
  seed = seed
  tpl = tpl
  go = go
  repo = repo
  none = none
  NoEntity = none
  Service = {db, api}
  Provision = {migrate}
  Toolchain = {}
  Primary = {repo}
  Pin <- NoPin
  Repo <- MCRepo
  Owner <- MCOwner
  Template <- OwnTemplate
  After <- ChainAfter
  Detached = {}
  Latent = {}
  Failfast = TRUE
SPECIFICATION FairSpec
INVARIANT TypeOK
INVARIANT SingleOutcome
INVARIANT CommitSound
INVARIANT NoServiceSurvivesExit
INVARIANT DepsBeforeProcess
PROPERTY NoSpawnPastGate
PROPERTY KeepsPromise
PROPERTY FailfastBringsDown
