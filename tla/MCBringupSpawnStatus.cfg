CONSTANTS
  db = db
  api = api
  migrate = migrate
  seed = seed
  tpl = tpl
  go = go
  repo = repo
  none = none
  NoEntity = none
  Service = {api}
  Provision = {seed}
  Toolchain = {}
  Primary = {repo}
  Pin <- NoPin
  Repo <- MCRepo
  Owner <- MCOwner
  Template <- OwnTemplate
  After <- SoloAfter
  Detached = {seed}
  Latent = {}
  Failfast = FALSE
SPECIFICATION Spec
INVARIANT UnreportedMeansPending
