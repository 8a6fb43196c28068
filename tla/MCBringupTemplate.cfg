CONSTANTS
  db = db
  api = api
  migrate = migrate
  seed = seed
  tpl = tpl
  go = go
  repo = repo
  none = none
  NoEntity = none
  Service = {api}
  Provision = {migrate, seed, tpl}
  Toolchain = {go}
  Primary = {repo}
  Pin <- MCPin
  Repo <- MCRepo
  Owner <- MCOwner
  Template <- TemplateOf
  After <- TemplateAfter
  Detached = {seed}
  Latent = {tpl}
  Failfast = FALSE
SPECIFICATION FairSpec
INVARIANT DepsBeforeProcess
PROPERTY ShutdownCompletes
PROPERTY ConfigureAnswered
