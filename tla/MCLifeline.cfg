SPECIFICATION Spec
INVARIANT NoFalseEOF
INVARIANT DeathIsNamed
PROPERTY StopSettles
PROPERTY DeathEndsDaemon
