SPECIFICATION Spec
INVARIANT CleanExitIgnored
