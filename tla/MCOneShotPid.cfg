\* Whom the watchdog's signal can reach.
SPECIFICATION Spec
INVARIANT KillsOnlyItsChild
CHECK_DEADLOCK FALSE
