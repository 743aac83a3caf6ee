SPECIFICATION FairSpec
CONSTANT USTAT_DEPTH = 4
INVARIANTS TypeOK InSync WakeUpAhead
PROPERTIES WakesOnActivityOnly WakesUp ResetHandled RequestServed
CHECK_DEADLOCK FALSE
