CONSTANT
  Faults <- ExecMayFail
SPECIFICATION FairSpec
INVARIANTS TypeOK AlarmHandled PrematureIsEarly QuietDirectory
PROPERTIES RunEnds StartxStops
CHECK_DEADLOCK FALSE
