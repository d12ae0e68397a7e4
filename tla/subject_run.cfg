CONSTANTS
  MaxOutput = 2
  Subjects = {"bc", "ccrypt", "exif", "moss"}
  Faults = {"watchdog", "exec", "tool"}
SPECIFICATION EndlessSpec
INVARIANTS TypeOK OutputLogged VerdictTrue CrashLabelled QuietWhenStamped
PROPERTIES MossRunEnds
CHECK_DEADLOCK FALSE
