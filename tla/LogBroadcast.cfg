CONSTANTS
  Session = {s1, s2}
  MaxLines = 2
  Debug = TRUE
SPECIFICATION FairSpec
INVARIANTS TypeOK NoStorm
PROPERTIES NoSendAfterShutdown Quiesces
CHECK_DEADLOCK FALSE
