SPECIFICATION FairSpec
CONSTANTS
  console = console
  syslog = syslog
  Files = {f1, f2}
  Togglers = {t1, t2}
  NULL = NULL
  QueueCap = 1
  MaxLines = 1
  MaxFailures = 2
INVARIANT TypeOK
INVARIANT NoUseAfterFree
INVARIANT NothingSkipped
PROPERTY LinesReachSyslog
