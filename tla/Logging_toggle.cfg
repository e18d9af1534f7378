SPECIFICATION Spec
CONSTANTS
  console = console
  syslog = syslog
  Files = {f1, f2}
  Togglers = {t1, t2}
  NULL = NULL
  QueueCap = 1
  MaxLines = 1
  MaxFailures = 1
INVARIANT OneDebugFile
CHECK_DEADLOCK FALSE
