CONSTANTS
  p1 = p1
  p2 = p2
  p3 = p3
  Procs = {p1, p2, p3}
  Valid = {p1, p2}
  None = None
SPECIFICATION FairSpec
INVARIANT TypeOK
INVARIANT SingleMonitor
INVARIANT ServedOnce
PROPERTY BindSucceeds
PROPERTY HandoverSpec
PROPERTY HandedOver
PROPERTY MonitorEnds
CHECK_DEADLOCK FALSE
