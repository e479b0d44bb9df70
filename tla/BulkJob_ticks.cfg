CONSTANTS
  t1 = t1
  t2 = t2
  Targets = {t1, t2}
  Kinds = {"documents_batch", "status_flip", "sms_batch"}
  MaxLosses = 1
SPECIFICATION Spec
INVARIANT FinishedIsDone
CHECK_DEADLOCK FALSE
