SPECIFICATION Spec
INVARIANTS TypeOK ExclusiveSlot OneProcessor LayoutInForce NobodyInside
PROPERTIES Reclaimed CallbacksReturn
CHECK_DEADLOCK FALSE
CONSTANTS
  None = None
  t1 = t1
  t2 = t2
  t3 = t3
  mono = mono
  stereo = stereo
  Threads = {t1, t2, t3}
  Layouts = {mono, stereo}
