\* A creation and a cancellation over two nights of one room type.
SPECIFICATION Spec
CONSTANTS
  t1 = t1
  k1 = k1
  k2 = k2
  r1 = r1
  Changes = {k1, k2}
  Handlers = {"cache"}
  Payloads = {"action", "row"}
  RoomTypes = {t1}
  Days = {1, 2}
  Items <- TwoStays
  Creates = {k1}
  Readers = {r1}
CHECK_DEADLOCK FALSE
INVARIANT TypeOK
INVARIANT StaleHasCause
