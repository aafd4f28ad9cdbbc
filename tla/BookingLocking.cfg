\* One reservation with one item, a client's copy and the sweeps: optimistic locking
\* and the expiry of holds.
SPECIFICATION FairSpec
CONSTANTS
  r1 = r1
  r2 = r2
  i1 = i1
  i2 = i2
  room1 = room1
  room2 = room2
  Reservations = {r1}
  Items = {i1}
  Rooms = {room1, room2}
  RoomTypes <- TwoTypes
  RoomType <- AllDouble
  NoReservation = NoReservation
  NoRoom = NoRoom
  Permissions = {"post_checkin_mutate"}
  LastDay = 2
  MaxVersion = 3
  MaxItemVersion = 2
  MaxViews = 1
CHECK_DEADLOCK FALSE
INVARIANT TypeOK
INVARIANT VersionsIdentifyRows
PROPERTY SweepCancelsOnlyExpiredHolds
PROPERTY OverstayOnlyChangesStatus
PROPERTY StatusChangesAreAnnounced
PROPERTY ExpiredHoldIsReleased
