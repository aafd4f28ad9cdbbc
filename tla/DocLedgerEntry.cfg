\* Changing dates and the ledger rows of an item.
SPECIFICATION Spec
CONSTANTS
  r1 = r1
  r2 = r2
  i1 = i1
  i2 = i2
  room1 = room1
  room2 = room2
  Reservations = {r1}
  Items = {i1}
  Rooms = {room1, room2}
  RoomTypes <- OneType
  RoomType <- AllDouble
  NoReservation = NoReservation
  NoRoom = NoRoom
  Permissions = {}
  LastDay = 2
  MaxVersion = 3
  MaxItemVersion = 3
  MaxViews = 0
CHECK_DEADLOCK FALSE
SYMMETRY Symmetry
INVARIANT OpenItemIsInLedger
