\* Confirming a reservation that was cancelled.
SPECIFICATION Spec
CONSTANTS
  r1 = r1
  r2 = r2
  i1 = i1
  i2 = i2
  room1 = room1
  room2 = room2
  Reservations = {r1}
  Items = {i1}
  Rooms = {room1, room2}
  RoomTypes <- OneType
  RoomType <- AllDouble
  NoReservation = NoReservation
  NoRoom = NoRoom
  Permissions = {}
  LastDay = 1
  MaxVersion = 3
  MaxItemVersion = 2
  MaxViews = 0
CHECK_DEADLOCK FALSE
SYMMETRY Symmetry
PROPERTY OnlyHoldsAreConfirmed
