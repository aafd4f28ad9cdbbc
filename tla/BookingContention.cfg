\* Two reservations of one item each for the same room and night.
SPECIFICATION Spec
CONSTANTS
  r1 = r1
  r2 = r2
  i1 = i1
  i2 = i2
  room1 = room1
  room2 = room2
  Reservations = {r1, r2}
  Items = {i1, i2}
  Rooms = {room1}
  RoomTypes <- OneType
  RoomType <- AllDouble
  NoReservation = NoReservation
  NoRoom = NoRoom
  Permissions = {}
  LastDay = 1
  MaxVersion = 3
  MaxItemVersion = 2
  MaxViews = 0
CHECK_DEADLOCK FALSE
SYMMETRY Symmetry
PROPERTY ImplementsInventory
