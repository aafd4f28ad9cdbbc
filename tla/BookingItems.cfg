\* One reservation with two items over two nights: the ledger and the life cycle.
SPECIFICATION Spec
CONSTANTS
  r1 = r1
  r2 = r2
  i1 = i1
  i2 = i2
  room1 = room1
  room2 = room2
  Reservations = {r1}
  Items = {i1, i2}
  Rooms = {room1, room2}
  RoomTypes <- OneType
  RoomType <- AllDouble
  NoReservation = NoReservation
  NoRoom = NoRoom
  Permissions = {"retroactive_create"}
  LastDay = 2
  MaxVersion = 3
  MaxItemVersion = 2
  MaxViews = 0
CHECK_DEADLOCK FALSE
SYMMETRY Symmetry
INVARIANT LedgerWithinStay
INVARIANT ClosedReservationsAreClosed
PROPERTY LedgerFollowsRoom
PROPERTY GuestInHouseKeepsItem
PROPERTY EnvelopeLagsOnlyBehindDates
PROPERTY EmailOnlyOnConfirmation
