\* Three reservations on two arrival days, pages of one and two rows.
SPECIFICATION Spec
CONSTANTS
  Reservations = {1, 2, 3}
  Arrivals = {1, 2}
  Statuses = {"confirmed", "cancelled"}
  Filters = {"any", "confirmed"}
  Limits = {0, 1, 3, 6, 9}
  DefaultLimit = 2
  MaxLimit = 2
  WordSize = 8
CHECK_DEADLOCK FALSE
INVARIANT TypeOK
INVARIANT UntouchedListedOnce
