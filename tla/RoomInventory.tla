--------------------------- MODULE RoomInventory ---------------------------
(***************************************************************************)
(* What the room inventory ledger promises: a room-night is sold to at     *)
(* most one guest at a time, and each step works for one party, selling    *)
(* free room-nights to its guests and giving up only what they hold.       *)
(***************************************************************************)
CONSTANTS
  Rooms, Nights,
  Guests,         \* those a room-night is sold to
  Parties,        \* each guest belongs to one, for good
  NoParty         \* the party of a guest who has not booked

VARIABLES
  sold,           \* the room-nights that are sold, with their guests
  party           \* the party of each guest

Sales == [room : Rooms, night : Nights, item : Guests]

SameNight(a, b) == a.room = b.room /\ a.night = b.night

Init ==
  /\ sold = {}
  /\ party = [g \in Guests |-> NoParty]

Join(p) ==
  /\ party' \in [Guests -> Parties \cup {NoParty}]
  /\ \A g \in Guests :
       party'[g] = party[g] \/ (party[g] = NoParty /\ party'[g] = p)

Trade(p) ==
  /\ \A x \in sold \ sold' : party[x.item] = p
  /\ \A x \in sold' \ sold :
       /\ x \in Sales /\ party'[x.item] = p
       /\ \A y \in sold' : SameNight(x, y) => x = y

Next == \E p \in Parties : Join(p) /\ Trade(p)

Spec == Init /\ [][Next]_<<sold, party>>
=============================================================================
