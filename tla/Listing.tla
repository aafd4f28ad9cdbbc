------------------------------ MODULE Listing ------------------------------
(***************************************************************************)
(* GET /v1/reservations: a client walks the reservations of a property     *)
(* page by page, sending the arrival and the id of the last row as the     *)
(* cursor of the next page, while reservations are created, moved and      *)
(* change their status.  Each page is one query; nothing holds the pages   *)
(* of a walk together but the cursor.                                      *)
(***************************************************************************)
EXTENDS Integers, FiniteSets

CONSTANTS
  Reservations,   \* ids, ordered as UUIDs are
  Arrivals,       \* lower bounds of stay_period_envelope
  Statuses,       \* of reservations
  Filters,        \* what clients ask for: a status, or "any" for no filter
  Limits,         \* values that clients send; 0: the parameter is absent
  DefaultLimit,   \* 50 in the code
  MaxLimit,       \* 200 in the code
  WordSize        \* 2^32 in the code

ASSUME ListingAssumption ==
  /\ Reservations \subseteq Nat /\ Reservations # {}
  /\ Arrivals \subseteq Nat /\ Arrivals # {}
  /\ Statuses # {}
  /\ Filters \subseteq Statuses \cup {"any"}
  /\ Limits \subseteq Nat
  /\ DefaultLimit \in Nat \ {0}
  /\ MaxLimit \in Nat
  /\ WordSize \in Nat \ {0}

VARIABLES
  rows,       \* operations.reservations
  walk,       \* the client's parameters, its cursor and whether it goes on
  listed,     \* rows that the walk has listed
  twice,      \* rows that it has listed more than once
  touched     \* rows that were created or changed during the walk

vars == <<rows, walk, listed, twice, touched>>

\* The query asks for deleted_at IS NULL, and no code sets it: an archived
\* reservation has the status archived and is listed with the others.
Row == [arrival : Arrivals, status : Statuses, exists : BOOLEAN]

\* cursor_date and cursor_id; given: the client sends them.
Cursors == [given : BOOLEAN, arrival : Arrivals, id : Reservations]

TypeOK ==
  /\ rows \in [Reservations -> Row]
  /\ walk \in [at : {"idle", "going", "done"}, filter : Statuses \cup {"any"}, limit : Nat \ {0}, cursor : Cursors]
  /\ listed \subseteq Reservations
  /\ twice \subseteq listed
  /\ touched \subseteq Reservations

Init ==
  /\ rows = [r \in Reservations |-> CHOOSE row \in Row : ~row.exists]
  /\ walk = [at |-> "idle", filter |-> "any", limit |-> DefaultLimit,
             cursor |-> CHOOSE c \in Cursors : ~c.given]
  /\ listed = {} /\ twice = {} /\ touched = {}

-----------------------------------------------------------------------------
(* The rows change                                                         *)

Becomes(r, row) ==
  /\ rows' = [rows EXCEPT ![r] = row]
  /\ touched' = touched \cup {r}
  /\ UNCHANGED <<walk, listed, twice>>

\* createReservationInTx, of a row that is not there yet.
Create(r) ==
  /\ ~rows[r].exists
  /\ \E row \in Row : row.exists /\ Becomes(r, row)

\* recomputeEnvelope and the status updates of the requests and the sweeps.
Edit(r) ==
  /\ rows[r].exists
  /\ \E row \in Row : row.exists /\ row # rows[r] /\ Becomes(r, row)

-----------------------------------------------------------------------------
(* ListReservations                                                        *)

\* int32(n)
Int32(n) == ((n + (WordSize \div 2)) % WordSize) - (WordSize \div 2)

\* Mutant: the service relies on the handler's n > 0.
LimitTrusted(n) == IF n = 0 \/ Int32(n) > MaxLimit THEN DefaultLimit ELSE Int32(n)

\* The handler ignores a limit that is no positive number and narrows the others,
\* which can make them negative or small.  The service takes the default for
\* what is not positive and for what is above the maximum.
EffectiveLimit(n) == IF Int32(n) <= 0 \/ Int32(n) > MaxLimit THEN DefaultLimit ELSE Int32(n)

\* r is behind the arrival a and id i in the order of the list, latest first.
Behind(r, a, i) == rows[r].arrival < a \/ (rows[r].arrival = a /\ r < i)

\* Mutant: rows that arrive with the cursor's row are taken to be listed.
AfterCursorDate(r) == walk.cursor.given => rows[r].arrival < walk.cursor.arrival

\* The condition of the query on the cursor.
AfterCursor(r) == walk.cursor.given => Behind(r, walk.cursor.arrival, walk.cursor.id)

\* The row is one the walk asks for.
Matches(r) == rows[r].exists /\ walk.filter \in {"any", rows[r].status}

\* The rows that the WHERE clause leaves.
Candidates == {r \in Reservations : Matches(r) /\ AfterCursor(r)}

\* ORDER BY and LIMIT: page are the first of the candidates.
IsPage(page) ==
  /\ page \subseteq Candidates
  /\ Cardinality(page) = walk.limit \/ (page = Candidates /\ Cardinality(page) < walk.limit)
  /\ \A p \in page, q \in Candidates \ page : Behind(q, rows[p].arrival, p)

\* A client starts at the top.
Start(filter, n) ==
  /\ walk.at # "going"
  /\ walk' = [at |-> "going", filter |-> filter, limit |-> EffectiveLimit(n),
              cursor |-> [walk.cursor EXCEPT !.given = FALSE]]
  /\ listed' = {} /\ twice' = {} /\ touched' = {}
  /\ UNCHANGED rows

\* It asks for the next page, and goes on behind the last row until there is
\* none.
NextPage ==
  /\ walk.at = "going"
  /\ \E page \in SUBSET Candidates :
       /\ IsPage(page)
       /\ listed' = listed \cup page
       /\ twice' = twice \cup (listed \cap page)
       /\ \/ page = {} /\ walk' = [walk EXCEPT !.at = "done"]
          \/ \E last \in page :
               /\ \A p \in page \ {last} : Behind(last, rows[p].arrival, p)
               /\ walk' = [walk EXCEPT !.cursor = [given |-> TRUE, arrival |-> rows[last].arrival, id |-> last]]
  /\ UNCHANGED <<rows, touched>>

Next ==
  \/ \E r \in Reservations : Create(r) \/ Edit(r)
  \/ \E filter \in Filters, n \in Limits : Start(filter, n)
  \/ NextPage

Spec == Init /\ [][Next]_vars

-----------------------------------------------------------------------------
(* Properties                                                              *)

\* Whatever else happens to the table between two pages, a row that is not
\* touched during the walk is listed once if it matches and never otherwise:
\* it has been listed exactly if the cursor has passed it.
UntouchedListedOnce ==
  \A r \in Reservations \ touched :
    /\ r \notin twice
    /\ walk.at = "going" => (r \in listed <=> Matches(r) /\ ~AfterCursor(r))
    /\ walk.at = "done" => (r \in listed <=> Matches(r))

=============================================================================
