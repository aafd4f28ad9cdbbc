--------------------------- MODULE ListingProofs ---------------------------
(***************************************************************************)
(* Proofs about Listing.                                                   *)
(***************************************************************************)
EXTENDS Listing, FiniteSetTheorems, TLAPS

\* The order of the list is total: of two rows at most one is behind the
\* other, and a row that is not behind a cursor is behind nothing that is.
LEMMA OrderFacts ==
  ASSUME TypeOK,
         NEW r \in Reservations, NEW p \in Reservations,
         NEW a \in Arrivals, NEW i \in Reservations
  PROVE  /\ ~Behind(r, rows[r].arrival, r)
         /\ Behind(p, rows[r].arrival, r) => ~Behind(r, rows[p].arrival, p)
         /\ Behind(p, a, i) /\ ~Behind(r, a, i) => ~Behind(r, rows[p].arrival, p)
<1>1. rows[r].arrival \in Int /\ rows[p].arrival \in Int /\ a \in Int
  <2>1. rows[r] \in Row /\ rows[p] \in Row
    BY DEF TypeOK
  <2>2. rows[r].arrival \in Arrivals /\ rows[p].arrival \in Arrivals
    BY <2>1 DEF Row
  <2>3. Arrivals \subseteq Int
    BY ListingAssumption
  <2> QED
    BY <2>2, <2>3
<1>2. r \in Int /\ p \in Int /\ i \in Int
  BY ListingAssumption
<1> QED
  BY <1>1, <1>2 DEF Behind

\* An empty page leaves no candidate: the limit is never 0.
LEMMA EmptyPage ==
  ASSUME TypeOK, IsPage({})
  PROVE  Candidates = {}
BY FS_EmptySet DEF IsPage, TypeOK

\* The first table and the first walk are well formed.
LEMMA InitTyped == Init => TypeOK
<1> SUFFICES ASSUME Init PROVE TypeOK
  OBVIOUS
<1>1. PICK a \in Arrivals, s \in Statuses, i \in Reservations : TRUE
  BY ListingAssumption
<1>2. (CHOOSE row \in Row : ~row.exists) \in Row
  <2>1. [arrival |-> a, status |-> s, exists |-> FALSE] \in Row
    BY <1>1 DEF Row
  <2> QED
    BY <2>1
<1>3. (CHOOSE c \in Cursors : ~c.given) \in Cursors
  <2>1. [given |-> FALSE, arrival |-> a, id |-> i] \in Cursors
    BY <1>1 DEF Cursors
  <2> QED
    BY <2>1
<1> QED
  BY <1>2, <1>3, ListingAssumption DEF Init, TypeOK

\* Every page, filter and change of the table keeps them so.
LEMMA NextTyped == TypeOK /\ [Next]_vars => TypeOK'
<1> SUFFICES ASSUME TypeOK, [Next]_vars PROVE TypeOK'
  OBVIOUS
<1>1. CASE \E r \in Reservations : Create(r) \/ Edit(r)
  <2>1. PICK r \in Reservations, row \in Row : Becomes(r, row)
    BY <1>1 DEF Create, Edit
  <2> QED
    BY <2>1 DEF Becomes, TypeOK
<1>2. CASE \E filter \in Filters, n \in Limits : Start(filter, n)
  <2>1. PICK filter \in Filters, n \in Limits : Start(filter, n)
    BY <1>2
  <2>2. EffectiveLimit(n) \in Nat \ {0}
    <3>1. Int32(n) \in Int
      BY ListingAssumption DEF Int32
    <3>2. QED
      BY <3>1, ListingAssumption DEF EffectiveLimit
  <2>3. [walk.cursor EXCEPT !.given = FALSE] \in Cursors
    BY DEF TypeOK, Cursors
  <2> QED
    BY <2>1, <2>2, <2>3, ListingAssumption DEF Start, TypeOK
<1>3. CASE NextPage
  <2>1. PICK page \in SUBSET Candidates :
          /\ listed' = listed \cup page
          /\ twice' = twice \cup (listed \cap page)
          /\ \/ walk' = [walk EXCEPT !.at = "done"]
             \/ \E last \in page :
                  walk' = [walk EXCEPT !.cursor = [given |-> TRUE, arrival |-> rows[last].arrival, id |-> last]]
    BY <1>3 DEF NextPage
  <2>2. page \subseteq Reservations
    BY <2>1 DEF Candidates
  <2>3. \A last \in page : [given |-> TRUE, arrival |-> rows[last].arrival, id |-> last] \in Cursors
    BY <2>2 DEF TypeOK, Row, Cursors
  <2> QED
    BY <1>3, <2>1, <2>2, <2>3 DEF NextPage, TypeOK
<1>4. CASE UNCHANGED vars
  BY <1>4 DEF vars, TypeOK
<1> QED
  BY <1>1, <1>2, <1>3, <1>4 DEF Next

\* A change of another row leaves what the walk knows of this one alone.
LEMMA ChangeKeepsListed ==
  ASSUME TypeOK, UntouchedListedOnce,
         NEW r \in Reservations, NEW row \in Row, Becomes(r, row)
  PROVE  UntouchedListedOnce'
<1> SUFFICES ASSUME NEW q \in Reservations, q \notin touched'
             PROVE  /\ q \notin twice'
                    /\ walk'.at = "going" => (q \in listed' <=> Matches(q)' /\ ~AfterCursor(q)')
                    /\ walk'.at = "done" => (q \in listed' <=> Matches(q)')
  BY DEF UntouchedListedOnce
<1>1. q # r /\ q \notin touched
  BY DEF Becomes
<1>2. rows'[q] = rows[q]
  BY <1>1 DEF Becomes, TypeOK
<1>3. (Matches(q)' <=> Matches(q)) /\ (AfterCursor(q)' <=> AfterCursor(q))
  BY <1>2 DEF Becomes, Matches, AfterCursor, Behind
<1> QED
  BY <1>1, <1>3 DEF Becomes, UntouchedListedOnce

\* A page moves the cursor over the rows it lists and over no others.
LEMMA PageKeepsListed ==
  ASSUME TypeOK, UntouchedListedOnce, NextPage
  PROVE  UntouchedListedOnce'
<1> SUFFICES ASSUME NEW q \in Reservations, q \notin touched'
             PROVE  /\ q \notin twice'
                    /\ walk'.at = "going" => (q \in listed' <=> Matches(q)' /\ ~AfterCursor(q)')
                    /\ walk'.at = "done" => (q \in listed' <=> Matches(q)')
  BY DEF UntouchedListedOnce
<1>1. PICK page \in SUBSET Candidates :
        /\ IsPage(page)
        /\ listed' = listed \cup page
        /\ twice' = twice \cup (listed \cap page)
        /\ \/ page = {} /\ walk' = [walk EXCEPT !.at = "done"]
           \/ \E last \in page :
                /\ \A p \in page \ {last} : Behind(last, rows[p].arrival, p)
                /\ walk' = [walk EXCEPT !.cursor = [given |-> TRUE, arrival |-> rows[last].arrival, id |-> last]]
  BY DEF NextPage
<1>2. /\ q \notin touched /\ q \notin twice
      /\ q \in listed <=> Matches(q) /\ ~AfterCursor(q)
      /\ rows' = rows /\ walk.at = "going"
  BY DEF NextPage, UntouchedListedOnce
<1>3. q \in page => Matches(q) /\ AfterCursor(q)
  BY <1>1 DEF Candidates
<1>4. q \notin twice'
  BY <1>1, <1>2, <1>3
<1>5. walk'.filter = walk.filter
  BY <1>1 DEF TypeOK
<1>6. Matches(q)' <=> Matches(q)
  BY <1>2, <1>5 DEF Matches
<1>7. CASE page = {} /\ walk' = [walk EXCEPT !.at = "done"]
  <2>1. Candidates = {}
    BY <1>1, <1>7, EmptyPage
  <2>2. Matches(q) => ~AfterCursor(q)
    BY <2>1 DEF Candidates
  <2>3. walk'.at = "done" /\ listed' = listed
    BY <1>1, <1>7 DEF TypeOK
  <2> QED
    BY <1>2, <1>4, <1>6, <2>2, <2>3
<1>8. CASE \E last \in page :
             /\ \A p \in page \ {last} : Behind(last, rows[p].arrival, p)
             /\ walk' = [walk EXCEPT !.cursor = [given |-> TRUE, arrival |-> rows[last].arrival, id |-> last]]
  <2>1. PICK last \in page :
          /\ \A p \in page \ {last} : Behind(last, rows[p].arrival, p)
          /\ walk' = [walk EXCEPT !.cursor = [given |-> TRUE, arrival |-> rows[last].arrival, id |-> last]]
    BY <1>8
  <2>2. last \in Reservations /\ AfterCursor(last)
    BY <2>1, <1>1 DEF Candidates
  <2>3. walk'.cursor = [given |-> TRUE, arrival |-> rows[last].arrival, id |-> last] /\ walk'.at = "going"
    BY <2>1, <1>2 DEF TypeOK
  <2>4. AfterCursor(q)' <=> Behind(q, rows[last].arrival, last)
    BY <1>2, <2>3 DEF AfterCursor, Behind
  <2>5. q \in page => ~Behind(q, rows[last].arrival, last)
    BY <2>1, <2>2, OrderFacts DEF TypeOK, Cursors
  <2>6. q \in Candidates \ page => Behind(q, rows[last].arrival, last)
    BY <1>1, <2>1 DEF IsPage
  <2>7. ~AfterCursor(q) => ~Behind(q, rows[last].arrival, last)
    <3>1. walk.cursor.arrival \in Arrivals /\ walk.cursor.id \in Reservations
      BY DEF TypeOK, Cursors
    <3> QED
      BY <2>2, <3>1, OrderFacts DEF AfterCursor
  <2>8. q \in listed' <=> Matches(q) /\ ~Behind(q, rows[last].arrival, last)
    BY <1>1, <1>2, <1>3, <2>5, <2>6, <2>7 DEF Candidates
  <2> QED
    BY <1>4, <1>6, <2>3, <2>4, <2>8
<1> QED
  BY <1>1, <1>7, <1>8

\* Every step keeps the untouched matching rows listed once.
LEMMA NextKeepsListed == TypeOK /\ UntouchedListedOnce /\ [Next]_vars => UntouchedListedOnce'
<1> SUFFICES ASSUME TypeOK, UntouchedListedOnce, [Next]_vars PROVE UntouchedListedOnce'
  OBVIOUS
<1>1. CASE \E r \in Reservations : Create(r) \/ Edit(r)
  <2>1. PICK r \in Reservations, row \in Row : Becomes(r, row)
    BY <1>1 DEF Create, Edit
  <2> QED
    BY <2>1, ChangeKeepsListed
<1>2. CASE \E filter \in Filters, n \in Limits : Start(filter, n)
  <2>1. PICK filter \in Filters, n \in Limits : Start(filter, n)
    BY <1>2
  <2>2. walk'.at = "going" /\ ~walk'.cursor.given
    BY <2>1 DEF Start, TypeOK, Cursors
  <2> QED
    BY <2>1, <2>2 DEF Start, UntouchedListedOnce, AfterCursor
<1>3. CASE NextPage
  BY <1>3, PageKeepsListed
<1>4. CASE UNCHANGED vars
  BY <1>4 DEF vars, UntouchedListedOnce, Matches, AfterCursor, Behind
<1> QED
  BY <1>1, <1>2, <1>3, <1>4 DEF Next

\* A walk over the list never misses and never repeats a reservation that is
\* left alone during the walk, however many reservations, arrivals and pages
\* there are and whatever happens to the others between two pages.
THEOREM ListingIsComplete == Spec => [](TypeOK /\ UntouchedListedOnce)
<1>1. Init => TypeOK /\ UntouchedListedOnce
  <2>1. Init => UntouchedListedOnce
    BY DEF Init, UntouchedListedOnce
  <2> QED
    BY <2>1, InitTyped
<1>2. TypeOK /\ UntouchedListedOnce /\ [Next]_vars => (TypeOK /\ UntouchedListedOnce)'
  BY NextTyped, NextKeepsListed
<1> QED
  BY <1>1, <1>2, PTL DEF Spec

=============================================================================
