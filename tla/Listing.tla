-------------------------------- MODULE Listing --------------------------------
(***************************************************************************)
(* GET /notifications: a client walks an application's notifications, the  *)
(* newest first and a page at a time, while others are being created.      *)
(*                                                                         *)
(* A row is stamped with the instant its transaction began, which every    *)
(* row of a batch shares, to the microsecond; the cursor carries the last  *)
(* row's stamp through a JavaScript date, to the millisecond.  A row is     *)
(* seen once its transaction has committed.  The filters are left out, and *)
(* so is the cursor's signature.                                           *)
(*                                                                         *)
(* A definition that stands just before the one it resembles, and that     *)
(* nothing uses, is a mistake that one could have.                         *)
(***************************************************************************)
EXTENDS Integers, FiniteSets, Sequences

CONSTANTS
    MaxRows,        \* bound: notifications ever listed
    LastMicro,      \* bound: the last instant a row is stamped with
    Millisecond,    \* how many microseconds one has, in the model
    Limit           \* rows on a page

Micro == 0 .. LastMicro

ASSUME ListingAssumption ==
    /\ MaxRows \in Nat /\ LastMicro \in Nat
    /\ Millisecond \in Nat \ {0} /\ Limit \in Nat \ {0}

(* An identifier is ordered by the clock of the process that made it, which *)
(* is not the one that stamps the row: any order.                          *)
ListedRow == [id : 1 .. MaxRows, at : Micro]

VARIABLES
    rows,           \* the committed notifications
    present,        \* those the walk found committed when it began, None before
    cursor,         \* where the walk goes on: Top, a position, or Bottom
    pages           \* what it was given, a set of rows for each page in turn

listingVars == <<rows, present, cursor, pages>>

Top    == [id |-> 0, at |-> 0]
Bottom == [id |-> 0, at |-> -1]
NotWalking == {Bottom}

ListingInit ==
    /\ rows = {}
    /\ present = NotWalking
    /\ cursor = Top
    /\ pages = <<>>

InsertRows(ids, at) ==
    /\ ids # {} /\ \A r \in rows : r.id \notin ids
    /\ rows' = rows \cup [id : ids, at : {at}]
    /\ UNCHANGED <<present, cursor, pages>>

BeginWalk ==
    /\ present = NotWalking
    /\ present' = rows
    /\ UNCHANGED <<rows, cursor, pages>>

(* desc(createdAt), desc(id)                                               *)
Before(r, s) == r.at > s.at \/ (r.at = s.at /\ r.id > s.id)

FromPosition(c) == {r \in rows : c = Top \/ r.at < c.at \/ (r.at = c.at /\ r.id <= c.id)}

AfterCursor(c) == {r \in rows : c = Top \/ r.at < c.at \/ (r.at = c.at /\ r.id < c.id)}

(* The first of them; whether there is more.                               *)
Page(found) == {r \in found : Cardinality({s \in found : Before(s, r)}) < Limit}

HasManyMore(found)  == Cardinality(found) > Limit + 1
HasMorePages(found) == Cardinality(found) > Limit

Lowest(page) == CHOOSE r \in page : \A s \in page \ {r} : Before(s, r)

(* createdAt.toISOString(), and back.                                      *)
EncodeCursor(r) == [id |-> r.id, at |-> (r.at \div Millisecond) * Millisecond]

NextPage ==
    /\ present # NotWalking /\ cursor # Bottom
    /\ LET found == AfterCursor(cursor)
       IN  /\ pages' = Append(pages, Page(found))
           /\ cursor' = IF HasMorePages(found) THEN EncodeCursor(Lowest(Page(found))) ELSE Bottom
    /\ UNCHANGED <<rows, present>>

ListingNext ==
    \/ \E ids \in SUBSET (1 .. MaxRows), at \in Micro : InsertRows(ids, at)
    \/ BeginWalk
    \/ NextPage

ListingSpec == ListingInit /\ [][ListingNext]_listingVars

-----------------------------------------------------------------------------
ListingTypeOK ==
    /\ rows \subseteq ListedRow
    /\ present = NotWalking \/ present \subseteq rows
    /\ cursor \in {Top, Bottom} \cup ListedRow
    /\ \A i \in DOMAIN pages : pages[i] \subseteq rows

(* "Offset pages drift on a table that is written continuously, duplicating *)
(* and skipping rows": whatever is committed between two pages, and with   *)
(* whatever stamp, no page repeats a row of an earlier one or goes back     *)
(* above it.                                                               *)
NeverTwice ==
    \A i, j \in DOMAIN pages : i < j =>
        \A r \in pages[i], s \in pages[j] : Before(r, s)

(* A walk to the end was given every row that was there when it began, but *)
(* perhaps those of the very millisecond in which a page broke off: the    *)
(* cursor is less precise than what it is compared with.                   *)
SameMillisecond(r, s) == r.at \div Millisecond = s.at \div Millisecond

WalkReachesAll ==
    present # NotWalking /\ cursor = Bottom =>
        \A r \in present :
            \E i \in DOMAIN pages :
                \/ r \in pages[i]
                \/ i < Len(pages) /\ SameMillisecond(r, Lowest(pages[i]))
=============================================================================
