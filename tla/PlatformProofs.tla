------------------------------ MODULE PlatformProofs ------------------------------
(***************************************************************************)
(* Every part of the platform side by side: the whole does only what its    *)
(* parts do, and so keeps what each of them was proved to keep.  The parts  *)
(* that have no module of theorems of their own have theirs here.          *)
(***************************************************************************)
EXTENDS Platform, LifecycleProofs, AccessProofs, DashboardProofs, SendingProofs,
        FiniteSetTheorems, FunctionTheorems, SequenceTheorems, TLAPS

-----------------------------------------------------------------------------
(***************************************************************************)
(* Listing.  What a walk through the pages promises, for every number of    *)
(* rows, every precision of their stamps and every length of a page.       *)
(***************************************************************************)

(* Where a row stands: after the cursor, or at it and above.               *)
Follows(c, r) == c = Top \/ r.at < c.at \/ (r.at = c.at /\ r.id < c.id)
AtOrAbove(c, r) == c # Top /\ (r.at > c.at \/ (r.at = c.at /\ r.id >= c.id))

PagesLieAbove == \A i \in DOMAIN pages : \A r \in pages[i] : AtOrAbove(cursor, r)

(* A row that was there is still to come, or was given, or is of the        *)
(* millisecond in which a page broke off.                                  *)
WalkSoFar ==
    present # NotWalking =>
        \A r \in present :
            \/ Follows(cursor, r)
            \/ \E i \in DOMAIN pages :
                  \/ r \in pages[i]
                  \/ /\ i < Len(pages) \/ cursor # Bottom
                     /\ SameMillisecond(r, Lowest(pages[i]))

ListingInv ==
    /\ ListingTypeOK /\ pages \in Seq(SUBSET ListedRow)
    /\ PagesLieAbove /\ NeverTwice /\ WalkSoFar
    /\ present = NotWalking => cursor = Top

(***************************************************************************)
(* Rows, and the pages that are made of them.                              *)
(***************************************************************************)

LEMMA RowsAreFinite ==
    ASSUME NEW S \in SUBSET ListedRow
    PROVE  IsFiniteSet(S) /\ Cardinality(S) \in Nat
<1> DEFINE P == (1 .. MaxRows) \X Micro
           f == [p \in P |-> [id |-> p[1], at |-> p[2]]]
<1>1. IsFiniteSet(1 .. MaxRows) /\ IsFiniteSet(Micro)
  BY ListingAssumption, FS_Interval DEF Micro
<1>2. IsFiniteSet(P)
  BY <1>1, FS_Product
<1>3. f \in [P -> ListedRow]
  BY DEF ListedRow
<1>4. ASSUME NEW r \in ListedRow PROVE \E p \in P : f[p] = r
  <2>1. <<r.id, r.at>> \in P /\ r = [id |-> r.id, at |-> r.at]
    BY DEF ListedRow
  <2>2. f[<<r.id, r.at>>] = r
    BY <2>1
  <2>3. QED
    BY <2>1, <2>2
<1>5. f \in Surjection(P, ListedRow)
  BY <1>3, <1>4 DEF Surjection
<1>6. IsFiniteSet(ListedRow)
  BY <1>2, <1>5, FS_Surjection
<1>7. QED
  BY <1>6, FS_Subset, FS_CardinalityType

LEMMA RowFields ==
    ASSUME NEW r \in ListedRow
    PROVE  /\ r.id \in Nat \ {0} /\ r.id <= MaxRows /\ r.at \in Nat /\ r.at <= LastMicro
           /\ r = [id |-> r.id, at |-> r.at] /\ r # Top /\ r # Bottom
BY ListingAssumption DEF ListedRow, Micro, Top, Bottom

LEMMA InOrder ==
    ASSUME NEW r \in ListedRow, NEW s \in ListedRow
    PROVE  /\ Before(r, s) \/ Before(s, r) \/ r = s
           /\ ~(Before(r, s) /\ Before(s, r)) /\ ~Before(r, r)
BY RowFields DEF Before

LEMMA BeforeGoesOn ==
    ASSUME NEW r \in ListedRow, NEW s \in ListedRow, NEW t \in ListedRow,
           Before(r, s), Before(s, t)
    PROVE  Before(r, t)
BY RowFields DEF Before

LEMMA HighestRow ==
    ASSUME NEW S \in SUBSET ListedRow, S # {}
    PROVE  \E r \in S : \A s \in S : ~Before(s, r)
<1> DEFINE A == {r.at : r \in S}
<1>1. A \subseteq 0 .. LastMicro /\ A # {} /\ LastMicro \in Nat
  BY RowFields, ListingAssumption
<1> HIDE DEF A
<1>2. PICK a \in A : \A x \in A : a >= x
  BY <1>1, GreatestOf
<1> DEFINE I == {r.id : r \in {s \in S : s.at = a}}
<1>3. I \subseteq 0 .. MaxRows /\ I # {} /\ MaxRows \in Nat
  BY RowFields, ListingAssumption DEF A
<1> HIDE DEF I
<1>4. PICK i \in I : \A x \in I : i >= x
  BY <1>3, GreatestOf
<1>5. PICK r \in S : r.at = a /\ r.id = i
  BY DEF I
<1>6. ASSUME NEW s \in S PROVE ~Before(s, r)
  <2>1. s.at \in A /\ (s.at = a => s.id \in I)
    BY DEF A, I
  <2>2. a >= s.at /\ (s.at = a => i >= s.id)
    BY <1>2, <1>4, <2>1
  <2>3. QED
    BY <1>5, <2>2, RowFields DEF Before
<1>7. QED
  BY <1>5, <1>6

LEMMA LowestRow ==
    ASSUME NEW S \in SUBSET ListedRow, S # {}
    PROVE  Lowest(S) \in S /\ \A s \in S \ {Lowest(S)} : Before(s, Lowest(S))
<1> DEFINE A == {r.at : r \in S}
<1>1. A \subseteq Nat /\ A # {}
  BY RowFields
<1> HIDE DEF A
<1>2. PICK a \in A : \A x \in A : a <= x
  BY <1>1, LeastOf
<1> DEFINE I == {r.id : r \in {s \in S : s.at = a}}
<1>3. I \subseteq Nat /\ I # {}
  BY RowFields DEF A
<1> HIDE DEF I
<1>4. PICK i \in I : \A x \in I : i <= x
  BY <1>3, LeastOf
<1>5. PICK r \in S : r.at = a /\ r.id = i
  BY DEF I
<1>6. ASSUME NEW s \in S \ {r} PROVE Before(s, r)
  <2>1. s.at \in A /\ (s.at = a => s.id \in I)
    BY DEF A, I
  <2>2. a <= s.at /\ (s.at = a => i <= s.id)
    BY <1>2, <1>4, <2>1
  <2>3. ~Before(r, s)
    BY <1>5, <2>2, RowFields DEF Before
  <2>4. QED
    BY <2>3, InOrder
<1>7. \E x \in S : \A s \in S \ {x} : Before(s, x)
  BY <1>5, <1>6
<1>8. QED
  BY <1>7 DEF Lowest

LEMMA RowsFoundAre ==
    ASSUME NEW c, rows \subseteq ListedRow
    PROVE  AfterCursor(c) = {r \in rows : Follows(c, r)} /\ AfterCursor(c) \in SUBSET ListedRow
BY DEF AfterCursor, Follows

LEMMA MoreHasPage ==
    ASSUME NEW S \in SUBSET ListedRow, HasMorePages(S)
    PROVE  Page(S) \in SUBSET S /\ Page(S) # {}
<1>1. Limit \in Nat \ {0}
  BY ListingAssumption
<1>2. S # {}
  BY <1>1, FS_EmptySet DEF HasMorePages
<1>3. PICK r \in S : \A s \in S : ~Before(s, r)
  BY <1>2, HighestRow
<1>4. {s \in S : Before(s, r)} = {}
  BY <1>3
<1>5. Cardinality({s \in S : Before(s, r)}) < Limit
  BY <1>1, <1>4, FS_EmptySet
<1>6. QED
  BY <1>5 DEF Page

(* What is not on the page comes after all that is. *)
LEMMA PageIsUpper ==
    ASSUME NEW S \in SUBSET ListedRow, NEW r \in S, r \notin Page(S), NEW l \in Page(S)
    PROVE  Before(l, r)
<1> DEFINE Above(x) == {s \in S : Before(s, x)}
<1>1. l \in S /\ Cardinality(Above(l)) < Limit /\ ~(Cardinality(Above(r)) < Limit)
  BY DEF Page
<1>2. r # l
  OBVIOUS
<1>3. SUFFICES ASSUME Before(r, l) PROVE FALSE
  BY <1>1, <1>2, InOrder
<1>4. Above(r) \in SUBSET Above(l)
  BY <1>1, <1>3, BeforeGoesOn
<1>5. Above(l) \in SUBSET ListedRow /\ Above(r) \in SUBSET ListedRow
  OBVIOUS
<1>6. /\ IsFiniteSet(Above(l)) /\ Cardinality(Above(l)) \in Nat /\ Cardinality(Above(r)) \in Nat
  BY <1>5, RowsAreFinite
<1>7. Cardinality(Above(r)) <= Cardinality(Above(l))
  BY <1>4, <1>6, FS_Subset
<1>8. QED
  BY <1>1, <1>6, <1>7, ListingAssumption

(* The last page is all there is. *)
LEMMA LastPage ==
    ASSUME NEW S \in SUBSET ListedRow, ~HasMorePages(S)
    PROVE  Page(S) = S
<1>1. ASSUME NEW r \in S PROVE r \in Page(S)
  <2> DEFINE Above == {s \in S : Before(s, r)}
  <2>1. Above \in SUBSET (S \ {r})
    BY InOrder
  <2>2. IsFiniteSet(S) /\ Cardinality(S) \in Nat /\ IsFiniteSet(S \ {r})
    BY RowsAreFinite
  <2>3. Cardinality(S \ {r}) = Cardinality(S) - 1
    BY <2>2, FS_RemoveElement
  <2>4. Cardinality(Above) <= Cardinality(S \ {r}) /\ Cardinality(Above) \in Nat
    BY <2>1, <2>2, FS_Subset, FS_CardinalityType
  <2>5. Cardinality(Above) < Limit
    BY <2>2, <2>3, <2>4, ListingAssumption DEF HasMorePages
  <2>6. QED
    BY <2>5 DEF Page
<1>2. QED
  BY <1>1 DEF Page

(* The cursor stands at the beginning of the row's millisecond. *)
LEMMA CursorOf ==
    ASSUME NEW r \in ListedRow
    PROVE  /\ EncodeCursor(r) \in ListedRow
           /\ EncodeCursor(r).id = r.id /\ EncodeCursor(r).at <= r.at
           /\ \A s \in ListedRow : EncodeCursor(r).at <= s.at /\ s.at <= r.at =>
                  SameMillisecond(s, r)
<1>1. PICK m \in Nat \ {0}, a \in Nat : m = Millisecond /\ a = r.at
  BY RowFields, ListingAssumption
<1>2. PICK q \in Nat : q = a \div m /\ m * q <= a /\ a < m * (q + 1)
  BY Quotient
<1>3. q * m = m * q /\ q * m \in Nat
  OBVIOUS
<1>4. EncodeCursor(r) = [id |-> r.id, at |-> q * m]
  BY <1>1, <1>2 DEF EncodeCursor
<1>5. EncodeCursor(r) \in ListedRow
  <2>1. q * m \in Nat /\ q * m <= LastMicro /\ LastMicro \in Nat
    BY <1>1, <1>2, <1>3, RowFields, ListingAssumption
  <2>2. q * m \in Micro /\ r.id \in 1 .. MaxRows
    BY <2>1 DEF Micro, ListedRow
  <2>3. QED
    BY <1>4, <2>2 DEF ListedRow
<1>6. ASSUME NEW s \in ListedRow, q * m <= s.at, s.at <= a PROVE SameMillisecond(s, r)
  <2>1. s.at \in Nat /\ m * q <= s.at /\ s.at < m * (q + 1)
    BY <1>2, <1>3, <1>6, RowFields
  <2>2. s.at \div m = q
    BY <2>1, QuotientIs
  <2>3. QED
    BY <1>1, <1>2, <2>2 DEF SameMillisecond
<1>7. QED
  BY <1>1, <1>2, <1>3, <1>4, <1>5, <1>6

-----------------------------------------------------------------------------
(* The steps.                                                              *)

LEMMA ListingInitEstablishes == ListingInit => ListingInv
<1>1. SUFFICES ASSUME ListingInit PROVE ListingInv
  OBVIOUS
<1>2. rows = {} /\ present = NotWalking /\ cursor = Top /\ pages = <<>>
  BY <1>1 DEF ListingInit
<1>3. ListingTypeOK
  BY <1>2 DEF ListingTypeOK
<1>4. pages \in Seq(SUBSET ListedRow) /\ DOMAIN pages = {}
  BY <1>2
<1>5. PagesLieAbove /\ NeverTwice /\ WalkSoFar
  BY <1>2, <1>4 DEF PagesLieAbove, NeverTwice, WalkSoFar
<1>6. QED
  BY <1>2, <1>3, <1>4, <1>5 DEF ListingInv

LEMMA InsertPreserves ==
    ASSUME ListingInv, NEW ids \in SUBSET (1 .. MaxRows), NEW at \in Micro, InsertRows(ids, at)
    PROVE  ListingInv'
<1>1. /\ rows' = rows \cup [id : ids, at : {at}]
      /\ present' = present /\ cursor' = cursor /\ pages' = pages
  BY DEF InsertRows
<1>2. [id : ids, at : {at}] \subseteq ListedRow
  BY DEF ListedRow
<1>3. ListingTypeOK'
  BY <1>1, <1>2 DEF ListingInv, ListingTypeOK
<1>4. PagesLieAbove' /\ NeverTwice' /\ WalkSoFar'
  BY <1>1 DEF ListingInv, PagesLieAbove, NeverTwice, WalkSoFar, SameMillisecond
<1>5. QED
  BY <1>1, <1>3, <1>4 DEF ListingInv

LEMMA BeginPreserves == ASSUME ListingInv, BeginWalk PROVE ListingInv'
<1>1. /\ present' = rows /\ rows' = rows /\ cursor' = cursor /\ pages' = pages
      /\ present = NotWalking
  BY DEF BeginWalk
<1>2. cursor = Top
  BY <1>1 DEF ListingInv
<1>3. rows # NotWalking
  <2>1. Bottom \notin ListedRow
    BY RowFields
  <2>2. QED
    BY <2>1 DEF ListingInv, ListingTypeOK, NotWalking
<1>4. ListingTypeOK' /\ PagesLieAbove' /\ NeverTwice'
  BY <1>1 DEF ListingInv, ListingTypeOK, PagesLieAbove, NeverTwice
<1>5. WalkSoFar'
  BY <1>1, <1>2 DEF WalkSoFar, Follows
<1>6. QED
  BY <1>1, <1>3, <1>4, <1>5 DEF ListingInv

(* A page goes on below all that were given, and leaves nothing between.    *)
LEMMA NextPreserves == ASSUME ListingInv, NextPage PROVE ListingInv'
<1>1. PICK found : found = AfterCursor(cursor)
  OBVIOUS
<1>2. PICK page : page = Page(found)
  OBVIOUS
<1>3. /\ present # NotWalking /\ cursor # Bottom /\ rows' = rows /\ present' = present
      /\ pages' = Append(pages, page)
      /\ cursor' = IF HasMorePages(found) THEN EncodeCursor(Lowest(page)) ELSE Bottom
  BY <1>1, <1>2 DEF NextPage
<1>4. /\ rows \subseteq ListedRow /\ present \subseteq rows /\ cursor \in {Top} \cup ListedRow
      /\ pages \in Seq(SUBSET ListedRow) /\ \A i \in DOMAIN pages : pages[i] \subseteq rows
  BY <1>3 DEF ListingInv, ListingTypeOK
<1>5. found = {r \in rows : Follows(cursor, r)} /\ found \in SUBSET ListedRow
  BY <1>1, <1>4, RowsFoundAre
<1>6. page \in SUBSET found
  BY <1>2 DEF Page
<1>7. /\ Len(pages) \in Nat /\ DOMAIN pages = 1 .. Len(pages)
      /\ pages' \in Seq(SUBSET ListedRow)
      /\ Len(pages') = Len(pages) + 1 /\ DOMAIN pages' = 1 .. Len(pages) + 1
      /\ pages'[Len(pages) + 1] = page
      /\ \A i \in DOMAIN pages : pages'[i] = pages[i]
  <2>1. page \in SUBSET ListedRow
    BY <1>5, <1>6
  <2>2. pages' \in Seq(SUBSET ListedRow) /\ Len(pages') = Len(pages) + 1 /\ Len(pages) \in Nat
    BY <1>3, <1>4, <2>1, AppendProperties, LenProperties
  <2>3. DOMAIN pages = 1 .. Len(pages) /\ DOMAIN pages' = 1 .. Len(pages')
    BY <1>4, <2>2, LenProperties
  <2>4. \A i \in 1 .. Len(pages) : pages'[i] = pages[i]
    BY <1>3, <1>4, <2>1, AppendProperties
  <2>5. pages'[Len(pages) + 1] = page
    BY <1>3, <1>4, <2>1, AppendProperties
  <2>6. QED
    BY <2>2, <2>3, <2>4, <2>5
<1>8. ASSUME HasMorePages(found)
      PROVE  /\ Lowest(page) \in page /\ cursor' \in ListedRow
             /\ cursor' = EncodeCursor(Lowest(page))
             /\ \A r \in page \ {Lowest(page)} : Before(r, Lowest(page))
  <2>1. page # {}
    BY <1>2, <1>5, <1>8, MoreHasPage
  <2>2. Lowest(page) \in page /\ \A r \in page \ {Lowest(page)} : Before(r, Lowest(page))
    BY <1>5, <1>6, <2>1, LowestRow
  <2>3. EncodeCursor(Lowest(page)) \in ListedRow
    BY <1>5, <1>6, <2>2, CursorOf
  <2>4. QED
    BY <1>3, <1>8, <2>2, <2>3
<1>9. ~HasMorePages(found) => cursor' = Bottom /\ page = found
  BY <1>2, <1>3, <1>5, LastPage
<1>10. ListingTypeOK'
  <2>1. cursor' \in {Top, Bottom} \cup ListedRow
    BY <1>8, <1>9
  <2>2. \A i \in DOMAIN pages' : pages'[i] \subseteq rows
    <3>1. page \subseteq rows
      BY <1>5, <1>6
    <3>2. \A i \in 1 .. Len(pages) + 1 : i \in 1 .. Len(pages) \/ i = Len(pages) + 1
      BY <1>7
    <3>3. QED
      BY <1>4, <1>7, <3>1, <3>2
  <2>3. QED
    BY <1>3, <1>4, <2>1, <2>2 DEF ListingTypeOK
<1>11. ASSUME NEW i \in DOMAIN pages, NEW r \in pages[i], NEW s \in page
       PROVE  Before(r, s)
  <2>1. AtOrAbove(cursor, r) /\ Follows(cursor, s) /\ r \in ListedRow /\ s \in ListedRow
    BY <1>4, <1>5, <1>6, <1>11 DEF ListingInv, PagesLieAbove
  <2>2. cursor \in ListedRow
    BY <1>4, <2>1 DEF AtOrAbove
  <2>3. QED
    BY <2>1, <2>2, RowFields DEF AtOrAbove, Follows, Before
<1>12. PagesLieAbove'
  <2>1. ASSUME ~HasMorePages(found), NEW r \in ListedRow PROVE AtOrAbove(cursor', r)
    BY <1>9, <2>1, RowFields DEF AtOrAbove, Top, Bottom
  <2>2. ASSUME HasMorePages(found), NEW r \in ListedRow,
               r = Lowest(page) \/ Before(r, Lowest(page))
        PROVE  AtOrAbove(cursor', r)
    <3>1. PICK l \in ListedRow, c \in ListedRow : l = Lowest(page) /\ c = cursor'
      BY <1>5, <1>6, <1>8, <2>2
    <3>2. c.id = l.id /\ c.at <= l.at
      BY <1>8, <2>2, <3>1, CursorOf
    <3>3. AtOrAbove(c, r)
      BY <2>2, <3>1, <3>2, RowFields DEF AtOrAbove, Before
    <3>4. QED
      BY <3>1, <3>3
  <2>3. ASSUME NEW i \in DOMAIN pages', NEW r \in pages'[i] PROVE AtOrAbove(cursor', r)
    <3>1. r \in ListedRow /\ ((i \in DOMAIN pages /\ r \in pages[i]) \/ r \in page)
      <4>1. i \in 1 .. Len(pages) \/ i = Len(pages) + 1
        BY <1>7
      <4>2. QED
        BY <1>4, <1>5, <1>6, <1>7, <4>1
    <3>2. CASE ~HasMorePages(found)
      BY <2>1, <3>1, <3>2
    <3>3. CASE HasMorePages(found)
      <4>1. r = Lowest(page) \/ Before(r, Lowest(page))
        BY <1>8, <1>11, <3>1, <3>3
      <4>2. QED
        BY <2>2, <3>1, <3>3, <4>1
    <3>4. QED
      BY <3>2, <3>3
  <2>4. QED
    BY <2>3 DEF PagesLieAbove
<1>13. NeverTwice'
  <2>1. ASSUME NEW i \in DOMAIN pages', NEW j \in DOMAIN pages', i < j,
               NEW r \in pages'[i], NEW s \in pages'[j]
        PROVE  Before(r, s)
    <3>1. i \in DOMAIN pages /\ r \in pages[i]
      BY <1>7, <2>1
    <3>2. CASE j = Len(pages) + 1
      BY <1>7, <1>11, <3>1, <3>2
    <3>3. CASE j \in DOMAIN pages
      BY <1>7, <2>1, <3>1, <3>3 DEF ListingInv, NeverTwice
    <3>4. QED
      BY <1>7, <3>2, <3>3
  <2>2. QED
    BY <2>1 DEF NeverTwice, Before
<1>14. WalkSoFar'
  <2> DEFINE Reached(r) ==
        \/ Follows(cursor', r)
        \/ \E i \in DOMAIN pages' :
              \/ r \in pages'[i]
              \/ /\ i < Len(pages') \/ cursor' # Bottom
                 /\ SameMillisecond(r, Lowest(pages'[i]))
  <2>1. ASSUME NEW r \in found PROVE Reached(r)
    <3>1. Len(pages) + 1 \in DOMAIN pages' /\ pages'[Len(pages) + 1] = page
      BY <1>7
    <3>2. CASE r \in page
      BY <3>1, <3>2
    <3>3. CASE r \notin page
      <4>1. HasMorePages(found)
        BY <1>9, <3>3
      <4>2. PICK l \in page, c \in ListedRow : l = Lowest(page) /\ c = cursor'
        BY <1>8, <4>1
      <4>3. r \in ListedRow /\ l \in ListedRow
        BY <1>5, <1>6
      <4>4. Before(l, r)
        BY <1>2, <1>5, <3>3, PageIsUpper
      <4>5. /\ c.id = l.id /\ c.at <= l.at
            /\ c.at <= r.at /\ r.at <= l.at => SameMillisecond(r, l)
        BY <1>8, <4>1, <4>2, <4>3, CursorOf
      <4>6. CASE r.at < c.at
        BY <4>2, <4>6 DEF Follows
      <4>7. CASE ~(r.at < c.at)
        <5>1. c.at <= r.at /\ r.at <= l.at
          BY <4>2, <4>3, <4>4, <4>7, RowFields DEF Before
        <5>2. cursor' # Bottom
          BY <4>2, RowFields
        <5>3. SameMillisecond(r, Lowest(pages'[Len(pages) + 1]))
          BY <3>1, <4>2, <4>5, <5>1
        <5>4. QED
          BY <3>1, <5>2, <5>3
      <4>8. QED
        BY <4>6, <4>7
    <3>4. QED
      BY <3>2, <3>3
  <2>2. ASSUME NEW r \in present, r \notin found PROVE Reached(r)
    <3>1. ~Follows(cursor, r)
      BY <1>4, <1>5, <2>2
    <3>2. PICK i \in DOMAIN pages : r \in pages[i] \/ SameMillisecond(r, Lowest(pages[i]))
      BY <1>3, <3>1 DEF ListingInv, WalkSoFar
    <3>3. i \in DOMAIN pages' /\ pages'[i] = pages[i] /\ i < Len(pages')
      BY <1>7
    <3>4. QED
      BY <3>2, <3>3
  <2>3. \A r \in present : Reached(r)
    BY <2>1, <2>2
  <2> HIDE DEF Reached
  <2>4. QED
    BY <1>3, <2>3 DEF WalkSoFar, Reached, Follows, SameMillisecond
<1>15. QED
  BY <1>3, <1>7, <1>10, <1>12, <1>13, <1>14 DEF ListingInv

LEMMA ListingStepPreserves == ListingInv /\ [ListingNext]_listingVars => ListingInv'
<1>1. SUFFICES ASSUME ListingInv, [ListingNext]_listingVars PROVE ListingInv'
  OBVIOUS
<1>2. CASE UNCHANGED listingVars
  BY <1>1, <1>2 DEF listingVars, ListingInv, ListingTypeOK, PagesLieAbove, NeverTwice, WalkSoFar,
                    SameMillisecond
<1>3. QED
  BY <1>1, <1>2, InsertPreserves, BeginPreserves, NextPreserves DEF ListingNext

THEOREM ListingInvariance == ListingSpec => []ListingInv
BY ListingInitEstablishes, ListingStepPreserves, PTL DEF ListingSpec

(* However the table is written meanwhile, no page repeats a row of an       *)
(* earlier one or goes back above it.                                      *)
THEOREM NeverTwiceTheorem == ListingSpec => []NeverTwice
<1>1. ListingInv => NeverTwice
  BY DEF ListingInv
<1>2. QED
  BY <1>1, ListingInvariance, PTL

(* A walk that came to the end gave every row that was there when it began, *)
(* but perhaps those of a millisecond in which a page broke off.           *)
THEOREM WalkTheorem == ListingSpec => []WalkReachesAll
<1>1. ListingInv => WalkReachesAll
  <2>1. SUFFICES ASSUME ListingInv, present # NotWalking, cursor = Bottom, NEW r \in present
                 PROVE  \E i \in DOMAIN pages :
                            \/ r \in pages[i]
                            \/ i < Len(pages) /\ SameMillisecond(r, Lowest(pages[i]))
    BY DEF WalkReachesAll
  <2>2. r \in ListedRow
    BY <2>1 DEF ListingInv, ListingTypeOK
  <2>3. ~Follows(cursor, r)
    BY <2>1, <2>2, RowFields DEF Follows, Top, Bottom
  <2>4. QED
    BY <2>1, <2>3 DEF ListingInv, WalkSoFar
<1>2. QED
  BY <1>1, ListingInvariance, PTL

-----------------------------------------------------------------------------
(***************************************************************************)
(* Templates.  The parser and both writers go through a text from a place  *)
(* to a later one, so what they make of it is a function of the places;    *)
(* the lemmas read such a function from its end, and say of a rendered     *)
(* text that no two braces come together in it, and of an escaped one that *)
(* what is parsed from any of its places is the text that was escaped.     *)
(***************************************************************************)

(* Where a pair of characters is found in a text, and where a triple is.   *)
LEMMA PairAt ==
    ASSUME NEW text \in Seq(Character), NEW x, NEW y, NEW i
    PROVE  i \in Places(text, <<x, y>>) <=>
               /\ i \in 1 .. Len(text) /\ i + 1 <= Len(text)
               /\ text[i] = x /\ text[i + 1] = y
<1>1. Len(text) \in Nat
  BY LenProperties
<1>2. Len(<<x, y>>) = 2
  OBVIOUS
<1>3. i \in Places(text, <<x, y>>) <=>
          i \in 1 .. Len(text) - 2 + 1 /\ SubSeq(text, i, i + 2 - 1) = <<x, y>>
  BY <1>2 DEF Places
<1>4. i \in 1 .. Len(text) - 2 + 1 <=> i \in 1 .. Len(text) /\ i + 1 <= Len(text)
  BY <1>1
<1>5. ASSUME i \in 1 .. Len(text), i + 1 <= Len(text)
      PROVE  SubSeq(text, i, i + 2 - 1) = <<x, y>> <=> text[i] = x /\ text[i + 1] = y
  <2>1. i \in 1 .. Len(text) + 1 /\ i + 2 - 1 \in i - 1 .. Len(text) /\ i + 2 - 1 - i + 1 = 2
    BY <1>1, <1>5
  <2>2. /\ SubSeq(text, i, i + 2 - 1) \in Seq(Character)
        /\ Len(SubSeq(text, i, i + 2 - 1)) = 2
        /\ \A k \in 1 .. 2 : SubSeq(text, i, i + 2 - 1)[k] = text[i + k - 1]
    BY <2>1, SubSeqProperties
  <2>3. i + 1 - 1 = i /\ i + 2 - 1 = i + 1 /\ 1 \in 1 .. 2 /\ 2 \in 1 .. 2
    BY <1>5
  <2>4. SubSeq(text, i, i + 2 - 1) = <<text[i], text[i + 1]>>
    <3> DEFINE part == SubSeq(text, i, i + 2 - 1)
    <3>1. part \in Seq(Character) /\ Len(part) = 2 /\ part[1] = text[i] /\ part[2] = text[i + 1]
      BY <2>2, <2>3
    <3> HIDE DEF part
    <3>2. part = <<part[1], part[2]>>
      BY <3>1
    <3>3. QED
      BY <3>1, <3>2 DEF part
  <2>5. QED
    BY <2>4
<1>6. QED
  BY <1>3, <1>4, <1>5

LEMMA TripleAt ==
    ASSUME NEW text \in Seq(Character), NEW x, NEW y, NEW z, NEW i
    PROVE  i \in Places(text, <<x, y, z>>) <=>
               /\ i \in 1 .. Len(text) /\ i + 2 <= Len(text)
               /\ text[i] = x /\ text[i + 1] = y /\ text[i + 2] = z
<1>1. Len(text) \in Nat
  BY LenProperties
<1>2. Len(<<x, y, z>>) = 3
  OBVIOUS
<1>3. i \in Places(text, <<x, y, z>>) <=>
          i \in 1 .. Len(text) - 3 + 1 /\ SubSeq(text, i, i + 3 - 1) = <<x, y, z>>
  BY <1>2 DEF Places
<1>4. i \in 1 .. Len(text) - 3 + 1 <=> i \in 1 .. Len(text) /\ i + 2 <= Len(text)
  BY <1>1
<1>5. ASSUME i \in 1 .. Len(text), i + 2 <= Len(text)
      PROVE  SubSeq(text, i, i + 3 - 1) = <<x, y, z>> <=>
                 text[i] = x /\ text[i + 1] = y /\ text[i + 2] = z
  <2>1. i \in 1 .. Len(text) + 1 /\ i + 3 - 1 \in i - 1 .. Len(text) /\ i + 3 - 1 - i + 1 = 3
    BY <1>1, <1>5
  <2>2. /\ SubSeq(text, i, i + 3 - 1) \in Seq(Character)
        /\ Len(SubSeq(text, i, i + 3 - 1)) = 3
        /\ \A k \in 1 .. 3 : SubSeq(text, i, i + 3 - 1)[k] = text[i + k - 1]
    BY <2>1, SubSeqProperties
  <2>3. /\ i + 1 - 1 = i /\ i + 2 - 1 = i + 1 /\ i + 3 - 1 = i + 2
        /\ 1 \in 1 .. 3 /\ 2 \in 1 .. 3 /\ 3 \in 1 .. 3
    BY <1>5
  <2>4. SubSeq(text, i, i + 3 - 1) = <<text[i], text[i + 1], text[i + 2]>>
    <3> DEFINE part == SubSeq(text, i, i + 3 - 1)
    <3>1. /\ part \in Seq(Character) /\ Len(part) = 3
          /\ part[1] = text[i] /\ part[2] = text[i + 1] /\ part[3] = text[i + 2]
      BY <2>2, <2>3
    <3> HIDE DEF part
    <3>2. part = <<part[1], part[2], part[3]>>
      BY <3>1
    <3>3. QED
      BY <3>1, <3>2 DEF part
  <2>5. QED
    BY <2>4
<1>6. QED
  BY <1>3, <1>4, <1>5

Joined(x, y) == x \o y
Nothing      == <<>>

(* A chain of n places, at each of which something is put before what       *)
(* stands at some later place.                                             *)
GoesOn(d, n)      == \A i \in 1 .. n : d[i] \in i + 1 .. n + 1
Chain(f, w, d, n) == f[n + 1] = Nothing /\ \A i \in 1 .. n : f[i] = Joined(w[i], f[d[i]])

(* Such a chain is there, whatever is put where and however far it goes on. *)
LEMMA ChainSolves ==
    ASSUME NEW n \in Nat, NEW w, NEW d, GoesOn(d, n)
    PROVE  \E f : Chain(f, w, d, n)
<1> DEFINE Solves(k, f) ==
               f = [i \in k .. n + 1 |-> IF i > n THEN Nothing ELSE Joined(w[i], f[d[i]])]
           Unsolved == {k \in 1 .. n + 1 : ~ \E f : Solves(k, f)}
<1>0. 1 \in 1 .. n + 1 /\ n + 1 \in Nat /\ \A i \in 1 .. n : d[i] \in i + 1 .. n + 1
  BY DEF GoesOn
<1>1. SUFFICES ASSUME Unsolved # {} PROVE FALSE
  <2>1. ASSUME NEW f, Solves(1, f)
        PROVE  Chain(f, w, d, n)
    <3>1. n + 1 \in 1 .. n + 1 /\ n + 1 > n /\ \A i \in 1 .. n : i \in 1 .. n + 1 /\ ~ (i > n)
      OBVIOUS
    <3>2. QED
      BY <2>1, <3>1 DEF Chain
  <2> HIDE DEF Solves
  <2>2. ASSUME Unsolved = {} PROVE \E f : Solves(1, f)
    BY <1>0, <2>2
  <2>3. QED
    BY <2>1, <2>2
<1>2. PICK k \in Unsolved : \A j \in Unsolved : k >= j
  <2> HIDE DEF Solves
  <2>1. Unsolved \subseteq 0 .. n + 1
    OBVIOUS
  <2> HIDE DEF Unsolved
  <2>2. QED
    BY <1>0, <1>1, <2>1, GreatestOf
<1>3. k # n + 1
  <2> DEFINE h == [i \in n + 1 .. n + 1 |-> Nothing]
  <2>1. \A i \in n + 1 .. n + 1 : Nothing = IF i > n THEN Nothing ELSE Joined(w[i], h[d[i]])
    OBVIOUS
  <2>2. Solves(n + 1, h)
    BY <2>1
  <2> HIDE DEF Solves, h
  <2>3. QED
    BY <1>2, <2>2
<1>4. k \in 1 .. n /\ k + 1 \in 1 .. n + 1 /\ k + 1 \notin Unsolved
  <2> HIDE DEF Solves
  <2>1. k \in 1 .. n + 1
    OBVIOUS
  <2>2. k \in 1 .. n /\ k + 1 \in 1 .. n + 1 /\ ~ (k >= k + 1)
    BY <1>3, <2>1
  <2>3. QED
    BY <1>2, <2>2
<1>5. PICK f : Solves(k + 1, f)
  <2> HIDE DEF Solves
  <2>1. QED
    BY <1>4
<1> DEFINE g == [i \in k .. n + 1 |-> IF i = k THEN Joined(w[k], f[d[k]]) ELSE f[i]]
<1>6. \A i \in k + 1 .. n + 1 : g[i] = f[i]
  BY <1>4
<1>7. \A i \in k .. n : g[d[i]] = f[d[i]]
  BY <1>0, <1>4, <1>6
<1>8. \A i \in k .. n + 1 : g[i] = IF i > n THEN Nothing ELSE Joined(w[i], g[d[i]])
  <2>1. SUFFICES ASSUME NEW i \in k .. n + 1
                 PROVE  g[i] = IF i > n THEN Nothing ELSE Joined(w[i], g[d[i]])
    OBVIOUS
  <2>2. CASE i = k
    <3>1. k \in k .. n /\ ~ (k > n)
      BY <1>4
    <3>2. g[k] = Joined(w[k], f[d[k]]) /\ g[d[k]] = f[d[k]]
      BY <1>4, <1>7, <3>1
    <3>3. QED
      BY <2>2, <3>1, <3>2
  <2>3. CASE i # k
    <3>1. i \in k + 1 .. n + 1
      BY <1>4, <2>3
    <3>2. f[i] = IF i > n THEN Nothing ELSE Joined(w[i], f[d[i]])
      BY <1>5, <3>1
    <3>3. i <= n => i \in k .. n
      BY <1>4
    <3>4. QED
      BY <1>6, <1>7, <3>1, <3>2, <3>3
  <2>4. QED
    BY <2>2, <2>3
<1>9. Solves(k, g)
  <2>1. g = [i \in k .. n + 1 |-> g[i]]
    OBVIOUS
  <2> HIDE DEF g
  <2>2. QED
    BY <1>8, <2>1
<1>10. QED
  <2> HIDE DEF Solves, g
  <2>1. QED
    BY <1>2, <1>9

(* What is written from every node on. *)
Writes(f, nodes, value, n) ==
    f[n + 1] = Nothing /\ \A i \in 1 .. n : f[i] = Joined(RenderedNode(nodes[i], value), f[i + 1])

LEMMA ContentsAre ==
    ASSUME NEW nodes, NEW n \in Nat, n = Len(nodes), NEW value
    PROVE  \E f : Contents(nodes, value) = f[1] /\ Writes(f, nodes, value, n)
<1> DEFINE Solves(f) ==
               f = [i \in 1 .. Len(nodes) + 1 |->
                       IF i > Len(nodes) THEN <<>>
                       ELSE RenderedNode(nodes[i], value) \o f[i + 1]]
           w == [i \in 1 .. n |-> RenderedNode(nodes[i], value)]
           d == [i \in 1 .. n |-> i + 1]
<1>1. GoesOn(d, n)
  BY DEF GoesOn
<1>2. PICK p : Chain(p, w, d, n)
  <2> HIDE DEF w, d
  <2>1. QED
    BY <1>1, ChainSolves
<1>3. \A i \in 1 .. n : w[i] = RenderedNode(nodes[i], value) /\ d[i] = i + 1
  OBVIOUS
<1> HIDE DEF w, d
<1> DEFINE f == [i \in 1 .. n + 1 |-> p[i]]
<1>4. f = [i \in 1 .. n + 1 |->
             IF i > n THEN Nothing ELSE Joined(RenderedNode(nodes[i], value), f[i + 1])]
  <2>1. \A i \in 1 .. n + 1 : IF i > n THEN i = n + 1 ELSE i \in 1 .. n /\ i + 1 \in 1 .. n + 1
    OBVIOUS
  <2>2. \A i \in 1 .. n + 1 : f[i] = p[i]
    OBVIOUS
  <2>3. \A i \in 1 .. n + 1 :
            p[i] = IF i > n THEN Nothing ELSE Joined(RenderedNode(nodes[i], value), f[i + 1])
    <3> HIDE DEF f
    <3>1. QED
      BY <1>2, <1>3, <2>1, <2>2 DEF Chain
  <2>4. QED
    BY <2>3
<1>5. \A h : Solves(h) <=>
          h = [i \in 1 .. n + 1 |->
                  IF i > n THEN Nothing ELSE Joined(RenderedNode(nodes[i], value), h[i + 1])]
  BY Zenon DEF Nothing, Joined
<1>6. Solves(f)
  <2> HIDE DEF Solves, f
  <2>1. QED
    BY <1>4, <1>5, Zenon
<1>7. Contents(nodes, value) = (CHOOSE h : Solves(h))[1]
  BY DEF Contents
<1> HIDE DEF Solves, f
<1>8. PICK h : h = CHOOSE g : Solves(g)
  OBVIOUS
<1>9. Solves(h) /\ Contents(nodes, value) = h[1]
  BY <1>6, <1>7, <1>8, Zenon
<1>10. h = [i \in 1 .. n + 1 |->
               IF i > n THEN Nothing ELSE Joined(RenderedNode(nodes[i], value), h[i + 1])]
  BY <1>5, <1>9, Zenon
<1>11. /\ h[n + 1] = Nothing
       /\ \A i \in 1 .. n : h[i] = Joined(RenderedNode(nodes[i], value), h[i + 1])
  <2>1. n + 1 \in 1 .. n + 1 /\ n + 1 > n /\ \A i \in 1 .. n : i \in 1 .. n + 1 /\ ~ (i > n)
    OBVIOUS
  <2>2. QED
    BY <1>10, <2>1
<1>12. QED
  BY <1>9, <1>11 DEF Writes

(* No nodes write nothing; one more before the others writes its own first. *)
LEMMA NoContents == ASSUME NEW value PROVE Contents(<<>>, value) = <<>>
<1>1. PICK nodes : nodes = <<>>
  OBVIOUS
<1>2. PICK n \in Nat : n = Len(nodes) /\ n = 0
  BY <1>1
<1>3. PICK f : Contents(nodes, value) = f[1] /\ Writes(f, nodes, value, n)
  <2>1. n = Len(nodes)
    BY <1>2
  <2>2. QED
    BY <2>1, ContentsAre
<1>4. QED
  BY <1>1, <1>2, <1>3 DEF Nothing, Writes

(* One thing and then the others, as a sequence of n + 1. *)
Preceded(c, rest) == <<c>> \o rest
ComesAfter(whole, c, rest, n) ==
    /\ n = Len(rest) /\ n + 1 = Len(whole)
    /\ whole[1] = c /\ \A i \in 1 .. n : whole[i + 1] = rest[i]

LEMMA ContentsOfMore ==
    ASSUME NEW n \in Nat, NEW node, NEW rest, NEW whole, ComesAfter(whole, node, rest, n), NEW value
    PROVE  Contents(whole, value) = RenderedNode(node, value) \o Contents(rest, value)
<1>1. n + 1 \in Nat /\ n + 1 = Len(whole) /\ n = Len(rest)
  BY DEF ComesAfter
<1>2. whole[1] = node /\ \A i \in 1 .. n : whole[i + 1] = rest[i]
  BY DEF ComesAfter
<1>3. PICK f : Contents(whole, value) = f[1] /\ Writes(f, whole, value, n + 1)
  BY <1>1, ContentsAre
<1>4. PICK g : Contents(rest, value) = g[1] /\ Writes(g, rest, value, n)
  BY <1>1, ContentsAre
<1>5. /\ f[n + 1 + 1] = Nothing
      /\ \A i \in 1 .. n + 1 : f[i] = Joined(RenderedNode(whole[i], value), f[i + 1])
  BY <1>3 DEF Writes
<1>6. /\ g[n + 1] = Nothing
       /\ \A i \in 1 .. n : g[i] = Joined(RenderedNode(rest[i], value), g[i + 1])
  BY <1>4 DEF Writes
<1>7. /\ f[1] = Joined(RenderedNode(node, value), f[1 + 1])
      /\ \A i \in 1 .. n : f[i + 1] = Joined(RenderedNode(rest[i], value), f[i + 1 + 1])
  <2>1. 1 \in 1 .. n + 1 /\ \A i \in 1 .. n : i + 1 \in 1 .. n + 1
    OBVIOUS
  <2>2. QED
    BY <1>2, <1>5, <2>1
<1> DEFINE Differ == {i \in 1 .. n + 1 : f[i + 1] # g[i]}
<1>8. Differ = {}
  <2>1. SUFFICES ASSUME Differ # {} PROVE FALSE
    OBVIOUS
  <2>2. PICK k \in Differ : \A j \in Differ : k >= j
    <3>1. Differ \subseteq 0 .. n + 1 /\ n + 1 \in Nat
      OBVIOUS
    <3> HIDE DEF Differ
    <3>2. QED
      BY <2>1, <3>1, GreatestOf
  <2>3. k # n + 1
    BY <1>5, <1>6
  <2>4. k \in 1 .. n /\ k + 1 \in 1 .. n + 1 /\ k + 1 \notin Differ
    BY <2>2, <2>3
  <2>5. f[k + 1 + 1] = g[k + 1]
    BY <2>4
  <2>6. QED
    BY <1>7, <1>6, <2>4, <2>5
<1>9. f[1 + 1] = g[1]
  BY <1>8
<1>10. QED
  BY <1>3, <1>4, <1>7, <1>9 DEF Joined

(* What the parser makes of a place lies before some later one. *)
LEMMA NodeGoesOn ==
    ASSUME NEW text \in Seq(Character), NEW i \in 1 .. Len(text), NEW node \in Node(text, i)
    PROVE  /\ node.next \in i + 1 .. Len(text) + 1
           /\ \/ i \in Places(text, EscapedOpen) /\ node = Text(PlaceholderOpen, i + 3)
              \/ /\ i \notin Places(text, EscapedOpen) /\ i \notin Places(text, PlaceholderOpen)
                 /\ node = Text(<<text[i]>>, i + 1)
              \/ i \in Places(text, PlaceholderOpen) /\ node.text = <<>> /\ node.name # <<>>
<1>1. Len(text) \in Nat
  BY LenProperties
<1>2. CASE i \in Places(text, EscapedOpen)
  <2>1. node = Text(PlaceholderOpen, i + 3) /\ node.next = i + 3
    BY <1>2 DEF Node, Text
  <2>2. i + 2 <= Len(text)
    BY <1>2, TripleAt DEF EscapedOpen
  <2>3. QED
    BY <1>1, <1>2, <2>1, <2>2
<1>3. CASE i \notin Places(text, EscapedOpen) /\ i \notin Places(text, PlaceholderOpen)
  <2>1. node = Text(<<text[i]>>, i + 1) /\ node.next = i + 1
    BY <1>3 DEF Node, Text
  <2>2. QED
    BY <1>1, <1>3, <2>1
<1>4. CASE i \notin Places(text, EscapedOpen) /\ i \in Places(text, PlaceholderOpen)
  <2>1. node \in Placeholder(text, i)
    BY <1>4 DEF Node
  <2> DEFINE closes == {j \in Places(text, PlaceholderClose) : j >= i + 2}
             close  == Min(closes)
             name   == Trimmed(SubSeq(text, i + 2, close - 1))
  <2>2. /\ closes # {} /\ IsVariableName(name)
        /\ node = [text |-> <<>>, name |-> name, next |-> close + 2]
    BY <2>1, Zenon DEF Placeholder
  <2>3. \A j \in closes : j \in 1 .. Len(text) /\ j + 1 <= Len(text) /\ j >= i + 2
    BY PairAt DEF PlaceholderClose
  <2>4. node.next = close + 2 /\ node.text = <<>> /\ node.name = name /\ name # <<>>
    BY <2>2 DEF IsVariableName
  <2>5. close \in closes
    <3> HIDE DEF closes
    <3>1. closes \subseteq Nat
      BY <2>3
    <3>2. \E x \in closes : \A y \in closes : x <= y
      BY <2>2, <3>1, LeastOf
    <3>3. QED
      BY <3>2 DEF Min
  <2>6. close \in 1 .. Len(text) /\ close + 1 <= Len(text) /\ close >= i + 2
    BY <2>3, <2>5
  <2> HIDE DEF close, name, closes
  <2>7. QED
    BY <1>1, <1>4, <2>4, <2>6
<1>5. QED
  BY <1>2, <1>3, <1>4

(* The sequences of nodes from every place on. *)
Continued(f, node)  == {<<node>> \o rest : rest \in f[node.next]}
From(f, text, i)    == UNION {Continued(f, node) : node \in Node(text, i)}
Parses(f, text, n)  == f[n + 1] = {<<>>} /\ \A i \in 1 .. n : f[i] = From(f, text, i)

(* What is parsed from a place depends on the later places only.           *)
LEMMA SameFrom ==
    ASSUME NEW f, NEW g, NEW text, NEW i, \A node \in Node(text, i) : f[node.next] = g[node.next]
    PROVE  From(f, text, i) = From(g, text, i)
<1>1. \A node \in Node(text, i) : Continued(f, node) = Continued(g, node)
  BY DEF Continued
<1>2. QED
  BY <1>1 DEF From

(* The parser's choices are those of such a function.                      *)
LEMMA ParseSolves ==
    ASSUME NEW text \in Seq(Character), NEW n \in Nat, n = Len(text)
    PROVE  \E f : Parses(f, text, n)
<1> DEFINE Solves(k, f) == f = [i \in k .. n + 1 |-> IF i > n THEN {<<>>} ELSE From(f, text, i)]
           Unsolved == {k \in 1 .. n + 1 : ~ \E f : Solves(k, f)}
<1>0. 1 \in 1 .. n + 1 /\ n + 1 \in Nat
  OBVIOUS
<1>1. SUFFICES ASSUME Unsolved # {} PROVE FALSE
  <2>1. ASSUME NEW f, Solves(1, f)
        PROVE  Parses(f, text, n)
    <3>1. n + 1 \in 1 .. n + 1 /\ n + 1 > n /\ \A i \in 1 .. n : i \in 1 .. n + 1 /\ ~ (i > n)
      OBVIOUS
    <3>2. QED
      BY <2>1, <3>1 DEF Parses
  <2> HIDE DEF Solves
  <2>2. ASSUME Unsolved = {} PROVE \E f : Solves(1, f)
    BY <1>0, <2>2
  <2>3. QED
    BY <2>1, <2>2
<1>2. PICK k \in Unsolved : \A j \in Unsolved : k >= j
  <2> HIDE DEF Solves
  <2>1. Unsolved \subseteq 0 .. n + 1
    OBVIOUS
  <2> HIDE DEF Unsolved
  <2>2. QED
    BY <1>0, <1>1, <2>1, GreatestOf
<1>3. k # n + 1
  <2> DEFINE h == [i \in n + 1 .. n + 1 |-> {<<>>}]
  <2>1. \A i \in n + 1 .. n + 1 : {<<>>} = IF i > n THEN {<<>>} ELSE From(h, text, i)
    OBVIOUS
  <2>2. Solves(n + 1, h)
    BY <2>1
  <2> HIDE DEF Solves, h
  <2>3. QED
    BY <1>2, <2>2
<1>4. k \in 1 .. n /\ k + 1 \in 1 .. n + 1 /\ k + 1 \notin Unsolved
  <2> HIDE DEF Solves
  <2>1. k \in 1 .. n + 1
    OBVIOUS
  <2>2. k \in 1 .. n /\ k + 1 \in 1 .. n + 1 /\ ~ (k >= k + 1)
    BY <1>3, <2>1
  <2>3. QED
    BY <1>2, <2>2
<1>5. PICK f : Solves(k + 1, f)
  <2> HIDE DEF Solves
  <2>1. QED
    BY <1>4
<1> DEFINE g == [i \in k .. n + 1 |-> IF i = k THEN From(f, text, k) ELSE f[i]]
<1>6. \A i \in k + 1 .. n + 1 : g[i] = f[i]
  BY <1>4
<1>7. \A i \in k .. n : From(f, text, i) = From(g, text, i)
  <2>1. SUFFICES ASSUME NEW i \in k .. n PROVE From(f, text, i) = From(g, text, i)
    OBVIOUS
  <2>2. i \in 1 .. Len(text)
    BY <1>4
  <2>3. \A node \in Node(text, i) : node.next \in k + 1 .. n + 1
    <3>1. SUFFICES ASSUME NEW node \in Node(text, i) PROVE node.next \in k + 1 .. n + 1
      OBVIOUS
    <3>2. node.next \in i + 1 .. Len(text) + 1
      BY <2>2, NodeGoesOn
    <3>3. QED
      BY <1>4, <3>2
  <2>4. \A node \in Node(text, i) : f[node.next] = g[node.next]
    BY <1>6, <2>3
  <2> HIDE DEF g
  <2>5. QED
    BY <2>4, SameFrom
<1>8. \A i \in k .. n + 1 : g[i] = IF i > n THEN {<<>>} ELSE From(g, text, i)
  <2>1. SUFFICES ASSUME NEW i \in k .. n + 1
                 PROVE  g[i] = IF i > n THEN {<<>>} ELSE From(g, text, i)
    OBVIOUS
  <2>2. CASE i = k
    <3>1. k \in k .. n /\ ~ (k > n)
      BY <1>4
    <3>2. g[k] = From(f, text, k) /\ From(f, text, k) = From(g, text, k)
      BY <1>4, <1>7, <3>1
    <3>3. QED
      BY <2>2, <3>1, <3>2
  <2>3. CASE i # k
    <3>1. i \in k + 1 .. n + 1
      BY <1>4, <2>3
    <3>2. f[i] = IF i > n THEN {<<>>} ELSE From(f, text, i)
      BY <1>5, <3>1
    <3>3. i <= n => i \in k .. n
      BY <1>4
    <3>4. QED
      BY <1>6, <1>7, <3>1, <3>2, <3>3
  <2>4. QED
    BY <2>2, <2>3
<1>9. Solves(k, g)
  <2>1. g = [i \in k .. n + 1 |-> g[i]]
    OBVIOUS
  <2> HIDE DEF g
  <2>2. QED
    BY <1>8, <2>1
<1>10. QED
  <2> HIDE DEF Solves, g
  <2>1. QED
    BY <1>2, <1>9

LEMMA ParseIs ==
    ASSUME NEW text \in Seq(Character), NEW n \in Nat, n = Len(text)
    PROVE  \E f : ParseTemplate(text) = f[1] /\ Parses(f, text, n)
<1> DEFINE Solves(f) ==
               f = [i \in 1 .. Len(text) + 1 |->
                       IF i > Len(text) THEN {<<>>}
                       ELSE UNION {{<<node>> \o rest : rest \in f[node.next]} :
                                       node \in Node(text, i)}]
<1>1. PICK p : Parses(p, text, n)
  BY ParseSolves
<1> DEFINE f == [i \in 1 .. n + 1 |-> p[i]]
<1>2. f = [i \in 1 .. n + 1 |-> IF i > n THEN {<<>>} ELSE From(f, text, i)]
  <2>1. \A i \in 1 .. n + 1 : IF i > n THEN i = n + 1 ELSE i \in 1 .. n /\ i \in 1 .. Len(text)
    OBVIOUS
  <2>2. \A i \in 1 .. n + 1 : f[i] = p[i]
    OBVIOUS
  <2>3. \A i \in 1 .. n : From(p, text, i) = From(f, text, i)
    <3>1. SUFFICES ASSUME NEW i \in 1 .. n PROVE From(p, text, i) = From(f, text, i)
      OBVIOUS
    <3>2. \A node \in Node(text, i) : node.next \in 1 .. n + 1
      <4>1. SUFFICES ASSUME NEW node \in Node(text, i) PROVE node.next \in 1 .. n + 1
        OBVIOUS
      <4>2. i \in 1 .. Len(text) /\ i \in Nat
        BY <2>1, <3>1
      <4>3. node.next \in i + 1 .. Len(text) + 1
        BY <4>2, NodeGoesOn
      <4>4. QED
        BY <4>2, <4>3
    <3>3. \A node \in Node(text, i) : p[node.next] = f[node.next]
      BY <2>2, <3>2
    <3> HIDE DEF f
    <3>4. QED
      BY <3>3, SameFrom
  <2>4. \A i \in 1 .. n + 1 : p[i] = IF i > n THEN {<<>>} ELSE From(f, text, i)
    <3> HIDE DEF f
    <3>1. QED
      BY <1>1, <2>1, <2>3 DEF Parses
  <2>5. QED
    BY <2>4
<1>3. \A h : Solves(h) <=>
          h = [i \in 1 .. n + 1 |-> IF i > n THEN {<<>>} ELSE From(h, text, i)]
  BY Zenon DEF From, Continued
<1>4. Solves(f)
  <2> HIDE DEF Solves, f
  <2>1. QED
    BY <1>2, <1>3, Zenon
<1>5. ParseTemplate(text) = (CHOOSE h : Solves(h))[1]
  BY DEF ParseTemplate
<1> HIDE DEF Solves, f
<1>6. PICK h : h = CHOOSE g : Solves(g)
  OBVIOUS
<1>7. Solves(h) /\ ParseTemplate(text) = h[1]
  BY <1>4, <1>5, <1>6, Zenon
<1>8. h = [i \in 1 .. n + 1 |-> IF i > n THEN {<<>>} ELSE From(h, text, i)]
  BY <1>3, <1>7, Zenon
<1>9. Parses(h, text, n)
  <2>1. n + 1 \in 1 .. n + 1 /\ n + 1 > n /\ \A i \in 1 .. n : i \in 1 .. n + 1 /\ ~ (i > n)
    OBVIOUS
  <2>2. QED
    BY <1>8, <2>1 DEF Parses
<1>10. QED
  BY <1>7, <1>9

(***************************************************************************)
(* Nothing that looks like a placeholder is left.                          *)
(***************************************************************************)

Brace == "{"
Slash == "\\"

(* The marks of the syntax, by the characters they are made of. *)
LEMMA SyntaxMarks ==
    /\ PlaceholderOpen = <<Brace, Brace>> /\ EscapedOpen = <<Slash, Brace, Brace>>
    /\ Brace # Slash /\ Brace \in Character /\ Slash \in Character
<1>1. Brace # Slash
  BY Zenon DEF Brace, Slash
<1>2. QED
  BY <1>1, Zenon DEF PlaceholderOpen, EscapedOpen, Brace, Slash, Character

(* Where a placeholder would open, and where the mark that escapes one is.  *)
LEMMA OpenAt ==
    ASSUME NEW text \in Seq(Character), NEW i
    PROVE  i \in Places(text, PlaceholderOpen) <=>
               /\ i \in 1 .. Len(text) /\ i + 1 <= Len(text)
               /\ text[i] = Brace /\ text[i + 1] = Brace
<1>1. PlaceholderOpen = <<Brace, Brace>>
  BY SyntaxMarks
<1>2. i \in Places(text, <<Brace, Brace>>) <=>
             /\ i \in 1 .. Len(text) /\ i + 1 <= Len(text)
             /\ text[i] = Brace /\ text[i + 1] = Brace
  BY PairAt
<1>3. QED
  BY <1>1, <1>2, Zenon

LEMMA EscapedAt ==
    ASSUME NEW text \in Seq(Character), NEW i
    PROVE  i \in Places(text, EscapedOpen) <=>
               /\ i \in 1 .. Len(text) /\ i + 2 <= Len(text)
               /\ text[i] = Slash /\ text[i + 1] = Brace /\ text[i + 2] = Brace
<1>1. EscapedOpen = <<Slash, Brace, Brace>>
  BY SyntaxMarks
<1>2. i \in Places(text, <<Slash, Brace, Brace>>) <=>
             /\ i \in 1 .. Len(text) /\ i + 2 <= Len(text)
             /\ text[i] = Slash /\ text[i + 1] = Brace /\ text[i + 2] = Brace
  BY TripleAt
<1>3. QED
  BY <1>1, <1>2, Zenon

Braceless(text) == \A j \in 1 .. Len(text) : text[j] # Brace
Pairless(text)  ==
    \A j \in 1 .. Len(text) : j + 1 <= Len(text) => ~ (text[j] = Brace /\ text[j + 1] = Brace)
Begins(text)    == Len(text) > 0 /\ text[1] = Brace

(* Two texts one after the other, and one character before a text.         *)
LEMMA JoinedText ==
    ASSUME NEW Kind, NEW p \in Seq(Kind), NEW r \in Seq(Kind)
    PROVE  /\ p \o r \in Seq(Kind) /\ Len(p \o r) = Len(p) + Len(r)
           /\ \A j \in 1 .. Len(p) : (p \o r)[j] = p[j]
           /\ \A j \in 1 .. Len(r) : (p \o r)[Len(p) + j] = r[j]
BY ConcatProperties

LEMMA OneLetter ==
    ASSUME NEW Kind, NEW c \in Kind
    PROVE  <<c>> \in Seq(Kind) /\ Len(<<c>>) = 1 /\ <<c>>[1] = c
<1>1. <<c>> \in Seq(Kind)
  OBVIOUS
<1>2. Len(<<c>>) = 1
  OBVIOUS
<1>3. <<c>>[1] = c
  OBVIOUS
<1>4. QED
  BY <1>1, <1>2, <1>3

LEMMA OneThenMore ==
    ASSUME NEW Kind, NEW c \in Kind, NEW r \in Seq(Kind)
    PROVE  Preceded(c, r) \in Seq(Kind) /\ ComesAfter(Preceded(c, r), c, r, Len(r))
<1>1. PICK one : one = <<c>>
  OBVIOUS
<1>2. one \in Seq(Kind) /\ Len(one) = 1 /\ one[1] = c
  BY <1>1, OneLetter
<1>3. PICK s : s = one \o r
  OBVIOUS
<1>4. PICK n \in Nat : n = Len(r)
  BY LenProperties
<1>5. /\ one \o r \in Seq(Kind) /\ Len(one \o r) = Len(one) + Len(r)
       /\ \A j \in 1 .. Len(one) + Len(r) :
              (one \o r)[j] = IF j <= Len(one) THEN one[j] ELSE r[j - Len(one)]
  BY <1>2, ConcatProperties
<1>6. s \in Seq(Kind) /\ Len(s) = 1 + n
  BY <1>2, <1>3, <1>4, <1>5
<1>7. \A j \in 1 .. 1 + n : s[j] = IF j <= 1 THEN one[j] ELSE r[j - 1]
  BY <1>2, <1>3, <1>4, <1>5
<1>8. s[1] = c /\ \A j \in 1 .. n : s[j + 1] = r[j]
  <2>1. /\ 1 \in 1 .. 1 + n
        /\ \A j \in 1 .. n : j + 1 \in 1 .. 1 + n /\ ~ (j + 1 <= 1) /\ j + 1 - 1 = j
    OBVIOUS
  <2>2. QED
    BY <1>2, <1>7, <2>1
<1>9. n + 1 = 1 + n
  OBVIOUS
<1>10. s = Preceded(c, r)
  BY <1>1, <1>3 DEF Preceded
<1>11. QED
  BY <1>4, <1>6, <1>8, <1>9, <1>10 DEF ComesAfter

(* Pairs of braces do not arise where a text without any comes first, ...   *)
LEMMA BracelessThenPairless ==
    ASSUME NEW p \in Seq(Character), Braceless(p), NEW r \in Seq(Character), Pairless(r)
    PROVE  Pairless(p \o r) /\ (Begins(p \o r) => p = <<>> /\ Begins(r))
<1>1. PICK a \in Nat, b \in Nat : a = Len(p) /\ b = Len(r)
  BY LenProperties
<1>2. PICK s : s = p \o r
  OBVIOUS
<1>3. /\ Len(s) = a + b
      /\ \A j \in 1 .. a : s[j] = p[j]
      /\ \A j \in 1 .. b : s[a + j] = r[j]
  BY <1>1, <1>2, JoinedText
<1>4. \A j \in 1 .. a : s[j] # Brace
  BY <1>1, <1>3 DEF Braceless
<1>5. ASSUME NEW j \in 1 .. a + b, j + 1 <= a + b, s[j] = Brace, s[j + 1] = Brace PROVE FALSE
  <2>1. j \notin 1 .. a
    BY <1>4, <1>5
  <2>2. PICK k \in 1 .. b : j = a + k /\ k + 1 \in 1 .. b /\ k + 1 <= b
    <3>1. j \in Nat /\ j > a
      BY <2>1
    <3>2. j - a \in 1 .. b /\ j = a + (j - a) /\ (j - a) + 1 \in 1 .. b /\ (j - a) + 1 <= b
      BY <1>5, <3>1
    <3>3. QED
      BY <3>2
  <2>3. j + 1 = a + (k + 1)
    BY <2>2
  <2>4. r[k] = Brace /\ r[k + 1] = Brace
    BY <1>3, <1>5, <2>2, <2>3
  <2>5. QED
    BY <1>1, <2>2, <2>4 DEF Pairless
<1>6. Pairless(s)
  BY <1>3, <1>5 DEF Pairless
<1>7. ASSUME Begins(s) PROVE p = <<>> /\ Begins(r)
  <2>1. a + b > 0 /\ s[1] = Brace
    BY <1>3, <1>7 DEF Begins
  <2>2. a = 0
    BY <1>4, <2>1
  <2>3. p = <<>>
    BY <1>1, <2>2, EmptySeq
  <2>4. 1 \in 1 .. b /\ a + 1 = 1 /\ b > 0
    BY <2>1, <2>2
  <2>5. r[1] = Brace
    BY <1>3, <2>1, <2>4
  <2>6. QED
    BY <1>1, <2>3, <2>4, <2>5 DEF Begins
<1>8. QED
  BY <1>2, <1>6, <1>7

(* ... nor where one character does, if not a brace before a brace.         *)
LEMMA LetterThenPairless ==
    ASSUME NEW c \in Character, NEW r \in Seq(Character), Pairless(r), c = Brace => ~ Begins(r)
    PROVE  /\ <<c>> \o r \in Seq(Character) /\ Pairless(<<c>> \o r)
           /\ Begins(<<c>> \o r) => c = Brace
<1>1. PICK b \in Nat : b = Len(r)
  BY LenProperties
<1>2. PICK s \in Seq(Character) : s = Preceded(c, r) /\ ComesAfter(s, c, r, b)
  BY <1>1, OneThenMore
<1>3. b + 1 = Len(s) /\ s[1] = c /\ \A j \in 1 .. b : s[j + 1] = r[j]
  BY <1>2 DEF ComesAfter
<1>4. s \in Seq(Character) /\ Len(s) = 1 + b /\ s[1] = c /\ \A j \in 1 .. b : s[1 + j] = r[j]
  <2>1. b + 1 = 1 + b /\ \A j \in 1 .. b : 1 + j = j + 1
    OBVIOUS
  <2>2. QED
    BY <1>3, <2>1
<1>5. ASSUME NEW j \in 1 .. 1 + b, j + 1 <= 1 + b, s[j] = Brace, s[j + 1] = Brace PROVE FALSE
  <2>1. CASE j = 1
    <3>1. 1 \in 1 .. b /\ b > 0 /\ 1 + 1 = j + 1
      BY <1>5, <2>1
    <3>2. r[1] = Brace /\ c = Brace
      BY <1>4, <1>5, <2>1, <3>1
    <3>3. QED
      BY <1>1, <3>1, <3>2 DEF Begins
  <2>2. CASE j # 1
    <3>1. PICK k \in 1 .. b : j = 1 + k /\ k + 1 \in 1 .. b /\ k + 1 <= b
      <4>1. /\ j - 1 \in 1 .. b /\ j = 1 + (j - 1) /\ (j - 1) + 1 \in 1 .. b
            /\ (j - 1) + 1 <= b
        BY <1>5, <2>2
      <4>2. QED
        BY <4>1
    <3>2. j + 1 = 1 + (k + 1)
      BY <3>1
    <3>3. r[k] = Brace /\ r[k + 1] = Brace
      BY <1>4, <1>5, <3>1, <3>2
    <3>4. QED
      BY <1>1, <3>1, <3>3 DEF Pairless
  <2>3. QED
    BY <2>1, <2>2
<1>6. Pairless(s)
  BY <1>4, <1>5 DEF Pairless
<1>7. Begins(s) => c = Brace
  BY <1>4 DEF Begins
<1>8. QED
  BY <1>2, <1>4, <1>6, <1>7 DEF Preceded

LEMMA NoText == <<>> \in Seq(Character) /\ Len(<<>>) = 0 /\ Braceless(<<>>) /\ Pairless(<<>>)
                  /\ ~ Begins(<<>>)
<1>1. PICK s : s = <<>>
  OBVIOUS
<1>2. s \in Seq(Character) /\ Len(s) = 0
  BY <1>1, EmptySeq
<1>3. Braceless(s) /\ Pairless(s) /\ ~ Begins(s)
  BY <1>2 DEF Braceless, Pairless, Begins
<1>4. QED
  BY <1>1, <1>2, <1>3

(* The nodes of a text. *)
Nodes(text, n) == UNION {Node(text, i) : i \in 1 .. n}

(* From its end on, what is rendered has no pair, and it begins with a brace *)
(* only where the body has one: the parser would have taken a pair.          *)
LEMMA RenderedPairless ==
    ASSUME NEW text \in Seq(Character), NEW n \in Nat, n = Len(text),
           Places(text, EscapedOpen) = {},
           NEW value \in Seq(Character), Braceless(value),
           NEW nodes \in ParseTemplate(text)
    PROVE  Contents(nodes, value) \in Seq(Character) /\ Pairless(Contents(nodes, value))
<1> DEFINE Fine(i, all) ==
               /\ all \in Seq(Nodes(text, n))
               /\ Contents(all, value) \in Seq(Character) /\ Pairless(Contents(all, value))
               /\ Begins(Contents(all, value)) => i \in 1 .. n /\ text[i] = Brace
<1>1. PICK f : ParseTemplate(text) = f[1] /\ Parses(f, text, n)
  BY ParseIs
<1> DEFINE Bad == {i \in 1 .. n + 1 : \E all \in f[i] : ~ Fine(i, all)}
<1>2. Bad = {}
  <2>1. SUFFICES ASSUME Bad # {} PROVE FALSE
    OBVIOUS
  <2>2. PICK i \in Bad : \A j \in Bad : i >= j
    <3> HIDE DEF Fine
    <3>1. Bad \subseteq 0 .. n + 1 /\ n + 1 \in Nat
      OBVIOUS
    <3> HIDE DEF Bad
    <3>2. QED
      BY <2>1, <3>1, GreatestOf
  <2>3. PICK all \in f[i] : ~ Fine(i, all)
    <3> HIDE DEF Fine
    <3>1. QED
      BY <2>2
  <2>4. i # n + 1
    <3>1. SUFFICES ASSUME i = n + 1 PROVE FALSE
      OBVIOUS
    <3>2. f[n + 1] = {<<>>}
      BY <1>1 DEF Parses
    <3>3. all = <<>>
      BY <2>3, <3>1, <3>2
    <3>4. Contents(all, value) = <<>> /\ all \in Seq(Nodes(text, n))
      BY <3>3, NoContents, EmptySeq
    <3>5. QED
      BY <2>3, <3>4, NoText
  <2>5. i \in 1 .. n
    <3> HIDE DEF Fine
    <3>1. i \in 1 .. n + 1
      OBVIOUS
    <3>2. QED
      BY <2>4, <3>1
  <2> HIDE DEF Bad
  <2>6. all \in From(f, text, i)
    BY <1>1, <2>3, <2>5 DEF Parses
  <2>7. PICK node \in Node(text, i) : all \in Continued(f, node)
    BY <2>6 DEF From
  <2>8. PICK rest \in f[node.next] : all = <<node>> \o rest
    BY <2>7 DEF Continued
  <2>9. i \in 1 .. Len(text)
    BY <2>5
  <2>10. /\ node.next \in i + 1 .. Len(text) + 1
        /\ \/ i \in Places(text, EscapedOpen) /\ node = Text(PlaceholderOpen, i + 3)
           \/ /\ i \notin Places(text, EscapedOpen) /\ i \notin Places(text, PlaceholderOpen)
              /\ node = Text(<<text[i]>>, i + 1)
           \/ i \in Places(text, PlaceholderOpen) /\ node.text = <<>> /\ node.name # <<>>
    BY <2>9, NodeGoesOn
  <2>11. Fine(node.next, rest)
    <3>1. node.next \in 1 .. n + 1 /\ ~ (i >= node.next)
      BY <2>5, <2>10
    <3>2. node.next \notin Bad
      BY <2>2, <3>1
    <3> HIDE DEF Fine
    <3>3. QED
      BY <2>8, <3>1, <3>2 DEF Bad
  <2>12. node \in Nodes(text, n)
    BY <2>5, <2>7 DEF Nodes
  <2>13. all \in Seq(Nodes(text, n))
    <3>1. <<node>> \in Seq(Nodes(text, n))
      BY <2>12
    <3>2. QED
      BY <2>8, <2>11, <3>1, ConcatProperties
  <2>14. Contents(all, value) = RenderedNode(node, value) \o Contents(rest, value)
    <3>1. rest \in Seq(Nodes(text, n))
      BY <2>11
    <3>2. PICK kind : kind = Nodes(text, n)
      OBVIOUS
    <3>3. node \in kind /\ rest \in Seq(kind)
      BY <2>12, <3>1, <3>2
    <3>4. PICK m \in Nat : m = Len(rest)
      BY <3>3, LenProperties
    <3>5. PICK s : s = Preceded(node, rest)
      OBVIOUS
    <3>6. ComesAfter(s, node, rest, m)
      BY <3>3, <3>4, <3>5, OneThenMore
    <3>7. Contents(s, value) = RenderedNode(node, value) \o Contents(rest, value)
      BY <3>6, ContentsOfMore
    <3>8. QED
      BY <2>8, <3>5, <3>7 DEF Preceded
  <2>15. PICK r : r = Contents(rest, value)
    OBVIOUS
  <2>16. /\ r \in Seq(Character) /\ Pairless(r)
         /\ Begins(r) => node.next \in 1 .. n /\ text[node.next] = Brace
    BY <2>11, <2>15
  <2>17. CASE i \notin Places(text, PlaceholderOpen) /\ node = Text(<<text[i]>>, i + 1)
    <3>1. RenderedNode(node, value) = <<text[i]>> /\ node.next = i + 1
      BY <2>17 DEF RenderedNode, Text
    <3>2. text[i] \in Character
      BY <2>9, ElementOfSeq
    <3>3. text[i] = Brace => ~ Begins(r)
      <4>1. ASSUME text[i] = Brace, Begins(r) PROVE FALSE
        <5>1. i + 1 <= Len(text) /\ text[i + 1] = Brace
          <6>1. i + 1 \in 1 .. n /\ text[i + 1] = Brace
            BY <2>16, <3>1, <4>1
          <6>2. QED
            BY <6>1
        <5>2. i \in Places(text, PlaceholderOpen)
          BY <2>9, <4>1, <5>1, OpenAt
        <5>3. QED
          BY <2>17, <5>2
      <4>2. QED
        BY <4>1
    <3>4. /\ <<text[i]>> \o r \in Seq(Character) /\ Pairless(<<text[i]>> \o r)
          /\ Begins(<<text[i]>> \o r) => text[i] = Brace
      BY <2>16, <3>2, <3>3, LetterThenPairless
    <3>5. QED
      BY <2>3, <2>5, <2>13, <2>14, <2>15, <3>1, <3>4
  <2>18. CASE i \in Places(text, PlaceholderOpen) /\ node.text = <<>> /\ node.name # <<>>
    <3>1. text[i] = Brace
      BY <2>18, OpenAt
    <3>2. PICK p : p = RenderedNode(node, value)
      OBVIOUS
    <3>3. p \in Seq(Character) /\ Braceless(p)
      <4>1. p = value \/ p = <<>>
        BY <2>18, <3>2 DEF RenderedNode
      <4>2. <<>> \in Seq(Character) /\ Braceless(<<>>)
        BY NoText
      <4>3. QED
        BY <4>1, <4>2
    <3>4. Pairless(p \o r) /\ p \o r \in Seq(Character)
      BY <2>16, <3>3, BracelessThenPairless, JoinedText
    <3>5. QED
      BY <2>3, <2>5, <2>13, <2>14, <2>15, <3>1, <3>2, <3>4
  <2>19. QED
    BY <2>10, <2>17, <2>18
<1>3. 1 \in 1 .. n + 1 /\ nodes \in f[1]
  BY <1>1
<1>4. Fine(1, nodes)
  <2> HIDE DEF Fine
  <2>1. QED
    BY <1>2, <1>3
<1>5. QED
  BY <1>4

(* A text without a pair opens no placeholder.                             *)
LEMMA NoPair ==
    ASSUME NEW text \in Seq(Character), Pairless(text)
    PROVE  Places(text, PlaceholderOpen) = {}
<1>1. ASSUME NEW i \in Places(text, PlaceholderOpen) PROVE FALSE
  BY <1>1, OpenAt DEF Pairless
<1>2. QED
  BY <1>1

(* The values are of characters other than the brace, ...                  *)
LEMMA LettersAreBraceless ==
    ASSUME NEW c \in Character, c # Brace
    PROVE  /\ <<c>> \in Seq(Character) /\ Braceless(<<c>>)
           /\ <<c, c, c>> \in Seq(Character) /\ Braceless(<<c, c, c>>)
<1>1. PICK s : s = <<c>>
  OBVIOUS
<1>2. PICK t : t = <<c, c, c>>
  OBVIOUS
<1>3. s \in Seq(Character) /\ Len(s) = 1 /\ s[1] = c
  BY <1>1, OneLetter
<1>4. t \in Seq(Character) /\ Len(t) = 3 /\ t[1] = c /\ t[2] = c /\ t[3] = c
  BY <1>2
<1>5. Braceless(s) /\ Braceless(t)
  <2>1. \A j \in 1 .. 1 : j = 1
    OBVIOUS
  <2>2. \A j \in 1 .. 3 : j = 1 \/ j = 2 \/ j = 3
    OBVIOUS
  <2>3. QED
    BY <1>3, <1>4, <2>1, <2>2 DEF Braceless
<1>6. QED
  BY <1>1, <1>2, <1>3, <1>4, <1>5

(* ... and so is what a variable is resolved to, default or not, ...        *)
LEMMA ResolvedIsBraceless ==
    ASSUME NEW declaration \in Declaration, NEW value \in Supplied \ {<<Brace>>}
    PROVE  /\ ResolveVariable(declaration, value) \in Seq(Character)
           /\ Braceless(ResolveVariable(declaration, value))
<1> DEFINE Blank   == " "
           ALetter == "n"
<1>1. Blank \in Character /\ ALetter \in Character /\ Blank # Brace /\ ALetter # Brace
  BY Zenon DEF Character, Brace
<1>2. /\ Declaration = [required : BOOLEAN, default : {Absent, <<ALetter>>}]
      /\ Supplied = {Absent, Unsupported, <<>>, <<Blank>>, <<Brace>>, <<ALetter, ALetter, ALetter>>}
  BY Zenon DEF Declaration, Supplied, Brace
<1> HIDE DEF Blank, ALetter
<1>3. declaration.default \in {Absent, <<ALetter>>}
  BY <1>2
<1>4. value \notin {Absent, Unsupported} =>
          value \in {<<>>, <<Blank>>, <<ALetter, ALetter, ALetter>>}
  BY <1>2, Zenon
<1>5. ResolveVariable(declaration, value) \in
          {<<>>, <<Blank>>, <<ALetter>>, <<ALetter, ALetter, ALetter>>}
  BY <1>3, <1>4, Zenon DEF ResolveVariable
<1>6. PICK resolved : resolved = ResolveVariable(declaration, value)
  OBVIOUS
<1>7. /\ <<Blank>> \in Seq(Character) /\ Braceless(<<Blank>>)
      /\ <<ALetter>> \in Seq(Character) /\ Braceless(<<ALetter>>)
      /\ <<ALetter, ALetter, ALetter>> \in Seq(Character)
      /\ Braceless(<<ALetter, ALetter, ALetter>>)
  BY <1>1, LettersAreBraceless
<1>8. QED
  BY <1>5, <1>7, NoText, Zenon

(* ... and so nothing that is rendered opens a placeholder.                *)
LEMMA RenderedHasNoPlaceholder ==
    ASSUME NEW text \in Seq(Character), Places(text, EscapedOpen) = {},
           NEW nodes \in ParseTemplate(text), NEW declaration \in Declaration,
           NEW value \in Supplied \ {<<Brace>>}
    PROVE  Places(RenderTemplate(nodes, declaration, value, FALSE).text, PlaceholderOpen) = {}
<1>1. PICK resolved : resolved = ResolveVariable(declaration, value)
  OBVIOUS
<1>2. resolved \in Seq(Character) /\ Braceless(resolved)
  BY <1>1, ResolvedIsBraceless
<1>3. PICK n \in Nat : n = Len(text)
  BY LenProperties
<1>4. PICK rendered : rendered = Contents(nodes, resolved)
  OBVIOUS
<1>5. rendered \in Seq(Character) /\ Pairless(rendered)
  BY <1>2, <1>3, <1>4, RenderedPairless
<1>6. \/ RenderTemplate(nodes, declaration, value, FALSE).text = <<>>
      \/ RenderTemplate(nodes, declaration, value, FALSE).text = rendered
  BY <1>1, <1>4 DEF RenderTemplate, Refusal
<1>7. QED
  BY <1>5, <1>6, NoText, NoPair

(***************************************************************************)
(* Any text can be written.                                                *)
(***************************************************************************)
Piece(text, i) ==
    IF i \in Places(text, PlaceholderOpen) THEN EscapedOpen ELSE <<text[i]>>
Past(text, i) == IF i \in Places(text, PlaceholderOpen) THEN i + 2 ELSE i + 1

(* What is written for the text from every place on. *)
Escapes(e, text, n) ==
    /\ e[n + 1] = Nothing
    /\ \A i \in 1 .. n : e[i] = Joined(Piece(text, i), e[Past(text, i)])

(* Escaping goes on to a later place, as a chain does.                     *)
LEMMA PastGoesOn ==
    ASSUME NEW text \in Seq(Character), NEW n \in Nat, n = Len(text), NEW i \in 1 .. n
    PROVE  Past(text, i) \in i + 1 .. n + 1
<1>1. i \in Places(text, PlaceholderOpen) => i + 1 <= n
  BY OpenAt
<1>2. QED
  BY <1>1 DEF Past

LEMMA EscapeIs ==
    ASSUME NEW text \in Seq(Character), NEW n \in Nat, n = Len(text)
    PROVE  \E e : Escape(text) = e[1] /\ Escapes(e, text, n)
<1> DEFINE AsWritten(h, i) ==
               IF i > Len(text) THEN <<>>
               ELSE IF i \in Places(text, PlaceholderOpen) THEN EscapedOpen \o h[i + 2]
               ELSE <<text[i]>> \o h[i + 1]
           Put(h, i) == IF i > n THEN Nothing ELSE Joined(Piece(text, i), h[Past(text, i)])
           Solves(h) == h = [i \in 1 .. Len(text) + 1 |-> AsWritten(h, i)]
           w == [i \in 1 .. n |-> Piece(text, i)]
           d == [i \in 1 .. n |-> Past(text, i)]
<1>1. GoesOn(d, n)
  <2>1. \A i \in 1 .. n : Past(text, i) \in i + 1 .. n + 1
    BY PastGoesOn
  <2>2. QED
    BY <2>1 DEF GoesOn
<1>2. PICK p : Chain(p, w, d, n)
  <2> HIDE DEF w, d
  <2>1. QED
    BY <1>1, ChainSolves
<1>3. \A i \in 1 .. n : w[i] = Piece(text, i) /\ d[i] = Past(text, i)
  OBVIOUS
<1> HIDE DEF w, d
<1> DEFINE e == [i \in 1 .. n + 1 |-> p[i]]
<1>4. e = [i \in 1 .. n + 1 |-> Put(e, i)]
  <2>1. \A i \in 1 .. n + 1 : IF i > n THEN i = n + 1 ELSE i \in 1 .. n
    OBVIOUS
  <2>2. \A i \in 1 .. n + 1 : e[i] = p[i]
    OBVIOUS
  <2>3. \A i \in 1 .. n : Past(text, i) \in 1 .. n + 1
    <3>1. SUFFICES ASSUME NEW i \in 1 .. n PROVE Past(text, i) \in 1 .. n + 1
      OBVIOUS
    <3>2. Past(text, i) \in i + 1 .. n + 1
      BY PastGoesOn
    <3>3. QED
      BY <3>2
  <2>4. \A i \in 1 .. n + 1 : p[i] = Put(e, i)
    <3> HIDE DEF e
    <3>1. QED
      BY <1>1, <1>2, <1>3, <2>1, <2>2, <2>3 DEF Chain
  <2> HIDE DEF Put
  <2>5. QED
    BY <2>4
<1>5. \A h, i : AsWritten(h, i) = Put(h, i)
  <2>1. SUFFICES ASSUME NEW h, NEW i PROVE AsWritten(h, i) = Put(h, i)
    OBVIOUS
  <2>2. CASE i > n
    BY <2>2, Zenon DEF Nothing
  <2>3. CASE ~ (i > n) /\ i \in Places(text, PlaceholderOpen)
    BY <2>3, Zenon DEF Joined, Piece, Past
  <2>4. CASE ~ (i > n) /\ i \notin Places(text, PlaceholderOpen)
    BY <2>4, Zenon DEF Joined, Piece, Past
  <2>5. QED
    BY <2>2, <2>3, <2>4, Zenon
<1>6. Escape(text) = (CHOOSE h : Solves(h))[1]
  BY Zenon DEF Escape
<1> HIDE DEF e, AsWritten, Put
<1>7. \A h : Solves(h) <=> h = [i \in 1 .. n + 1 |-> Put(h, i)]
  BY <1>5, Zenon
<1>8. Solves(e)
  BY <1>4, <1>7, Zenon
<1> HIDE DEF Solves
<1>9. PICK h : h = CHOOSE g : Solves(g)
  OBVIOUS
<1>10. Solves(h) /\ Escape(text) = h[1]
  BY <1>6, <1>8, <1>9, Zenon
<1>11. h = [i \in 1 .. n + 1 |-> Put(h, i)]
  BY <1>7, <1>10, Zenon
<1>12. \A i \in 1 .. n + 1 : h[i] = Put(h, i)
  BY <1>11
<1>13. Escapes(h, text, n)
  <2>1. n + 1 \in 1 .. n + 1 /\ n + 1 > n /\ \A i \in 1 .. n : i \in 1 .. n + 1 /\ ~ (i > n)
    OBVIOUS
  <2>2. QED
    BY <1>12, <2>1 DEF Escapes, Put
<1>14. QED
  BY <1>10, <1>13

(* The text from a place on. *)
RestOf(text, i) == SubSeq(text, i, Len(text))

LEMMA RestIs ==
    ASSUME NEW text \in Seq(Character), NEW n \in Nat, n = Len(text)
    PROVE  /\ RestOf(text, 1) = text /\ RestOf(text, n + 1) = Nothing
           /\ \A i \in 1 .. n :
                  IF i \in Places(text, PlaceholderOpen)
                  THEN RestOf(text, i) = Joined(PlaceholderOpen, RestOf(text, i + 2))
                  ELSE RestOf(text, i) = Joined(<<text[i]>>, RestOf(text, i + 1))
<1>1. RestOf(text, 1) = text
  BY SubSeqFull DEF RestOf
<1>2. RestOf(text, n + 1) = Nothing
  BY SubSeqEmpty DEF RestOf, Nothing
<1>3. ASSUME NEW i \in 1 .. n, i \in Places(text, PlaceholderOpen)
      PROVE  RestOf(text, i) = Joined(PlaceholderOpen, RestOf(text, i + 2))
  <2>1. i + 1 <= n
    BY <1>3, OpenAt
  <2>2. SubSeq(text, i, i + 1) = PlaceholderOpen
    <3>1. Len(PlaceholderOpen) = 2
      <4>1. PlaceholderOpen = <<Brace, Brace>>
        BY SyntaxMarks
      <4>2. QED
        BY <4>1
    <3>2. SubSeq(text, i, i + 2 - 1) = PlaceholderOpen
      BY <1>3, <3>1, Zenon DEF Places
    <3>3. i + 2 - 1 = i + 1
      OBVIOUS
    <3>4. QED
      BY <3>2, <3>3
  <2>3. /\ i \in 1 .. Len(text) + 1 /\ i + 1 \in i - 1 .. Len(text)
        /\ Len(text) \in i + 1 .. Len(text) /\ i + 1 + 1 = i + 2
    BY <2>1
  <2>4. SubSeq(text, i, i + 1) \o SubSeq(text, i + 2, Len(text)) = SubSeq(text, i, Len(text))
    BY <2>3, ConcatAdjacentSubSeq
  <2>5. QED
    BY <2>2, <2>4, Zenon DEF RestOf, Joined
<1>4. ASSUME NEW i \in 1 .. n PROVE RestOf(text, i) = Joined(<<text[i]>>, RestOf(text, i + 1))
  <2>1. i \in 1 .. Len(text) /\ Len(text) \in i .. Len(text)
    OBVIOUS
  <2>2. SubSeq(text, i, Len(text)) = <<text[i]>> \o SubSeq(text, i + 1, Len(text))
    BY <2>1, SubSeqRecursiveFirst
  <2>3. QED
    BY <2>2, Zenon DEF RestOf, Joined
<1>5. QED
  BY <1>1, <1>2, <1>3, <1>4

(* What is written for one place, by its characters.                       *)
LEMMA PieceIs ==
    ASSUME NEW text \in Seq(Character), NEW n \in Nat, n = Len(text), NEW i \in 1 .. n,
           NEW piece, piece = Piece(text, i)
    PROVE  /\ piece \in Seq(Character)
           /\ IF i \in Places(text, PlaceholderOpen)
              THEN Len(piece) = 3 /\ piece[1] = Slash /\ piece[2] = Brace /\ piece[3] = Brace
              ELSE Len(piece) = 1 /\ piece[1] = text[i]
<1>1. CASE i \in Places(text, PlaceholderOpen)
  <2>1. piece = <<Slash, Brace, Brace>>
    BY <1>1, SyntaxMarks DEF Piece
  <2>2. Slash \in Character /\ Brace \in Character
    BY SyntaxMarks
  <2>3. QED
    BY <1>1, <2>1, <2>2
<1>2. CASE i \notin Places(text, PlaceholderOpen)
  <2>1. piece = <<text[i]>>
    BY <1>2 DEF Piece
  <2>2. text[i] \in Character
    BY ElementOfSeq
  <2>3. piece \in Seq(Character) /\ Len(piece) = 1 /\ piece[1] = text[i]
    BY <2>1, <2>2, OneLetter
  <2>4. QED
    BY <1>2, <2>3
<1>3. QED
  BY <1>1, <1>2

(* What is escaped is a text of the alphabet.                              *)
LEMMA EscapedIsText ==
    ASSUME NEW text \in Seq(Character), NEW n \in Nat, n = Len(text), NEW e, Escapes(e, text, n)
    PROVE  \A i \in 1 .. n + 1 : e[i] \in Seq(Character)
<1> DEFINE Bad == {i \in 1 .. n + 1 : e[i] \notin Seq(Character)}
<1>1. SUFFICES ASSUME Bad # {} PROVE FALSE
  OBVIOUS
<1>2. PICK i \in Bad : \A j \in Bad : i >= j
  <2>1. Bad \subseteq 0 .. n + 1 /\ n + 1 \in Nat
    OBVIOUS
  <2> HIDE DEF Bad
  <2>2. QED
    BY <1>1, <2>1, GreatestOf
<1>3. i # n + 1
  <2>1. e[n + 1] = Nothing /\ Nothing \in Seq(Character)
    BY NoText DEF Escapes, Nothing
  <2>2. QED
    BY <1>2, <2>1
<1>4. i \in 1 .. n /\ e[i] \notin Seq(Character)
  BY <1>2, <1>3
<1>5. Past(text, i) \in i + 1 .. n + 1
  BY <1>4, PastGoesOn
<1>6. e[Past(text, i)] \in Seq(Character)
  <2>1. Past(text, i) \in 1 .. n + 1 /\ ~ (i >= Past(text, i))
    BY <1>4, <1>5
  <2>2. QED
    BY <1>2, <2>1
<1>7. PICK piece : piece = Piece(text, i)
  OBVIOUS
<1>8. piece \in Seq(Character)
  BY <1>4, <1>7, PieceIs
<1>9. e[i] = piece \o e[Past(text, i)]
  BY <1>4, <1>7 DEF Escapes, Joined
<1>10. QED
  BY <1>4, <1>6, <1>8, <1>9, ConcatProperties

(* What is escaped never has two braces that would open a placeholder. *)
LEMMA EscapedHasNoPair ==
    ASSUME NEW text \in Seq(Character), NEW n \in Nat, n = Len(text), NEW e, Escapes(e, text, n)
    PROVE  /\ \A i \in 1 .. n + 1 :
                  Len(e[i]) >= 1 /\ e[i][1] = Brace =>
                      i \in 1 .. n /\ text[i] = Brace /\ i \notin Places(text, PlaceholderOpen)
           /\ \A i \in 1 .. n + 1 : ~ (Len(e[i]) >= 2 /\ e[i][1] = Brace /\ e[i][2] = Brace)
<1>1. \A i \in 1 .. n + 1 : e[i] \in Seq(Character)
  BY EscapedIsText
<1>2. Len(e[n + 1]) = 0
  BY NoText DEF Escapes, Nothing
<1>3. ASSUME NEW i \in 1 .. n
      PROVE  IF i \in Places(text, PlaceholderOpen)
             THEN e[i][1] = Slash
             ELSE /\ e[i][1] = text[i] /\ Len(e[i]) = 1 + Len(e[i + 1])
                  /\ Len(e[i]) >= 2 => Len(e[i + 1]) >= 1 /\ e[i][2] = e[i + 1][1]
  <2>1. PICK piece, rest : piece = Piece(text, i) /\ rest = e[Past(text, i)]
    OBVIOUS
  <2>2. Past(text, i) \in i + 1 .. n + 1
    BY PastGoesOn
  <2>3. rest \in Seq(Character)
    BY <1>1, <2>1, <2>2
  <2>4. piece \in Seq(Character)
    BY <2>1, PieceIs
  <2>5. e[i] = piece \o rest
    BY <2>1 DEF Escapes, Joined
  <2>6. PICK a \in Nat, b \in Nat : a = Len(piece) /\ b = Len(rest)
    BY <2>3, <2>4, LenProperties
  <2>7. PICK s : s = e[i]
    OBVIOUS
  <2>8. Len(s) = a + b /\ \A j \in 1 .. a + b : s[j] = IF j <= a THEN piece[j] ELSE rest[j - a]
    BY <2>3, <2>4, <2>5, <2>6, <2>7, ConcatProperties
  <2>9. CASE i \in Places(text, PlaceholderOpen)
    <3>1. a = 3 /\ piece[1] = Slash
      BY <2>1, <2>6, <2>9, PieceIs
    <3>2. 1 \in 1 .. a + b /\ 1 <= a
      BY <3>1
    <3>3. QED
      BY <2>7, <2>8, <2>9, <3>1, <3>2
  <2>10. CASE i \notin Places(text, PlaceholderOpen)
    <3>1. a = 1 /\ piece[1] = text[i]
      <4>1. Len(piece) = 1 /\ piece[1] = text[i]
        BY <2>1, <2>10, PieceIs
      <4>2. QED
        BY <2>6, <4>1
    <3>2. rest = e[i + 1]
      BY <2>1, <2>10 DEF Past
    <3>3. s[1] = text[i]
      <4>1. 1 \in 1 .. a + b /\ 1 <= a
        BY <3>1
      <4>2. QED
        BY <2>8, <3>1, <4>1
    <3>4. a + b >= 2 => b >= 1 /\ s[2] = rest[1]
      <4>1. a + b >= 2 => 2 \in 1 .. a + b /\ ~ (2 <= a) /\ 2 - a = 1 /\ b >= 1
        BY <3>1
      <4>2. QED
        BY <2>8, <4>1
    <3>5. QED
      BY <2>6, <2>7, <2>8, <2>10, <3>1, <3>2, <3>3, <3>4
  <2>11. QED
    BY <2>9, <2>10
<1>4. ASSUME NEW i \in 1 .. n + 1, Len(e[i]) >= 1, e[i][1] = Brace
      PROVE  i \in 1 .. n /\ text[i] = Brace /\ i \notin Places(text, PlaceholderOpen)
  <2>1. i # n + 1
    BY <1>2, <1>4
  <2>2. i \in 1 .. n
    BY <2>1
  <2>3. QED
    BY <1>3, <1>4, <2>2, SyntaxMarks
<1>5. ASSUME NEW i \in 1 .. n + 1, Len(e[i]) >= 2, e[i][1] = Brace, e[i][2] = Brace
      PROVE  FALSE
  <2>1. Len(e[i]) \in Nat
    BY <1>1, LenProperties
  <2>2. i \in 1 .. n /\ text[i] = Brace /\ i \notin Places(text, PlaceholderOpen)
    BY <1>4, <1>5, <2>1
  <2>3. Len(e[i + 1]) >= 1 /\ e[i + 1][1] = Brace
    BY <1>3, <1>5, <2>2
  <2>4. i + 1 \in 1 .. n + 1
    BY <2>2
  <2>5. i + 1 \in 1 .. n /\ text[i + 1] = Brace
    BY <1>4, <2>3, <2>4
  <2>6. i \in Places(text, PlaceholderOpen)
    BY <2>2, <2>5, OpenAt
  <2>7. QED
    BY <2>2, <2>6
<1>6. QED
  BY <1>4, <1>5

(* The text whole ends, from the place p on, with the text part. *)
Ends(whole, p, part) ==
    /\ p \in 1 .. Len(whole) + 1 /\ p + Len(part) = Len(whole) + 1
    /\ \A j \in 1 .. Len(part) : whole[p + j - 1] = part[j]

(* It has the text part at the place p. *)
Holds(whole, p, part) ==
    /\ p \in 1 .. Len(whole) + 1 /\ p + Len(part) <= Len(whole) + 1
    /\ \A j \in 1 .. Len(part) : whole[p + j - 1] = part[j]

(* Past its first piece, the end of a text is the rest of it.              *)
LEMMA EndsPast ==
    ASSUME NEW whole \in Seq(Character), NEW p, NEW piece \in Seq(Character),
           NEW rest \in Seq(Character), Ends(whole, p, Joined(piece, rest))
    PROVE  Holds(whole, p, piece) /\ Ends(whole, p + Len(piece), rest)
<1>1. PICK a \in Nat, b \in Nat, m \in Nat : a = Len(piece) /\ b = Len(rest) /\ m = Len(whole)
  BY LenProperties
<1>2. PICK part : part = Joined(piece, rest) /\ part = piece \o rest
  BY DEF Joined
<1>3. Len(part) = a + b /\ \A j \in 1 .. a + b : part[j] = IF j <= a THEN piece[j] ELSE rest[j - a]
  BY <1>1, <1>2, ConcatProperties
<1>4. p \in 1 .. m + 1 /\ p + (a + b) = m + 1 /\ \A j \in 1 .. a + b : whole[p + j - 1] = part[j]
  BY <1>1, <1>3, <1>2 DEF Ends
<1>5. p + a \in 1 .. m + 1 /\ p + a <= m + 1 /\ p + a + b = m + 1
  BY <1>4
<1>6. ASSUME NEW j \in 1 .. a PROVE whole[p + j - 1] = piece[j]
  <2>1. j \in 1 .. a + b /\ j <= a
    OBVIOUS
  <2>2. QED
    BY <1>3, <1>4, <2>1
<1>7. ASSUME NEW j \in 1 .. b PROVE whole[p + a + j - 1] = rest[j]
  <2>1. PICK k \in 1 .. a + b : k = a + j /\ ~ (k <= a) /\ k - a = j
    <3>1. a + j \in 1 .. a + b /\ ~ (a + j <= a) /\ a + j - a = j
      OBVIOUS
    <3>2. QED
      BY <3>1
  <2>2. p + k - 1 = p + a + j - 1
    BY <1>4, <2>1
  <2>3. whole[p + k - 1] = part[k]
    BY <1>4
  <2>4. part[k] = rest[j]
    BY <1>3, <2>1
  <2>5. QED
    BY <2>2, <2>3, <2>4
<1>8. QED
  BY <1>1, <1>4, <1>5, <1>6, <1>7 DEF Ends, Holds

(* Where a place of the text is written, the parser reads it back. *)
ReadBack(text, i) == IF i \in Places(text, PlaceholderOpen) THEN PlaceholderOpen ELSE <<text[i]>>

LEMMA NodeReadsBack ==
    ASSUME NEW text \in Seq(Character), NEW n \in Nat, n = Len(text), NEW e, Escapes(e, text, n),
           NEW whole \in Seq(Character), NEW i \in 1 .. n, NEW p, Ends(whole, p, e[i])
    PROVE  \E q : /\ p \in 1 .. Len(whole) /\ Text(ReadBack(text, i), q) \in Node(whole, p)
                  /\ Ends(whole, q, e[Past(text, i)])
<1>1. PICK piece, rest : piece = Piece(text, i) /\ rest = e[Past(text, i)]
  OBVIOUS
<1>2. Past(text, i) \in i + 1 .. n + 1
  BY PastGoesOn
<1>3. rest \in Seq(Character) /\ e[i] \in Seq(Character)
  BY <1>1, <1>2, EscapedIsText
<1>4. piece \in Seq(Character)
  BY <1>1, PieceIs
<1>5. PICK s : s = e[i] /\ s = Joined(piece, rest) /\ Ends(whole, p, s)
  BY <1>1 DEF Escapes
<1>6. /\ p \in 1 .. Len(whole) + 1 /\ p + Len(piece) <= Len(whole) + 1
      /\ Ends(whole, p + Len(piece), rest)
      /\ \A j \in 1 .. Len(piece) : whole[p + j - 1] = piece[j]
  <2>1. Ends(whole, p, Joined(piece, rest))
    BY <1>5
  <2>2. Holds(whole, p, piece) /\ Ends(whole, p + Len(piece), rest)
    BY <1>3, <1>4, <2>1, EndsPast
  <2>3. QED
    BY <2>2 DEF Holds
<1>7. PICK m \in Nat : m = Len(whole)
  BY LenProperties
<1>8. CASE i \in Places(text, PlaceholderOpen)
  <2>1. Len(piece) = 3 /\ piece[1] = Slash /\ piece[2] = Brace /\ piece[3] = Brace
    BY <1>1, <1>8, PieceIs
  <2>2. /\ 1 \in 1 .. 3 /\ 2 \in 1 .. 3 /\ 3 \in 1 .. 3 /\ p \in 1 .. m /\ p + 2 <= m
        /\ p + 1 - 1 = p /\ p + 2 - 1 = p + 1 /\ p + 3 - 1 = p + 2
    BY <1>6, <1>7, <2>1
  <2>3. whole[p] = Slash /\ whole[p + 1] = Brace /\ whole[p + 2] = Brace
    BY <1>6, <2>1, <2>2
  <2>4. p \in Places(whole, EscapedOpen)
    BY <1>7, <2>2, <2>3, EscapedAt
  <2>5. Text(ReadBack(text, i), p + 3) \in Node(whole, p)
    BY <1>8, <2>4, Zenon DEF Node, ReadBack
  <2>6. QED
    BY <1>1, <1>6, <1>7, <2>1, <2>2, <2>5
<1>9. CASE i \notin Places(text, PlaceholderOpen)
  <2>1. Len(piece) = 1 /\ piece[1] = text[i]
    BY <1>1, <1>9, PieceIs
  <2>2. 1 \in 1 .. 1 /\ p \in 1 .. m /\ p + 1 - 1 = p
    BY <1>6, <1>7, <2>1
  <2>3. whole[p] = text[i]
    BY <1>6, <2>1, <2>2
  <2>4. rest = e[i + 1] /\ i + 1 \in 1 .. n + 1 /\ i \in 1 .. n + 1
    BY <1>1, <1>9 DEF Past
  <2>5. p \notin Places(whole, PlaceholderOpen)
    <3>1. SUFFICES ASSUME p \in Places(whole, PlaceholderOpen) PROVE FALSE
      OBVIOUS
    <3>2. p + 1 <= m /\ whole[p] = Brace /\ whole[p + 1] = Brace
      BY <1>7, <3>1, OpenAt
    <3>3. PICK k \in Nat : k = Len(s)
      BY <1>3, <1>5, LenProperties
    <3>4. p + k = m + 1 /\ \A j \in 1 .. k : whole[p + j - 1] = s[j]
      BY <1>5, <1>7, <3>3 DEF Ends
    <3>5. k >= 2 /\ 1 \in 1 .. k /\ 2 \in 1 .. k /\ p + 1 - 1 = p /\ p + 2 - 1 = p + 1
      BY <2>2, <3>2, <3>4
    <3>6. s[1] = Brace /\ s[2] = Brace
      BY <3>2, <3>4, <3>5
    <3>7. Len(e[i]) >= 2 /\ e[i][1] = Brace /\ e[i][2] = Brace
      BY <1>5, <3>3, <3>5, <3>6
    <3>8. QED
      BY <2>4, <3>7, EscapedHasNoPair
  <2>6. p \notin Places(whole, EscapedOpen)
    <3>1. SUFFICES ASSUME p \in Places(whole, EscapedOpen) PROVE FALSE
      OBVIOUS
    <3>2. p + 2 <= m /\ whole[p + 1] = Brace /\ whole[p + 2] = Brace
      BY <1>7, <3>1, EscapedAt
    <3>3. PICK k \in Nat : k = Len(rest)
      BY <1>3, LenProperties
    <3>4. p + 1 + k = m + 1 /\ \A j \in 1 .. k : whole[p + 1 + j - 1] = rest[j]
      BY <1>6, <1>7, <2>1, <3>3 DEF Ends
    <3>5. /\ k >= 2 /\ 1 \in 1 .. k /\ 2 \in 1 .. k
          /\ p + 1 + 1 - 1 = p + 1 /\ p + 1 + 2 - 1 = p + 2
      BY <2>2, <3>2, <3>4
    <3>6. rest[1] = Brace /\ rest[2] = Brace
      BY <3>2, <3>4, <3>5
    <3>7. QED
      BY <2>4, <3>3, <3>5, <3>6, EscapedHasNoPair
  <2>7. Text(ReadBack(text, i), p + 1) \in Node(whole, p)
    <3>1. Text(<<whole[p]>>, p + 1) \in Node(whole, p)
      BY <2>5, <2>6, Zenon DEF Node
    <3>2. QED
      BY <1>9, <2>3, <3>1, Zenon DEF ReadBack
  <2>8. QED
    BY <1>1, <1>6, <1>7, <2>1, <2>2, <2>7
<1>10. QED
  BY <1>8, <1>9

(* Parsed, what is escaped is the text again: from every place of it.        *)
LEMMA TextIsWritten ==
    ASSUME NEW text \in Seq(Character)
    PROVE  \E nodes \in ParseTemplate(Escape(text)) : Contents(nodes, Absent) = text
<1>1. PICK n \in Nat : n = Len(text)
  BY LenProperties
<1>2. PICK e : Escape(text) = e[1] /\ Escapes(e, text, n)
  BY <1>1, EscapeIs
<1>3. PICK whole : whole = Escape(text)
  OBVIOUS
<1>4. whole = e[1] /\ whole \in Seq(Character)
  <2>1. 1 \in 1 .. n + 1
    OBVIOUS
  <2>2. QED
    BY <1>1, <1>2, <1>3, <2>1, EscapedIsText
<1>5. PICK m \in Nat : m = Len(whole)
  BY <1>4, LenProperties
<1>6. PICK f : ParseTemplate(whole) = f[1] /\ Parses(f, whole, m)
  BY <1>4, <1>5, ParseIs
<1>7. PICK kind : kind = Nodes(whole, m)
  OBVIOUS
<1> DEFINE Read(nodes, i) == nodes \in Seq(kind) /\ Contents(nodes, Absent) = RestOf(text, i)
           Bad == {i \in 1 .. n + 1 :
                      \E p : Ends(whole, p, e[i]) /\ ~ \E nodes \in f[p] : Read(nodes, i)}
<1>8. Bad = {}
  <2>1. SUFFICES ASSUME Bad # {} PROVE FALSE
    OBVIOUS
  <2>2. PICK i \in Bad : \A j \in Bad : i >= j
    <3> HIDE DEF Read
    <3>1. Bad \subseteq 0 .. n + 1 /\ n + 1 \in Nat
      OBVIOUS
    <3> HIDE DEF Bad
    <3>2. QED
      BY <2>1, <3>1, GreatestOf
  <2> HIDE DEF Read
  <2>3. PICK p : Ends(whole, p, e[i]) /\ ~ \E nodes \in f[p] : Read(nodes, i)
    BY <2>2
  <2>4. i # n + 1
    <3>1. SUFFICES ASSUME i = n + 1 PROVE FALSE
      OBVIOUS
    <3>2. Len(e[n + 1]) = 0
      BY <1>2, NoText DEF Escapes, Nothing
    <3>3. p = m + 1
      BY <1>5, <2>3, <3>1, <3>2 DEF Ends
    <3>4. <<>> \in f[m + 1]
      BY <1>6 DEF Parses
    <3>5. RestOf(text, n + 1) = <<>>
      BY <1>1, RestIs DEF Nothing
    <3>6. Read(<<>>, n + 1)
      BY <3>5, NoContents, EmptySeq DEF Read
    <3>7. QED
      BY <2>3, <3>1, <3>3, <3>4, <3>6
  <2>5. i \in 1 .. n
    <3>1. i \in 1 .. n + 1
      BY <2>2
    <3>2. QED
      BY <2>4, <3>1
  <2>6. PICK q : /\ p \in 1 .. Len(whole) /\ Text(ReadBack(text, i), q) \in Node(whole, p)
                 /\ Ends(whole, q, e[Past(text, i)])
    BY <1>1, <1>2, <1>4, <2>3, <2>5, NodeReadsBack
  <2>7. PICK node : node = Text(ReadBack(text, i), q)
    OBVIOUS
  <2>8. PICK rest \in f[q] : Read(rest, Past(text, i))
    <3>1. Past(text, i) \in i + 1 .. n + 1
      BY <1>1, <2>5, PastGoesOn
    <3>2. Past(text, i) \in 1 .. n + 1 /\ ~ (i >= Past(text, i))
      BY <2>5, <3>1
    <3>3. Past(text, i) \notin Bad
      BY <2>2, <3>2
    <3>4. QED
      BY <2>6, <3>2, <3>3
  <2> HIDE DEF Bad
  <2>9. /\ node \in Node(whole, p) /\ node.next = q
        /\ node.name = <<>> /\ node.text = ReadBack(text, i)
    BY <2>6, <2>7 DEF Text
  <2>10. p \in 1 .. m /\ node \in kind
    BY <1>5, <1>7, <2>6, <2>9 DEF Nodes
  <2>11. rest \in Seq(kind) /\ Contents(rest, Absent) = RestOf(text, Past(text, i))
    BY <2>8 DEF Read
  <2>12. PICK all : all = Preceded(node, rest)
    OBVIOUS
  <2>13. all \in f[p]
    <3>1. all \in Continued(f, node)
      BY <2>8, <2>9, <2>12 DEF Continued, Preceded
    <3>2. all \in From(f, whole, p)
      BY <2>9, <3>1 DEF From
    <3>3. f[p] = From(f, whole, p)
      BY <1>6, <2>10 DEF Parses
    <3>4. QED
      BY <3>2, <3>3
  <2>14. all \in Seq(kind) /\ ComesAfter(all, node, rest, Len(rest))
    BY <2>10, <2>11, <2>12, OneThenMore
  <2>15. Contents(all, Absent) = RenderedNode(node, Absent) \o Contents(rest, Absent)
    <3>1. PICK k \in Nat : k = Len(rest)
      BY <2>11, LenProperties
    <3>2. ComesAfter(all, node, rest, k)
      BY <2>14, <3>1
    <3>3. QED
      BY <3>2, ContentsOfMore
  <2>16. RenderedNode(node, Absent) = ReadBack(text, i)
    BY <2>9 DEF RenderedNode
  <2>17. Joined(ReadBack(text, i), RestOf(text, Past(text, i))) = RestOf(text, i)
    BY <1>1, <2>5, RestIs DEF ReadBack, Past
  <2>18. Contents(all, Absent) = RestOf(text, i)
    BY <2>11, <2>15, <2>16, <2>17, Zenon DEF Joined
  <2>19. QED
    BY <2>3, <2>13, <2>14, <2>18 DEF Read
<1>9. 1 \in 1 .. n + 1 /\ Ends(whole, 1, e[1])
  <2>1. 1 \in 1 .. m + 1 /\ 1 + m = m + 1 /\ \A j \in 1 .. m : 1 + j - 1 = j
    OBVIOUS
  <2>2. Ends(whole, 1, whole)
    BY <1>5, <2>1 DEF Ends
  <2>3. QED
    BY <1>4, <2>2
<1>10. PICK nodes \in f[1] : Read(nodes, 1)
  <2> HIDE DEF Read
  <2>1. QED
    BY <1>8, <1>9
<1>11. Contents(nodes, Absent) = text
  BY <1>1, <1>10, RestIs
<1>12. QED
  BY <1>3, <1>6, <1>10, <1>11

(* Templates: a body stays a text of the alphabet, no longer than the bound. *)
TemplatesInv == body \in Seq(Character) /\ Len(body) <= MaxBody

(* A body is written character by character, up to its bound.              *)
LEMMA TemplatesInvariance == TemplatesSpec => []TemplatesInv
<1>1. TemplatesInit => TemplatesInv
  BY TemplatesAssumption DEF TemplatesInit, TemplatesInv
<1>2. TemplatesInv /\ [TemplatesNext]_body => TemplatesInv'
  <2>1. SUFFICES ASSUME TemplatesInv, [TemplatesNext]_body PROVE TemplatesInv'
    OBVIOUS
  <2>2. CASE UNCHANGED body
    BY <2>1, <2>2 DEF TemplatesInv
  <2>3. ASSUME NEW c \in Character, WriteCharacter(c) PROVE TemplatesInv'
    <3>1. Len(body) \in Nat /\ Len(body) < MaxBody /\ body' = Append(body, c) /\ MaxBody \in Nat
      BY <2>1, <2>3, TemplatesAssumption, LenProperties DEF TemplatesInv, WriteCharacter
    <3>2. body' \in Seq(Character) /\ Len(body') = Len(body) + 1
      BY <2>1, <3>1, AppendProperties DEF TemplatesInv
    <3>3. QED
      BY <3>1, <3>2 DEF TemplatesInv
  <2>4. QED
    BY <2>1, <2>2, <2>3 DEF TemplatesNext
<1>3. QED
  BY <1>1, <1>2, PTL DEF TemplatesSpec

(* What is written of a body is of the alphabet the parser reads.           *)
THEOREM TemplatesTypeCorrect == TemplatesSpec => []TemplatesTypeOK
<1>1. TemplatesInv => TemplatesTypeOK
  BY LenProperties DEF TemplatesInv, TemplatesTypeOK
<1>2. QED
  BY <1>1, TemplatesInvariance, PTL

(* A body that says "\{{" writes two braces, and any text at all can be said  *)
(* with it; a body that does not never renders two braces, whatever is       *)
(* declared and whatever braceless values are supplied: no message goes out   *)
(* with a placeholder still in it.                                          *)
THEOREM TemplatesTheorem == TemplatesSpec => []TemplatesSayWhatIsMeant
<1>1. TemplatesInv => AnyTextCanBeWritten
  <2>1. SUFFICES ASSUME TemplatesInv PROVE AnyTextCanBeWritten
    OBVIOUS
  <2>2. PICK text : text = body
    OBVIOUS
  <2>3. text \in Seq(Character)
    BY <2>1, <2>2 DEF TemplatesInv
  <2>4. \E nodes \in ParseTemplate(Escape(text)) : Contents(nodes, Absent) = text
    BY <2>3, TextIsWritten
  <2>5. QED
    BY <2>2, <2>4 DEF AnyTextCanBeWritten
<1>2. TemplatesInv => NoPlaceholderLeft
  <2>1. SUFFICES ASSUME TemplatesInv PROVE NoPlaceholderLeft
    OBVIOUS
  <2>2. PICK text : text = body
    OBVIOUS
  <2>3. text \in Seq(Character)
    BY <2>1, <2>2 DEF TemplatesInv
  <2>4. ASSUME Places(text, EscapedOpen) = {},
               NEW nodes \in ParseTemplate(text), NEW declaration \in Declaration,
               NEW value \in Supplied \ {<<Brace>>}
        PROVE  Places(RenderTemplate(nodes, declaration, value, FALSE).text, PlaceholderOpen) = {}
    BY <2>3, <2>4, RenderedHasNoPlaceholder
  <2>5. QED
    BY <2>2, <2>4, Zenon DEF NoPlaceholderLeft, Brace
<1>3. QED
  BY <1>1, <1>2, TemplatesInvariance, PTL DEF TemplatesSayWhatIsMeant

-----------------------------------------------------------------------------
(***************************************************************************)
(* The parts side by side.                                                 *)
(***************************************************************************)

LEMMA OthersStand ==
    ASSUME NEW part \in Part, Alone(part)
    PROVE  /\ part # "lifecycle" => UNCHANGED lifecycleVars
           /\ part # "rate limit" => UNCHANGED rateVars
           /\ part # "authentication" => UNCHANGED authVars
           /\ part # "tenancy" => UNCHANGED tenancyVars
           /\ part # "listing" => UNCHANGED listingVars
           /\ part # "dashboard" => UNCHANGED dashboardVars
           /\ part # "sending" => UNCHANGED sendingVars
           /\ part # "templates" => UNCHANGED body
<1>1. \A other \in Part \ {part} : UnchangedPart(other)
  BY DEF Alone
<1>2. part # "lifecycle" => UNCHANGED lifecycleVars
  BY <1>1 DEF Part, UnchangedPart
<1>3. part # "rate limit" => UNCHANGED rateVars
  BY <1>1 DEF Part, UnchangedPart
<1>4. part # "authentication" => UNCHANGED authVars
  BY <1>1 DEF Part, UnchangedPart
<1>5. part # "tenancy" => UNCHANGED tenancyVars
  BY <1>1 DEF Part, UnchangedPart
<1>6. part # "listing" => UNCHANGED listingVars
  BY <1>1 DEF Part, UnchangedPart
<1>7. part # "dashboard" => UNCHANGED dashboardVars
  BY <1>1 DEF Part, UnchangedPart
<1>8. part # "sending" => UNCHANGED sendingVars
  BY <1>1 DEF Part, UnchangedPart
<1>9. part # "templates" => UNCHANGED body
  BY <1>1 DEF Part, UnchangedPart
<1>10. QED
  BY <1>2, <1>3, <1>4, <1>5, <1>6, <1>7, <1>8, <1>9

(* A step of the whole is a step of each part, or leaves it alone. *)
LEMMA StepsAreOfParts ==
    ASSUME [PlatformNext]_platformVars
    PROVE  /\ [Next]_lifecycleVars /\ [RateNext]_rateVars /\ [AuthNext]_authVars
           /\ [TenancyNext]_tenancyVars /\ [ListingNext]_listingVars
           /\ [DashboardNext]_dashboardVars /\ [SendingNext]_sendingVars
           /\ [TemplatesNext]_body
<1>1. CASE UNCHANGED platformVars
  BY <1>1 DEF platformVars
<1>2. CASE Alone("lifecycle") /\ Next
  <2>1. "lifecycle" \in Part
    BY DEF Part
  <2>2. QED
    BY <1>2, <2>1, OthersStand
<1>3. CASE Alone("rate limit") /\ RateNext
  <2>1. "rate limit" \in Part
    BY DEF Part
  <2>2. QED
    BY <1>3, <2>1, OthersStand
<1>4. CASE Alone("authentication") /\ AuthNext
  <2>1. "authentication" \in Part
    BY DEF Part
  <2>2. QED
    BY <1>4, <2>1, OthersStand
<1>5. CASE Alone("tenancy") /\ TenancyNext
  <2>1. "tenancy" \in Part
    BY DEF Part
  <2>2. QED
    BY <1>5, <2>1, OthersStand
<1>6. CASE Alone("listing") /\ ListingNext
  <2>1. "listing" \in Part
    BY DEF Part
  <2>2. QED
    BY <1>6, <2>1, OthersStand
<1>7. CASE Alone("dashboard") /\ DashboardNext
  <2>1. "dashboard" \in Part
    BY DEF Part
  <2>2. QED
    BY <1>7, <2>1, OthersStand
<1>8. CASE Alone("sending") /\ SendingNext
  <2>1. "sending" \in Part
    BY DEF Part
  <2>2. QED
    BY <1>8, <2>1, OthersStand
<1>9. CASE Alone("templates") /\ TemplatesNext
  <2>1. "templates" \in Part
    BY DEF Part
  <2>2. QED
    BY <1>9, <2>1, OthersStand
<1>10. QED
  BY <1>1, <1>2, <1>3, <1>4, <1>5, <1>6, <1>7, <1>8, <1>9 DEF PlatformNext

(* The whole implements every part: what has been proved of one, by itself, *)
(* holds of it in the whole.                                               *)
THEOREM PartsTheorem ==
    PlatformSpec =>
        /\ Spec /\ RateSpec /\ AuthSpec /\ TenancySpec /\ ListingSpec /\ DashboardSpec
        /\ SendingSpec /\ TemplatesSpec
<1>1. PlatformInit =>
          /\ Init /\ RateInit /\ AuthInit /\ TenancyInit /\ ListingInit /\ DashboardInit
          /\ SendingInit /\ TemplatesInit
  BY DEF PlatformInit
<1>2. [PlatformNext]_platformVars =>
          /\ [Next]_lifecycleVars /\ [RateNext]_rateVars /\ [AuthNext]_authVars
          /\ [TenancyNext]_tenancyVars /\ [ListingNext]_listingVars
          /\ [DashboardNext]_dashboardVars /\ [SendingNext]_sendingVars
          /\ [TemplatesNext]_body
  BY StepsAreOfParts
<1>3. QED
  BY <1>1, <1>2, PTL DEF PlatformSpec, Spec, RateSpec, AuthSpec, TenancySpec, ListingSpec,
                         DashboardSpec, SendingSpec, TemplatesSpec

(* Every variable of every part keeps its type. *)
THEOREM PlatformTypeCorrect == PlatformSpec => []PlatformTypeOK
<1>1. ListingInv => ListingTypeOK
  BY DEF ListingInv
<1>2. LifecycleTypeOK /\ RateTypeOK /\ AuthTypeOK /\ TenancyTypeOK =>
          (ListingTypeOK /\ DashboardTypeOK /\ SendingTypeOK /\ TemplatesTypeOK => PlatformTypeOK)
  BY DEF PlatformTypeOK
<1>3. QED
  BY <1>1, <1>2, PartsTheorem, LifecycleTypes, RateTypeCorrect, AuthTypeCorrect,
     TenancyTypeCorrect, ListingInvariance, DashboardTypeCorrect, SendingTypeCorrect,
     TemplatesTypeCorrect, PTL

(* With all parts in one place each keeps what it keeps by itself, under   *)
(* the assumptions each part states of its constants: nobody overspends but *)
(* by what dropped buckets forgive, answers stand, guesses are bounded,    *)
(* accounts keep their organizations and keys theirs, dead sessions are    *)
(* dead, pages in order and complete, screens true but for a first fetch   *)
(* already answered, no message sent twice unsaid, and delivery as promised.*)
THEOREM PlatformIsSafe ==
    PlatformSpec =>
        /\ [](NeverOverspent /\ AnswersStand /\ GuessesBounded)
        /\ [](NeverTwice /\ WalkReachesAll /\ MutationShown /\ NothingOfBefore)
        /\ [](LedgerIsTruthful /\ NoSilentDuplicate /\ TemplatesSayWhatIsMeant)
        /\ OwnOrganization /\ OverForGood /\ KeysStayInside /\ SendingKeepsContract
BY PartsTheorem, OverspendTheorem, AnswersTheorem, GuessesTheorem, OwnershipTheorem,
   NeverTwiceTheorem, WalkTheorem, MutationTheorem, SignOutTheorem, TruthTheorem,
   DuplicateTheorem, TemplatesTheorem, OverForGoodTheorem, KeysTheorem, SendingContract, PTL
===============================================================================
