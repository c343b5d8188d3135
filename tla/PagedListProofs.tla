--------------------------- MODULE PagedListProofs ---------------------------
(***************************************************************************)
(* Reading a paginated list to its end, for any number of rows, pages and  *)
(* requests under way: nothing is missed in the drawer of the buyer, and   *)
(* nothing is seen twice on either platform while nothing comes in.        *)
(***************************************************************************)
EXTENDS PagedList, FiniteSetTheorems, SequenceTheorems, TLAPS

USE DEF browser

-----------------------------------------------------------------------------
(* Numbers.                                                                *)

LEMMA MinOfTwo ==
    ASSUME NEW a \in Nat, NEW b \in Nat
    PROVE  Min({a, b}) = IF a <= b THEN a ELSE b
BY DEF Min

\* A page more is a limit more.
LEMMA NextOffset ==
    ASSUME NEW p \in Nat \ {0}
    PROVE  /\ Offset(p) \in Nat /\ Offset(p + 1) \in Nat
           /\ Offset(p + 1) = Offset(p) + Limit
           /\ Offset(1) = 0
BY PagedListAssumption, SMTT(30) DEF Offset

\* Who has come to page TotalPages has come to the last row counted.
LEMMA LastPage ==
    ASSUME NEW p \in Nat, NEW n \in Nat, p >= (n + Limit - 1) \div Limit
    PROVE  n <= Offset(p + 1)
<1> DEFINE d == (n + Limit - 1) \div Limit
           m == (n + Limit - 1) % Limit
<1>1. Limit \in Nat /\ Limit >= 1 /\ n + Limit - 1 \in Nat
  BY PagedListAssumption
<1>2. /\ d \in Nat /\ m \in 0..Limit - 1
      /\ n + Limit - 1 = d * Limit + m
  BY <1>1, SMTT(60)
<1>3. d <= p
  OBVIOUS
<1> HIDE DEF d, m
<1>4. d * Limit <= p * Limit
  BY <1>1, <1>2, <1>3, SMTT(60)
<1>5. n <= d * Limit
  <2>1. d * Limit \in Nat
    BY <1>1, <1>2
  <2> QED
    BY <1>1, <1>2, <2>1
<1>6. Offset(p + 1) = p * Limit /\ p * Limit \in Nat /\ d * Limit \in Nat
  BY <1>1, <1>2, SMTT(30) DEF Offset
<1> QED
  BY <1>4, <1>5, <1>6

-----------------------------------------------------------------------------
(* Places.                                                                 *)

\* What the lemmas on places need of a state.
Table == created \in [Rows -> Nat]

LEMMA RowsFinite ==
    /\ IsFiniteSet(Existing) /\ Existing \subseteq Rows
    /\ Cardinality(Existing) \in Nat /\ Cardinality(Rows) \in Nat
    /\ Cardinality(Existing) <= Cardinality(Rows)
<1>1. IsFiniteSet(Rows) /\ Existing \in SUBSET Rows
  BY PagedListAssumption DEF Existing
<1> QED
  BY <1>1, FS_Subset, FS_CardinalityType

\* The rows at least as new as r.
NotOlder(r) == {s \in Existing : created[s] >= created[r]}

LEMMA PlaceRange ==
    ASSUME Table, NEW r \in Existing
    PROVE  /\ Place(r) \in 1..Cardinality(Existing)
           /\ IsFiniteSet(NotOlder(r)) /\ Place(r) = Cardinality(NotOlder(r))
<1>1. NotOlder(r) \in SUBSET Existing /\ r \in NotOlder(r)
  BY DEF NotOlder, Existing, Table
<1>2. /\ IsFiniteSet(NotOlder(r)) /\ Cardinality(NotOlder(r)) \in Nat
      /\ Cardinality(NotOlder(r)) <= Cardinality(Existing)
  BY <1>1, RowsFinite, FS_Subset, FS_CardinalityType
<1>3. Cardinality(NotOlder(r)) # 0
  BY <1>1, <1>2, FS_EmptySet
<1>4. Place(r) = Cardinality(NotOlder(r))
  BY DEF Place, NotOlder
<1> QED
  BY <1>2, <1>3, <1>4, RowsFinite

\* The newer row has the lower place.
LEMMA PlaceOrder ==
    ASSUME Table, NEW r \in Existing, NEW s \in Existing, Place(r) < Place(s)
    PROVE  created[r] >= created[s]
<1> SUFFICES ASSUME created[s] > created[r] PROVE FALSE
  BY DEF Table, Existing
<1>1. NotOlder(s) \in SUBSET NotOlder(r)
  BY DEF NotOlder, Table, Existing
<1>2. Place(s) <= Place(r)
  BY <1>1, PlaceRange, FS_Subset
<1> QED
  BY <1>2, PlaceRange

\* No two rows have one place.
LEMMA PlaceUnique ==
    ASSUME Table, Distinct, NEW r \in Existing, NEW s \in Existing, Place(r) = Place(s)
    PROVE  r = s
<1>1. created[r] \in Nat /\ created[s] \in Nat
  BY DEF Table, Existing
<1>2. ASSUME NEW a \in Existing, NEW b \in Existing, Place(a) = Place(b),
             created[a] <= created[b], created[a] \in Nat, created[b] \in Nat
      PROVE  created[a] = created[b]
  <2>1. NotOlder(b) \in SUBSET NotOlder(a)
    BY <1>2 DEF NotOlder, Table, Existing
  <2>2. NotOlder(a) = NotOlder(b)
    BY <1>2, <2>1, PlaceRange, FS_Subset
  <2>3. a \in NotOlder(a)
    BY <1>2 DEF NotOlder
  <2> QED
    BY <1>2, <2>2, <2>3 DEF NotOlder
<1>3. created[r] = created[s]
  BY <1>1, <1>2
<1> QED
  BY <1>3 DEF Distinct

-----------------------------------------------------------------------------
(* What the queries return.                                                *)

\* A listing has every row once.
LEMMA ListingType ==
    ASSUME Table, NEW s \in NewestFirst(Existing)
    PROVE  /\ s \in Seq(Existing) /\ Len(s) = Cardinality(Existing)
           /\ s \in Injection(1..Cardinality(Existing), Existing)
           /\ \A r \in Existing : \E i \in 1..Cardinality(Existing) : s[i] = r
           /\ \A i, j \in 1..Cardinality(Existing) : i < j => created[s[i]] >= created[s[j]]
<1> DEFINE n == Cardinality(Existing)
<1>1. n \in Nat /\ IsFiniteSet(Existing)
  BY RowsFinite
<1>2. /\ s \in [1..n -> Existing] /\ \A i, j \in 1..n : i # j => s[i] # s[j]
      /\ \A i, j \in DOMAIN s : i < j => created[s[i]] >= created[s[j]]
  BY DEF NewestFirst, SetToSeqs
<1> HIDE DEF n
<1>3. s \in Seq(Existing)
  BY <1>1, <1>2, SeqDef
<1>4. Len(s) = n
  <2>1. Len(s) \in Nat /\ 1..Len(s) = 1..n
    BY <1>2, <1>3, LenProperties
  <2> QED
    BY <1>1, <2>1
<1>5. s \in Injection(1..n, Existing)
  BY <1>2 DEF Injection, IsInjective
<1>6. s \in Surjection(1..n, Existing)
  <2>1. IsFiniteSet(1..n) /\ Cardinality(1..n) = n
    BY <1>1, FS_Interval
  <2> QED
    BY <1>1, <1>5, <2>1, FS_Injection DEF n
<1> QED
  BY <1>2, <1>3, <1>4, <1>5, <1>6 DEF n, Surjection

\* Rows are listed in the order of their places.
LEMMA ListingPlaces ==
    ASSUME Table, Distinct, NEW s \in NewestFirst(Existing), NEW i \in 1..Cardinality(Existing)
    PROVE  s[i] \in Existing /\ Place(s[i]) = i
<1> DEFINE n == Cardinality(Existing)
           T == {s[j] : j \in 1..i}
<1>1. /\ n \in Nat /\ s \in [1..n -> Existing]
      /\ \A j, k \in 1..n : s[j] = s[k] => j = k
      /\ \A r \in Existing : \E j \in 1..n : s[j] = r
      /\ \A j, k \in 1..n : j < k => created[s[j]] >= created[s[k]]
  BY RowsFinite, ListingType DEF Injection, IsInjective
<1>2. i \in 1..n /\ \A r \in Existing : created[r] \in Nat
  BY DEF Table, Existing
<1> HIDE DEF n
<1>3. NotOlder(s[i]) = T
  <2>1. ASSUME NEW j \in 1..i PROVE s[j] \in NotOlder(s[i])
    <3>1. CASE j = i
      BY <1>1, <1>2, <3>1 DEF NotOlder
    <3>2. CASE j < i
      BY <1>1, <1>2, <3>2 DEF NotOlder
    <3> QED
      BY <1>2, <3>1, <3>2
  <2>2. ASSUME NEW r \in NotOlder(s[i]) PROVE r \in T
    <3>1. r \in Existing /\ created[r] >= created[s[i]]
      BY <2>2 DEF NotOlder
    <3>2. PICK k \in 1..n : s[k] = r
      BY <1>1, <3>1
    <3>3. CASE k <= i
      BY <1>2, <3>2, <3>3
    <3>4. CASE k > i
      <4>1. created[s[i]] >= created[s[k]] /\ s[i] \in Existing /\ s[k] \in Existing
        BY <1>1, <1>2, <3>2, <3>4
      <4>2. created[s[i]] = created[s[k]]
        BY <1>2, <3>1, <3>2, <4>1
      <4>3. s[i] = s[k]
        BY <4>1, <4>2 DEF Distinct
      <4> QED
        BY <1>1, <1>2, <3>2, <3>4, <4>3
    <3> QED
      BY <1>2, <3>2, <3>3, <3>4
  <2> QED
    BY <2>1, <2>2
<1>4. Cardinality(T) = i
  <2> DEFINE f == [j \in 1..i |-> s[j]]
  <2>1. f \in Bijection(1..i, T)
    <3>1. f \in [1..i -> T]
      OBVIOUS
    <3>2. \A j, k \in 1..i : f[j] = f[k] => j = k
      BY <1>1, <1>2
    <3>3. \A t \in T : \E j \in 1..i : f[j] = t
      OBVIOUS
    <3> QED
      BY <3>1, <3>2, <3>3 DEF Bijection, Injection, Surjection, IsInjective
  <2>2. ExistsBijection(1..i, T) /\ i \in Nat
    <3> HIDE DEF f, T
    <3> QED
      BY <1>1, <1>2, <2>1 DEF ExistsBijection
  <2> QED
    BY <2>2, FS_CountingElements
<1>5. s[i] \in Existing
  BY <1>1, <1>2
<1> QED
  BY <1>3, <1>4, <1>5, PlaceRange

\* A page is the window of the listing that its number says.
LEMMA PageWindow ==
    ASSUME Table, NEW p \in Nat \ {0}, NEW s \in ListPage(p)
    PROVE  /\ s \in Seq(Existing) /\ s \in Seq(Rows)
           /\ Len(s) <= Limit /\ Len(s) <= Cardinality(Existing)
           /\ Distinct => Window(s, Offset(p), Offset(p + 1))
<1> DEFINE n == Cardinality(Existing)
           a == Offset(p)
           b == Offset(p + 1)
<1>1. /\ n \in Nat /\ a \in Nat /\ b \in Nat /\ b = a + Limit
      /\ Limit \in Nat \ {0} /\ Existing \subseteq Rows
  BY RowsFinite, NextOffset, PagedListAssumption
<1>2. PICK t \in NewestFirst(Existing) : s = SubSeq(t, Offset(p) + 1, Min({Offset(p) + Limit, Len(t)}))
  BY DEF ListPage
<1>3. t \in Seq(Existing) /\ Len(t) = n
  BY ListingType
<1> HIDE DEF n, a, b
<1>4. s = SubSeq(t, a + 1, Min({b, n}))
  BY <1>1, <1>2, <1>3 DEF a
<1>5. /\ Min({b, n}) = IF b <= n THEN b ELSE n
      /\ Min({a, n}) = IF a <= n THEN a ELSE n
  BY <1>1, MinOfTwo
<1>6. /\ s \in Seq(Existing)
      /\ Len(s) = IF a + 1 <= Min({b, n}) THEN Min({b, n}) - a ELSE 0
      /\ \A i \in 1..Min({b, n}) - a : s[i] = t[a + i]
  <2> DEFINE m == Min({b, n})
  <2>1. \A i \in a + 1..m : t[i] \in Existing
    BY <1>1, <1>3, <1>5, LenProperties
  <2>2. m \in Int /\ a + 1 \in Int
    BY <1>1, <1>5
  <2> HIDE DEF m
  <2>3. /\ SubSeq(t, a + 1, m) \in Seq(Existing)
        /\ Len(SubSeq(t, a + 1, m)) = IF a + 1 <= m THEN m - (a + 1) + 1 ELSE 0
        /\ \A i \in 1..m - (a + 1) + 1 : SubSeq(t, a + 1, m)[i] = t[(a + 1) + i - 1]
    BY <2>1, <2>2, SubSeqProperties
  <2>4. s = SubSeq(t, a + 1, m)
    BY <1>4 DEF m
  <2>5. \A i \in 1..m - a : s[i] = t[a + i]
    <3>1. ASSUME NEW i \in 1..m - a PROVE s[i] = t[a + i]
      <4>1. i \in 1..m - (a + 1) + 1 /\ (a + 1) + i - 1 = a + i
        BY <1>1, <2>2, <3>1
      <4>2. SubSeq(t, a + 1, m)[i] = t[(a + 1) + i - 1]
        BY <2>3, <4>1
      <4> QED
        BY <2>4, <4>1, <4>2
    <3> QED
      BY <3>1
  <2>6. Len(s) = IF a + 1 <= m THEN m - a ELSE 0
    BY <1>1, <2>2, <2>3, <2>4
  <2> QED
    BY <2>3, <2>4, <2>5, <2>6 DEF m
<1>7. s \in Seq(Rows)
  BY <1>1, <1>6, SeqMonotonic
<1>8. Len(s) <= Limit /\ Len(s) <= n /\ Len(s) = Min({b, n}) - Min({a, n})
  BY <1>1, <1>5, <1>6
<1>9. ASSUME Distinct, NEW i \in DOMAIN s
      PROVE  s[i] \in Existing /\ Place(s[i]) = a + i
  <2>1. i \in 1..Len(s)
    BY <1>6, LenProperties
  <2>2. i \in 1..Min({b, n}) - a /\ a + i \in 1..n
    BY <1>1, <1>5, <1>6, <2>1
  <2> QED
    BY <1>6, <1>9, <2>2, ListingPlaces DEF n
<1> QED
  BY <1>6, <1>7, <1>8, <1>9 DEF Window, n, a, b

\* Who has a window has every row of it.
LEMMA WindowFull ==
    ASSUME Table, Distinct, NEW a \in Nat, NEW b \in Nat, a <= b,
           NEW s \in Seq(Rows), Window(s, a, b),
           NEW r \in Existing, Place(r) > a, Place(r) <= b
    PROVE  r \in ToSet(s)
<1> DEFINE n == Cardinality(Existing)
           i == Place(r) - a
<1>1. n \in Nat /\ Place(r) \in 1..n
  BY RowsFinite, PlaceRange
<1>2. /\ Min({b, n}) = IF b <= n THEN b ELSE n
      /\ Min({a, n}) = IF a <= n THEN a ELSE n
  BY <1>1, MinOfTwo
<1>3. Len(s) = Min({b, n}) - Min({a, n})
  BY DEF Window
<1> HIDE DEF n
<1>4. i \in 1..Len(s) /\ Place(r) = a + i
  BY <1>1, <1>2, <1>3
<1>5. i \in DOMAIN s
  BY <1>4, LenProperties
<1>6. s[i] \in Existing /\ Place(s[i]) = Place(r)
  BY <1>4, <1>5 DEF Window
<1>7. s[i] = r
  BY <1>6, PlaceUnique
<1> QED
  BY <1>5, <1>7 DEF ToSet

\* One window after the other.
LEMMA WindowsAdjoin ==
    ASSUME Table, NEW a \in Nat, NEW b \in Nat, a <= b,
           NEW s \in Seq(Rows), NEW t \in Seq(Rows), Window(s, 0, a), Window(t, a, b)
    PROVE  Window(s \o t, 0, b)
<1> DEFINE n == Cardinality(Existing)
<1>1. n \in Nat
  BY RowsFinite
<1>2. /\ Min({b, n}) = IF b <= n THEN b ELSE n
      /\ Min({a, n}) = IF a <= n THEN a ELSE n
      /\ Min({0, n}) = 0
  BY <1>1, MinOfTwo
<1>3. Len(s) = Min({a, n}) - Min({0, n}) /\ Len(t) = Min({b, n}) - Min({a, n})
  BY DEF Window
<1>4. /\ s \o t \in Seq(Rows) /\ Len(s \o t) = Len(s) + Len(t)
      /\ \A i \in 1..Len(s) + Len(t) :
            (s \o t)[i] = IF i <= Len(s) THEN s[i] ELSE t[i - Len(s)]
      /\ Len(s) \in Nat /\ Len(t) \in Nat
      /\ DOMAIN s = 1..Len(s) /\ DOMAIN t = 1..Len(t) /\ DOMAIN (s \o t) = 1..Len(s \o t)
  BY ConcatProperties, LenProperties
<1> HIDE DEF n
<1>5. Len(s \o t) = Min({b, n}) - Min({0, n})
  BY <1>1, <1>2, <1>3, <1>4
<1>6. ASSUME NEW i \in DOMAIN (s \o t)
      PROVE  (s \o t)[i] \in Existing /\ Place((s \o t)[i]) = 0 + i
  <2>1. i \in 1..Len(s) + Len(t)
    BY <1>4
  <2>2. CASE i <= Len(s)
    <3>1. i \in DOMAIN s /\ (s \o t)[i] = s[i]
      BY <1>4, <2>1, <2>2
    <3> QED
      BY <3>1 DEF Window
  <2>3. CASE i > Len(s)
    <3>1. i - Len(s) \in DOMAIN t /\ (s \o t)[i] = t[i - Len(s)]
      BY <1>4, <2>1, <2>3
    <3>2. Len(s) = a
      BY <1>1, <1>2, <1>3, <1>4, <2>1, <2>3
    <3>3. Place(t[i - Len(s)]) = a + (i - Len(s)) /\ t[i - Len(s)] \in Existing
      BY <3>1 DEF Window
    <3> QED
      BY <1>4, <2>1, <3>1, <3>2, <3>3
  <2> QED
    BY <1>4, <2>1, <2>2, <2>3
<1> QED
  BY <1>5, <1>6 DEF Window, n

LEMMA ConcatElements ==
    ASSUME NEW s \in Seq(Rows), NEW t \in Seq(Rows)
    PROVE  ToSet(s \o t) = ToSet(s) \cup ToSet(t)
<1>1. Range(s \o t) = Range(s) \cup Range(t)
  BY RangeConcatenation
<1> QED
  BY <1>1 DEF ToSet, Range

-----------------------------------------------------------------------------
(* What a step leaves as it was.                                           *)

\* The rows a step finds, and those it leaves.
Grows ==
    /\ platform' = platform /\ clock' \in Nat /\ clock <= clock'
    /\ created' \in [Rows -> 0..clock']
    /\ Existing \subseteq Existing'
    /\ Distinct' => Distinct
    /\ \A r \in Existing : Place(r)' >= Place(r)
    /\ clock' = clock => created' = created

LEMMA InvTable == PagesInv => Table /\ clock \in Nat /\ turns \in Nat
BY RowsFinite, PagedListAssumption DEF PagesInv, TypeOK, Table

\* Nothing changes in a list no row comes into.
LEMMA SameRows ==
    ASSUME created' = created
    PROVE  /\ Existing' = Existing /\ (Distinct' <=> Distinct)
           /\ \A r : Place(r)' = Place(r)
           /\ \A s, a, b : Window(s, a, b)' <=> Window(s, a, b)
<1>1. Existing' = Existing /\ (Distinct' <=> Distinct)
  BY DEF Existing, Distinct
<1>2. ASSUME NEW r PROVE Place(r)' = Place(r)
  BY <1>1 DEF Place
<1>3. ASSUME NEW s, NEW a, NEW b PROVE Window(s, a, b)' <=> Window(s, a, b)
  BY <1>1, <1>2 DEF Window
<1> QED
  BY <1>1, <1>2, <1>3

LEMMA QuietGrows ==
    ASSUME PagesInv, UNCHANGED <<platform, created, clock>>
    PROVE  Grows
<1>1. created \in [Rows -> 0..clock] /\ clock \in Nat
  BY InvTable DEF PagesInv, TypeOK
<1>2. \A r \in Existing : Place(r) \in Nat
  BY InvTable, PlaceRange, RowsFinite
<1> QED
  BY <1>1, <1>2, SameRows DEF Grows

\* New rows come before the old ones.
LEMMA InsertGrows ==
    ASSUME PagesInv, Insert
    PROVE  Grows /\ clock' = clock + 1 /\ clock' <= Cardinality(Existing')
<1>1. PICK R \in SUBSET (Rows \ Existing) :
         R # {} /\ created' = [r \in Rows |-> IF r \in R THEN clock + 1 ELSE created[r]]
  BY DEF Insert
<1>2. /\ clock' = clock + 1 /\ platform' = platform /\ clock \in Nat
      /\ created \in [Rows -> 0..clock] /\ Table
      /\ clock <= Cardinality(Existing)
  BY InvTable DEF Insert, PagesInv, TypeOK
<1>3. created' \in [Rows -> 0..clock']
  BY <1>1, <1>2
<1>4. Existing \subseteq Existing' /\ R \subseteq Existing' /\ R \cap Existing = {}
  BY <1>1, <1>2 DEF Existing
<1>5. \A r \in Existing : created'[r] = created[r]
  BY <1>1, <1>2 DEF Existing
<1>6. Distinct' => Distinct
  BY <1>4, <1>5 DEF Distinct
<1>7. IsFiniteSet(Existing')
  <2>1. Existing' \in SUBSET Rows
    BY DEF Existing
  <2> QED
    BY <2>1, PagedListAssumption, FS_Subset
<1>8. ASSUME NEW r \in Existing PROVE Place(r)' >= Place(r)
  <2> DEFINE new == {s \in Existing' : created'[s] >= created'[r]}
  <2>1. NotOlder(r) \in SUBSET new /\ new \in SUBSET Existing'
    BY <1>2, <1>4, <1>5 DEF NotOlder
  <2>2. IsFiniteSet(new)
    BY <1>7, <2>1, FS_Subset
  <2>3. Cardinality(NotOlder(r)) <= Cardinality(new)
    BY <2>1, <2>2, FS_Subset
  <2>4. Place(r)' = Cardinality(new)
    BY DEF Place
  <2> QED
    BY <1>2, <2>3, <2>4, PlaceRange
<1>9. clock' <= Cardinality(Existing')
  <2>1. PICK x : x \in R
    BY <1>1
  <2>2. x \notin Existing /\ Existing \cup {x} \in SUBSET Existing'
    BY <1>4, <2>1
  <2>3. Cardinality(Existing \cup {x}) = Cardinality(Existing) + 1
    BY <2>2, RowsFinite, FS_AddElement
  <2>4. Cardinality(Existing \cup {x}) <= Cardinality(Existing')
    BY <1>7, <2>2, FS_Subset
  <2>5. Cardinality(Existing') \in Nat
    BY <1>7, FS_CardinalityType
  <2> QED
    BY <1>2, <2>3, <2>4, <2>5, RowsFinite
<1> QED
  BY <1>2, <1>3, <1>4, <1>6, <1>8, <1>9 DEF Grows

LEMMA PlacesGrow ==
    ASSUME Table, Grows, NEW r \in Existing
    PROVE  /\ r \in Existing' /\ Place(r) \in Nat /\ Place(r)' \in Nat
           /\ Place(r)' >= Place(r)
<1>1. r \in Existing' /\ Place(r)' >= Place(r)
  BY DEF Grows
<1>2. Place(r) \in Nat
  BY PlaceRange, RowsFinite
<1>3. {s \in Existing' : created'[s] >= created'[r]} \in SUBSET Rows
  BY DEF Existing
<1>4. Place(r)' \in Nat
  BY <1>3, PagedListAssumption, FS_Subset, FS_CardinalityType DEF Place
<1> QED
  BY <1>1, <1>2, <1>4

\* What is beyond the page of a request stays there.
LEMMA BeyondStays ==
    ASSUME Table, Grows, NEW q \in Load, NEW R \in SUBSET Existing, NEW read,
           BeyondPage(q, R, read)
    PROVE  BeyondPage(q, R, read)'
<1>1. /\ Listed(q)' <=> Listed(q)
      /\ Counted(q)' <=> Counted(q)
  BY DEF Grows, Listed, Counted
<1>2. q.page \in Nat \ {0} /\ q.page + 1 \in Nat \ {0}
  BY DEF Load
<1>3. Offset(q.page + 1) \in Nat
  BY <1>2, NextOffset
<1> SUFFICES ASSUME NEW r \in R \ read
             PROVE  /\ Listed(q)' => Place(r)' > Offset(q.page + 1)
                    /\ Counted(q)' /\ ~q.cut => q.total > Offset(q.page + 1)
  BY DEF BeyondPage
<1>4. /\ Listed(q) => Place(r) > Offset(q.page + 1)
      /\ Counted(q) /\ ~q.cut => q.total > Offset(q.page + 1)
  BY DEF BeyondPage
<1>5. Place(r) \in Nat /\ Place(r)' \in Nat /\ Place(r)' >= Place(r)
  BY PlacesGrow
<1> QED
  BY <1>1, <1>3, <1>4, <1>5

\* A request that is not served does not notice; nor that another one was shown.
LEMMA StillLoading ==
    ASSUME PagesInv, Grows, NEW q \in Load, Loading(q),
           turns' \in Nat, turns <= turns',
           \/ walk' = walk
           \/ walk'.upto > 0 => walk'.at = turns
    PROVE  Loading(q)'
<1>1. clock \in Nat /\ turns \in Nat /\ Table /\ walk \in Walk /\ walk.start \subseteq Existing
  BY InvTable DEF PagesInv
<1>2. /\ q.asked \subseteq Existing' /\ q.since <= clock' /\ q.nr < turns'
  BY <1>1 DEF Loading, Grows, Load
<1>3. ASSUME walk'.upto > 0, q.nr >= walk'.at PROVE walk' = walk
  BY <1>1, <1>3 DEF Loading, Load
<1>4. walk'.upto > 0 /\ q.nr >= walk'.at => q.since >= walk'.since
  BY <1>1, <1>3 DEF Loading
<1>5. /\ Listed(q)' <=> Listed(q)
      /\ Counted(q)' <=> Counted(q)
  BY DEF Grows, Listed, Counted
<1>6. ASSUME q.since = clock', Distinct'
      PROVE  /\ Listed(q)' => Window(q.items, Offset(q.page), Offset(q.page + 1))'
             /\ Counted(q)' /\ ~q.cut => q.total = Cardinality(Existing')
  <2>1. clock' = clock /\ created' = created
    BY <1>1, <1>6 DEF Grows, Loading, Load
  <2>2. /\ Existing' = Existing /\ Distinct /\ q.since = clock
        /\ Window(q.items, Offset(q.page), Offset(q.page + 1))'
              <=> Window(q.items, Offset(q.page), Offset(q.page + 1))
    BY <1>6, <2>1, SameRows
  <2>3. /\ Listed(q) => Window(q.items, Offset(q.page), Offset(q.page + 1))
        /\ Counted(q) /\ ~q.cut => q.total = Cardinality(Existing)
    BY <1>1, <2>2 DEF Loading
  <2> QED
    BY <1>5, <2>2, <2>3
<1>7. ASSUME platform' = "BAP", Distinct'
      PROVE  /\ q.page = 1 => BeyondPage(q, q.asked, ToSet(q.items))'
             /\ Follows(q)' => BeyondPage(q, walk.start, ToSet(walk.seen) \cup ToSet(q.items))'
  <2>1. platform = "BAP" /\ Distinct
    BY <1>7 DEF Grows
  <2>2. ASSUME q.page = 1 PROVE BeyondPage(q, q.asked, ToSet(q.items))'
    <3>1. BeyondPage(q, q.asked, ToSet(q.items)) /\ q.asked \in SUBSET Existing
      BY <2>1, <2>2 DEF Loading
    <3> QED
      BY <1>1, <3>1, BeyondStays
  <2>3. ASSUME Follows(q)'
        PROVE  BeyondPage(q, walk.start, ToSet(walk.seen) \cup ToSet(q.items))'
    <3>1. PICK w \in Walk : w = walk
      BY <1>1
    <3>2. walk' = w
      BY <1>3, <2>3, <3>1 DEF Follows
    <3>3. Follows(q)
      BY <2>3, <3>1, <3>2 DEF Follows
    <3>4. BeyondPage(q, w.start, ToSet(w.seen) \cup ToSet(q.items)) /\ w.start \in SUBSET Existing
      BY <1>1, <2>1, <3>1, <3>3 DEF Loading
    <3>5. BeyondPage(q, w.start, ToSet(w.seen) \cup ToSet(q.items))'
      BY <1>1, <3>4, BeyondStays
    <3> QED
      BY <3>2, <3>5
  <2> QED
    BY <2>2, <2>3
<1> QED
  BY <1>2, <1>4, <1>6, <1>7 DEF Loading

\* Nor does the reader, until the next answer.
LEMMA StillWalking ==
    ASSUME PagesInv, Grows, walk.upto > 0, data' = data, walk' = walk
    PROVE  Walking'
<1>1. /\ Walking /\ Table /\ clock \in Nat /\ walk.since <= clock
      /\ walk.start \subseteq Existing
  BY InvTable DEF PagesInv
<1> PICK w \in Walk, d \in Data : w = walk /\ d = data
  BY DEF PagesInv
<1>2. Offset(w.upto + 1) \in Nat
  <2>1. w.upto + 1 \in Nat \ {0}
    BY DEF Walk
  <2> QED
    BY <2>1, NextOffset
<1>3. ASSUME w.since = clock', Distinct'
      PROVE  /\ Window(w.seen, 0, Offset(w.upto + 1))'
             /\ ~d.cut => d.total = Cardinality(Existing')
  <2>1. clock' = clock /\ created' = created
    BY <1>1, <1>3 DEF Grows, Walk
  <2>2. /\ Existing' = Existing /\ Distinct
        /\ Window(w.seen, 0, Offset(w.upto + 1))' <=> Window(w.seen, 0, Offset(w.upto + 1))
    BY <1>3, <2>1, SameRows
  <2> QED
    BY <1>1, <1>3, <2>1, <2>2 DEF Walking
<1>4. ASSUME platform' = "BAP", Distinct', NEW r \in w.start \ ToSet(w.seen)
      PROVE  /\ Place(r)' > Offset(w.upto + 1)
             /\ ~d.cut => d.total > Offset(w.upto + 1)
  <2>1. /\ Place(r) > Offset(w.upto + 1)
        /\ ~d.cut => d.total > Offset(w.upto + 1)
    BY <1>1, <1>4 DEF Walking, Grows
  <2>2. Place(r) \in Nat /\ Place(r)' \in Nat /\ Place(r)' >= Place(r)
    BY <1>1, <1>4, PlacesGrow
  <2> QED
    BY <1>2, <2>1, <2>2
<1> QED
  BY <1>1, <1>3, <1>4 DEF Walking

-----------------------------------------------------------------------------
(* The steps.                                                              *)

LEMMA ShortSequence ==
    ASSUME NEW s \in Seq(Rows), Len(s) <= Limit
    PROVE  s \in RowSeq
<1>1. Len(s) \in 0..Limit /\ s \in [1..Len(s) -> Rows]
  BY PagedListAssumption, LenProperties
<1> QED
  BY <1>1 DEF RowSeq, SeqOf

LEMMA IdleType ==
    /\ Idle \in Load /\ Idle.pc = "idle" /\ Idle.page = 1
    /\ Idle.items \in RowSeq /\ Len(Idle.items) = 0
<1>1. <<>> \in Seq(Rows) /\ Len(<<>>) = 0
  BY EmptySeq
<1>2. /\ {} \in SUBSET Rows /\ 0 \in 0..Cardinality(Rows) /\ FALSE \in BOOLEAN
      /\ 1 \in Nat \ {0} /\ 0 \in Nat
  BY RowsFinite
<1>3. Idle \in Load
  BY <1>1, <1>2, ZenonT(30) DEF Idle, Load
<1>4. /\ Idle.pc = "idle" /\ Idle.page = 1 /\ Idle.items = <<>>
  BY DEF Idle
<1>5. <<>> \in RowSeq
  <2>1. Len(<<>>) <= Limit
    BY <1>1, PagedListAssumption
  <2> QED
    BY <1>1, <2>1, ShortSequence
<1> QED
  BY <1>1, <1>3, <1>4, <1>5

\* The part of the invariant about request l.
Request(l) ==
    /\ load[l].pc \in {"idle", "count", "list", "answer", "error"}
    /\ load[l].page \in Nat \ {0} /\ load[l].items \in RowSeq
    /\ load[l].page <= turns + 1
    /\ Len(load[l].items) <= Cardinality(Rows)
    /\ load[l].pc # "idle" => Loading(load[l])

LEMMA EachRequest ==
    ASSUME PagesInv, Grows, turns' \in Nat, turns <= turns',
           \/ walk' = walk
           \/ walk'.upto > 0 => walk'.at = turns,
           load' \in [Loads -> Load], NEW l \in Loads,
           load'[l] # load[l] =>
              /\ load'[l].items \in RowSeq /\ Len(load'[l].items) <= Cardinality(Rows)
              /\ load'[l].page <= turns' + 1
              /\ \A q \in Load : q = load'[l] /\ q.pc # "idle" => Loading(q)'
    PROVE  Request(l)'
<1> PICK q \in Load : q = load'[l]
  OBVIOUS
<1>1. /\ q.pc \in {"idle", "count", "list", "answer", "error"}
      /\ q.page \in Nat \ {0} /\ turns \in Nat
  BY InvTable DEF Load
<1>2. /\ q.items \in RowSeq /\ Len(q.items) <= Cardinality(Rows)
      /\ q.page <= turns' + 1
  <2>1. CASE load'[l] = load[l]
    BY <1>1, <2>1 DEF PagesInv, TypeOK
  <2>2. CASE load'[l] # load[l]
    BY <2>2
  <2> QED
    BY <2>1, <2>2
<1>3. ASSUME q.pc # "idle" PROVE Loading(q)'
  <2>1. CASE load'[l] = load[l]
    <3>1. Loading(q)
      BY <1>3, <2>1 DEF PagesInv
    <3> QED
      BY <3>1, StillLoading
  <2>2. CASE load'[l] # load[l]
    BY <1>3, <2>2
  <2> QED
    BY <2>1, <2>2
<1>4. q.pc # "idle" => Loading(load[l])'
  BY <1>3 DEF Loading, Listed, Counted, Follows, BeyondPage
<1> QED
  BY <1>1, <1>2, <1>4 DEF Request

LEMMA InsertKeeps == PagesInv /\ Insert => PagesInv'
<1> SUFFICES ASSUME PagesInv, Insert PROVE PagesInv'
  OBVIOUS
<1>1. Grows /\ clock' = clock + 1 /\ clock' <= Cardinality(Existing')
  BY InsertGrows
<1>2. UNCHANGED <<platform, load, page, data, turns, walk>>
  BY DEF Insert
<1>3. clock \in Nat /\ turns \in Nat
  BY InvTable
<1>4. \A l \in Loads : Request(l)'
  BY <1>1, <1>2, <1>3, EachRequest DEF PagesInv
<1>5. walk.upto > 0 => Walking'
  BY <1>1, <1>2, StillWalking
<1>6. Cardinality(Existing') <= Cardinality(Rows) /\ Cardinality(Existing') \in Nat
  <2>1. Existing' \in SUBSET Rows
    BY DEF Existing
  <2> QED
    BY <2>1, PagedListAssumption, FS_Subset, FS_CardinalityType
<1>7. clock' \in 0..Cardinality(Rows)
  BY <1>1, <1>3, <1>6, RowsFinite
<1>8. walk.start \subseteq Existing' /\ walk.since <= clock'
  BY <1>1, <1>3 DEF PagesInv, Grows, Walk
<1>9. TypeOK'
  BY <1>1, <1>2, <1>4, <1>7 DEF PagesInv, TypeOK, Grows, Request
<1> QED
  BY <1>1, <1>2, <1>4, <1>5, <1>8, <1>9 DEF PagesInv, Request

\* What the globals keep when no row comes in.
LEMMA QuietKeeps ==
    ASSUME PagesInv, UNCHANGED <<platform, created, clock>>,
           load' \in [Loads -> Load], \A l \in Loads : Request(l)',
           page' \in Nat \ {0}, page' <= turns' + 1, turns' \in 0..MaxTurns,
           data' \in Data, data'.items \in RowSeq, walk' \in Walk,
           platform = "BAP" /\ data'.page # 0 => data'.page = page',
           walk'.start \subseteq Existing, walk'.since <= clock, walk'.at <= turns',
           walk'.upto > 0 => Walking'
    PROVE  PagesInv'
<1>1. /\ platform' \in Platforms /\ created' \in [Rows -> 0..clock']
      /\ clock' \in 0..Cardinality(Rows) /\ clock' <= Cardinality(Existing)
  BY DEF PagesInv, TypeOK
<1>2. Existing' = Existing
  BY SameRows
<1>3. page' \in 1..MaxTurns + 1
  <2>1. turns' \in Nat /\ turns' <= MaxTurns /\ MaxTurns \in Nat
    BY PagedListAssumption
  <2>2. ASSUME NEW x \in Nat \ {0}, NEW y \in Nat, NEW z \in Nat, x <= y + 1, y <= z
        PROVE  x \in 1..z + 1
    BY <2>2
  <2> QED
    BY <2>1, <2>2
<1>4. data'.total \in 0..Cardinality(Rows)
  BY DEF Data
<1>5. TypeOK'
  BY <1>1, <1>3, <1>4 DEF TypeOK, Request
<1> QED
  BY <1>1, <1>2, <1>5 DEF PagesInv, Request

LEMMA TurnKeeps == ASSUME NEW l \in Loads, PagesInv, Turn(l) PROVE PagesInv'
<1>1. PICK p \in Reachable :
         /\ load' = [load EXCEPT ![l] = [Idle EXCEPT !.pc = FirstStatement, !.page = p,
                                                     !.asked = Existing, !.since = clock,
                                                     !.nr = turns]]
         /\ page' = IF platform = "BPP" THEN p ELSE page
  BY DEF Turn
<1>2. /\ UNCHANGED <<platform, created, clock, data, walk>> /\ turns' = turns + 1
      /\ turns < MaxTurns
  BY DEF Turn
<1>3. /\ Grows /\ clock \in Nat /\ turns \in Nat /\ turns' \in 0..MaxTurns
      /\ page \in Nat \ {0} /\ page <= turns + 1 /\ walk.at <= turns /\ walk.since <= clock
      /\ walk \in Walk
  <2>1. /\ turns \in 0..MaxTurns /\ page \in 1..MaxTurns + 1
    BY DEF PagesInv, TypeOK
  <2> QED
    BY <1>2, <2>1, InvTable, QuietGrows, PagedListAssumption DEF PagesInv
<1>4. p \in Nat \ {0} /\ p <= turns' + 1
  BY <1>2, <1>3 DEF Reachable
<1> DEFINE new == [Idle EXCEPT !.pc = FirstStatement, !.page = p, !.asked = Existing,
                               !.since = clock, !.nr = turns]
<1> PICK q : q = new
  OBVIOUS
<1>5. /\ q.pc = FirstStatement /\ q.page = p /\ q.asked = Existing /\ q.since = clock
      /\ q.nr = turns /\ q.items = Idle.items
  BY DEF Idle
<1>6. q \in Load
  <2>1. Idle \in Load /\ FirstStatement \in {"count", "list"} /\ Existing \in SUBSET Rows
    BY IdleType, RowsFinite DEF FirstStatement
  <2> QED
    BY <1>3, <1>4, <2>1 DEF Load
<1>7. Loading(q)'
  <2>1. Existing' = Existing /\ turns < turns' /\ walk.since <= clock
    BY <1>2, <1>3, SameRows
  <2>2. ~Listed(q)' /\ ~Counted(q)'
    BY <1>2, <1>5 DEF Listed, Counted, FirstStatement
  <2>3. /\ q.asked \subseteq Existing' /\ q.since <= clock' /\ q.nr < turns'
        /\ q.since >= walk'.since
    BY <1>2, <1>3, <1>5, <2>1 DEF Walk
  <2> QED
    BY <2>2, <2>3 DEF Loading, BeyondPage
<1>8. load' \in [Loads -> Load] /\ load' = [load EXCEPT ![l] = q]
  BY <1>1, <1>6 DEF PagesInv
<1>9. \A k \in Loads : Request(k)'
  <2>1. ASSUME NEW k \in Loads, load'[k] # load[k] PROVE load'[k] = q
    BY <1>8, <2>1 DEF PagesInv
  <2>2. /\ q.items \in RowSeq /\ Len(q.items) <= Cardinality(Rows)
        /\ q.page <= turns' + 1
    BY <1>4, <1>5, IdleType, RowsFinite
  <2> QED
    BY <1>2, <1>3, <1>7, <1>8, <2>1, <2>2, EachRequest
<1>10. walk.upto > 0 => Walking'
  BY <1>2, <1>3, StillWalking
<1>11. page' \in Nat \ {0} /\ page' <= turns' + 1
  BY <1>1, <1>2, <1>3, <1>4
<1>12. platform = "BAP" /\ data'.page # 0 => data'.page = page'
  BY <1>1, <1>2 DEF PagesInv
<1>13. /\ data' \in Data /\ data'.items \in RowSeq /\ walk' \in Walk
       /\ walk'.start \subseteq Existing /\ walk'.since <= clock /\ walk'.at <= turns'
  BY <1>2, <1>3 DEF PagesInv, TypeOK, Walk
<1> QED
  BY <1>2, <1>3, <1>8, <1>9, <1>10, <1>11, <1>12, <1>13, QuietKeeps

\* A statement of the handler is about one request.
LEMMA HandlerKeeps ==
    ASSUME PagesInv, NEW l \in Loads, NEW q \in Load,
           UNCHANGED <<platform, created, clock, browser>>,
           load' = [load EXCEPT ![l] = q],
           q.items \in RowSeq, Len(q.items) <= Cardinality(Rows), q.page <= turns + 1,
           q.pc # "idle" => Loading(q)
    PROVE  PagesInv'
<1>1. /\ Grows /\ turns \in Nat /\ turns' = turns /\ turns \in 0..MaxTurns /\ walk' = walk
      /\ data' = data /\ page' = page
  BY InvTable, QuietGrows DEF PagesInv, TypeOK
<1>2. load' \in [Loads -> Load]
  BY DEF PagesInv
<1>3. \A k \in Loads : Request(k)'
  <2>1. ASSUME NEW k \in Loads, load'[k] # load[k] PROVE load'[k] = q
    BY <2>1 DEF PagesInv
  <2>2. q.pc # "idle" => Loading(q)'
    BY <1>1, StillLoading
  <2> QED
    BY <1>1, <1>2, <2>1, <2>2, EachRequest
<1>4. walk.upto > 0 => Walking'
  BY <1>1, StillWalking
<1>5. /\ page' \in Nat \ {0} /\ page' <= turns' + 1
      /\ platform = "BAP" /\ data'.page # 0 => data'.page = page'
      /\ data' \in Data /\ data'.items \in RowSeq /\ walk' \in Walk
      /\ walk'.start \subseteq Existing /\ walk'.since <= clock /\ walk'.at <= turns'
  BY <1>1 DEF PagesInv, TypeOK
<1> QED
  BY <1>1, <1>2, <1>3, <1>4, <1>5, QuietKeeps

\* What the invariant says of one request.
LEMMA TheRequest ==
    ASSUME PagesInv, NEW l \in Loads
    PROVE  /\ load[l] \in Load /\ load[l].items \in RowSeq
           /\ Len(load[l].items) <= Cardinality(Rows) /\ load[l].page <= turns + 1
           /\ load[l].pc # "idle" => Loading(load[l])
           /\ platform \in {"BPP", "BAP"}
BY PagedListAssumption DEF PagesInv, TypeOK

LEMMA CountRowsKeeps == ASSUME NEW l \in Loads, PagesInv, CountRows(l) PROVE PagesInv'
<1> PICK q \in Load : q = load[l]
  BY TheRequest
<1>1. /\ q.pc = "count" /\ UNCHANGED <<platform, created, clock, browser>>
      /\ q.items \in RowSeq /\ Len(q.items) <= Cardinality(Rows) /\ q.page <= turns + 1
      /\ Loading(q) /\ platform \in {"BPP", "BAP"} /\ Table
      /\ q.items \in Seq(Rows)
  <2>1. q.pc = "count" /\ UNCHANGED <<platform, created, clock, browser>>
    BY DEF CountRows
  <2> QED
    BY <2>1, TheRequest, InvTable DEF Load
<1>2. CASE load' = [load EXCEPT ![l].total = Cardinality(Existing),
                                ![l].pc = IF platform = "BPP" THEN "list" ELSE "answer"]
  <2> DEFINE new == [q EXCEPT !.total = Cardinality(Existing),
                              !.pc = IF platform = "BPP" THEN "list" ELSE "answer"]
  <2> PICK n : n = new
    OBVIOUS
  <2>1. load' = [load EXCEPT ![l] = n]
    BY <1>2 DEF PagesInv
  <2>2. /\ n.pc = IF platform = "BPP" THEN "list" ELSE "answer"
        /\ n.total = Cardinality(Existing) /\ n.page = q.page /\ n.items = q.items
        /\ n.cut = q.cut /\ n.asked = q.asked /\ n.since = q.since /\ n.nr = q.nr
    BY DEF Load
  <2>3. n \in Load
    <3>1. Cardinality(Existing) \in 0..Cardinality(Rows)
      BY RowsFinite
    <3> QED
      BY <3>1 DEF Load
  <2>4. Listed(n) = Listed(q)
    BY <1>1, <2>2 DEF Listed
  <2>5. ASSUME NEW R \in SUBSET Existing, NEW read, platform = "BAP", BeyondPage(q, R, read)
        PROVE  BeyondPage(n, R, read)
    <3>1. Listed(q) /\ Offset(q.page + 1) \in Nat
      <4>1. q.page + 1 \in Nat \ {0}
        BY DEF Load
      <4> QED
        BY <1>1, <2>5, <4>1, NextOffset DEF Listed
    <3>2. ASSUME NEW r \in R \ read
          PROVE  Place(r) > Offset(q.page + 1) /\ Cardinality(Existing) > Offset(q.page + 1)
      <4>1. Place(r) > Offset(q.page + 1)
        BY <2>5, <3>1, <3>2 DEF BeyondPage
      <4>2. Place(r) \in 1..Cardinality(Existing) /\ Cardinality(Existing) \in Nat
        BY <1>1, PlaceRange, RowsFinite
      <4> QED
        BY <3>1, <4>1, <4>2
    <3> QED
      BY <2>2, <3>2 DEF BeyondPage
  <2>6. Loading(n)
    <3>1. walk.start \in SUBSET Existing /\ q.asked \in SUBSET Existing
      BY <1>1 DEF PagesInv, Loading
    <3>2. Follows(n) <=> Follows(q)
      BY <2>2 DEF Follows
    <3>3. platform = "BAP" /\ Distinct =>
            /\ q.page = 1 => BeyondPage(n, q.asked, ToSet(q.items))
            /\ Follows(q) => BeyondPage(n, walk.start, ToSet(walk.seen) \cup ToSet(q.items))
      BY <1>1, <2>5, <3>1 DEF Loading
    <3>4. /\ n.asked \subseteq Existing /\ n.since <= clock /\ n.nr < turns
          /\ walk.upto > 0 /\ n.nr >= walk.at => n.since >= walk.since
          /\ n.since = clock /\ Distinct =>
                /\ Listed(n) => Window(n.items, Offset(n.page), Offset(n.page + 1))
                /\ n.total = Cardinality(Existing)
      BY <1>1, <2>2, <2>4 DEF Loading
    <3> QED
      BY <2>2, <3>2, <3>3, <3>4 DEF Loading
  <2> QED
    BY <1>1, <2>1, <2>2, <2>3, <2>6, HandlerKeeps
<1>3. CASE load' = [load EXCEPT ![l].total = Len(load[l].items), ![l].cut = TRUE,
                                ![l].pc = IF platform = "BPP" THEN "error" ELSE "answer"]
  <2> DEFINE new == [q EXCEPT !.total = Len(q.items), !.cut = TRUE,
                              !.pc = IF platform = "BPP" THEN "error" ELSE "answer"]
  <2> PICK n : n = new
    OBVIOUS
  <2>1. load' = [load EXCEPT ![l] = n]
    BY <1>3 DEF PagesInv
  <2>2. /\ n.pc = IF platform = "BPP" THEN "error" ELSE "answer"
        /\ n.total = Len(q.items) /\ n.page = q.page /\ n.items = q.items
        /\ n.cut /\ n.asked = q.asked /\ n.since = q.since /\ n.nr = q.nr
    BY DEF Load
  <2>3. n \in Load
    <3>1. Len(q.items) \in 0..Cardinality(Rows)
      BY <1>1, RowsFinite, LenProperties
    <3> QED
      BY <3>1 DEF Load
  <2>4. Listed(n) = Listed(q)
    BY <1>1, <2>2 DEF Listed
  <2>5. ASSUME NEW R, NEW read, BeyondPage(q, R, read) PROVE BeyondPage(n, R, read)
    BY <2>2, <2>4, <2>5 DEF BeyondPage
  <2>6. Loading(n)
    <3>1. Follows(n) <=> Follows(q)
      BY <2>2 DEF Follows
    <3>2. platform = "BAP" /\ Distinct =>
            /\ q.page = 1 => BeyondPage(n, q.asked, ToSet(q.items))
            /\ Follows(q) => BeyondPage(n, walk.start, ToSet(walk.seen) \cup ToSet(q.items))
      BY <1>1, <2>5 DEF Loading
    <3>3. /\ n.asked \subseteq Existing /\ n.since <= clock /\ n.nr < turns
          /\ walk.upto > 0 /\ n.nr >= walk.at => n.since >= walk.since
          /\ n.since = clock /\ Distinct =>
                (Listed(n) => Window(n.items, Offset(n.page), Offset(n.page + 1)))
      BY <1>1, <2>2, <2>4 DEF Loading
    <3> QED
      BY <2>2, <3>1, <3>2, <3>3 DEF Loading
  <2> QED
    BY <1>1, <2>1, <2>2, <2>3, <2>6, HandlerKeeps
<1> QED
  BY <1>2, <1>3 DEF CountRows

\* What the drawer passed by with page p - 1 is beyond page p, when page p is read.
LEMMA PassedBy ==
    ASSUME Table, Distinct, NEW p \in Nat \ {0}, NEW s \in Seq(Rows),
           Window(s, Offset(p), Offset(p + 1)),
           NEW r \in Existing, r \notin ToSet(s), Place(r) > Offset(p)
    PROVE  Place(r) > Offset(p + 1)
<1>1. /\ Offset(p) \in Nat /\ Offset(p + 1) \in Nat /\ Offset(p) <= Offset(p + 1)
      /\ Place(r) \in Nat
  <2>1. Offset(p) \in Nat /\ Offset(p + 1) \in Nat /\ Offset(p + 1) = Offset(p) + Limit
    BY NextOffset
  <2>2. Place(r) \in 1..Cardinality(Existing) /\ Cardinality(Existing) \in Nat
    BY PlaceRange, RowsFinite
  <2>3. Limit \in Nat
    BY PagedListAssumption
  <2> QED
    BY <2>1, <2>2, <2>3
<1>2. ~(Place(r) <= Offset(p + 1))
  BY <1>1, WindowFull
<1> QED
  BY <1>1, <1>2

LEMMA ListRowsKeeps == ASSUME NEW l \in Loads, PagesInv, ListRows(l) PROVE PagesInv'
<1> PICK q \in Load : q = load[l]
  BY TheRequest
<1>1. /\ q.pc = "list" /\ UNCHANGED <<platform, created, clock, browser>>
      /\ q.items \in RowSeq /\ Len(q.items) <= Cardinality(Rows) /\ q.page <= turns + 1
      /\ Loading(q) /\ platform \in {"BPP", "BAP"} /\ Table
      /\ q.page \in Nat \ {0} /\ walk \in Walk
  <2>1. q.pc = "list" /\ UNCHANGED <<platform, created, clock, browser>>
    BY DEF ListRows
  <2> QED
    BY <2>1, TheRequest, InvTable DEF Load, PagesInv
<1>2. ASSUME NEW s \in ListPage(q.page),
             load' = [load EXCEPT ![l].items = s,
                                  ![l].pc = IF platform = "BPP" THEN "answer" ELSE "count"]
      PROVE  PagesInv'
  <2> DEFINE new == [q EXCEPT !.items = s,
                              !.pc = IF platform = "BPP" THEN "answer" ELSE "count"]
  <2> PICK n : n = new
    OBVIOUS
  <2>1. load' = [load EXCEPT ![l] = n]
    BY <1>2 DEF PagesInv
  <2>2. /\ n.pc = IF platform = "BPP" THEN "answer" ELSE "count"
        /\ n.total = q.total /\ n.page = q.page /\ n.items = s
        /\ n.cut = q.cut /\ n.asked = q.asked /\ n.since = q.since /\ n.nr = q.nr
    BY DEF Load
  <2>3. /\ s \in Seq(Rows) /\ Len(s) <= Limit /\ Len(s) <= Cardinality(Rows)
        /\ Distinct => Window(s, Offset(q.page), Offset(q.page + 1))
    <3>1. /\ s \in Seq(Rows) /\ Len(s) <= Limit /\ Len(s) <= Cardinality(Existing)
          /\ Distinct => Window(s, Offset(q.page), Offset(q.page + 1))
      BY <1>1, <1>2, PageWindow
    <3> QED
      BY <3>1, RowsFinite, LenProperties
  <2>4. n \in Load /\ n.items \in RowSeq
    BY <2>2, <2>3, ShortSequence DEF Load
  <2>5. Counted(n) = Counted(q)
    BY <1>1, <2>2 DEF Counted
  <2>6. ASSUME platform = "BAP", Distinct, NEW R \in SUBSET Existing, NEW read,
               ToSet(s) \subseteq read, \A r \in R \ read : Place(r) > Offset(q.page)
        PROVE  BeyondPage(n, R, read)
    <3>1. ASSUME NEW r \in R \ read PROVE Place(r) > Offset(q.page + 1)
      BY <1>1, <2>3, <2>6, <3>1, PassedBy
    <3>2. ~Counted(n)
      BY <2>2, <2>6 DEF Counted
    <3> QED
      BY <2>2, <3>1, <3>2 DEF BeyondPage
  <2>7. ASSUME platform = "BAP", Distinct, q.page = 1
        PROVE  BeyondPage(n, q.asked, ToSet(s))
    <3>1. q.asked \in SUBSET Existing
      BY <1>1 DEF Loading
    <3>2. ASSUME NEW r \in q.asked PROVE Place(r) > Offset(q.page)
      <4>1. Offset(q.page) = 0 /\ Place(r) \in 1..Cardinality(Existing)
        BY <1>1, <2>7, <3>1, <3>2, PlaceRange, NextOffset
      <4> QED
        BY <4>1, RowsFinite
    <3> QED
      BY <2>6, <2>7, <3>1, <3>2
  <2>8. ASSUME platform = "BAP", Distinct, Follows(q)
        PROVE  BeyondPage(n, walk.start, ToSet(walk.seen) \cup ToSet(s))
    <3>1. Walking /\ walk.start \in SUBSET Existing /\ q.page = walk.upto + 1
      BY <2>8 DEF PagesInv, Follows
    <3>2. \A r \in walk.start \ ToSet(walk.seen) : Place(r) > Offset(q.page)
      BY <2>8, <3>1 DEF Walking
    <3> QED
      BY <2>6, <2>8, <3>1, <3>2
  <2>9. Loading(n)
    <3>1. Follows(n) <=> Follows(q)
      BY <2>2 DEF Follows
    <3>2. /\ n.asked \subseteq Existing /\ n.since <= clock /\ n.nr < turns
          /\ walk.upto > 0 /\ n.nr >= walk.at => n.since >= walk.since
          /\ n.since = clock /\ Distinct => (Counted(n) /\ ~n.cut => n.total = Cardinality(Existing))
      BY <1>1, <2>2, <2>5 DEF Loading
    <3> QED
      BY <2>2, <2>3, <2>7, <2>8, <3>1, <3>2 DEF Loading
  <2> QED
    BY <1>1, <2>1, <2>2, <2>3, <2>4, <2>9, HandlerKeeps
<1>3. CASE load' = [load EXCEPT ![l].pc = "error"]
  <2> DEFINE new == [q EXCEPT !.pc = "error"]
  <2> PICK n : n = new
    OBVIOUS
  <2>1. load' = [load EXCEPT ![l] = n]
    BY <1>3 DEF PagesInv
  <2>2. /\ n.pc = "error" /\ n.page = q.page /\ n.items = q.items
        /\ n.asked = q.asked /\ n.since = q.since /\ n.nr = q.nr
    BY DEF Load
  <2>3. n \in Load
    BY DEF Load
  <2>4. ~Listed(n) /\ ~Counted(n)
    BY <2>2 DEF Listed, Counted
  <2>5. Loading(n)
    <3>1. /\ n.asked \subseteq Existing /\ n.since <= clock /\ n.nr < turns
          /\ walk.upto > 0 /\ n.nr >= walk.at => n.since >= walk.since
      BY <1>1, <2>2 DEF Loading
    <3> QED
      BY <2>4, <3>1 DEF Loading, BeyondPage
  <2> QED
    BY <1>1, <2>1, <2>2, <2>3, <2>5, HandlerKeeps
<1>4. \/ load' = [load EXCEPT ![l].pc = "error"]
      \/ \E s \in ListPage(load[l].page) :
            load' = [load EXCEPT ![l].items = s,
                                 ![l].pc = IF platform = "BPP" THEN "answer" ELSE "count"]
  BY DEF ListRows
<1> QED
  BY <1>2, <1>3, <1>4

LEMMA ShowErrorKeeps == ASSUME NEW l \in Loads, PagesInv, ShowError(l) PROVE PagesInv'
<1>1. UNCHANGED <<platform, created, clock, browser>> /\ load' = [load EXCEPT ![l] = Idle]
  BY DEF ShowError
<1>2. /\ Idle \in Load /\ Idle.pc = "idle" /\ Idle.items \in RowSeq
      /\ Len(Idle.items) <= Cardinality(Rows) /\ Idle.page <= turns + 1
  BY IdleType, RowsFinite, InvTable
<1> QED
  BY <1>1, <1>2, HandlerKeeps

\* What the reader has read when the answer q to his request is on the screen.
LEMMA AnswerWalks ==
    ASSUME PagesInv, NEW q \in Load, q.pc = "answer", Loading(q), platform \in {"BPP", "BAP"},
           UNCHANGED <<platform, created, clock>>,
           data' = Answer(q), walk' = Walked(q), walk'.upto > 0
    PROVE  Walking'
<1>1. /\ Table /\ clock \in Nat /\ Listed(q) /\ Counted(q) /\ walk \in Walk
      /\ q.page \in Nat \ {0} /\ q.items \in Seq(Rows) /\ q.since \in Nat
  BY InvTable DEF PagesInv, Listed, Counted, Load
<1>2. /\ Existing' = Existing /\ (Distinct' <=> Distinct)
      /\ \A r : Place(r)' = Place(r)
      /\ \A s, a, b : Window(s, a, b)' <=> Window(s, a, b)
  BY SameRows
<1>3. /\ data'.page = q.page /\ data'.total = q.total /\ data'.cut = q.cut
  BY DEF Answer
<1>4. CASE q.page = 1
  <2> PICK w : w = [start |-> q.asked, since |-> q.since, seen |-> q.items, upto |-> 1, at |-> turns]
    OBVIOUS
  <2>1. /\ walk' = w /\ w.start = q.asked /\ w.since = q.since /\ w.seen = q.items /\ w.upto = 1
    BY <1>4 DEF Walked
  <2>2. q.since = clock /\ Distinct =>
           /\ Window(q.items, 0, Offset(2))
           /\ ~q.cut => q.total = Cardinality(Existing)
    <3>1. Offset(q.page) = 0 /\ q.page + 1 = 2
      BY <1>1, <1>4, NextOffset
    <3> QED
      BY <1>1, <3>1 DEF Loading
  <2>3. platform = "BAP" /\ Distinct =>
           \A r \in q.asked \ ToSet(q.items) :
               /\ Place(r) > Offset(2)
               /\ ~q.cut => q.total > Offset(2)
    <3>1. q.page + 1 = 2
      BY <1>4
    <3>2. platform = "BAP" /\ Distinct => BeyondPage(q, q.asked, ToSet(q.items))
      BY <1>1, <1>4 DEF Loading
    <3> QED
      BY <1>1, <3>1, <3>2 DEF BeyondPage
  <2>4. w.upto + 1 = 2
    BY <2>1
  <2> QED
    BY <1>2, <1>3, <1>4, <2>1, <2>2, <2>3, <2>4 DEF Walking
<1>5. CASE q.page # 1 /\ q.page = walk.upto + 1 /\ q.nr >= walk.at
  <2> PICK v \in Walk : v = walk
    BY <1>1
  <2> PICK w : w = [v EXCEPT !.seen = @ \o q.items, !.upto = @ + 1, !.at = turns]
    OBVIOUS
  <2>1. /\ walk' = w /\ w.start = v.start /\ w.since = v.since /\ w.seen = v.seen \o q.items
        /\ w.upto = q.page /\ v.upto > 0 /\ v.upto + 1 = q.page /\ v.seen \in Seq(Rows)
        /\ v.since \in Nat
    BY <1>1, <1>5 DEF Walked, Walk
  <2>2. Walking /\ Follows(q) /\ walk.since <= clock /\ q.since >= v.since /\ q.since <= clock
    BY <1>1, <1>5, <2>1 DEF PagesInv, Follows, Loading
  <2>3. /\ Offset(q.page) \in Nat /\ Offset(q.page + 1) \in Nat
        /\ Offset(q.page) <= Offset(q.page + 1)
    <3>1. Limit \in Nat
      BY PagedListAssumption
    <3>2. /\ Offset(q.page) \in Nat /\ Offset(q.page + 1) \in Nat
          /\ Offset(q.page + 1) = Offset(q.page) + Limit
      BY <1>1, NextOffset
    <3> QED
      BY <3>1, <3>2
  <2>4. ASSUME v.since = clock, Distinct
        PROVE  /\ Window(v.seen \o q.items, 0, Offset(q.page + 1))
               /\ ~q.cut => q.total = Cardinality(Existing)
    <3>1. q.since = clock
      BY <1>1, <2>1, <2>2, <2>4
    <3>2. /\ Window(q.items, Offset(q.page), Offset(q.page + 1))
          /\ ~q.cut => q.total = Cardinality(Existing)
      BY <1>1, <2>4, <3>1 DEF Loading
    <3>3. Window(v.seen, 0, Offset(q.page))
      BY <2>1, <2>2, <2>4 DEF Walking
    <3>4. Window(v.seen \o q.items, 0, Offset(q.page + 1))
      BY <1>1, <2>1, <2>3, <3>2, <3>3, WindowsAdjoin
    <3> QED
      BY <3>2, <3>4
  <2>5. platform = "BAP" /\ Distinct =>
           \A r \in v.start \ ToSet(v.seen \o q.items) :
               /\ Place(r) > Offset(q.page + 1)
               /\ ~q.cut => q.total > Offset(q.page + 1)
    <3>1. ToSet(v.seen \o q.items) = ToSet(v.seen) \cup ToSet(q.items)
      BY <1>1, <2>1, ConcatElements
    <3>2. platform = "BAP" /\ Distinct =>
             BeyondPage(q, v.start, ToSet(v.seen) \cup ToSet(q.items))
      BY <1>1, <2>2 DEF Loading
    <3> QED
      BY <1>1, <3>1, <3>2 DEF BeyondPage
  <2> QED
    BY <1>2, <1>3, <2>1, <2>4, <2>5 DEF Walking
<1>6. CASE q.page # 1 /\ ~(q.page = walk.upto + 1 /\ q.nr >= walk.at)
  <2>1. walk' = [walk EXCEPT !.upto = 0]
    BY <1>6 DEF Walked
  <2>2. walk'.upto = 0
    BY <1>1, <2>1 DEF Walk
  <2> QED
    BY <2>2
<1> QED
  BY <1>4, <1>5, <1>6

LEMMA WalkedType ==
    ASSUME PagesInv, NEW q \in Load, q.pc = "answer", Loading(q)
    PROVE  /\ Walked(q) \in Walk /\ Walked(q).start \subseteq Existing
           /\ Walked(q).since <= clock /\ Walked(q).at <= turns
           /\ Walked(q).upto > 0 => Walked(q).at = turns
<1>1. /\ clock \in Nat /\ turns \in Nat /\ walk \in Walk /\ Existing \subseteq Rows
      /\ walk.start \subseteq Existing /\ walk.since <= clock /\ walk.at <= turns
      /\ q.asked \subseteq Existing /\ q.since <= clock
  BY InvTable, RowsFinite DEF PagesInv, Loading
<1>2. CASE q.page = 1
  <2> PICK w : w = [start |-> q.asked, since |-> q.since, seen |-> q.items, upto |-> 1, at |-> turns]
    OBVIOUS
  <2>1. Walked(q) = w
    BY <1>2 DEF Walked
  <2>2. w.start = q.asked /\ w.since = q.since /\ w.at = turns
    OBVIOUS
  <2>3. w \in Walk
    BY <1>1 DEF Load, Walk
  <2> QED
    BY <1>1, <2>1, <2>2, <2>3
<1>3. CASE q.page # 1 /\ q.page = walk.upto + 1 /\ q.nr >= walk.at
  <2> PICK v \in Walk : v = walk
    BY <1>1
  <2> PICK seen \in Seq(Rows) : seen = v.seen \o q.items
    <3>1. v.seen \in Seq(Rows) /\ q.items \in Seq(Rows)
      BY DEF Walk, Load
    <3> QED
      BY <3>1, ConcatProperties
  <2> PICK w : w = [v EXCEPT !.seen = seen, !.upto = @ + 1, !.at = turns]
    OBVIOUS
  <2>1. Walked(q) = w
    BY <1>3 DEF Walked
  <2>2. w.start = v.start /\ w.since = v.since /\ w.at = turns
    BY DEF Walk
  <2>3. v.upto + 1 \in Nat
    BY DEF Walk
  <2>4. ASSUME NEW u \in Walk, NEW x \in Seq(Rows), NEW y \in Nat, NEW z \in Nat
        PROVE  [u EXCEPT !.seen = x, !.upto = z, !.at = y] \in Walk
    BY ZenonT(30) DEF Walk
  <2>5. w \in Walk
    BY <1>1, <2>3, <2>4
  <2> QED
    BY <1>1, <2>1, <2>2, <2>5
<1>4. CASE q.page # 1 /\ ~(q.page = walk.upto + 1 /\ q.nr >= walk.at)
  <2> PICK w : w = [walk EXCEPT !.upto = 0]
    OBVIOUS
  <2>1. Walked(q) = w
    BY <1>4 DEF Walked
  <2>2. w \in Walk /\ w.start = walk.start /\ w.since = walk.since /\ w.at = walk.at /\ w.upto = 0
    BY <1>1 DEF Walk
  <2> QED
    BY <1>1, <2>1, <2>2
<1> QED
  BY <1>2, <1>3, <1>4

LEMMA ShowKeeps == ASSUME NEW l \in Loads, PagesInv, Show(l) PROVE PagesInv'
<1> PICK q \in Load : q = load[l]
  BY TheRequest
<1>1. /\ q.pc = "answer" /\ data' = Answer(q) /\ walk' = Walked(q)
      /\ page' = (IF platform = "BPP" THEN page ELSE q.page)
      /\ load' = [load EXCEPT ![l] = Idle]
      /\ UNCHANGED <<platform, created, clock>> /\ turns' = turns
  BY DEF Show
<1>2. /\ q.items \in RowSeq /\ q.page <= turns + 1 /\ q.page \in Nat \ {0}
      /\ Loading(q) /\ platform \in {"BPP", "BAP"}
      /\ Grows /\ turns \in Nat /\ turns \in 0..MaxTurns
      /\ page \in Nat \ {0} /\ page <= turns + 1
  <2>1. /\ q.items \in RowSeq /\ q.page <= turns + 1 /\ q.page \in Nat \ {0}
        /\ Loading(q) /\ platform \in {"BPP", "BAP"}
    BY <1>1, TheRequest DEF Load
  <2>2. turns \in 0..MaxTurns /\ page \in 1..MaxTurns + 1 /\ page <= turns + 1
    BY DEF PagesInv, TypeOK
  <2> QED
    BY <1>1, <2>1, <2>2, InvTable, QuietGrows, PagedListAssumption
<1>3. /\ walk' \in Walk /\ walk'.start \subseteq Existing
      /\ walk'.since <= clock /\ walk'.at <= turns
      /\ walk'.upto > 0 => walk'.at = turns
  BY <1>1, <1>2, WalkedType
<1>4. walk'.upto > 0 => Walking'
  BY <1>1, <1>2, AnswerWalks
<1>5. load' \in [Loads -> Load]
  BY <1>1, IdleType DEF PagesInv
<1>6. \A k \in Loads : Request(k)'
  <2>1. ASSUME NEW k \in Loads, load'[k] # load[k] PROVE load'[k] = Idle
    BY <1>1, <2>1 DEF PagesInv
  <2>2. /\ Idle.items \in RowSeq /\ Len(Idle.items) <= Cardinality(Rows)
        /\ Idle.page <= turns' + 1 /\ Idle.pc = "idle"
    BY <1>1, <1>2, IdleType, RowsFinite
  <2> QED
    BY <1>1, <1>2, <1>3, <1>5, <2>1, <2>2, EachRequest
<1>7. /\ page' \in Nat \ {0} /\ page' <= turns' + 1 /\ turns' \in 0..MaxTurns
  BY <1>1, <1>2
<1>8. /\ data' \in Data /\ data'.items \in RowSeq /\ data'.page = q.page
  BY <1>1, <1>2 DEF Answer, Data, Load
<1>9. platform = "BAP" => data'.page = page'
  BY <1>1, <1>8
<1> QED
  BY <1>1, <1>3, <1>4, <1>5, <1>6, <1>7, <1>8, <1>9, QuietKeeps

LEMMA InitPages == Init => PagesInv
<1> SUFFICES ASSUME Init PROVE PagesInv
  OBVIOUS
<1>1. /\ platform \in Platforms /\ created = [r \in Rows |-> 0] /\ clock = 0
      /\ load = [l \in Loads |-> Idle] /\ page = 1 /\ turns = 0
      /\ data = [page |-> 0, items |-> <<>>, total |-> 0, cut |-> FALSE]
      /\ walk = [start |-> {}, since |-> 0, seen |-> <<>>, upto |-> 0, at |-> 0]
  BY DEF Init
<1>2. /\ <<>> \in Seq(Rows) /\ <<>> \in RowSeq /\ 0 \in 0..Cardinality(Rows)
      /\ Cardinality(Existing) \in Nat /\ MaxTurns \in Nat
  <2>1. <<>> \in RowSeq
    BY IdleType DEF Idle
  <2> QED
    BY <2>1, RowsFinite, PagedListAssumption, EmptySeq
<1>3. data \in Data /\ data.items = <<>> /\ data.total = 0 /\ data.page = 0
  BY <1>1, <1>2 DEF Data
<1>4. walk \in Walk /\ walk.start = {} /\ walk.since = 0 /\ walk.at = 0 /\ walk.upto = 0
  BY <1>1, <1>2 DEF Walk
<1>5. \A l \in Loads : load[l] = Idle
  BY <1>1
<1>6. /\ Idle.pc = "idle" /\ Idle.page = 1 /\ Idle.items \in RowSeq
      /\ Len(Idle.items) <= Cardinality(Rows)
  BY IdleType, RowsFinite
<1>7. load \in [Loads -> Load]
  BY <1>1, IdleType
<1>8. TypeOK
  BY <1>1, <1>2, <1>3, <1>5, <1>6 DEF TypeOK
<1> QED
  BY <1>1, <1>2, <1>3, <1>4, <1>5, <1>6, <1>7, <1>8 DEF PagesInv

LEMMA StepPages == PagesInv /\ [Next]_vars => PagesInv'
<1> SUFFICES ASSUME PagesInv, [Next]_vars PROVE PagesInv'
  OBVIOUS
<1>1. CASE Insert
  BY <1>1, InsertKeeps
<1>2. ASSUME NEW l \in Loads, Turn(l) PROVE PagesInv'
  BY <1>2, TurnKeeps
<1>3. ASSUME NEW l \in Loads, Handle(l) PROVE PagesInv'
  BY <1>3, CountRowsKeeps, ListRowsKeeps, ShowKeeps, ShowErrorKeeps DEF Handle
<1>4. CASE UNCHANGED vars
  <2>1. UNCHANGED <<platform, created, clock, load, page, data, turns, walk>>
    BY <1>4 DEF vars
  <2>2. /\ Grows /\ turns \in Nat /\ turns \in 0..MaxTurns
    BY <2>1, InvTable, QuietGrows DEF PagesInv, TypeOK
  <2>3. \A l \in Loads : Request(l)'
    BY <2>1, <2>2, EachRequest DEF PagesInv
  <2>4. walk.upto > 0 => Walking'
    BY <2>1, <2>2, StillWalking
  <2>5. page \in Nat \ {0}
    BY DEF PagesInv, TypeOK
  <2> QED
    BY <2>1, <2>2, <2>3, <2>4, <2>5, QuietKeeps DEF PagesInv, TypeOK
<1> QED
  BY <1>1, <1>2, <1>3, <1>4 DEF Next

\* The invariant of the proofs: it holds however many rows, pages and requests
\* there are, whatever the order in which the answers come.
THEOREM PagesInvariant == Spec => []PagesInv
BY InitPages, StepPages, PTL DEF Spec

-----------------------------------------------------------------------------
(* What it is for.                                                         *)

\* Every value stays in its range: a page has Limit rows at most, and the count
\* is never above the number of rows there can be.
THEOREM PagedTypeCorrect == Spec => []TypeOK
<1>1. PagesInv => TypeOK
  BY DEF PagesInv
<1> QED
  BY <1>1, PagesInvariant, PTL

\* When no request is under way the drawer shows the page it names.
THEOREM DrawerShowsItsPage == Spec => []ShownPage
<1>1. PagesInv => ShownPage
  BY DEF PagesInv, ShownPage
<1> QED
  BY <1>1, PagesInvariant, PTL

\* Who is on the last page has gone past the last row counted.
LEMMA WalkedPast ==
    ASSUME PagesInv, WalkedAll
    PROVE  /\ Walking /\ walk.upto \in Nat \ {0} /\ data.total \in Nat
           /\ Offset(walk.upto + 1) \in Nat /\ data.total <= Offset(walk.upto + 1)
<1>1. /\ Walking /\ walk.upto \in Nat \ {0} /\ walk.upto + 1 \in Nat \ {0}
      /\ data.total \in Nat
  BY RowsFinite DEF PagesInv, WalkedAll, Walk, Data
<1>2. data.total <= Offset(walk.upto + 1)
  <2>1. walk.upto >= (data.total + Limit - 1) \div Limit
    BY DEF WalkedAll, TotalPages
  <2> QED
    BY <1>1, <2>1, LastPage
<1> QED
  BY <1>1, <1>2, NextOffset

\* A buyer who pages through his orders to the end has seen every order that
\* was there when he began, however many come in meanwhile one by one: an order
\* he passed by would be beyond the last page, and counted.
THEOREM NobodyIsPassedBy == Spec => []NoneMissed
<1>1. ASSUME PagesInv PROVE NoneMissed
  <2> SUFFICES ASSUME platform = "BAP", WalkedAll, Distinct, NEW r \in walk.start,
                      r \notin ToSet(walk.seen)
               PROVE  FALSE
    BY DEF NoneMissed
  <2>1. /\ Walking /\ data.total \in Nat /\ Offset(walk.upto + 1) \in Nat
        /\ data.total <= Offset(walk.upto + 1)
    BY <1>1, WalkedPast
  <2>2. data.total > Offset(walk.upto + 1)
    BY <2>1 DEF Walking, WalkedAll
  <2> QED
    BY <2>1, <2>2
<1> QED
  BY <1>1, PagesInvariant, PTL

\* While nothing comes in, whoever pages to the end sees every row exactly once,
\* newest first: what he has seen is the window of the whole list.
THEOREM PagesAreExact == Spec => []PagesExact
<1>1. ASSUME PagesInv PROVE PagesExact
  <2> SUFFICES ASSUME WalkedAll, Distinct, walk.since = clock
               PROVE  /\ ToSet(walk.seen) = Existing
                      /\ Len(walk.seen) = Cardinality(Existing)
                      /\ \A i \in 1..Len(walk.seen) - 1 :
                            created[walk.seen[i]] >= created[walk.seen[i + 1]]
    BY DEF PagesExact
  <2> DEFINE b == Offset(walk.upto + 1)
             n == Cardinality(Existing)
             s == walk.seen
  <2>1. Walking /\ b \in Nat /\ data.total <= b
    BY <1>1, WalkedPast
  <2>2. /\ n \in Nat /\ data.total = n /\ Window(s, 0, b) /\ s \in Seq(Rows) /\ Table
    BY <1>1, <2>1, RowsFinite, InvTable DEF Walking, WalkedAll, PagesInv, Walk
  <2>3. Min({b, n}) = n /\ Min({0, n}) = 0
    <3> HIDE DEF b, n
    <3>1. /\ Min({b, n}) = IF b <= n THEN b ELSE n
          /\ Min({0, n}) = IF 0 <= n THEN 0 ELSE n
      BY <2>1, <2>2, MinOfTwo
    <3> QED
      BY <2>1, <2>2, <3>1
  <2>4. Len(s) = n /\ DOMAIN s = 1..n
    <3>1. Len(s) = Min({b, n}) - Min({0, n})
      BY <2>2 DEF Window
    <3> QED
      BY <2>2, <2>3, <3>1, LenProperties
  <2>5. \A i \in 1..n : s[i] \in Existing /\ Place(s[i]) = i
    BY <2>2, <2>4 DEF Window
  <2>6. ToSet(s) = Existing
    <3>1. ToSet(s) \subseteq Existing
      BY <2>4, <2>5 DEF ToSet
    <3>2. ASSUME NEW r \in Existing PROVE r \in ToSet(s)
      <4>1. Place(r) \in 1..n
        BY <2>2, PlaceRange
      <4>2. Place(r) > 0 /\ Place(r) <= b /\ 0 <= b /\ 0 \in Nat
        BY <2>1, <2>2, <4>1
      <4> QED
        BY <2>1, <2>2, <4>2, WindowFull
    <3> QED
      BY <3>1, <3>2
  <2>7. ASSUME NEW i \in 1..n - 1 PROVE created[s[i]] >= created[s[i + 1]]
    <3>1. i \in 1..n /\ i + 1 \in 1..n /\ i < i + 1
      BY <2>2
    <3>2. /\ s[i] \in Existing /\ s[i + 1] \in Existing
          /\ Place(s[i]) < Place(s[i + 1])
      BY <2>5, <3>1
    <3> QED
      BY <2>2, <3>2, PlaceOrder
  <2> QED
    BY <2>4, <2>6, <2>7
<1> QED
  BY <1>1, PagesInvariant, PTL
=============================================================================
