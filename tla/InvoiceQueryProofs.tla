------------------------- MODULE InvoiceQueryProofs -------------------------
(***************************************************************************)
(* Theorems about paging, for every number of records, page size and limit *)
(* of the server, when offsets count records.                              *)
(*                                                                         *)
(* Records are seen by position, and positions move when invoices arrive   *)
(* and when the range is narrowed.  SeenInv says what survives: of the     *)
(* records stored when the iteration began, those before the next page,    *)
(* wherever they are now, have been seen.                                  *)
(***************************************************************************)
EXTENDS InvoiceQuery, TLAPS, FiniteSetTheorems

-----------------------------------------------------------------------------
(* Sequences.                                                              *)

LEMMA MinOfThree ==
    ASSUME NEW a \in Nat, NEW b \in Nat, NEW c \in Nat
    PROVE  /\ Min({a, b, c}) \in {a, b, c}
           /\ Min({a, b, c}) <= a /\ Min({a, b, c}) <= b /\ Min({a, b, c}) <= c
  <1>1. \E x \in {a, b, c} : \A y \in {a, b, c} : x <= y
    OBVIOUS
  <1> QED
    BY <1>1 DEF Min

LEMMA Joined ==
    ASSUME NEW S, NEW a \in Seq(S), NEW b \in Seq(S)
    PROVE  /\ a \o b \in Seq(S) /\ Len(a \o b) = Len(a) + Len(b)
           /\ \A k \in 1..Len(a) : (a \o b)[k] = a[k]
           /\ \A k \in Len(a) + 1 .. Len(a) + Len(b) :
                 (a \o b)[k] = b[k - Len(a)]
  OBVIOUS

LEMMA Slice ==
    ASSUME NEW S, NEW s \in Seq(S), NEW i \in Nat \ {0}, NEW j \in 0..Len(s),
           i <= j + 1
    PROVE  /\ SubSeq(s, i, j) \in Seq(S) /\ Len(SubSeq(s, i, j)) = j - i + 1
           /\ \A k \in 1..j - i + 1 : SubSeq(s, i, j)[k] = s[i + k - 1]
  OBVIOUS

LEMMA Inserted ==
    ASSUME NEW S, NEW s \in Seq(S), NEW e \in S, NEW i \in 1..Len(s) + 1
    PROVE  LET t == InsertAt(s, i, e)
           IN  /\ t \in Seq(S) /\ Len(t) = Len(s) + 1
               /\ \A k \in 1..Len(s) + 1 :
                     t[k] = IF k < i THEN s[k] ELSE IF k = i THEN e ELSE s[k - 1]
  <1> DEFINE a == SubSeq(s, 1, i - 1)
             b == SubSeq(s, i, Len(s))
             t == InsertAt(s, i, e)
  <1>1. /\ a \in Seq(S) /\ Len(a) = i - 1
        /\ \A k \in 1..i - 1 : a[k] = s[k]
    OBVIOUS
  <1>2. /\ b \in Seq(S) /\ Len(b) = Len(s) - i + 1
        /\ \A k \in 1..Len(s) - i + 1 : b[k] = s[i + k - 1]
    OBVIOUS
  <1>3. t = a \o <<e>> \o b
    BY DEF InsertAt
  <1> HIDE DEF a, b, t
  <1> DEFINE h == a \o <<e>>
  <1>4. /\ h \in Seq(S) /\ Len(h) = i
        /\ \A k \in 1..i : h[k] = IF k < i THEN s[k] ELSE e
    BY <1>1
  <1> HIDE DEF h
  <1>5. /\ t \in Seq(S) /\ Len(t) = Len(s) + 1
        /\ \A k \in 1..i : t[k] = h[k]
        /\ \A k \in i + 1 .. Len(s) + 1 : t[k] = b[k - i]
    <2>1. Len(h) + Len(b) = Len(s) + 1
      BY <1>2, <1>4
    <2>2. /\ h \o b \in Seq(S) /\ Len(h \o b) = Len(h) + Len(b)
          /\ \A k \in 1..Len(h) : (h \o b)[k] = h[k]
          /\ \A k \in Len(h) + 1 .. Len(h) + Len(b) :
                (h \o b)[k] = b[k - Len(h)]
      BY <1>2, <1>4, Joined
    <2>3. t = h \o b
      BY <1>3 DEF h
    <2> QED
      BY <1>4, <2>1, <2>2, <2>3
  <1>6. ASSUME NEW k \in 1..Len(s) + 1
        PROVE  t[k] = IF k < i THEN s[k] ELSE IF k = i THEN e ELSE s[k - 1]
    <2>1. CASE k <= i
      <3>1. k \in 1..i
        BY <2>1
      <3>2. t[k] = h[k] /\ h[k] = IF k < i THEN s[k] ELSE e
        BY <1>4, <1>5, <3>1
      <3> QED
        BY <2>1, <3>2
    <2>2. CASE k > i
      <3>1. /\ k \in i + 1 .. Len(s) + 1
            /\ k - i \in 1..Len(s) - i + 1 /\ i + (k - i) - 1 = k - 1
        BY <2>2
      <3>2. t[k] = b[k - i]
        BY <1>5, <3>1
      <3>3. b[k - i] = s[i + (k - i) - 1]
        BY <1>2, <3>1
      <3> QED
        BY <2>2, <3>1, <3>2, <3>3
    <2> QED
      BY <2>1, <2>2
  <1> QED
    BY <1>5, <1>6 DEF t

(* An injective sequence has as many different elements in front as places. *)
LEMMA PrefixSize ==
    ASSUME NEW S, NEW s \in Seq(S), IsInjective(s), NEW n \in 0..Len(s)
    PROVE  Cardinality({s[i] : i \in 1..n}) = n
  <1> DEFINE T == {s[i] : i \in 1..n}
             f == [i \in 1..n |-> s[i]]
  <1>1. f \in Bijection(1..n, T)
    BY DEF IsInjective, Bijection, Injection, Surjection
  <1>2. ExistsBijection(1..n, T)
    BY <1>1 DEF ExistsBijection
  <1> QED
    BY <1>2, FS_CountingElements

-----------------------------------------------------------------------------
(* The inductive invariant.                                                *)

LEMMA RecordsAreNatural ==
    Cardinality(Records) \in Nat /\ Records = 1..Cardinality(Records)
  BY QueryConstants, FS_CardinalityType

(* Where the date range begins, and the last place before the next page.   *)
Start == IF from = Nil THEN 1 ELSE CHOOSE i \in DOMAIN store : store[i] = from
Place == Start - 1 + pageOffset

RangeInv == from # Nil => from \in ToSet(store)

SeenInv ==
    /\ base \subseteq ToSet(store)
    /\ pc = "query" =>
          /\ Place <= Len(store)
          /\ \A i \in 1..Place : store[i] \in base => store[i] \in got

QuietInv ==
    quiet /\ pc = "query" =>
        /\ from = Nil
        /\ fetched = pageOffset
        /\ got = {store[i] : i \in 1..pageOffset}

IInv ==
    /\ TypeOK /\ RangeInv /\ SeenInv /\ QuietInv
    /\ NothingMissed /\ PagesAreDisjoint

InRecords == OffsetUnit = "record"

LEMMA StartIsFound ==
    ASSUME TypeOK, RangeInv
    PROVE  /\ Start \in Nat \ {0}
           /\ from = Nil => Start = 1
           /\ from # Nil => Start \in 1..Len(store) /\ store[Start] = from
  BY DEF TypeOK, RangeInv, Start, ToSet

(* The page that QueryInvoices returns lies right behind Place.            *)
LEMMA Page ==
    ASSUME TypeOK, RangeInv, Place <= Len(store), InRecords, NEW more \in BOOLEAN
    PROVE  LET r == QueryInvoices(more)
               n == Len(r.invoices)
           IN  /\ r.invoices \in Seq(Records)
               /\ Place \in Nat /\ n \in Nat /\ Place + n <= Len(store)
               /\ \A i \in 1..n : r.invoices[i] = store[Place + i]
               /\ r.nextPageOffset = pageOffset + n
               /\ pageOffset + n <= Cap
               /\ ~r.hasMore /\ ~r.isTruncated => Place + n = Len(store)
  <1> DEFINE m == Matches
             last == Min({pageOffset + PageSize, Cap, Len(m)})
             page == SubSeq(m, pageOffset + 1, last)
             cutOff == Len(m) > Cap /\ last = Cap
             r == QueryInvoices(more)
  <1>1. /\ PageSize \in Nat \ {0} /\ Cap \in Nat
        /\ pageOffset \in 0..Cap /\ store \in Seq(Records)
    BY QueryConstants DEF TypeOK
  <1>2. /\ Start \in Nat \ {0}
        /\ from = Nil => Start = 1
        /\ from # Nil => Start \in 1..Len(store)
    BY StartIsFound
  <1>3. Place \in Nat /\ Start <= Len(store) + 1
    BY <1>1, <1>2 DEF Place
  <1>4. m = SubSeq(store, Start, Len(store))
    <2>1. CASE from = Nil
      <3>1. SubSeq(store, 1, Len(store)) = store
        BY <1>1
      <3> QED
        BY <1>2, <2>1, <3>1 DEF Matches
    <2>2. CASE from # Nil
      <3> DEFINE place == CHOOSE i \in DOMAIN store : store[i] = from
      <3>1. Start = place
        BY <2>2 DEF Start
      <3>2. Matches = SubSeq(store, place, Len(store))
        BY <2>2 DEF Matches
      <3> QED
        BY <3>1, <3>2
    <2> QED
      BY <2>1, <2>2
  <1> HIDE DEF m
  <1>5. /\ m \in Seq(Records) /\ Len(m) = Len(store) - Start + 1
        /\ \A k \in 1..Len(m) : m[k] = store[Start + k - 1]
    BY <1>1, <1>2, <1>3, <1>4
  <1>6. pageOffset <= Len(m)
    BY <1>1, <1>2, <1>5 DEF Place
  <1>7. /\ last \in Nat /\ pageOffset <= last /\ last <= Cap /\ last <= Len(m)
    <2>1. /\ last \in {pageOffset + PageSize, Cap, Len(m)}
          /\ last <= Cap /\ last <= Len(m)
      <3>1. pageOffset + PageSize \in Nat /\ Cap \in Nat /\ Len(m) \in Nat
        BY <1>1, <1>5
      <3> QED
        BY <3>1, MinOfThree
    <2> QED
      BY <1>1, <1>5, <1>6, <2>1
  <1> HIDE DEF last
  <1>8. /\ page \in Seq(Records) /\ Len(page) = last - pageOffset
        /\ \A i \in 1..Len(page) : page[i] = m[pageOffset + i]
    <2>1. page \in Seq(Records) /\ Len(page) = last - pageOffset
      BY <1>1, <1>5, <1>7, Slice
    <2>2. \A k \in 1..last - (pageOffset + 1) + 1 :
             page[k] = m[(pageOffset + 1) + k - 1]
      BY <1>1, <1>5, <1>7, Slice
    <2> HIDE DEF page
    <2>3. ASSUME NEW k \in 1..Len(page) PROVE page[k] = m[pageOffset + k]
      <3>1. /\ k \in 1..last - (pageOffset + 1) + 1
            /\ (pageOffset + 1) + k - 1 = pageOffset + k
        BY <1>1, <1>7, <2>1
      <3> QED
        BY <2>2, <3>1
    <2> QED
      BY <2>1, <2>3
  <1>9. /\ r.invoices = page /\ r.nextPageOffset = pageOffset + Len(page)
        /\ ~r.hasMore /\ ~r.isTruncated => ~(Len(m) > last)
    <2>1. buildQueryPath(pageOffset) = pageOffset
      BY <1>1 DEF buildQueryPath
    <2>2. /\ Response(pageOffset, more).invoices = page
          /\ Response(pageOffset, more).isTruncated = cutOff
          /\ Response(pageOffset, more).hasMore
               = IF cutOff THEN more ELSE Len(m) > last
      BY DEF Response, InRecords, m, last
    <2>3. r = [invoices |-> page,
               hasMore |-> Response(pageOffset, more).hasMore,
               isTruncated |-> cutOff,
               nextPageOffset |-> pageOffset + Len(page)]
      BY <2>1, <2>2 DEF QueryInvoices, toQueryResult, Result
    <2> HIDE DEF r, page, cutOff
    <2>4. ~r.isTruncated => r.hasMore = (Len(m) > last)
      BY <2>2, <2>3
    <2> QED
      BY <2>3, <2>4
  <1> HIDE DEF page, r
  <1>10. \A i \in 1..Len(page) : page[i] = store[Place + i]
    <2> TAKE i \in 1..Len(page)
    <2>1. /\ page[i] = m[pageOffset + i] /\ pageOffset + i \in 1..Len(m)
      BY <1>1, <1>5, <1>7, <1>8
    <2>2. m[pageOffset + i] = store[Start + (pageOffset + i) - 1]
      BY <1>5, <2>1
    <2>3. Start + (pageOffset + i) - 1 = Place + i
      BY <1>1, <1>2 DEF Place
    <2> QED
      BY <2>1, <2>2, <2>3
  <1>11. Place + Len(page) = Start - 1 + last
    BY <1>1, <1>2, <1>7, <1>8 DEF Place
  <1>12. Place + Len(page) <= Len(store)
    BY <1>1, <1>2, <1>5, <1>7, <1>11
  <1>13. ~r.hasMore /\ ~r.isTruncated => Place + Len(page) = Len(store)
    <2>1. ~r.hasMore /\ ~r.isTruncated => last = Len(m)
      <3>1. ~r.hasMore /\ ~r.isTruncated => ~(Len(m) > last)
        BY <1>9, Zenon
      <3>2. Len(m) \in Nat
        BY <1>5
      <3> QED
        BY <1>7, <3>1, <3>2
    <2> QED
      BY <1>1, <1>2, <1>5, <1>11, <2>1
  <1>14. Len(page) \in Nat /\ pageOffset + Len(page) <= Cap
    BY <1>1, <1>7, <1>8
  <1>15. /\ r.invoices \in Seq(Records) /\ Len(r.invoices) = Len(page)
         /\ \A i \in 1..Len(page) : r.invoices[i] = store[Place + i]
    BY <1>8, <1>9, <1>10
  <1> QED
    BY <1>3, <1>9, <1>12, <1>13, <1>14, <1>15 DEF r

-----------------------------------------------------------------------------
(* Every step preserves the invariant.                                     *)

LEMMA InitHolds == Init => IInv
  <1> SUFFICES ASSUME Init PROVE IInv
    OBVIOUS
  <1>1. PICK n \in 0..Cardinality(Records) : store = [i \in 1..n |-> i]
    BY DEF Init
  <1>2. n \in Nat /\ 1..n \subseteq Records /\ Records \subseteq Nat
    BY RecordsAreNatural
  <1>3. store \in Seq(Records) /\ Len(store) = n /\ IsInjective(store)
    BY <1>1, <1>2 DEF IsInjective
  <1>4. TypeOK
    BY <1>2, <1>3, QueryConstants DEF TypeOK, Init, ToSet, Nil
  <1>5. Start = 1 /\ Place = 0
    BY DEF Init, Start, Place
  <1>6. RangeInv /\ SeenInv /\ NothingMissed
    BY <1>3, <1>5 DEF Init, RangeInv, SeenInv, NothingMissed
  <1>7. QuietInv /\ PagesAreDisjoint
    BY FS_EmptySet DEF Init, QuietInv, PagesAreDisjoint
  <1> QED
    BY <1>4, <1>6, <1>7 DEF IInv

(* What receiving a page does, whatever the caller does next.              *)
LEMMA Received ==
    ASSUME IInv, InRecords, NEW more \in BOOLEAN, Receive(QueryInvoices(more))
    PROVE  LET n == Len(QueryInvoices(more).invoices)
           IN  /\ got' \subseteq Records /\ fetched' = fetched + n
               /\ \A i \in 1..Place + n : store[i] \in base => store[i] \in got'
               /\ quiet => /\ from = Nil
                           /\ got' = {store[i] : i \in 1..pageOffset + n}
                           /\ fetched' = pageOffset + n
                           /\ fetched' = Cardinality(got')
  <1> DEFINE r == QueryInvoices(more)
             n == Len(r.invoices)
  <1>1. /\ TypeOK /\ RangeInv /\ pc = "query" /\ Place <= Len(store)
        /\ \A i \in 1..Place : store[i] \in base => store[i] \in got
        /\ got' = got \cup ToSet(r.invoices) /\ fetched' = fetched + n
    BY DEF IInv, SeenInv, Receive
  <1>2. /\ r.invoices \in Seq(Records) /\ n \in Nat /\ Place \in Nat
        /\ Place + n <= Len(store)
        /\ \A i \in 1..n : r.invoices[i] = store[Place + i]
    BY <1>1, Page
  <1> HIDE DEF r
  <1>3. got' \subseteq Records
    BY <1>1, <1>2 DEF TypeOK, ToSet
  <1>4. ToSet(r.invoices) = {store[i] : i \in Place + 1 .. Place + n}
    <2>1. ASSUME NEW x \in ToSet(r.invoices)
          PROVE  x \in {store[i] : i \in Place + 1 .. Place + n}
      <3>1. PICK i \in 1..n : x = r.invoices[i]
        BY <1>2 DEF ToSet
      <3>2. x = store[Place + i] /\ Place + i \in Place + 1 .. Place + n
        BY <1>2, <3>1
      <3> QED
        BY <3>2
    <2>2. ASSUME NEW i \in Place + 1 .. Place + n
          PROVE  store[i] \in ToSet(r.invoices)
      <3>1. i - Place \in 1..n /\ Place + (i - Place) = i
        BY <1>2
      <3>2. r.invoices[i - Place] = store[i]
        BY <1>2, <3>1
      <3> QED
        BY <1>2, <3>1, <3>2 DEF ToSet
    <2> QED
      BY <2>1, <2>2
  <1>5. ASSUME NEW i \in 1..Place + n, store[i] \in base
        PROVE  store[i] \in got'
    <2>1. CASE i <= Place
      BY <1>1, <1>2, <1>5, <2>1
    <2>2. CASE i > Place
      BY <1>1, <1>2, <1>4, <2>2
    <2> QED
      BY <1>2, <2>1, <2>2
  <1>6. ASSUME quiet
        PROVE  /\ from = Nil
               /\ got' = {store[i] : i \in 1..pageOffset + n}
               /\ fetched' = pageOffset + n
               /\ fetched' = Cardinality(got')
    <2>1. /\ from = Nil /\ fetched = pageOffset
          /\ got = {store[i] : i \in 1..pageOffset}
      BY <1>1, <1>6 DEF IInv, QuietInv
    <2>2. Place = pageOffset /\ pageOffset \in Nat
      BY <1>1, <2>1 DEF Place, Start, TypeOK
    <2>3. got' = {store[i] : i \in 1..pageOffset + n}
      <3>1. 1..pageOffset + n = (1..pageOffset) \cup (pageOffset + 1 .. pageOffset + n)
        BY <1>2, <2>2
      <3> QED
        BY <1>1, <1>4, <2>1, <2>2, <3>1
    <2>4. Cardinality(got') = pageOffset + n
      <3>1. store \in Seq(Records) /\ IsInjective(store)
        BY <1>1 DEF TypeOK
      <3>2. pageOffset + n \in 0..Len(store)
        BY <1>2, <2>2, <3>1
      <3> QED
        BY <2>3, <3>1, <3>2, PrefixSize
    <2> QED
      BY <1>1, <2>1, <2>2, <2>3, <2>4
  <1> QED
    BY <1>1, <1>3, <1>5, <1>6 DEF r

(* When an invoice arrives, a place moves by one at most, and only away    *)
(* from the first one.                                                     *)
LEMMA Arrived ==
    ASSUME IInv, InvoiceArrives
    PROVE  IInv'
  <1>1. /\ TypeOK /\ RangeInv /\ pc = "query" /\ Place <= Len(store)
        /\ \A i \in 1..Place : store[i] \in base => store[i] \in got
        /\ base \subseteq ToSet(store)
    BY DEF IInv, SeenInv, InvoiceArrives
  <1>2. PICK r \in Records \ ToSet(store), i \in 1..Len(store) + 1 :
             store' = InsertAt(store, i, r)
    BY DEF InvoiceArrives
  <1>3. UNCHANGED <<pc, from, pageOffset, got, base, fetched>> /\ quiet' = FALSE
    BY DEF InvoiceArrives, filters
  <1>4. store \in Seq(Records) /\ IsInjective(store) /\ pageOffset \in Nat
    BY <1>1 DEF TypeOK
  <1>5. /\ store' \in Seq(Records) /\ Len(store') = Len(store) + 1
        /\ \A k \in 1..Len(store) + 1 :
              store'[k] = IF k < i THEN store[k]
                          ELSE IF k = i THEN r ELSE store[k - 1]
    <2> DEFINE t == InsertAt(store, i, r)
    <2>1. r \in Records /\ i \in 1..Len(store) + 1
      BY <1>2
    <2>2. /\ t \in Seq(Records) /\ Len(t) = Len(store) + 1
          /\ \A k \in 1..Len(store) + 1 :
                t[k] = IF k < i THEN store[k]
                       ELSE IF k = i THEN r ELSE store[k - 1]
      BY <1>4, <2>1, Inserted
    <2> HIDE DEF t
    <2>3. store' = t
      BY <1>2 DEF t
    <2> QED
      BY <2>2, <2>3
  <1>6. \A k \in 1..Len(store) : store[k] # r
    BY <1>2, <1>4 DEF ToSet
  <1>7. IsInjective(store')
    <2>1. SUFFICES ASSUME NEW a \in 1..Len(store) + 1, NEW b \in 1..Len(store) + 1,
                          store'[a] = store'[b], a < b
                   PROVE  FALSE
      BY <1>5 DEF IsInjective
    <2>2. CASE a = i \/ b = i
      BY <1>4, <1>5, <1>6, <2>1, <2>2
    <2>3. CASE a # i /\ b # i
      <3> DEFINE x == IF a < i THEN a ELSE a - 1
                 y == IF b < i THEN b ELSE b - 1
      <3>1. x \in 1..Len(store) /\ y \in 1..Len(store) /\ x # y
        BY <1>4, <2>1, <2>3
      <3>2. store[x] = store[y]
        BY <1>5, <2>1, <2>3
      <3> QED
        BY <1>4, <3>1, <3>2 DEF IsInjective
    <2> QED
      BY <2>2, <2>3
  <1>8. ToSet(store) \subseteq ToSet(store')
    <2> SUFFICES ASSUME NEW k \in 1..Len(store)
                 PROVE  store[k] \in ToSet(store')
      BY <1>4 DEF ToSet
    <2> DEFINE j == IF k < i THEN k ELSE k + 1
    <2>1. /\ j \in 1..Len(store) + 1 /\ j # i
          /\ k = IF j < i THEN j ELSE j - 1
      BY <1>4
    <2>2. store'[j] = store[k]
      BY <1>5, <2>1
    <2> HIDE DEF j
    <2>3. store'[j] \in ToSet(store')
      <3>1. j \in DOMAIN store'
        BY <1>5, <2>1
      <3> QED
        BY <3>1, Zenon DEF ToSet
    <2> QED
      BY <2>2, <2>3
  <1>9. TypeOK'
    BY <1>1, <1>3, <1>5, <1>7 DEF TypeOK
  <1>10. RangeInv'
    BY <1>1, <1>3, <1>8 DEF RangeInv
  <1>11. \/ Start' = Start
         \/ Start' = Start + 1 /\ i <= Start
    <2>1. CASE from = Nil
      BY <1>3, <2>1 DEF Start
    <2>2. CASE from # Nil
      <3>1. Start \in 1..Len(store) /\ store[Start] = from
        BY <1>1, <2>2, StartIsFound
      <3>2. Start' \in 1..Len(store') /\ store'[Start'] = from
        <4>1. (TypeOK /\ RangeInv =>
                 (from # Nil => Start \in 1..Len(store) /\ store[Start] = from))'
          BY StartIsFound, PTL
        <4> QED
          BY <1>3, <1>9, <1>10, <2>2, <4>1
      <3> DEFINE j == IF Start < i THEN Start ELSE Start + 1
      <3>3. j \in 1..Len(store) + 1 /\ store'[j] = from
        BY <1>4, <1>5, <3>1
      <3>4. Start' = j
        BY <1>5, <1>7, <3>2, <3>3 DEF IsInjective
      <3> QED
        BY <1>4, <3>1, <3>4
    <2> QED
      BY <2>1, <2>2
  <1>12. SeenInv'
    <2>1. Start \in Nat \ {0} /\ Place \in Nat /\ Place >= Start - 1
      BY <1>1, <1>4, StartIsFound DEF Place
    <2>2. \/ Place' = Place
          \/ Place' = Place + 1 /\ i <= Place + 1
      BY <1>3, <1>4, <1>11, <2>1 DEF Place
    <2>3. Place' <= Len(store')
      BY <1>1, <1>4, <1>5, <2>1, <2>2
    <2>4. ASSUME NEW k \in 1..Place', store'[k] \in base
          PROVE  store'[k] \in got
      <3>1. k \in 1..Len(store) + 1
        BY <1>4, <1>5, <2>1, <2>2, <2>3
      <3>2. CASE k < i
        <4>1. k \in 1..Place /\ store'[k] = store[k]
          BY <1>5, <2>1, <2>2, <3>1, <3>2
        <4> QED
          BY <1>1, <2>4, <4>1
      <3>3. CASE k = i
        BY <1>1, <1>2, <1>5, <2>4, <3>1, <3>3
      <3>4. CASE k > i
        <4>1. k - 1 \in 1..Place /\ store'[k] = store[k - 1]
          BY <1>5, <2>1, <2>2, <3>1, <3>4
        <4> QED
          BY <1>1, <2>4, <4>1
      <3> QED
        BY <3>1, <3>2, <3>3, <3>4
    <2> QED
      BY <1>1, <1>3, <1>8, <2>3, <2>4 DEF SeenInv
  <1> QED
    BY <1>1, <1>3, <1>9, <1>10, <1>12
    DEF IInv, QuietInv, NothingMissed, PagesAreDisjoint

(* The last answer reaches to the end of the store.                        *)
LEMMA LastPageKeeps ==
    ASSUME IInv, InRecords, LastPage
    PROVE  IInv'
  <1>0. PICK more \in BOOLEAN :
             /\ Receive(QueryInvoices(more))
             /\ ~QueryInvoices(more).hasMore /\ ~QueryInvoices(more).isTruncated
             /\ pc' = "done"
    BY DEF LastPage
  <1> DEFINE r == QueryInvoices(more)
             n == Len(r.invoices)
  <1>1. /\ TypeOK /\ RangeInv /\ base \subseteq ToSet(store)
        /\ pc = "query" /\ Place <= Len(store)
    BY DEF IInv, SeenInv, LastPage, Receive
  <1>2. Receive(r) /\ ~r.hasMore /\ ~r.isTruncated /\ pc' = "done"
    BY <1>0
  <1>3. UNCHANGED <<store, from, pageOffset, base, quiet>>
    BY DEF LastPage, Receive, filters
  <1>4. Place + n = Len(store) /\ n \in Nat
    BY <1>1, <1>2, Page
  <1>5. /\ got' \subseteq Records /\ fetched' = fetched + n
        /\ \A i \in 1..Place + n : store[i] \in base => store[i] \in got'
        /\ quiet => fetched' = Cardinality(got')
    BY <1>2, Received
  <1> HIDE DEF r
  <1>6. TypeOK'
    BY <1>1, <1>2, <1>3, <1>4, <1>5 DEF TypeOK
  <1>7. NothingMissed'
    BY <1>1, <1>3, <1>4, <1>5 DEF NothingMissed, TypeOK, ToSet
  <1> QED
    BY <1>1, <1>2, <1>3, <1>5, <1>6, <1>7
    DEF IInv, RangeInv, SeenInv, QuietInv, PagesAreDisjoint

(* The next page begins where this one ends.                               *)
LEMMA NextPageKeeps ==
    ASSUME IInv, InRecords, NextPage
    PROVE  IInv'
  <1>0. PICK more \in BOOLEAN :
             /\ Receive(QueryInvoices(more))
             /\ pageOffset' = QueryInvoices(more).nextPageOffset
    BY DEF NextPage
  <1> DEFINE r == QueryInvoices(more)
             n == Len(r.invoices)
  <1>1. /\ TypeOK /\ RangeInv /\ base \subseteq ToSet(store)
        /\ pc = "query" /\ Place <= Len(store)
    BY DEF IInv, SeenInv, NextPage, Receive
  <1>2. Receive(r) /\ pageOffset' = r.nextPageOffset
    BY <1>0
  <1>3. UNCHANGED <<store, pc, from, base, quiet>>
    BY DEF NextPage, Receive
  <1>4. /\ Place + n <= Len(store) /\ n \in Nat /\ Place \in Nat
        /\ pageOffset' = pageOffset + n /\ pageOffset + n <= Cap
    BY <1>1, <1>2, Page
  <1>5. /\ got' \subseteq Records /\ fetched' = fetched + n
        /\ \A i \in 1..Place + n : store[i] \in base => store[i] \in got'
        /\ quiet => /\ from = Nil
                    /\ got' = {store[i] : i \in 1..pageOffset + n}
                    /\ fetched' = pageOffset + n
                    /\ fetched' = Cardinality(got')
    BY <1>2, Received
  <1> HIDE DEF r
  <1>6. pageOffset \in Nat /\ Cap \in Nat
    BY <1>1, QueryConstants DEF TypeOK
  <1>7. TypeOK'
    BY <1>1, <1>3, <1>4, <1>5, <1>6 DEF TypeOK
  <1>8. Place' = Place + n
    <2>1. Start' = Start
      BY <1>3 DEF Start
    <2>2. Start \in Nat
      BY <1>1, StartIsFound
    <2> HIDE DEF n
    <2> QED
      BY <1>4, <1>6, <2>1, <2>2 DEF Place
  <1>9. SeenInv'
    BY <1>1, <1>3, <1>4, <1>5, <1>8 DEF SeenInv
  <1>10. QuietInv' /\ PagesAreDisjoint'
    BY <1>3, <1>4, <1>5 DEF QuietInv, PagesAreDisjoint
  <1> QED
    BY <1>1, <1>3, <1>7, <1>9, <1>10 DEF IInv, RangeInv, NothingMissed

(* The narrowed range begins at the last record seen, not behind it.       *)
LEMMA NarrowRangeKeeps ==
    ASSUME IInv, InRecords, NarrowRange
    PROVE  IInv'
  <1>0. PICK more \in BOOLEAN :
             /\ Receive(QueryInvoices(more))
             /\ QueryInvoices(more).invoices # <<>>
             /\ from' = Last(QueryInvoices(more).invoices)
             /\ pageOffset' = 0 /\ quiet' = FALSE
    BY DEF NarrowRange
  <1> DEFINE r == QueryInvoices(more)
             n == Len(r.invoices)
  <1>1. /\ TypeOK /\ RangeInv /\ base \subseteq ToSet(store)
        /\ pc = "query" /\ Place <= Len(store)
    BY DEF IInv, SeenInv, NarrowRange, Receive
  <1>2. /\ Receive(r) /\ r.invoices # <<>> /\ from' = Last(r.invoices)
        /\ pageOffset' = 0 /\ quiet' = FALSE
    BY <1>0
  <1>3. UNCHANGED <<store, pc, base>>
    BY DEF NarrowRange, Receive
  <1>4. /\ r.invoices \in Seq(Records)
        /\ Place + n <= Len(store) /\ n \in Nat /\ Place \in Nat
        /\ \A i \in 1..n : r.invoices[i] = store[Place + i]
    BY <1>1, <1>2, Page
  <1>5. /\ got' \subseteq Records /\ fetched' = fetched + n
        /\ \A i \in 1..Place + n : store[i] \in base => store[i] \in got'
    BY <1>2, Received
  <1> HIDE DEF r
  <1>6. store \in Seq(Records) /\ IsInjective(store)
    BY <1>1 DEF TypeOK
  <1>7. /\ n \in 1..n /\ Place + n \in 1..Len(store)
        /\ from' = store[Place + n]
    BY <1>2, <1>4, <1>6 DEF Last
  <1>8. from' \in Records /\ from' # Nil /\ from' \in ToSet(store)
    <2>1. from' \in Records /\ from' \in ToSet(store)
      BY <1>6, <1>7 DEF ToSet
    <2>2. Nil \notin Records
      BY RecordsAreNatural DEF Nil
    <2> QED
      BY <2>1, <2>2
  <1>9. TypeOK'
    <2>1. pageOffset' \in 0..Cap
      BY <1>2, QueryConstants
    <2>2. fetched' \in Nat
      BY <1>1, <1>4, <1>5 DEF TypeOK
    <2> QED
      BY <1>1, <1>2, <1>3, <1>5, <1>8, <2>1, <2>2 DEF TypeOK
  <1>10. RangeInv'
    BY <1>3, <1>8 DEF RangeInv
  <1>11. Place' = Place + n - 1
    <2>1. Start' \in 1..Len(store) /\ store[Start'] = from'
      <3>1. (TypeOK /\ RangeInv =>
               (from # Nil => Start \in 1..Len(store) /\ store[Start] = from))'
        BY StartIsFound, PTL
      <3> QED
        BY <1>3, <1>8, <1>9, <1>10, <3>1
    <2>2. Start' = Place + n
      BY <1>6, <1>7, <2>1 DEF IsInjective
    <2> QED
      BY <1>2, <1>4, <2>2 DEF Place
  <1>12. SeenInv'
    BY <1>1, <1>3, <1>4, <1>5, <1>6, <1>7, <1>11 DEF SeenInv
  <1> QED
    BY <1>1, <1>2, <1>3, <1>9, <1>10, <1>12
    DEF IInv, QuietInv, NothingMissed, PagesAreDisjoint

LEMMA StepHolds ==
    ASSUME IInv, InRecords, [Next]_vars
    PROVE  IInv'
  <1>1. CASE GiveUp
    <2>1. pc' = "failed" /\ UNCHANGED <<store, from, pageOffset, got, base, fetched, quiet>>
      BY <1>1 DEF GiveUp, filters, history
    <2> QED
      BY <2>1 DEF IInv, TypeOK, RangeInv, SeenInv, QuietInv, NothingMissed,
                  PagesAreDisjoint
  <1>2. CASE UNCHANGED vars
    BY <1>2 DEF IInv, TypeOK, RangeInv, SeenInv, QuietInv, NothingMissed,
                PagesAreDisjoint, Start, Place, vars, filters, history
  <1> QED
    BY <1>1, <1>2, LastPageKeeps, NextPageKeeps, NarrowRangeKeeps, Arrived
    DEF Next

-----------------------------------------------------------------------------
(* The theorems.                                                           *)

(* The invariant holds in every reachable state when offsets count         *)
(* records.                                                                *)
THEOREM Inductive ==
    ASSUME InRecords
    PROVE  Spec => []IInv
  <1>1. Init => IInv
    BY InitHolds
  <1>2. InRecords /\ IInv /\ [Next]_vars => IInv'
    BY StepHolds
  <1>3. InRecords
    OBVIOUS
  <1>4. IInv /\ [Next]_vars => IInv'
    BY <1>2, <1>3
  <1> QED
    BY <1>1, <1>4, PTL DEF Spec

(* The variables keep their types: the offset never passes what the server *)
(* pages through, and the date range begins at a record or nowhere.        *)
THEOREM TypesAreKept ==
    ASSUME InRecords
    PROVE  Spec => []TypeOK
  <1>1. IInv => TypeOK
    BY DEF IInv
  <1> QED
    BY <1>1, Inductive, PTL

(* A caller that follows HasMore, NextPageOffset and IsTruncated           *)
(* (query.go:310-313) to the end has seen every invoice that was stored    *)
(* when it began, for every arrival order, page size and limit.            *)
THEOREM NothingMissedThm ==
    ASSUME InRecords
    PROVE  Spec => []NothingMissed
  <1>1. IInv => NothingMissed
    BY DEF IInv
  <1> QED
    BY <1>1, Inductive, PTL

(* Without arrivals and narrowing no record is received twice              *)
(* (NextPageOffset, query.go:514).                                         *)
THEOREM PagesAreDisjointThm ==
    ASSUME InRecords
    PROVE  Spec => []PagesAreDisjoint
  <1>1. IInv => PagesAreDisjoint
    BY DEF IInv
  <1> QED
    BY <1>1, Inductive, PTL
=============================================================================
