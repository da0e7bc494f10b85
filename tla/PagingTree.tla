------------------------------ MODULE PagingTree ------------------------------
(***************************************************************************)
(* The page table that Paging builds, for every node size and page size.   *)
(* First the arithmetic: a page number is the digits that the walk uses as *)
(* indices.  Then the calls: those of init_paging and init_early_paging    *)
(* map 4 KiB pages and huge pages below different PML4 entries.  Then the  *)
(* shape: the nodes below the PML4 form a tree in which every node stands  *)
(* for one run of pages, and adding a table or setting an entry keeps it.  *)
(***************************************************************************)
EXTENDS Paging, TLAPS

(* What integer division and remainder by a positive number return.        *)
LEMMA DivFacts ==
  ASSUME NEW n \in Nat, NEW d \in Nat \ {0}
  PROVE  /\ n \div d \in Nat /\ n % d \in 0 .. d - 1
         /\ n = d * (n \div d) + (n % d)
<1>1. n \div d \in Int /\ n % d \in 0 .. d - 1 /\ n = d * (n \div d) + (n % d)
  OBVIOUS
<1> DEFINE q == n \div d
           r == n % d
<1>2. q \in Int /\ r \in 0 .. d - 1 /\ n = d * q + r BY <1>1
<1> HIDE DEF q, r
<1>3. q >= 0
  <2> SUFFICES ASSUME q <= -1 PROVE FALSE BY <1>2
  <2>1. d * q <= d * (-1) BY <1>2
  <2> QED BY <1>2, <2>1
<1>4. q \in Nat BY <1>2, <1>3
<1>5. n \div d \in Nat BY <1>4 DEF q
<1> QED BY <1>1, <1>5

(* A quotient and a remainder are determined by their sum.                 *)
LEMMA DigitsUnique ==
  ASSUME NEW d \in Nat \ {0}, NEW q \in Nat, NEW r \in 0 .. d - 1,
         NEW s \in Nat, NEW t \in 0 .. d - 1, d * q + r = d * s + t
  PROVE  q = s /\ r = t
<1>1. CASE q < s
  <2>1. d * (q + 1) <= d * s BY <1>1
  <2>2. d * (q + 1) = d * q + d OBVIOUS
  <2>3. d * q \in Nat /\ d * s \in Nat OBVIOUS
  <2> QED BY <2>1, <2>2, <2>3
<1>2. CASE s < q
  <2>1. d * (s + 1) <= d * q BY <1>2
  <2>2. d * (s + 1) = d * s + d OBVIOUS
  <2>3. d * q \in Nat /\ d * s \in Nat OBVIOUS
  <2> QED BY <2>1, <2>2, <2>3
<1>3. CASE q = s
  <2>1. d * q \in Nat OBVIOUS
  <2> QED BY <1>3, <2>1
<1> QED BY <1>1, <1>2, <1>3

(* Quotient and remainder are determined by the sum they make up.          *)
LEMMA DivIs ==
  ASSUME NEW d \in Nat \ {0}, NEW q \in Nat, NEW r \in 0 .. d - 1
  PROVE  (d * q + r) \div d = q /\ (d * q + r) % d = r
<1> DEFINE n == d * q + r
<1>1. n \in Nat OBVIOUS
<1>2. n = d * q + r OBVIOUS
<1> HIDE DEF n
<1>3. n \div d \in Nat /\ n % d \in 0 .. d - 1 /\ n = d * (n \div d) + (n % d)
  BY <1>1, DivFacts, Zenon
<1> DEFINE s == n \div d
           t == n % d
<1>4. s \in Nat /\ t \in 0 .. d - 1 /\ d * q + r = d * s + t BY <1>2, <1>3
<1> HIDE DEF s, t
<1>5. q = s /\ r = t BY <1>4, DigitsUnique
<1> QED BY <1>5 DEF n, s, t

(* Dividing twice is dividing by the product.                              *)
LEMMA DivDiv ==
  ASSUME NEW n \in Nat, NEW d \in Nat \ {0}, NEW e \in Nat \ {0}
  PROVE  n \div (d * e) = (n \div d) \div e
<1> DEFINE q == n \div d
           r == n % d
           s == q \div e
           t == q % e
<1>1. q \in Nat /\ r \in 0 .. d - 1 /\ n = d * q + r BY DivFacts, Zenon
<1> HIDE DEF q, r
<1>2. s \in Nat /\ t \in 0 .. e - 1 /\ q = e * s + t BY <1>1, DivFacts, Zenon
<1> HIDE DEF s, t
<1> DEFINE m == d * e
           u == d * t + r
<1>3. m \in Nat \ {0} OBVIOUS
<1>4. n = m * s + u
  <2>1. d * q = d * (e * s + t) BY <1>2
  <2>2. d * (e * s + t) = (d * e) * s + d * t BY <1>2
  <2> QED BY <1>1, <1>2, <2>1, <2>2
<1>5. u \in 0 .. m - 1
  <2>1. t \in Nat /\ t + 1 <= e BY <1>2
  <2>2. d * (t + 1) <= d * e BY <2>1
  <2>3. d * (t + 1) = d * t + d BY <2>1
  <2>4. d * t \in Nat BY <2>1
  <2> QED BY <1>1, <2>2, <2>3, <2>4
<1> HIDE DEF m, u
<1>6. n \div m = s BY <1>2, <1>3, <1>4, <1>5, DivIs
<1> QED BY <1>6 DEF m, s, q

-----------------------------------------------------------------------------
(* The digits of a page number                                             *)
(* The page table, page directory, PDPT or PML4 that a page is in, counted *)
(* from the start of the address space, and its entry there.               *)
Prefix(p, l) ==
  IF l = 1 THEN p \div F
  ELSE IF l = 2 THEN (p \div F) \div F
  ELSE IF l = 3 THEN ((p \div F) \div F) \div F
  ELSE (((p \div F) \div F) \div F) \div F

Digit(p, l) == IF l = 1 THEN p % F ELSE Prefix(p, l - 1) % F

(* The index of a page in a level's table is one of the F indices.         *)
LEMMA PrefixType ==
  ASSUME NEW p \in Nat, NEW l \in 1 .. 4
  PROVE  Prefix(p, l) \in Nat /\ Digit(p, l) \in 0 .. F - 1
<1>1. F \in Nat \ {0} BY PagingAssumption
<1> DEFINE a == p \div F
<1>2. a \in Nat /\ p % F \in 0 .. F - 1 BY <1>1, DivFacts, Zenon
<1> HIDE DEF a
<1> DEFINE b == a \div F
<1>3. b \in Nat /\ a % F \in 0 .. F - 1 BY <1>1, <1>2, DivFacts, Zenon
<1> HIDE DEF b
<1> DEFINE c == b \div F
<1>4. c \in Nat /\ b % F \in 0 .. F - 1 BY <1>1, <1>3, DivFacts, Zenon
<1> HIDE DEF c
<1> DEFINE d == c \div F
<1>5. d \in Nat /\ c % F \in 0 .. F - 1 BY <1>1, <1>4, DivFacts, Zenon
<1> HIDE DEF d
<1>6. /\ Prefix(p, 1) = a /\ Prefix(p, 2) = b /\ Prefix(p, 3) = c /\ Prefix(p, 4) = d
      /\ Digit(p, 1) = p % F /\ Digit(p, 2) = a % F
      /\ Digit(p, 3) = b % F /\ Digit(p, 4) = c % F
  BY DEF Prefix, Digit, a, b, c, d
<1>7. l = 1 \/ l = 2 \/ l = 3 \/ l = 4 OBVIOUS
<1> QED BY <1>2, <1>3, <1>4, <1>5, <1>6, <1>7

(* Going down one level appends one index to the path of a page.           *)
LEMMA PrefixSplits ==
  ASSUME NEW p \in Nat
  PROVE  /\ p = F * Prefix(p, 1) + Digit(p, 1)
         /\ \A l \in 2 .. 4 : Prefix(p, l - 1) = F * Prefix(p, l) + Digit(p, l)
<1>1. F \in Nat \ {0} BY PagingAssumption
<1>2. p = F * Prefix(p, 1) + Digit(p, 1) BY <1>1, DivFacts DEF Prefix, Digit
<1>3. ASSUME NEW l \in 2 .. 4
      PROVE  Prefix(p, l - 1) = F * Prefix(p, l) + Digit(p, l)
  <2> DEFINE q == Prefix(p, l - 1)
  <2>1. q \in Nat BY PrefixType
  <2>2. Prefix(p, l) = q \div F /\ Digit(p, l) = q % F
    <3>1. CASE l = 2 BY <3>1 DEF Prefix, Digit
    <3>2. CASE l = 3 BY <3>2 DEF Prefix, Digit
    <3>3. CASE l = 4 BY <3>3 DEF Prefix, Digit
    <3> QED BY <3>1, <3>2, <3>3
  <2> HIDE DEF q
  <2>3. q = F * (q \div F) + (q % F) BY <1>1, <2>1, DivFacts
  <2>4. Prefix(p, l - 1) = q BY DEF q
  <2>5. F * (q \div F) + (q % F) = F * Prefix(p, l) + Digit(p, l) BY <2>2, Zenon
  <2> QED BY <2>3, <2>4, <2>5, Zenon
<1> QED BY <1>2, <1>3

(* The path of a page at one level fixes its path and its index one level up. *)
LEMMA PrefixUnique ==
  ASSUME NEW p \in Nat, NEW l \in 2 .. 4, NEW q \in Nat, NEW i \in 0 .. F - 1,
         Prefix(p, l - 1) = F * q + i
  PROVE  q = Prefix(p, l) /\ i = Digit(p, l)
<1>1. F \in Nat \ {0} BY PagingAssumption
<1>2. Prefix(p, l) \in Nat /\ Digit(p, l) \in 0 .. F - 1
  <2>1. l \in 1 .. 4 OBVIOUS
  <2> QED BY <2>1, PrefixType, Zenon
<1>3. F * q + i = F * Prefix(p, l) + Digit(p, l) BY PrefixSplits
<1> QED BY <1>1, <1>2, <1>3, DigitsUnique

(* Two pages with the same path down to the last index are one page.       *)
LEMMA SamePage ==
  ASSUME NEW p \in Nat, NEW q \in Nat, Prefix(p, 1) = Prefix(q, 1),
         Digit(p, 1) = Digit(q, 1)
  PROVE  p = q
BY PrefixSplits

(* The sizes one entry of each level spans are positive.                   *)
LEMMA Spans ==
  /\ F \in Nat \ {0} /\ PAGE \in Nat \ {0}
  /\ F * F \in Nat \ {0} /\ F * F * F \in Nat \ {0} /\ F * F * F * F \in Nat \ {0}
  /\ PAGE * F \in Nat \ {0} /\ PAGE * F * F \in Nat \ {0}
  /\ PAGE * F * F * F \in Nat \ {0}
<1>1. F \in Nat \ {0} /\ PAGE \in Nat \ {0} BY PagingAssumption
<1>2. \A x, y \in Nat \ {0} : x * y \in Nat \ {0} OBVIOUS
<1> QED BY <1>1, <1>2

(* nth_level_table_index gives the digits of the page.                     *)
LEMMA IndexIsDigit ==
  ASSUME NEW p \in Nat, NEW l \in 1 .. 4
  PROVE  Index(p * PAGE, l) = Digit(p, l)
<1> DEFINE v == p * PAGE
<1>1. v \in Nat BY Spans
<1>2. v \div PAGE = p
  <2>1. v = PAGE * p + 0 BY Spans
  <2>2. 0 \in 0 .. PAGE - 1 BY Spans
  <2> HIDE DEF v
  <2> QED BY <2>1, <2>2, Spans, DivIs
<1> HIDE DEF v
<1>3. v \div (PAGE * F) = p \div F BY <1>1, <1>2, Spans, DivDiv, ZenonT(30)
<1>4. v \div (PAGE * F * F) = (p \div F) \div F
  <2> DEFINE d == PAGE * F
  <2>1. d \in Nat \ {0} BY Spans
  <2> HIDE DEF d
  <2>2. F \in Nat \ {0} BY Spans
  <2>3. v \div (d * F) = (v \div d) \div F BY <1>1, <2>1, <2>2, DivDiv, Zenon
  <2> QED BY <1>3, <2>3 DEF d
<1>5. v \div (PAGE * F * F * F) = ((p \div F) \div F) \div F
  <2> DEFINE d == PAGE * F * F
  <2>1. d \in Nat \ {0} BY Spans
  <2> HIDE DEF d
  <2>2. F \in Nat \ {0} BY Spans
  <2>3. v \div (d * F) = (v \div d) \div F BY <1>1, <2>1, <2>2, DivDiv, Zenon
  <2> QED BY <1>4, <2>3 DEF d
<1>6. CASE l = 1 BY <1>2, <1>6 DEF Index, LevelSpan, Digit, v
<1>7. CASE l = 2 BY <1>3, <1>7 DEF Index, LevelSpan, Digit, Prefix, v
<1>8. CASE l = 3 BY <1>4, <1>8 DEF Index, LevelSpan, Digit, Prefix, v
<1>9. CASE l = 4 BY <1>5, <1>9 DEF Index, LevelSpan, Digit, Prefix, v
<1> QED BY <1>6, <1>7, <1>8, <1>9

(* Dividing level by level is dividing by the span of the level at once.   *)
LEMMA PrefixDiv ==
  ASSUME NEW p \in Nat
  PROVE  /\ Prefix(p, 2) = p \div (F * F) /\ Prefix(p, 3) = p \div (F * F * F)
         /\ Prefix(p, 4) = p \div (F * F * F * F)
<1>1. p \div (F * F) = (p \div F) \div F BY Spans, DivDiv, ZenonT(30)
<1>2. p \div (F * F * F) = ((p \div F) \div F) \div F
  <2> DEFINE d == F * F
  <2>1. d \in Nat \ {0} BY Spans
  <2> HIDE DEF d
  <2>2. p \div (d * F) = (p \div d) \div F BY <2>1, Spans, DivDiv
  <2> QED BY <1>1, <2>2 DEF d
<1>3. p \div (F * F * F * F) = (((p \div F) \div F) \div F) \div F
  <2> DEFINE d == F * F * F
  <2>1. d \in Nat \ {0} BY Spans
  <2> HIDE DEF d
  <2>2. p \div (d * F) = (p \div d) \div F BY <2>1, Spans, DivDiv
  <2> QED BY <1>2, <2>2 DEF d
<1> QED BY <1>1, <1>2, <1>3 DEF Prefix

(* Every page of the address space lies under the root table.              *)
LEMMA PrefixTop ==
  ASSUME NEW p \in Pages
  PROVE  p \in Nat /\ Prefix(p, 4) = 0
<1> DEFINE n == F * F * F * F
<1>1. n \in Nat \ {0} BY Spans
<1>2. p \in 0 .. n - 1 BY DEF Pages
<1> HIDE DEF n
<1>3. p \in Nat /\ p = n * 0 + p BY <1>1, <1>2
<1>4. p \div n = 0 BY <1>1, <1>2, <1>3, DivIs
<1> QED BY <1>3, <1>4, PrefixDiv DEF n

(* Where a page lies in its huge page.                                     *)
LEMMA HugeOffset ==
  ASSUME NEW p \in Nat
  PROVE  \E r \in 0 .. F * F - 1 :
           p = (F * F) * Prefix(p, 2) + r /\ (p * PAGE) % HUGE = r * PAGE
<1> DEFINE n == F * F
           q == p \div n
           r == p % n
<1>1. n \in Nat \ {0} BY Spans
<1>2. q = Prefix(p, 2) BY PrefixDiv
<1> HIDE DEF n
<1>3. q \in Nat /\ r \in 0 .. n - 1 /\ p = n * q + r BY <1>1, DivFacts, Zenon
<1> HIDE DEF q, r
<1> DEFINE h == PAGE * n
           s == r * PAGE
<1>4. h \in Nat \ {0} BY <1>1, Spans
<1>5. s \in 0 .. h - 1
  <2>1. r \in Nat /\ r + 1 <= n /\ PAGE \in Nat \ {0} BY <1>1, <1>3, Spans
  <2>2. PAGE * (r + 1) <= PAGE * n BY <1>1, <2>1
  <2>3. PAGE * (r + 1) = r * PAGE + PAGE BY <2>1
  <2>4. r * PAGE \in Nat BY <2>1
  <2> QED BY <1>1, <2>1, <2>2, <2>3, <2>4
<1>6. p * PAGE = h * q + s BY <1>1, <1>3, Spans
<1>7. h = HUGE
  <2>1. PAGE * (F * F) = PAGE * F * F BY Spans
  <2> QED BY <2>1 DEF HUGE, n
<1> HIDE DEF h, s
<1>8. (h * q + s) % h = s BY <1>3, <1>4, <1>5, DivIs, Zenon
<1>9. (p * PAGE) % HUGE = s BY <1>6, <1>7, <1>8
<1> QED BY <1>2, <1>3, <1>9 DEF n, s

(* The next page is in the same last-level table, or is the first of another. *)
LEMMA NextPage ==
  ASSUME NEW p \in Nat
  PROVE  \/ Prefix(p + 1, 1) = Prefix(p, 1)
         \/ Digit(p + 1, 1) = 0
<1> DEFINE a == Prefix(p, 1)
           d == Digit(p, 1)
<1>1. a \in Nat /\ d \in 0 .. F - 1 /\ p = F * a + d BY PrefixType, PrefixSplits
<1>2. F \in Nat \ {0} BY Spans
<1> HIDE DEF a, d
<1>3. CASE d + 1 < F
  <2>1. d + 1 \in 0 .. F - 1 /\ p + 1 = F * a + (d + 1) BY <1>1, <1>2, <1>3
  <2>2. (F * a + (d + 1)) \div F = a BY <1>1, <1>2, <2>1, DivIs
  <2>3. (p + 1) \div F = a BY <2>1, <2>2
  <2> QED BY <2>3 DEF Prefix, a
<1>4. CASE ~(d + 1 < F)
  <2>1. p + 1 = F * (a + 1) + 0 /\ a + 1 \in Nat /\ 0 \in 0 .. F - 1
    BY <1>1, <1>2, <1>4
  <2>2. (F * (a + 1) + 0) % F = 0 BY <1>2, <2>1, DivIs
  <2>3. (p + 1) % F = 0 BY <2>1, <2>2
  <2> QED BY <2>3 DEF Digit
<1> QED BY <1>3, <1>4

(* The index Fill computes from the first page is the page's own index.    *)
LEMMA ModAdd ==
  ASSUME NEW p \in Nat, NEW i \in Nat
  PROVE  ((p % F) + i) % F = Digit(p + i, 1)
<1>1. F \in Nat \ {0} BY Spans
<1> DEFINE a == p \div F
           d == p % F
<1>2. a \in Nat /\ d \in 0 .. F - 1 /\ p = F * a + d BY <1>1, DivFacts, Zenon
<1> HIDE DEF a, d
<1> DEFINE b == (d + i) \div F
           e == (d + i) % F
<1>3. d + i \in Nat BY <1>2
<1>4. b \in Nat /\ e \in 0 .. F - 1 /\ d + i = F * b + e BY <1>1, <1>3, DivFacts, Zenon
<1> HIDE DEF b, e
<1>5. p + i = F * (a + b) + e
  <2>1. F * (a + b) = F * a + F * b BY <1>1, <1>2, <1>4
  <2>2. F * a \in Nat /\ F * b \in Nat BY <1>1, <1>2, <1>4
  <2> QED BY <1>2, <1>4, <2>1, <2>2
<1>6. a + b \in Nat BY <1>2, <1>4
<1>7. (F * (a + b) + e) % F = e BY <1>1, <1>4, <1>6, DivIs
<1>8. (p + i) % F = e BY <1>5, <1>7
<1> QED BY <1>8 DEF Digit, e, d

(* The PML4 entry that a page is below.                                    *)
LEMMA SlotRange ==
  ASSUME NEW p \in Nat, NEW s \in Nat
  PROVE  Prefix(p, 3) = s <=> F * F * F * s <= p /\ p < F * F * F * s + F * F * F
<1> DEFINE n == F * F * F
           q == p \div n
           r == p % n
<1>1. n \in Nat \ {0} /\ Prefix(p, 3) = q BY Spans, PrefixDiv
<1> HIDE DEF n
<1>2. q \in Nat /\ r \in 0 .. n - 1 /\ p = n * q + r BY <1>1, DivFacts, Zenon
<1> HIDE DEF q, r
<1>3. ASSUME q = s PROVE n * s <= p /\ p < n * s + n
  <2>1. n * s \in Nat BY <1>1
  <2> QED BY <1>1, <1>2, <1>3, <2>1
<1>4. ASSUME n * s <= p, p < n * s + n PROVE q = s
  <2> DEFINE t == p - n * s
  <2>1. n * s \in Nat BY <1>1
  <2>2. t \in 0 .. n - 1 /\ p = n * s + t BY <1>1, <1>4, <2>1
  <2> HIDE DEF t
  <2> QED BY <1>1, <1>2, <2>2, DigitsUnique
<1> QED BY <1>1, <1>3, <1>4 DEF n

(* The 1 GiB entry and the direct mapping, in pages.                       *)
LEMMA Sizes ==
  /\ HUGE = PAGE * (F * F) /\ LINER_MAPPING_SIZE = PAGE * (F * F * F)
  /\ LINER_MAPPING_SIZE = HUGE * F /\ HUGE \in Nat \ {0}
  /\ LINER_MAPPING_SIZE \in Nat \ {0}
<1>1. PAGE * F * F = PAGE * (F * F) /\ PAGE * F * F * F = PAGE * (F * F * F)
  BY Spans
<1> QED BY <1>1, Spans DEF HUGE, LINER_MAPPING_SIZE

(* Addresses of pages are ordered as the pages are.                        *)
LEMMA Scaled ==
  ASSUME NEW x \in Nat, NEW y \in Nat
  PROVE  /\ x * PAGE \in Nat
         /\ (x * PAGE <= y * PAGE <=> x <= y) /\ (x * PAGE < y * PAGE <=> x < y)
<1>1. PAGE \in Nat \ {0} BY Spans
<1>2. x <= y => x * PAGE <= y * PAGE BY <1>1
<1>3. x < y => x * PAGE < y * PAGE
  <2> SUFFICES ASSUME x + 1 <= y PROVE x * PAGE < y * PAGE OBVIOUS
  <2>1. (x + 1) * PAGE <= y * PAGE BY <1>1
  <2>2. (x + 1) * PAGE = x * PAGE + PAGE BY <1>1
  <2>3. x * PAGE \in Nat /\ y * PAGE \in Nat BY <1>1
  <2> QED BY <1>1, <2>1, <2>2, <2>3
<1>4. y < x => y * PAGE < x * PAGE
  <2> SUFFICES ASSUME y + 1 <= x PROVE y * PAGE < x * PAGE OBVIOUS
  <2>1. (y + 1) * PAGE <= x * PAGE BY <1>1
  <2>2. (y + 1) * PAGE = y * PAGE + PAGE BY <1>1
  <2>3. x * PAGE \in Nat /\ y * PAGE \in Nat BY <1>1
  <2> QED BY <1>1, <2>1, <2>2, <2>3
<1>5. x * PAGE \in Nat /\ y * PAGE \in Nat BY <1>1
<1> DEFINE u == x * PAGE
           v == y * PAGE
<1>6. u \in Nat /\ v \in Nat /\ (x <= y => u <= v) /\ (x < y => u < v)
      /\ (y < x => v < u) /\ (x = y => u = v)
  BY <1>2, <1>3, <1>4, <1>5
<1> HIDE DEF u, v
<1>7. u <= v <=> x <= y BY <1>6
<1>8. u < v <=> x < y BY <1>6
<1> QED BY <1>6, <1>7, <1>8 DEF u, v

(* What an aligned address is a multiple of.                               *)
LEMMA Aligned ==
  ASSUME NEW v \in Nat, NEW d \in Nat \ {0}, v % d = 0
  PROVE  v \div d \in Nat /\ v = (v \div d) * d
<1> DEFINE q == v \div d
<1>1. q \in Nat /\ v = d * q + (v % d) BY DivFacts
<1>2. q \in Nat /\ v = d * q + 0 BY <1>1
<1> HIDE DEF q
<1>3. v = q * d BY <1>2
<1> QED BY <1>2, <1>3 DEF q

(* A multiple of a size is aligned to it.                                  *)
LEMMA MultipleAligned ==
  ASSUME NEW q \in Nat, NEW d \in Nat \ {0}
  PROVE  (q * d) % d = 0 /\ (q * d) \div d = q
<1>1. 0 \in 0 .. d - 1 OBVIOUS
<1>2. (d * q + 0) % d = 0 /\ (d * q + 0) \div d = q BY <1>1, DivIs
<1>3. q * d = d * q + 0 OBVIOUS
<1> QED BY <1>2, <1>3

(* An address is its PML4 slot, its huge page there and an offset.         *)
LEMMA HugeLeaf ==
  ASSUME NEW p \in Nat
  PROVE  /\ (p * PAGE) % HUGE \in Nat
         /\ p * PAGE = (Prefix(p, 3) * LINER_MAPPING_SIZE + Digit(p, 3) * HUGE)
                         + ((p * PAGE) % HUGE)
<1>1. PICK r \in 0 .. F * F - 1 :
        p = (F * F) * Prefix(p, 2) + r /\ (p * PAGE) % HUGE = r * PAGE
  BY HugeOffset
<1>2. Prefix(p, 2) = F * Prefix(p, 3) + Digit(p, 3) BY PrefixSplits
<1>3. Prefix(p, 3) \in Nat /\ Digit(p, 3) \in Nat /\ r \in Nat BY PrefixType, Spans
<1> DEFINE a == Prefix(p, 3)
           b == Digit(p, 3)
<1>4. p = (F * F) * (F * a + b) + r BY <1>1, <1>2
<1>5. a \in Nat /\ b \in Nat BY <1>3
<1> HIDE DEF a, b
<1>6. (F * F) * (F * a + b) = (F * F * F) * a + (F * F) * b BY <1>5, Spans
<1>7. p * PAGE = ((F * F * F) * a + (F * F) * b) * PAGE + r * PAGE
  <2> DEFINE x == (F * F * F) * a + (F * F) * b
  <2>1. x \in Nat /\ p = x + r BY <1>3, <1>4, <1>5, <1>6, Spans
  <2> HIDE DEF x
  <2>2. p * PAGE = x * PAGE + r * PAGE BY <1>3, <2>1, Spans
  <2> QED BY <2>2 DEF x
<1>8. ((F * F * F) * a + (F * F) * b) * PAGE = a * LINER_MAPPING_SIZE + b * HUGE
  <2> DEFINE n == F * F * F
             m == F * F
  <2>1. n \in Nat /\ m \in Nat /\ PAGE \in Nat BY Spans
  <2> HIDE DEF n, m
  <2>2. (n * a + m * b) * PAGE = a * (PAGE * n) + b * (PAGE * m) BY <1>5, <2>1
  <2> QED BY <2>2, Sizes DEF n, m
<1>9. r * PAGE \in Nat BY <1>3, Spans
<1> QED BY <1>1, <1>7, <1>8, <1>9 DEF a, b

(* The first n huge pages of a slot.                                       *)
LEMMA HugeFilled ==
  ASSUME NEW p \in Nat, NEW s \in Nat, NEW n \in 0 .. F
  PROVE  (F * F * F * s <= p /\ p < F * F * F * s + n * F * F)
           <=> (Prefix(p, 3) = s /\ Digit(p, 3) < n)
<1>1. PICK r \in 0 .. F * F - 1 : p = (F * F) * Prefix(p, 2) + r BY HugeOffset
<1>2. Prefix(p, 2) = F * Prefix(p, 3) + Digit(p, 3) BY PrefixSplits
<1>3. Prefix(p, 3) \in Nat /\ Digit(p, 3) \in 0 .. F - 1
  <2>1. 3 \in 1 .. 4 OBVIOUS
  <2> QED BY <2>1, PrefixType, Zenon
<1> DEFINE d == Digit(p, 3)
           m == F * F
           z == F * F * F * s
<1>4. /\ m \in Nat \ {0} /\ r \in Nat /\ r < m /\ d \in Nat /\ d < F
      /\ F \in Nat \ {0} /\ n \in Nat /\ n <= F /\ z \in Nat
  BY <1>3, Spans
<1>5. ASSUME Prefix(p, 3) = s PROVE p = z + (m * d + r)
  <2>1. (F * F) * (F * s + Digit(p, 3)) = F * F * F * s + (F * F) * Digit(p, 3)
    BY <1>3, Spans
  <2>2. p = F * F * F * s + (F * F) * Digit(p, 3) + r
    BY <1>1, <1>2, <1>5, <2>1
  <2>3. p = z + m * d + r BY <2>2
  <2>4. m * d \in Nat BY <1>4
  <2> HIDE DEF z, m, d
  <2> QED BY <1>4, <2>3, <2>4
<1>6. n * F * F = m * n
  <2>1. n * F * F = (F * F) * n BY <1>4
  <2> QED BY <2>1
<1>7. F * F * F = m * F OBVIOUS
<1>8. Prefix(p, 3) = s <=> z <= p /\ p < z + m * F BY <1>7, SlotRange
<1> HIDE DEF d, m, z
<1>9. m * n \in Nat /\ m * F \in Nat /\ m * n <= m * F /\ m * d \in Nat BY <1>4
<1>10. d < n => m * d + r < m * n
  <2> SUFFICES ASSUME d + 1 <= n PROVE m * d + r < m * n BY <1>4
  <2>1. m * (d + 1) <= m * n BY <1>4
  <2>2. m * (d + 1) = m * d + m BY <1>4
  <2> QED BY <1>4, <1>9, <2>1, <2>2
<1>11. ~(d < n) => m * n <= m * d BY <1>4
<1>12. ASSUME z <= p, p < z + m * n PROVE Prefix(p, 3) = s /\ d < n
  <2>1. Prefix(p, 3) = s BY <1>4, <1>8, <1>9, <1>12
  <2>2. p = z + (m * d + r) BY <1>5, <2>1
  <2>3. m * d + r < m * n BY <1>4, <1>9, <1>12, <2>2
  <2>4. d < n BY <1>4, <1>9, <1>11, <2>3
  <2> QED BY <2>1, <2>4
<1>13. ASSUME Prefix(p, 3) = s, d < n PROVE z <= p /\ p < z + m * n
  <2>1. p = z + (m * d + r) BY <1>5, <1>13
  <2>2. m * d + r < m * n BY <1>10, <1>13
  <2> QED BY <1>4, <1>9, <2>1, <2>2
<1>14. (z <= p /\ p < z + m * n) <=> (Prefix(p, 3) = s /\ d < n) BY <1>12, <1>13
<1> QED BY <1>6, <1>14 DEF z, d

-----------------------------------------------------------------------------
(* The mappings that are asked for                                         *)
Attr == {"NotPresent", "ReadWriteKernel1GiB", "ReadExecuteKernel", "ReadKernel",
         "ReadWriteKernel", "ReadWriteKernelIO", "ReadWriteExecuteKernel"}

PageEntry == {e \in [addr : Nat, attr : Attr] : IsPresent(e) \/ e = NotPresent}

(* The PML4 entries below which every page is huge: the direct mapping's,  *)
(* and the firmware's identity map.                                        *)
Slot == LINER_MAPPING_BASE_VADDR \div LINER_MAPPING_SIZE

HugeSlots == {Slot} \cup (IF booting = "loader" THEN {0} ELSE {})

(* The direct mapping fills exactly one entry of the root's address space. *)
LEMMA SlotFacts ==
  /\ Slot \in Nat /\ LINER_MAPPING_BASE_VADDR \in Nat
  /\ LINER_MAPPING_BASE_VADDR = Slot * LINER_MAPPING_SIZE
  /\ LINER_MAPPING_BASE_VADDR \div PAGE = F * F * F * Slot
  /\ LINER_MAPPING_BASE_VADDR = (F * F * F * Slot) * PAGE
  /\ F * F * F * Slot \in Nat
  /\ Prefix(F * F * F * Slot, 3) = Slot /\ Digit(F * F * F * Slot, 3) = 0
  /\ Slot < F => F * F * F * Slot \in Pages
<1> DEFINE n == F * F * F
           B == LINER_MAPPING_BASE_VADDR
           v == F * F * F * Slot
<1>1. n \in Nat \ {0} /\ PAGE \in Nat \ {0} /\ F \in Nat \ {0} /\ F * F \in Nat \ {0}
  BY Spans
<1>2. B \in Nat /\ LINER_MAPPING_SIZE \in Nat \ {0} /\ B % LINER_MAPPING_SIZE = 0
      /\ LINER_MAPPING_SIZE = PAGE * n
  BY PagingAssumption, Sizes
<1>3. Slot \in Nat /\ B = Slot * LINER_MAPPING_SIZE
  <2> HIDE DEF B, n
  <2> QED BY <1>2, Aligned, Zenon DEF Slot, B
<1>4. v \in Nat /\ v = n * Slot BY <1>1, <1>3
<1>5. B = v * PAGE
  <2> HIDE DEF B, n, v
  <2> QED BY <1>1, <1>2, <1>3, <1>4
<1>6. B \div PAGE = v
  <2> HIDE DEF B, v
  <2> QED BY <1>1, <1>4, <1>5, MultipleAligned
<1>7. Prefix(v, 3) = Slot /\ Digit(v, 3) = 0
  <2>1. 1 \in 0 .. F /\ v <= v /\ v < v + 1 * F * F BY <1>1, <1>4
  <2>2. Prefix(v, 3) = Slot /\ Digit(v, 3) < 1
    BY <1>3, <1>4, <2>1, HugeFilled
  <2>3. Digit(v, 3) \in Nat
    <3>1. 3 \in 1 .. 4 OBVIOUS
    <3> HIDE DEF v
    <3> QED BY <1>1, <1>4, <3>1, PrefixType
  <2> QED BY <2>2, <2>3
<1>8. Slot < F => v \in Pages
  <2> SUFFICES ASSUME Slot < F PROVE v \in Pages OBVIOUS
  <2> HIDE DEF n
  <2>1. n * Slot < n * F BY <1>1, <1>3
  <2>2. n * F = F * F * F * F BY DEF n
  <2>3. F * F * F * F \in Nat BY Spans
  <2> HIDE DEF v
  <2> QED BY <1>4, <2>1, <2>2, <2>3 DEF Pages
<1> QED BY <1>2, <1>3, <1>4, <1>5, <1>6, <1>7, <1>8

(* The n pages from v on, or v alone if n is zero, are no huge ones.       *)
SmallRange(v, n) ==
  \A k \in 0 .. n : k = 0 \/ k < n =>
    v + k \in Pages /\ Prefix(v + k, 3) \notin HugeSlots

Call == [virt : Nat, phys : Nat, size : Nat, attr : Attr]

SmallCall(c) ==
  /\ c.attr \notin {"NotPresent", "ReadWriteKernel1GiB"}
  /\ c.virt % PAGE = 0 /\ c.phys % PAGE = 0
  /\ SmallRange(c.virt \div PAGE, NumPages(c.size))

(* What virt_to_phys says of the pages that the kernel's calls map.        *)
CallAgrees(c) ==
  booting = "kernel" =>
    \A k \in 0 .. NumPages(c.size) : 
      k < NumPages(c.size) /\ c.virt + k * PAGE >= LINER_MAPPING_BASE_VADDR =>
        c.phys + k * PAGE = VirtToPhys(c.virt + k * PAGE)

GoodCalls == {c \in Call : (c = DirectMapping \/ SmallCall(c)) /\ CallAgrees(c)}

(* div_ceil: the pages of a call are those that begin inside it.           *)
LEMMA NumPagesIs ==
  ASSUME NEW size \in Nat
  PROVE  /\ NumPages(size) \in Nat
         /\ \A k \in Nat : k * PAGE < size <=> k < NumPages(size)
<1> DEFINE s == size + PAGE - 1
           q == s \div PAGE
           r == s % PAGE
<1>1. PAGE \in Nat \ {0} /\ s \in Nat BY PagingAssumption
<1>2. q \in Nat /\ r \in 0 .. PAGE - 1 /\ s = PAGE * q + r
  <2> HIDE DEF s
  <2> QED BY <1>1, DivFacts, Zenon
<1>3. NumPages(size) = q BY DEF NumPages
<1>4. ASSUME NEW k \in Nat PROVE k * PAGE < size <=> k < q
  <2>1. k * PAGE \in Nat /\ q * PAGE \in Nat BY <1>1, <1>2
  <2> HIDE DEF q, r
  <2>2. CASE k < q
    <3>1. (k + 1) * PAGE <= q * PAGE
      <4>1. k + 1 \in Nat /\ k + 1 <= q BY <1>2, <2>2
      <4> QED BY <1>2, <4>1, Scaled
    <3>2. (k + 1) * PAGE = k * PAGE + PAGE BY <1>1
    <3>3. PAGE * q = q * PAGE BY <1>1, <1>2
    <3> QED BY <1>1, <1>2, <2>1, <2>2, <3>1, <3>2, <3>3
  <2>3. CASE q <= k
    <3>1. q * PAGE <= k * PAGE BY <1>2, <2>3, Scaled
    <3>2. PAGE * q = q * PAGE BY <1>1, <1>2
    <3> QED BY <1>1, <1>2, <2>1, <2>3, <3>1, <3>2
  <2> QED BY <1>2, <2>2, <2>3
<1> HIDE DEF q
<1> QED BY <1>2, <1>3, <1>4

(* A whole number of pages is counted exactly.                             *)
LEMMA NumPagesWhole ==
  ASSUME NEW n \in Nat
  PROVE  NumPages(n * PAGE) = n
<1>1. PAGE \in Nat \ {0} BY PagingAssumption
<1>2. n * PAGE = PAGE * n /\ PAGE * n \in Nat BY <1>1
<1>3. PAGE - 1 \in 0 .. PAGE - 1 BY <1>1
<1>4. n * PAGE + PAGE - 1 = PAGE * n + (PAGE - 1) BY <1>1, <1>2
<1>5. (PAGE * n + (PAGE - 1)) \div PAGE = n BY <1>1, <1>3, DivIs
<1> QED BY <1>4, <1>5 DEF NumPages

(* The direct mapping is one call with 1 GiB entries, over whole tables.   *)
LEMMA DirectIsHuge ==
  /\ DirectMapping \in Call /\ IsHugeCall(DirectMapping)
  /\ NumPages(LINER_MAPPING_SIZE) = F * F * F
  /\ LINER_MAPPING_BASE_VADDR % PAGE = 0 /\ 0 % PAGE = 0
<1>1. PICK n, v, m, h : n = F * F * F /\ v = F * F * F * Slot /\ m = F * F /\ h = HUGE
  OBVIOUS
<1>2. /\ n \in Nat /\ v \in Nat /\ m \in Nat \ {0} /\ h \in Nat \ {0}
      /\ PAGE \in Nat \ {0} /\ F \in Nat /\ Slot \in Nat
  BY <1>1, Spans, SlotFacts, Sizes
<1>3. LINER_MAPPING_SIZE = n * PAGE /\ h = PAGE * m BY <1>1, <1>2, Sizes
<1>4. NumPages(LINER_MAPPING_SIZE) = n BY <1>2, <1>3, NumPagesWhole
<1>5. n % m = 0
  <2>1. n = F * m BY <1>1, <1>2
  <2> QED BY <1>2, <2>1, MultipleAligned
<1>6. LINER_MAPPING_BASE_VADDR % PAGE = 0
  BY <1>1, <1>2, SlotFacts, MultipleAligned
<1>7. LINER_MAPPING_BASE_VADDR % h = 0
  <2>1. F * Slot \in Nat /\ v = (F * Slot) * m BY <1>1, <1>2
  <2>2. PICK w : w = F * Slot OBVIOUS
  <2>3. (w * m) * PAGE = w * h BY <1>2, <1>3, <2>1, <2>2
  <2>4. LINER_MAPPING_BASE_VADDR = w * h BY <1>1, <2>1, <2>2, <2>3, SlotFacts
  <2> QED BY <1>2, <2>1, <2>2, <2>4, MultipleAligned
<1>8. 0 % h = 0 /\ 0 % PAGE = 0
  <2>1. 0 * h = 0 /\ 0 * PAGE = 0 /\ 0 \in Nat BY <1>2
  <2> QED BY <1>2, <2>1, MultipleAligned
<1>9. DirectMapping \in Call
  <2>1. LINER_MAPPING_BASE_VADDR \in Nat /\ LINER_MAPPING_SIZE \in Nat /\ 0 \in Nat
        /\ "ReadWriteKernel1GiB" \in Attr
    BY SlotFacts, Sizes DEF Attr
  <2> HIDE DEF Attr, LINER_MAPPING_SIZE
  <2> QED BY <2>1 DEF DirectMapping, Mapping, Call
<1>10. IsHugeCall(DirectMapping)
  <2>1. /\ DirectMapping.attr = "ReadWriteKernel1GiB"
        /\ DirectMapping.virt = LINER_MAPPING_BASE_VADDR /\ DirectMapping.phys = 0
        /\ DirectMapping.size = LINER_MAPPING_SIZE
    BY DEF DirectMapping, Mapping
  <2> QED BY <1>1, <1>4, <1>5, <1>7, <1>8, <2>1 DEF IsHugeCall
<1> QED BY <1>1, <1>4, <1>6, <1>8, <1>9, <1>10

(* The direct mapping lies inside the address space, below the kernel.     *)
LEMMA SlotBound ==
  ASSUME NEW image \in Images
  PROVE  /\ Slot < F /\ Slot # 0
         /\ image.text \in Nat /\ image.bss_end \in Nat
         /\ image.bss_end < LINER_MAPPING_SIZE * F
<1>1. image \in [text : Nat, text_end : Nat, rodata : Nat, rodata_end : Nat,
                  data : Nat, bss_end : Nat]
      /\ KERNEL_CODE_BASE_VADDR < image.text
      /\ image.text <= image.text_end /\ image.text_end <= image.rodata
      /\ image.rodata <= image.rodata_end /\ image.rodata_end <= image.data
      /\ image.data <= image.bss_end /\ image.bss_end < LINER_MAPPING_SIZE * F
  BY ImageAssumption
<1>2. /\ image.text \in Nat /\ image.text_end \in Nat /\ image.rodata \in Nat
      /\ image.rodata_end \in Nat /\ image.data \in Nat /\ image.bss_end \in Nat
  BY <1>1
<1>3. PICK z, b, m : z = LINER_MAPPING_SIZE /\ b = LINER_MAPPING_BASE_VADDR /\ m = Slot * z
  OBVIOUS
<1>4. /\ z \in Nat \ {0} /\ b \in Nat /\ KERNEL_CODE_BASE_VADDR \in Nat
      /\ b + z <= KERNEL_CODE_BASE_VADDR
      /\ APIC_IO_START_ADDR \in Nat /\ APIC_IO_START_ADDR < b /\ F \in Nat
  BY <1>3, PagingAssumption, Sizes
<1>5. Slot \in Nat /\ b = m BY <1>3, SlotFacts
<1>6. PICK t : t = z * F OBVIOUS
<1>7. t \in Nat BY <1>4, <1>6
<1>8. m < t BY <1>1, <1>2, <1>3, <1>4, <1>5, <1>6, <1>7
<1>9. Slot < F
  <2> SUFFICES ASSUME F <= Slot PROVE FALSE BY <1>4, <1>5
  <2>1. F * z <= Slot * z BY <1>4, <1>5
  <2>2. z * F = F * z BY <1>4
  <2> QED BY <1>3, <1>4, <1>5, <1>6, <1>7, <1>8, <2>1, <2>2
<1>10. Slot # 0
  <2>1. 0 * z = 0 BY <1>4
  <2> QED BY <1>3, <1>4, <1>5, <2>1
<1> QED BY <1>1, <1>2, <1>9, <1>10

(* An address above the kernel's base is mapped to its offset from there,  *)
(* and is not in a slot of huge pages.                                     *)
LEMMA KernelPage ==
  ASSUME Slot < F, Slot # 0, NEW p \in Nat, KERNEL_CODE_BASE_VADDR < p * PAGE,
         p * PAGE < LINER_MAPPING_SIZE * F
  PROVE  /\ p \in Pages /\ Prefix(p, 3) \notin HugeSlots
         /\ VirtToPhys(p * PAGE) = p * PAGE - KERNEL_CODE_BASE_VADDR
<1>1. PICK n, x, s, z : /\ n = F * F * F /\ x = p * PAGE /\ s = F * F * F * Slot
                        /\ z = LINER_MAPPING_SIZE
  OBVIOUS
<1>2. /\ n \in Nat /\ s \in Nat /\ x \in Nat /\ Slot \in Nat /\ z = n * PAGE /\ z \in Nat
      /\ PAGE \in Nat \ {0} /\ F \in Nat /\ F * F * F * F \in Nat /\ F * F * F * F = n * F
  <2>1. n \in Nat /\ PAGE \in Nat \ {0} /\ F \in Nat /\ F * F * F * F \in Nat
    BY <1>1, Spans
  <2>2. z = n * PAGE /\ z \in Nat BY <1>1, <2>1, Sizes
  <2>3. s \in Nat /\ Slot \in Nat BY <1>1, SlotFacts
  <2>4. x \in Nat BY <1>1, <2>1
  <2>5. F * F * F * F = n * F BY <1>1
  <2> QED BY <2>1, <2>2, <2>3, <2>4, <2>5
<1>3. /\ LINER_MAPPING_BASE_VADDR = s * PAGE /\ KERNEL_CODE_BASE_VADDR \in Nat
      /\ s * PAGE + z <= KERNEL_CODE_BASE_VADDR /\ s * PAGE \in Nat
  BY <1>1, <1>2, SlotFacts, PagingAssumption
<1>4. s * PAGE + n * PAGE = (s + n) * PAGE BY <1>2
<1>5. s + n < p
  <2>1. (s + n) * PAGE < p * PAGE BY <1>1, <1>2, <1>3, <1>4
  <2> QED BY <1>2, <2>1, Scaled
<1>6. p < n * F
  <2>1. z * F = (n * F) * PAGE BY <1>2
  <2>2. p * PAGE < (n * F) * PAGE /\ n * F \in Nat BY <1>1, <1>2, <2>1
  <2> QED BY <2>2, Scaled
<1>7. p \in Pages BY <1>2, <1>6 DEF Pages
<1>8. Prefix(p, 3) # Slot
  <2> SUFFICES ASSUME Prefix(p, 3) = Slot PROVE FALSE OBVIOUS
  <2>1. p < s + n BY <1>1, <1>2, SlotRange
  <2> QED BY <1>2, <1>5, <2>1
<1>9. Prefix(p, 3) # 0
  <2> SUFFICES ASSUME Prefix(p, 3) = 0 PROVE FALSE OBVIOUS
  <2>1. p < F * F * F * 0 + F * F * F BY SlotRange
  <2>2. p < n
    <3>1. F * F * F * 0 = 0 BY <1>2
    <3> QED BY <1>1, <1>2, <2>1, <3>1
  <2> QED BY <1>2, <1>5, <2>2
<1>10. VirtToPhys(x) = x - KERNEL_CODE_BASE_VADDR
  BY <1>1, <1>2, <1>3 DEF VirtToPhys
<1> QED BY <1>1, <1>7, <1>8, <1>9, <1>10 DEF HugeSlots

(* A call for a part of the kernel image.                                  *)
LEMMA KernelCall ==
  ASSUME Slot < F, Slot # 0, NEW from \in Nat, NEW span \in Nat, NEW size \in Nat,
         from % PAGE = 0, KERNEL_CODE_BASE_VADDR < from,
         from + span < LINER_MAPPING_SIZE * F, NumPages(size) = NumPages(span),
         NEW attr \in Attr, attr \notin {"NotPresent", "ReadWriteKernel1GiB"}
  PROVE  Mapping(from, from - KERNEL_CODE_BASE_VADDR, size, attr) \in GoodCalls
<1> DEFINE K == KERNEL_CODE_BASE_VADDR
           c == Mapping(from, from - K, size, attr)
<1>1. PICK v, n, t : v = from \div PAGE /\ n = NumPages(size) /\ t = LINER_MAPPING_SIZE * F
  OBVIOUS
<1>2. PAGE \in Nat \ {0} /\ K \in Nat /\ t \in Nat /\ F \in Nat
  <2>1. LINER_MAPPING_SIZE \in Nat /\ F \in Nat BY Sizes, PagingAssumption
  <2> QED BY <1>1, <2>1, PagingAssumption
<1>3. v \in Nat /\ from = v * PAGE BY <1>1, <1>2, Aligned
<1>4. n \in Nat /\ \A k \in Nat : k * PAGE < span <=> k < n BY <1>1, NumPagesIs
<1>5. c \in Call
  <2>1. from - K \in Nat BY <1>2
  <2> HIDE DEF Attr
  <2> QED BY <2>1 DEF Mapping, Call
<1>6. c.virt = from /\ c.phys = from - K /\ c.size = size /\ c.attr = attr
  BY DEF Mapping
<1>7. (from - K) % PAGE = 0
  <2>1. HUGE \in Nat \ {0} /\ HUGE = PAGE * (F * F) /\ F * F \in Nat BY Sizes, Spans
  <2>2. K \div HUGE \in Nat /\ K = (K \div HUGE) * HUGE
    <3>1. K % HUGE = 0 BY PagingAssumption
    <3> HIDE DEF K
    <3> QED BY <1>2, <2>1, <3>1, Aligned, Zenon
  <2>3. PICK m, g : m = K \div HUGE /\ g = F * F OBVIOUS
  <2>4. K = (m * g) * PAGE /\ m * g \in Nat
    <3>1. K = m * (PAGE * g) /\ m \in Nat /\ g \in Nat BY <2>1, <2>2, <2>3
    <3>2. m * g \in Nat BY <3>1
    <3>3. m * (PAGE * g) = (m * g) * PAGE BY <1>2, <3>1
    <3> QED BY <3>1, <3>2, <3>3
  <2>5. PICK w : w = m * g OBVIOUS
  <2>6. w < v
    <3>1. w * PAGE < v * PAGE BY <1>3, <2>4, <2>5
    <3> QED BY <1>3, <2>4, <2>5, <3>1, Scaled
  <2>7. v - w \in Nat /\ v * PAGE - w * PAGE = (v - w) * PAGE
    BY <1>2, <1>3, <2>4, <2>5, <2>6
  <2>8. from - K = (v - w) * PAGE BY <1>3, <2>4, <2>5, <2>7
  <2> QED BY <1>2, <2>7, <2>8, MultipleAligned
<1>8. ASSUME NEW k \in 0 .. n, k = 0 \/ k < n
      PROVE  /\ v + k \in Pages /\ Prefix(v + k, 3) \notin HugeSlots
             /\ (from - K) + k * PAGE = VirtToPhys(from + k * PAGE)
  <2>1. k \in Nat /\ k * PAGE \in Nat BY <1>2, <1>8
  <2>2. k * PAGE <= span
    <3>1. CASE k = 0
      <4>1. 0 * PAGE = 0 BY <1>2
      <4> QED BY <3>1, <4>1
    <3>2. CASE k < n BY <1>4, <2>1, <3>2
    <3> QED BY <1>8, <3>1, <3>2
  <2>3. (v + k) * PAGE = from + k * PAGE /\ v + k \in Nat BY <1>2, <1>3, <2>1
  <2>4. K < (v + k) * PAGE /\ (v + k) * PAGE < t BY <1>1, <1>2, <2>1, <2>2, <2>3
  <2>5. PICK x : x = (v + k) * PAGE OBVIOUS
  <2>6. /\ v + k \in Pages /\ Prefix(v + k, 3) \notin HugeSlots
        /\ VirtToPhys((v + k) * PAGE) = (v + k) * PAGE - KERNEL_CODE_BASE_VADDR
    BY <1>1, <2>3, <2>4, KernelPage
  <2>7. (from - K) + k * PAGE = (from + k * PAGE) - K BY <1>2, <2>1
  <2> QED BY <2>3, <2>6, <2>7
<1> HIDE DEF c, K, Attr
<1>9. SmallCall(c)
  <2>1. SmallRange(v, n) BY <1>8 DEF SmallRange
  <2> QED BY <1>1, <1>6, <1>7, <2>1 DEF SmallCall
<1>10. CallAgrees(c) BY <1>1, <1>6, <1>8 DEF CallAgrees
<1> QED BY <1>5, <1>9, <1>10 DEF GoodCalls, c, K

(* A section of the kernel image lies above the direct mapping's entry, so that *)
(* mapping it never meets a 1 GiB entry.                                   *)
LEMMA SectionCall ==
  ASSUME Slot < F, Slot # 0, NEW from \in Nat, NEW to \in Nat,
         from % PAGE = 0, KERNEL_CODE_BASE_VADDR < from, from <= to,
         to < LINER_MAPPING_SIZE * F,
         NEW attr \in Attr, attr \notin {"NotPresent", "ReadWriteKernel1GiB"}
  PROVE  Section(from, to, attr) \in GoodCalls
<1>1. PICK span : span = to - from OBVIOUS
<1>2. span \in Nat /\ from + span = to BY <1>1
<1>3. Mapping(from, from - KERNEL_CODE_BASE_VADDR, span, attr) \in GoodCalls
  <2> HIDE DEF Attr
  <2> QED BY <1>2, KernelCall, Zenon
<1>4. VirtToPhys(from) = from - KERNEL_CODE_BASE_VADDR
  <2>1. PAGE \in Nat \ {0} /\ LINER_MAPPING_SIZE \in Nat /\ F \in Nat
    BY PagingAssumption, Sizes
  <2>2. PICK v, t : v = from \div PAGE /\ t = LINER_MAPPING_SIZE * F OBVIOUS
  <2>3. v \in Nat /\ from = v * PAGE /\ t \in Nat BY <2>1, <2>2, Aligned
  <2>4. v * PAGE < t BY <2>2, <2>3
  <2>5. VirtToPhys(v * PAGE) = v * PAGE - KERNEL_CODE_BASE_VADDR
    BY <2>2, <2>3, <2>4, KernelPage
  <2> QED BY <2>3, <2>5
<1> QED BY <1>1, <1>3, <1>4 DEF Section

(* The registers of the local APIC lie below the direct mapping's entry.   *)
LEMMA ApicCall ==
  ASSUME Slot < F, booting = "kernel"
  PROVE  Mapping(APIC_IO_START_ADDR, APIC_IO_START_ADDR, PAGE, "ReadWriteKernelIO")
           \in GoodCalls
<1> DEFINE A == APIC_IO_START_ADDR
           c == Mapping(A, A, PAGE, "ReadWriteKernelIO")
<1>1. A \in Nat /\ PAGE \in Nat \ {0} /\ A % PAGE = 0 /\ A < LINER_MAPPING_BASE_VADDR
  BY PagingAssumption
<1>2. PICK v, s : v = A \div PAGE /\ s = F * F * F * Slot OBVIOUS
<1>3. v \in Nat /\ A = v * PAGE
  <2> HIDE DEF A
  <2> QED BY <1>1, <1>2, Aligned
<1>4. s \in Nat /\ LINER_MAPPING_BASE_VADDR = s * PAGE /\ s \in Pages /\ Slot \in Nat
  BY <1>2, SlotFacts
<1>5. v < s
  <2>1. v * PAGE < s * PAGE BY <1>1, <1>3, <1>4
  <2> QED BY <1>3, <1>4, <2>1, Scaled
<1>6. v \in Pages
  <2>1. F * F * F * F \in Nat BY Spans
  <2> QED BY <1>3, <1>4, <1>5, <2>1 DEF Pages
<1>7. Prefix(v, 3) # Slot BY <1>2, <1>3, <1>4, <1>5, SlotRange
<1>8. HugeSlots = {Slot} BY DEF HugeSlots
<1>9. NumPages(PAGE) = 1
  <2>1. 1 * PAGE = PAGE BY <1>1
  <2> QED BY <2>1, NumPagesWhole
<1>10. c.virt = A /\ c.phys = A /\ c.size = PAGE /\ c.attr = "ReadWriteKernelIO"
  BY DEF Mapping
<1>11. c \in Call
  <2>1. "ReadWriteKernelIO" \in Attr BY DEF Attr
  <2> HIDE DEF Attr
  <2> QED BY <1>1, <2>1 DEF Mapping, Call
<1> HIDE DEF c, A
<1>12. SmallCall(c)
  <2>1. SmallRange(v, 1)
    <3>1. v + 0 = v BY <1>3
    <3> QED BY <1>3, <1>6, <1>7, <1>8, <3>1 DEF SmallRange
  <2> QED BY <1>1, <1>2, <1>9, <1>10, <2>1 DEF SmallCall
<1>13. CallAgrees(c)
  <2>1. A + 0 * PAGE = A BY <1>1
  <2> QED BY <1>1, <1>4, <1>9, <1>10, <2>1 DEF CallAgrees
<1> QED BY <1>11, <1>12, <1>13 DEF GoodCalls, c, A

(* The direct mapping meets no table of 4 KiB pages.                       *)
LEMMA DirectCall ==
  ASSUME Slot < F
  PROVE  DirectMapping \in GoodCalls
<1> DEFINE B == LINER_MAPPING_BASE_VADDR
           Z == LINER_MAPPING_SIZE
<1>1. DirectMapping.virt = B /\ DirectMapping.phys = 0 /\ DirectMapping.size = Z
  BY DEF DirectMapping, Mapping
<1>2. B \in Nat /\ Z \in Nat /\ PAGE \in Nat BY SlotFacts, Sizes, PagingAssumption
<1>3. PICK n : n = F * F * F OBVIOUS
<1>4. n \in Nat /\ Z = n * PAGE /\ NumPages(Z) = n
  <2>1. n \in Nat BY <1>3, Spans
  <2>2. Z = PAGE * n BY <1>3, Sizes
  <2> HIDE DEF Z
  <2>3. Z = n * PAGE BY <1>2, <2>1, <2>2
  <2> QED BY <2>1, <2>3, NumPagesWhole
<1>5. ASSUME NEW k \in 0 .. n, k < n
      PROVE  0 + k * PAGE = VirtToPhys(B + k * PAGE)
  <2>1. PICK x : x = k * PAGE OBVIOUS
  <2>2. x \in Nat BY <1>2, <2>1
  <2>3. x <= Z
    <3>1. k \in Nat /\ k <= n BY <1>5
    <3>2. k * PAGE <= n * PAGE BY <1>4, <3>1, Scaled
    <3> QED BY <1>4, <2>1, <3>2
  <2>4. PICK y, b, z : y = B + x /\ b = B /\ z = Z OBVIOUS
  <2>5. y >= b /\ y <= b + z /\ y - b = 0 + x
    <3> HIDE DEF B, Z
    <3> QED BY <1>2, <2>2, <2>3, <2>4
  <2>6. VirtToPhys(y) = y - b BY <2>4, <2>5 DEF VirtToPhys
  <2> QED BY <2>1, <2>4, <2>5, <2>6
<1>6. CallAgrees(DirectMapping)
  <2> HIDE DEF B, Z
  <2> QED BY <1>1, <1>4, <1>5 DEF CallAgrees
<1> QED BY <1>6, DirectIsHuge DEF GoodCalls

(* Every call init_paging and init_early_paging make, for every image.     *)
LEMMA ImageCalls ==
  ASSUME NEW image \in Images
  PROVE  /\ booting = "kernel" => InitPaging(image) \in Seq(GoodCalls)
         /\ InitEarlyPaging(image) \in Seq(GoodCalls)
<1>1. /\ image.text \in Nat /\ image.text_end \in Nat /\ image.rodata \in Nat
      /\ image.rodata_end \in Nat /\ image.data \in Nat /\ image.bss_end \in Nat
      /\ image.text % PAGE = 0 /\ image.rodata % PAGE = 0 /\ image.data % PAGE = 0
      /\ KERNEL_CODE_BASE_VADDR < image.text
      /\ image.text <= image.text_end /\ image.text_end <= image.rodata
      /\ image.rodata <= image.rodata_end /\ image.rodata_end <= image.data
      /\ image.data <= image.bss_end /\ image.bss_end < LINER_MAPPING_SIZE * F
  <2>1. /\ image \in [text : Nat, text_end : Nat, rodata : Nat, rodata_end : Nat,
                      data : Nat, bss_end : Nat]
        /\ {image.text % PAGE, image.rodata % PAGE, image.data % PAGE} = {0}
        /\ KERNEL_CODE_BASE_VADDR < image.text
        /\ image.text <= image.text_end /\ image.text_end <= image.rodata
        /\ image.rodata <= image.rodata_end /\ image.rodata_end <= image.data
        /\ image.data <= image.bss_end /\ image.bss_end < LINER_MAPPING_SIZE * F
    BY ImageAssumption
  <2>2. image.text % PAGE = 0 /\ image.rodata % PAGE = 0 /\ image.data % PAGE = 0
    BY <2>1, Zenon
  <2> QED BY <2>1, <2>2
<1>2. Slot < F /\ Slot # 0 BY SlotBound
<1>3. KERNEL_CODE_BASE_VADDR \in Nat /\ PAGE \in Nat \ {0} BY PagingAssumption
<1>4. PICK top : top = LINER_MAPPING_SIZE * F OBVIOUS
<1>5. top \in Nat
  <2>1. LINER_MAPPING_SIZE \in Nat /\ F \in Nat BY Sizes, PagingAssumption
  <2> QED BY <1>4, <2>1
<1>6. /\ KERNEL_CODE_BASE_VADDR < image.rodata /\ KERNEL_CODE_BASE_VADDR < image.data
      /\ image.text_end < top /\ image.rodata_end < top /\ image.bss_end < top
      /\ image.text <= image.bss_end
  BY <1>1, <1>3, <1>4, <1>5
<1>7. /\ "ReadExecuteKernel" \in Attr /\ "ReadKernel" \in Attr
      /\ "ReadWriteKernel" \in Attr /\ "ReadWriteExecuteKernel" \in Attr
  BY DEF Attr
<1> HIDE DEF Attr
<1>8. Section(image.text, image.text_end, "ReadExecuteKernel") \in GoodCalls
  BY <1>1, <1>2, <1>4, <1>6, <1>7, SectionCall
<1>9. Section(image.rodata, image.rodata_end, "ReadKernel") \in GoodCalls
  BY <1>1, <1>2, <1>4, <1>6, <1>7, SectionCall
<1>10. Section(image.data, image.bss_end, "ReadWriteKernel") \in GoodCalls
  BY <1>1, <1>2, <1>4, <1>6, <1>7, SectionCall
<1>11. DirectMapping \in GoodCalls BY <1>2, DirectCall
<1>12. booting = "kernel" =>
         Mapping(APIC_IO_START_ADDR, APIC_IO_START_ADDR, PAGE, "ReadWriteKernelIO")
           \in GoodCalls
  BY <1>2, ApicCall
<1>13. Mapping(image.text, image.text - KERNEL_CODE_BASE_VADDR,
               NumPages(image.bss_end - image.text) * PAGE, "ReadWriteExecuteKernel")
         \in GoodCalls
  <2>1. PICK span, n : span = image.bss_end - image.text /\ n = NumPages(span) OBVIOUS
  <2>2. span \in Nat /\ image.text + span = image.bss_end BY <1>1, <1>6, <2>1
  <2>3. n \in Nat BY <2>1, <2>2, NumPagesIs
  <2>4. n * PAGE \in Nat /\ NumPages(n * PAGE) = n BY <1>3, <2>3, NumPagesWhole
  <2>5. PICK size : size = n * PAGE OBVIOUS
  <2>6. Mapping(image.text, image.text - KERNEL_CODE_BASE_VADDR, size,
                "ReadWriteExecuteKernel") \in GoodCalls
    BY <1>1, <1>2, <1>4, <1>6, <1>7, <2>1, <2>2, <2>4, <2>5, KernelCall
  <2> QED BY <2>1, <2>5, <2>6
<1>14. PICK G : G = GoodCalls OBVIOUS
<1>15. InitEarlyPaging(image) \in Seq(G)
  BY <1>11, <1>13, <1>14 DEF InitEarlyPaging
<1>16. ASSUME booting = "kernel" PROVE InitPaging(image) \in Seq(G)
  BY <1>8, <1>9, <1>10, <1>11, <1>12, <1>14, <1>16 DEF InitPaging
<1> QED BY <1>14, <1>15, <1>16

(* A present entry i of node a is a huge page, or points to the node that  *)
(* belongs there: lv gives the level of a node, 0 for one that is not      *)
(* below root, and pf the pages it is for.                                 *)
LinksDown(lv, pf, a, i) ==
  LET e == node[a][i]
  IN  IsPresent(e) =>
        IF lv[a] = 3 /\ pf[a] \in HugeSlots THEN IsHuge(e)
        ELSE /\ ~IsHuge(e) /\ e.addr \in DOMAIN node
             /\ lv[e.addr] = lv[a] - 1 /\ pf[e.addr] = F * pf[a] + i

Points(lv, pf, b, i, a) ==
  /\ lv[b] = lv[a] + 1 /\ pf[a] = F * pf[b] + i
  /\ IsPresent(node[b][i]) /\ ~IsHuge(node[b][i]) /\ node[b][i].addr = a

Tree(lv, pf) ==
  /\ node \in [DOMAIN node -> [0 .. F - 1 -> PageEntry]]
  /\ lv \in [DOMAIN node -> 0 .. 4] /\ pf \in [DOMAIN node -> Nat]
  /\ root \in DOMAIN node /\ lv[root] = 4 /\ pf[root] = 0
  /\ \A a, b \in DOMAIN node : lv[a] = lv[b] /\ pf[a] = pf[b] /\ lv[a] # 0 => a = b
  /\ \A a \in DOMAIN node : lv[a] \in 2 .. 4 =>
       \A i \in 0 .. F - 1 : LinksDown(lv, pf, a, i)
  /\ \A a \in DOMAIN node : lv[a] \in 1 .. 3 =>
       \E b \in DOMAIN node, i \in 0 .. F - 1 : Points(lv, pf, b, i, a)

(* Node a is at level l of the walk for page p.                            *)
OnPath(lv, pf, a, l, p) == a \in DOMAIN node /\ lv[a] = l /\ pf[a] = Prefix(p, l)

(* A table on the path of a page is entered from the table above it on that path. *)
LEMMA ParentOnPath ==
  ASSUME NEW lv, NEW pf, Tree(lv, pf), NEW p \in Nat, NEW l \in 2 .. 4, NEW a,
         OnPath(lv, pf, a, l - 1, p)
  PROVE  \E b : /\ OnPath(lv, pf, b, l, p)
                /\ IsPresent(node[b][Digit(p, l)]) /\ ~IsHuge(node[b][Digit(p, l)])
                /\ node[b][Digit(p, l)].addr = a
<1>1. a \in DOMAIN node /\ lv[a] = l - 1 /\ lv[a] \in 1 .. 3 /\ pf[a] = Prefix(p, l - 1)
  BY DEF OnPath
<1>2. PICK b \in DOMAIN node, i \in 0 .. F - 1 : Points(lv, pf, b, i, a)
  BY <1>1 DEF Tree
<1>3. pf[b] \in Nat BY DEF Tree
<1>4. Prefix(p, l - 1) = F * pf[b] + i BY <1>1, <1>2 DEF Points
<1>5. pf[b] = Prefix(p, l) /\ i = Digit(p, l) BY <1>3, <1>4, PrefixUnique
<1>6. lv[b] = l BY <1>1, <1>2 DEF Points
<1> QED BY <1>2, <1>5, <1>6 DEF OnPath, Points

(* The only table of the top level is the root.                            *)
LEMMA TopOnPath ==
  ASSUME NEW lv, NEW pf, Tree(lv, pf), NEW p \in Pages, NEW a
  PROVE  OnPath(lv, pf, a, 4, p) <=> a = root
<1>1. Prefix(p, 4) = 0 BY PrefixTop
<1> QED BY <1>1 DEF OnPath, Tree

(* What the entry of a node on the path leads to.                          *)
LEMMA ChildOnPath ==
  ASSUME NEW lv, NEW pf, Tree(lv, pf), NEW p \in Nat, NEW l \in 2 .. 4, NEW a,
         OnPath(lv, pf, a, l, p), IsPresent(node[a][Digit(p, l)]),
         ~(l = 3 /\ Prefix(p, 3) \in HugeSlots)
  PROVE  /\ ~IsHuge(node[a][Digit(p, l)])
         /\ OnPath(lv, pf, node[a][Digit(p, l)].addr, l - 1, p)
<1>1. l \in 1 .. 4 OBVIOUS
<1>2. Digit(p, l) \in 0 .. F - 1 BY <1>1, PrefixType, Zenon
<1>3. a \in DOMAIN node /\ lv[a] = l /\ pf[a] = Prefix(p, l) BY DEF OnPath
<1>4. LinksDown(lv, pf, a, Digit(p, l)) BY <1>2, <1>3 DEF Tree
<1>5. Prefix(p, l - 1) = F * Prefix(p, l) + Digit(p, l) BY PrefixSplits
<1> QED BY <1>3, <1>4, <1>5 DEF LinksDown, OnPath

(* The walk, entry by entry.                                               *)
Entries(r, p, e4, e3, e2, e1) ==
  /\ e4 = Lookup(r, Digit(p, 4)) /\ e3 = Lookup(e4.addr, Digit(p, 3))
  /\ e2 = Lookup(e3.addr, Digit(p, 2)) /\ e1 = Lookup(e2.addr, Digit(p, 1))

Found(p, e4, e3, e2, e1) ==
  IF ~IsPresent(e4) \/ ~IsPresent(e3) THEN NotPresent
  ELSE IF IsHuge(e3) THEN Leaf(e3, (p * PAGE) % HUGE)
  ELSE IF ~IsPresent(e2) \/ ~IsPresent(e1) THEN NotPresent
  ELSE Leaf(e1, 0)

(* Translate reads at most four entries, one per level.                    *)
LEMMA Walks ==
  ASSUME NEW p \in Nat, NEW r
  PROVE  \E e4, e3, e2, e1 :
           /\ Entries(r, p, e4, e3, e2, e1)
           /\ Translate(r, p * PAGE) = Found(p, e4, e3, e2, e1)
<1>1. /\ Index(p * PAGE, 4) = Digit(p, 4) /\ Index(p * PAGE, 3) = Digit(p, 3)
      /\ Index(p * PAGE, 2) = Digit(p, 2) /\ Index(p * PAGE, 1) = Digit(p, 1)
  BY IndexIsDigit
<1>2. (p * PAGE) % PAGE = 0
  <2>1. p * PAGE = PAGE * p + 0 /\ 0 \in 0 .. PAGE - 1 BY Spans
  <2>2. (PAGE * p + 0) % PAGE = 0 BY <2>1, Spans, DivIs
  <2> QED BY <2>1, <2>2
<1> DEFINE e4 == Lookup(r, Digit(p, 4))
           e3 == Lookup(e4.addr, Digit(p, 3))
           e2 == Lookup(e3.addr, Digit(p, 2))
           e1 == Lookup(e2.addr, Digit(p, 1))
<1>3. Entries(r, p, e4, e3, e2, e1) BY DEF Entries
<1>4. Translate(r, p * PAGE) = Found(p, e4, e3, e2, e1)
  BY <1>1, <1>2, Zenon DEF Translate, Found
<1> HIDE DEF e4, e3, e2, e1
<1> QED BY <1>3, <1>4

(* A page below a page table is translated by its entry.                   *)
LEMMA TranslateSmall ==
  ASSUME NEW lv, NEW pf, Tree(lv, pf), NEW p \in Pages, NEW b,
         OnPath(lv, pf, b, 1, p)
  PROVE  Translate(root, p * PAGE) = node[b][Digit(p, 1)]
<1>1. p \in Nat BY PrefixTop
<1>2. PICK b2 : /\ OnPath(lv, pf, b2, 2, p) /\ IsPresent(node[b2][Digit(p, 2)])
                /\ node[b2][Digit(p, 2)].addr = b
  BY <1>1, ParentOnPath
<1>3. PICK b3 : /\ OnPath(lv, pf, b3, 3, p) /\ IsPresent(node[b3][Digit(p, 3)])
                /\ ~IsHuge(node[b3][Digit(p, 3)]) /\ node[b3][Digit(p, 3)].addr = b2
  BY <1>1, <1>2, ParentOnPath
<1>4. PICK b4 : /\ OnPath(lv, pf, b4, 4, p) /\ IsPresent(node[b4][Digit(p, 4)])
                /\ node[b4][Digit(p, 4)].addr = b3
  BY <1>1, <1>3, ParentOnPath
<1>5. b4 = root BY <1>4, TopOnPath
<1>6. PICK e4, e3, e2, e1 :
           /\ Entries(root, p, e4, e3, e2, e1)
           /\ Translate(root, p * PAGE) = Found(p, e4, e3, e2, e1)
  BY <1>1, Walks
<1>7. e4 = node[b4][Digit(p, 4)]
  BY <1>4, <1>5, <1>6, ZenonT(30) DEF Entries, Lookup, OnPath
<1>8. e3 = node[b3][Digit(p, 3)]
  BY <1>3, <1>4, <1>6, <1>7, ZenonT(30) DEF Entries, Lookup, OnPath
<1>9. e2 = node[b2][Digit(p, 2)]
  BY <1>2, <1>3, <1>6, <1>8, ZenonT(30) DEF Entries, Lookup, OnPath
<1>10. e1 = node[b][Digit(p, 1)]
  BY <1>2, <1>6, <1>9, ZenonT(30) DEF Entries, Lookup, OnPath
<1>11. Translate(root, p * PAGE) = IF ~IsPresent(e1) THEN NotPresent ELSE Leaf(e1, 0)
  BY <1>2, <1>3, <1>4, <1>6, <1>7, <1>8, <1>9 DEF Found
<1>12. e1 \in PageEntry
  <2>1. Digit(p, 1) \in 0 .. F - 1 BY <1>1, PrefixType
  <2>2. b \in DOMAIN node BY DEF OnPath
  <2>3. node \in [DOMAIN node -> [0 .. F - 1 -> PageEntry]] BY DEF Tree
  <2> HIDE DEF PageEntry
  <2>4. node[b][Digit(p, 1)] \in PageEntry BY <2>1, <2>2, <2>3, Zenon
  <2> QED BY <1>10, <2>4
<1>13. IsPresent(e1) \/ e1 = NotPresent BY <1>12 DEF PageEntry
<1>14. Leaf(e1, 0) = e1
  <2>1. e1 \in [addr : Nat, attr : Attr] BY <1>12 DEF PageEntry
  <2>2. e1.addr + 0 = e1.addr BY <2>1
  <2>3. e1 = [addr |-> e1.addr, attr |-> e1.attr] BY <2>1
  <2> QED BY <2>2, <2>3 DEF Leaf, Entry
<1> QED BY <1>10, <1>11, <1>13, <1>14

(* A page without a page table, outside the huge pages, is not mapped.     *)
LEMMA TranslateAbsent ==
  ASSUME NEW lv, NEW pf, Tree(lv, pf), NEW p \in Pages,
         Prefix(p, 3) \notin HugeSlots, \A b : ~OnPath(lv, pf, b, 1, p)
  PROVE  Translate(root, p * PAGE) = NotPresent
<1>1. p \in Nat BY PrefixTop
<1>2. PICK e4, e3, e2, e1 :
           /\ Entries(root, p, e4, e3, e2, e1)
           /\ Translate(root, p * PAGE) = Found(p, e4, e3, e2, e1)
  BY <1>1, Walks
<1> SUFFICES ASSUME IsPresent(e4), IsPresent(e3)
             PROVE  ~IsHuge(e3) /\ ~IsPresent(e2)
  BY <1>2 DEF Found
<1>3. OnPath(lv, pf, root, 4, p) BY TopOnPath
<1>4. e4 = node[root][Digit(p, 4)] BY <1>2, <1>3, ZenonT(30) DEF Entries, Lookup, OnPath
<1>5. OnPath(lv, pf, e4.addr, 3, p) BY <1>1, <1>3, <1>4, ChildOnPath
<1>6. e3 = node[e4.addr][Digit(p, 3)]
  BY <1>2, <1>5, ZenonT(30) DEF Entries, Lookup, OnPath
<1>7. ~IsHuge(e3) /\ OnPath(lv, pf, e3.addr, 2, p)
  BY <1>1, <1>5, <1>6, ChildOnPath
<1>8. e2 = node[e3.addr][Digit(p, 2)]
  BY <1>2, <1>7, ZenonT(30) DEF Entries, Lookup, OnPath
<1>9. ~IsPresent(e2) BY <1>1, <1>7, <1>8, ChildOnPath
<1> QED BY <1>7, <1>9

(* A page in a huge slot is translated by the entry of the PDPT.           *)
LEMMA TranslateHuge ==
  ASSUME NEW lv, NEW pf, Tree(lv, pf), NEW p \in Pages,
         Prefix(p, 3) \in HugeSlots, NEW b, OnPath(lv, pf, b, 3, p)
  PROVE  Translate(root, p * PAGE) =
           IF IsPresent(node[b][Digit(p, 3)])
             THEN Leaf(node[b][Digit(p, 3)], (p * PAGE) % HUGE) ELSE NotPresent
<1>1. p \in Nat BY PrefixTop
<1>2. PICK e4, e3, e2, e1 :
           /\ Entries(root, p, e4, e3, e2, e1)
           /\ Translate(root, p * PAGE) = Found(p, e4, e3, e2, e1)
  BY <1>1, Walks
<1>3. PICK b4 : /\ OnPath(lv, pf, b4, 4, p) /\ IsPresent(node[b4][Digit(p, 4)])
                /\ node[b4][Digit(p, 4)].addr = b
  BY <1>1, ParentOnPath
<1>4. b4 = root BY <1>3, TopOnPath
<1>5. e4 = node[b4][Digit(p, 4)]
  BY <1>2, <1>3, <1>4, ZenonT(30) DEF Entries, Lookup, OnPath
<1>6. e3 = node[b][Digit(p, 3)] BY <1>2, <1>3, <1>5, Zenon DEF Entries, Lookup, OnPath
<1>7. IsPresent(e3) => IsHuge(e3)
  <2>1. Digit(p, 3) \in 0 .. F - 1 BY <1>1, PrefixType
  <2>2. b \in DOMAIN node /\ lv[b] = 3 /\ pf[b] \in HugeSlots BY DEF OnPath
  <2>3. LinksDown(lv, pf, b, Digit(p, 3)) BY <2>1, <2>2 DEF Tree
  <2> QED BY <1>6, <2>2, <2>3 DEF LinksDown
<1> QED BY <1>2, <1>3, <1>5, <1>6, <1>7 DEF Found

(* A page whose path ends above the level of 1 GiB entries is not present. *)
LEMMA TranslateNoHuge ==
  ASSUME NEW lv, NEW pf, Tree(lv, pf), NEW p \in Pages,
         \A b : ~OnPath(lv, pf, b, 3, p)
  PROVE  Translate(root, p * PAGE) = NotPresent
<1>1. p \in Nat BY PrefixTop
<1>2. PICK e4, e3, e2, e1 :
           /\ Entries(root, p, e4, e3, e2, e1)
           /\ Translate(root, p * PAGE) = Found(p, e4, e3, e2, e1)
  BY <1>1, Walks
<1>3. OnPath(lv, pf, root, 4, p) BY TopOnPath
<1>4. e4 = node[root][Digit(p, 4)] BY <1>2, <1>3, ZenonT(30) DEF Entries, Lookup, OnPath
<1>5. ~IsPresent(e4) BY <1>1, <1>3, <1>4, ChildOnPath
<1> QED BY <1>2, <1>5 DEF Found

(* All of this in one formula, of any state and of the next one.           *)
Translates(lv, pf) ==
  \A p \in Pages :
    /\ \A b : OnPath(lv, pf, b, 1, p) =>
         Translate(root, p * PAGE) = node[b][Digit(p, 1)]
    /\ Prefix(p, 3) \notin HugeSlots /\ (\A b : ~OnPath(lv, pf, b, 1, p)) =>
         Translate(root, p * PAGE) = NotPresent
    /\ \A b : Prefix(p, 3) \in HugeSlots /\ OnPath(lv, pf, b, 3, p) =>
         Translate(root, p * PAGE) =
           IF IsPresent(node[b][Digit(p, 3)])
             THEN Leaf(node[b][Digit(p, 3)], (p * PAGE) % HUGE) ELSE NotPresent
    /\ (\A b : ~OnPath(lv, pf, b, 3, p)) => Translate(root, p * PAGE) = NotPresent

(* In a tree, translation follows the path of the page and nothing else.   *)
LEMMA TreeTranslates == \A lv, pf : Tree(lv, pf) => Translates(lv, pf)
<1> SUFFICES ASSUME NEW lv, NEW pf, Tree(lv, pf) PROVE Translates(lv, pf)
  OBVIOUS
<1> SUFFICES ASSUME NEW p \in Pages
             PROVE
    /\ \A b : OnPath(lv, pf, b, 1, p) =>
         Translate(root, p * PAGE) = node[b][Digit(p, 1)]
    /\ Prefix(p, 3) \notin HugeSlots /\ (\A b : ~OnPath(lv, pf, b, 1, p)) =>
         Translate(root, p * PAGE) = NotPresent
    /\ \A b : Prefix(p, 3) \in HugeSlots /\ OnPath(lv, pf, b, 3, p) =>
         Translate(root, p * PAGE) =
           IF IsPresent(node[b][Digit(p, 3)])
             THEN Leaf(node[b][Digit(p, 3)], (p * PAGE) % HUGE) ELSE NotPresent
    /\ (\A b : ~OnPath(lv, pf, b, 3, p)) => Translate(root, p * PAGE) = NotPresent
  BY DEF Translates
<1> QED BY TranslateSmall, TranslateAbsent, TranslateHuge, TranslateNoHuge

(* The same of the next state.                                             *)
LEMMA TreeTranslatesNext == (\A lv, pf : Tree(lv, pf) => Translates(lv, pf))'
BY TreeTranslates, PTL

(* No node is where a pointer that is not there would lead.                *)
LEMMA PlaceIsFree ==
  ASSUME NEW lv, NEW pf, Tree(lv, pf), NEW a \in DOMAIN node, lv[a] \in 2 .. 4,
         NEW i \in 0 .. F - 1, ~IsPresent(node[a][i]),
         NEW c \in DOMAIN node, lv[c] = lv[a] - 1, pf[c] = F * pf[a] + i
  PROVE  FALSE
<1>1. PICK b \in DOMAIN node, j \in 0 .. F - 1 : Points(lv, pf, b, j, c)
  BY DEF Tree
<1>2. lv[b] = lv[a] /\ F * pf[b] + j = F * pf[a] + i BY <1>1 DEF Points, Tree
<1>3. pf[a] \in Nat /\ pf[b] \in Nat /\ F \in Nat \ {0} BY Spans DEF Tree
<1>4. pf[b] = pf[a] /\ j = i
  <2> DEFINE x == pf[b]
             y == pf[a]
  <2>1. x \in Nat /\ y \in Nat /\ F \in Nat \ {0} /\ F * x + j = F * y + i
    BY <1>2, <1>3
  <2> HIDE DEF x, y
  <2>2. x = y /\ j = i BY <2>1, DigitsUnique
  <2> QED BY <2>2 DEF x, y
<1>5. a = b BY <1>2, <1>4 DEF Tree
<1> QED BY <1>1, <1>4, <1>5 DEF Points

(* get_or_alloc_next_level_table links in an empty table at new through    *)
(* entry i of node a.                                                      *)
AddsTable(lv, pf, lw, pg, a, i, new) ==
  /\ Tree(lv, pf) /\ a \in DOMAIN node /\ lv[a] \in 2 .. 4
  /\ i \in 0 .. F - 1 /\ ~IsPresent(node[a][i])
  /\ ~(lv[a] = 3 /\ pf[a] \in HugeSlots)
  /\ new \in Nat /\ new \notin DOMAIN node
  /\ node' = WithNode([node EXCEPT ![a][i] = Entry(new, "ReadWriteExecuteKernel")],
                      new, EmptyNode)
  /\ root' = root /\ booting' = booting
  /\ lw = WithNode(lv, new, lv[a] - 1) /\ pg = WithNode(pf, new, F * pf[a] + i)

(* Linking an empty table into an empty entry leaves a tree.               *)
LEMMA TableAdded ==
  ASSUME NEW lv, NEW pf, NEW lw, NEW pg, NEW a, NEW i, NEW new,
         AddsTable(lv, pf, lw, pg, a, i, new)
  PROVE  Tree(lw, pg)'
<1> SUFFICES ASSUME
      Tree(lv, pf), a \in DOMAIN node, lv[a] \in 2 .. 4,
      i \in 0 .. F - 1, ~IsPresent(node[a][i]),
      ~(lv[a] = 3 /\ pf[a] \in HugeSlots),
      new \in Nat, new \notin DOMAIN node, root' = root, booting' = booting,
      node' = WithNode([node EXCEPT ![a][i] = Entry(new, "ReadWriteExecuteKernel")],
                       new, EmptyNode),
      lw = WithNode(lv, new, lv[a] - 1), pg = WithNode(pf, new, F * pf[a] + i)
             PROVE  Tree(lw, pg)'
  BY DEF AddsTable
<1> DEFINE e == Entry(new, "ReadWriteExecuteKernel")
           D == DOMAIN node
<1>1. /\ DOMAIN node' = D \cup {new}
      /\ \A b \in D : b # a => node'[b] = node[b]
      /\ node'[a] = [node[a] EXCEPT ![i] = e]
      /\ node'[new] = EmptyNode
  BY DEF WithNode
<1>2. node \in [D -> [0 .. F - 1 -> PageEntry]] BY DEF Tree
<1>3. e \in PageEntry /\ IsPresent(e) /\ ~IsHuge(e) /\ e.addr = new
  BY DEF Entry, PageEntry, IsPresent, IsHuge, Attr
<1>4. EmptyNode \in [0 .. F - 1 -> PageEntry] /\ ~IsPresent(NotPresent)
  BY DEF EmptyNode, PageEntry, NotPresent, IsPresent, Attr
<1>5. node' \in [DOMAIN node' -> [0 .. F - 1 -> PageEntry]]
  <2> HIDE DEF PageEntry, e
  <2>1. \A b \in D \cup {new} : node'[b] \in [0 .. F - 1 -> PageEntry]
    <3>1. [node[a] EXCEPT ![i] = e] \in [0 .. F - 1 -> PageEntry] BY <1>2, <1>3
    <3> QED BY <1>1, <1>2, <1>4, <3>1, Zenon
  <2>2. node' = [b \in DOMAIN node' |-> node'[b]] BY DEF WithNode
  <2> QED BY <1>1, <2>1, <2>2, Zenon
<1> HIDE DEF e
<1>6. /\ lv \in [D -> 0 .. 4] /\ pf \in [D -> Nat] /\ F \in Nat \ {0}
      /\ root \in D /\ lv[root] = 4 /\ pf[root] = 0
  BY Spans, Zenon DEF Tree
<1>7. /\ lw \in [D \cup {new} -> 0 .. 4] /\ pg \in [D \cup {new} -> Nat]
      /\ \A b \in D : lw[b] = lv[b] /\ pg[b] = pf[b]
      /\ lw[new] = lv[a] - 1 /\ pg[new] = F * pf[a] + i
  BY <1>6 DEF WithNode
<1>8. ASSUME NEW b \in D \cup {new}, NEW c \in D \cup {new},
             lw[b] = lw[c], pg[b] = pg[c], lw[b] # 0
      PROVE  b = c
  <2>1. CASE b \in D /\ c \in D BY <1>7, <1>8, <2>1 DEF Tree
  <2>2. CASE b = new /\ c \in D BY <1>7, <1>8, <2>2, PlaceIsFree
  <2>3. CASE c = new /\ b \in D BY <1>7, <1>8, <2>3, PlaceIsFree
  <2> QED BY <2>1, <2>2, <2>3
<1>9. HugeSlots' = HugeSlots BY DEF HugeSlots
<1>10. ASSUME NEW b \in D \cup {new}, lw[b] \in 2 .. 4, NEW j \in 0 .. F - 1
       PROVE  LinksDown(lw, pg, b, j)'
  <2>1. CASE b = new
    <3>1. node'[b][j] = NotPresent BY <1>1, <2>1, Zenon DEF EmptyNode
    <3> QED BY <1>4, <3>1 DEF LinksDown
  <2>2. CASE b \in D /\ ~(b = a /\ j = i)
    <3>1. node'[b][j] = node[b][j] BY <1>1, <1>2, <2>2, ZenonT(30)
    <3>2. LinksDown(lv, pf, b, j) BY <1>7, <1>10, <2>2 DEF Tree
    <3> QED BY <1>1, <1>7, <1>9, <2>2, <3>1, <3>2 DEF LinksDown
  <2>3. CASE b = a /\ j = i
    <3>1. node'[b][j] = e BY <1>1, <1>2, <2>3, Zenon
    <3> QED BY <1>1, <1>3, <1>7, <1>9, <2>3, <3>1 DEF LinksDown
  <2> QED BY <2>1, <2>2, <2>3
<1>11. ASSUME NEW c \in D \cup {new}, lw[c] \in 1 .. 3
       PROVE  \E b \in D \cup {new}, j \in 0 .. F - 1 : Points(lw, pg, b, j, c)'
  <2>1. CASE c = new
    <3>1. node'[a][i] = e BY <1>1, <1>2, ZenonT(30)
    <3>2. lw[a] = lw[c] + 1 /\ pg[c] = F * pg[a] + i BY <1>6, <1>7, <2>1
    <3>3. Points(lw, pg, a, i, c)' BY <1>3, <2>1, <3>1, <3>2 DEF Points
    <3> QED BY <3>3
  <2>2. CASE c \in D
    <3>1. PICK b \in D, j \in 0 .. F - 1 : Points(lv, pf, b, j, c)
      BY <1>7, <1>11, <2>2 DEF Tree
    <3>2. ~(b = a /\ j = i) BY <3>1 DEF Points
    <3>3. node'[b][j] = node[b][j] BY <1>1, <1>2, <3>2, Zenon
    <3>4. Points(lw, pg, b, j, c)' BY <1>7, <2>2, <3>1, <3>3 DEF Points
    <3> QED BY <3>4
  <2> QED BY <2>1, <2>2
<1>12. /\ lw \in [DOMAIN node' -> 0 .. 4] /\ pg \in [DOMAIN node' -> Nat]
       /\ root' \in DOMAIN node' /\ lw[root'] = 4 /\ pg[root'] = 0
  BY <1>1, <1>6, <1>7, Zenon
<1>13. \A b, c \in DOMAIN node' :
         lw[b] = lw[c] /\ pg[b] = pg[c] /\ lw[b] # 0 => b = c
  BY <1>1, <1>8
<1> HIDE DEF D
<1> QED BY <1>1, <1>5, <1>10, <1>11, <1>12, <1>13, Zenon DEF Tree

(* It changes no translation.                                              *)
LEMMA TableAddedUnseen ==
  ASSUME NEW lv, NEW pf, NEW lw, NEW pg, NEW a, NEW i, NEW new,
         AddsTable(lv, pf, lw, pg, a, i, new),
         NEW p \in Pages
  PROVE  Translate(root, p * PAGE)' = Translate(root, p * PAGE)
<1>0. Tree(lw, pg)' BY TableAdded
<1> SUFFICES ASSUME
      Tree(lv, pf), a \in DOMAIN node, lv[a] \in 2 .. 4,
      i \in 0 .. F - 1, ~IsPresent(node[a][i]),
      ~(lv[a] = 3 /\ pf[a] \in HugeSlots),
      new \in Nat, new \notin DOMAIN node, root' = root, booting' = booting,
      node' = WithNode([node EXCEPT ![a][i] = Entry(new, "ReadWriteExecuteKernel")],
                       new, EmptyNode),
      lw = WithNode(lv, new, lv[a] - 1), pg = WithNode(pf, new, F * pf[a] + i)
             PROVE  Translate(root, p * PAGE)' = Translate(root, p * PAGE)
  BY DEF AddsTable
<1> DEFINE D == DOMAIN node
           T == Translate(root, p * PAGE)
           U == Translate(root, p * PAGE)'
<1>1. /\ DOMAIN node' = D \cup {new}
      /\ \A b \in D : b # a => node'[b] = node[b]
      /\ node'[new] = EmptyNode
  BY DEF WithNode
<1>2. Translates(lv, pf) BY TreeTranslates
<1>3. Translates(lw, pg)' BY <1>0, TreeTranslatesNext
<1>4. /\ lw[new] = lv[a] - 1 /\ pg[new] = F * pf[a] + i
      /\ \A b \in D : lw[b] = lv[b] /\ pg[b] = pf[b]
  <2>1. DOMAIN lv = D /\ DOMAIN pf = D BY DEF Tree
  <2> QED BY <2>1 DEF WithNode
<1>5. \A l : \A b \in D : OnPath(lw, pg, b, l, p)' <=> OnPath(lv, pf, b, l, p)
  BY <1>1, <1>4 DEF OnPath
<1>6. \A l, b : OnPath(lw, pg, b, l, p)' => b \in D \/ b = new
  BY <1>1 DEF OnPath
<1>7. HugeSlots' = HugeSlots BY DEF HugeSlots
<1>8. p \in Nat /\ Digit(p, 1) \in 0 .. F - 1 /\ Digit(p, 3) \in 0 .. F - 1
  BY PrefixTop, PrefixType
<1>9. CASE Prefix(p, 3) \notin HugeSlots
  <2>1. CASE \E b \in D : OnPath(lv, pf, b, 1, p)
    <3>1. PICK b \in D : OnPath(lv, pf, b, 1, p) BY <2>1
    <3>2. T = node[b][Digit(p, 1)] BY <1>2, <3>1 DEF Translates
    <3>3. U = node'[b][Digit(p, 1)] BY <1>3, <1>5, <3>1, ZenonT(30) DEF Translates
    <3>4. b # a BY <3>1 DEF OnPath
    <3> QED BY <1>1, <3>2, <3>3, <3>4, Zenon
  <2>2. CASE ~\E b \in D : OnPath(lv, pf, b, 1, p)
    <3>1. \A b : ~OnPath(lv, pf, b, 1, p) BY <2>2 DEF OnPath
    <3>2. T = NotPresent BY <1>2, <1>9, <3>1 DEF Translates
    <3>3. CASE OnPath(lw, pg, new, 1, p)'
      <4>1. U = node'[new][Digit(p, 1)] BY <1>3, <3>3, Zenon DEF Translates
      <4> QED BY <1>1, <1>8, <3>2, <4>1, Zenon DEF EmptyNode
    <3>4. CASE ~OnPath(lw, pg, new, 1, p)'
      <4>1. \A b : ~OnPath(lw, pg, b, 1, p)' BY <1>5, <1>6, <2>2, <3>4
      <4>2. U = NotPresent BY <1>3, <1>7, <1>9, <4>1 DEF Translates
      <4> QED BY <3>2, <4>2
    <3> QED BY <3>3, <3>4
  <2> QED BY <2>1, <2>2
<1>10. CASE Prefix(p, 3) \in HugeSlots
  <2>1. CASE \E b \in D : OnPath(lv, pf, b, 3, p)
    <3>1. PICK b \in D : OnPath(lv, pf, b, 3, p) BY <2>1
    <3>2. T = IF IsPresent(node[b][Digit(p, 3)])
                THEN Leaf(node[b][Digit(p, 3)], (p * PAGE) % HUGE) ELSE NotPresent
      BY <1>2, <1>10, <3>1 DEF Translates
    <3>3. U = IF IsPresent(node'[b][Digit(p, 3)])
                THEN Leaf(node'[b][Digit(p, 3)], (p * PAGE) % HUGE) ELSE NotPresent
      BY <1>3, <1>5, <1>7, <1>10, <3>1, Zenon DEF Translates
    <3>4. b # a BY <1>10, <3>1 DEF OnPath
    <3> QED BY <1>1, <3>2, <3>3, <3>4, Zenon
  <2>2. CASE ~\E b \in D : OnPath(lv, pf, b, 3, p)
    <3>1. \A b : ~OnPath(lv, pf, b, 3, p) BY <2>2 DEF OnPath
    <3>2. T = NotPresent BY <1>2, <3>1 DEF Translates
    <3>3. CASE OnPath(lw, pg, new, 3, p)'
      <4>1. U = IF IsPresent(node'[new][Digit(p, 3)])
                THEN Leaf(node'[new][Digit(p, 3)], (p * PAGE) % HUGE) ELSE NotPresent
        BY <1>3, <1>7, <1>10, <3>3, Zenon DEF Translates
      <4>2. node'[new][Digit(p, 3)] = NotPresent BY <1>1, <1>8, ZenonT(30) DEF EmptyNode
      <4> QED BY <3>2, <4>1, <4>2 DEF IsPresent, NotPresent
    <3>4. CASE ~OnPath(lw, pg, new, 3, p)'
      <4>1. \A b : ~OnPath(lw, pg, b, 3, p)' BY <1>5, <1>6, <2>2, <3>4
      <4>2. U = NotPresent BY <1>3, <4>1 DEF Translates
      <4> QED BY <3>2, <4>2
    <3> QED BY <3>3, <3>4
  <2> QED BY <2>1, <2>2
<1> QED BY <1>9, <1>10

(* map writes entry e to a page table, or a huge page to a PDPT.           *)
SetsEntry(lv, pf, a, i, e) ==
  /\ Tree(lv, pf) /\ a \in DOMAIN node /\ i \in 0 .. F - 1
  /\ e \in PageEntry /\ IsPresent(e)
  /\ lv[a] = 1 \/ (lv[a] = 3 /\ pf[a] \in HugeSlots /\ IsHuge(e))
  /\ node' = [node EXCEPT ![a][i] = e] /\ root' = root /\ booting' = booting

(* What writing one entry changes.                                         *)
LEMMA EntrySetFacts ==
  ASSUME NEW lv, NEW pf, NEW a, NEW i, NEW e, SetsEntry(lv, pf, a, i, e)
  PROVE  /\ DOMAIN node' = DOMAIN node
         /\ node' \in [DOMAIN node -> [0 .. F - 1 -> PageEntry]]
         /\ \A b \in DOMAIN node : b # a => node'[b] = node[b]
         /\ \A j \in 0 .. F - 1 : node'[a][j] = IF j = i THEN e ELSE node[a][j]
         /\ HugeSlots' = HugeSlots
<1>1. /\ node' = [node EXCEPT ![a][i] = e] /\ a \in DOMAIN node /\ i \in 0 .. F - 1
      /\ e \in PageEntry /\ booting' = booting
      /\ node \in [DOMAIN node -> [0 .. F - 1 -> PageEntry]]
  BY DEF SetsEntry, Tree
<1> HIDE DEF PageEntry
<1>2. [node[a] EXCEPT ![i] = e] \in [0 .. F - 1 -> PageEntry] BY <1>1
<1>3. HugeSlots' = HugeSlots BY <1>1 DEF HugeSlots
<1> QED BY <1>1, <1>2, <1>3

(* Writing a page entry leaves a tree: it links no table.                  *)
LEMMA EntrySet ==
  ASSUME NEW lv, NEW pf, NEW a, NEW i, NEW e, SetsEntry(lv, pf, a, i, e)
  PROVE  Tree(lv, pf)'
<1>1. /\ DOMAIN node' = DOMAIN node
      /\ node' \in [DOMAIN node -> [0 .. F - 1 -> PageEntry]]
      /\ \A b \in DOMAIN node : b # a => node'[b] = node[b]
      /\ \A j \in 0 .. F - 1 : node'[a][j] = IF j = i THEN e ELSE node[a][j]
      /\ HugeSlots' = HugeSlots
  BY EntrySetFacts
<1>2. /\ Tree(lv, pf) /\ root' = root
      /\ lv[a] = 1 \/ (lv[a] = 3 /\ pf[a] \in HugeSlots /\ IsHuge(e))
      /\ a \in DOMAIN node
  BY DEF SetsEntry
<1>3. ASSUME NEW b \in DOMAIN node, lv[b] \in 2 .. 4, NEW j \in 0 .. F - 1
      PROVE  LinksDown(lv, pf, b, j)'
  <2>1. LinksDown(lv, pf, b, j) BY <1>2, <1>3 DEF Tree
  <2>2. CASE b = a /\ j = i
    BY <1>1, <1>2, <1>3, <2>2 DEF LinksDown
  <2>3. CASE ~(b = a /\ j = i)
    <3>1. node'[b][j] = node[b][j] BY <1>1, <2>3
    <3> QED BY <1>1, <2>1, <3>1 DEF LinksDown
  <2> QED BY <2>2, <2>3
<1>4. ASSUME NEW c \in DOMAIN node, lv[c] \in 1 .. 3
      PROVE  \E b \in DOMAIN node, j \in 0 .. F - 1 : Points(lv, pf, b, j, c)'
  <2>1. PICK b \in DOMAIN node, j \in 0 .. F - 1 : Points(lv, pf, b, j, c)
    BY <1>2, <1>4 DEF Tree
  <2>2. b # a
    <3> SUFFICES ASSUME b = a PROVE FALSE OBVIOUS
    <3>1. lv[a] = lv[c] + 1 /\ IsPresent(node[a][j]) /\ ~IsHuge(node[a][j])
      BY <2>1 DEF Points
    <3>2. lv[a] = 3 /\ pf[a] \in HugeSlots BY <1>2, <1>4, <3>1
    <3>3. LinksDown(lv, pf, a, j) BY <1>2, <3>2 DEF Tree
    <3> QED BY <3>1, <3>2, <3>3 DEF LinksDown
  <2>3. node'[b][j] = node[b][j] BY <1>1, <2>2
  <2>4. Points(lv, pf, b, j, c)' BY <2>1, <2>3 DEF Points
  <2> QED BY <2>4
<1>5. /\ lv \in [DOMAIN node' -> 0 .. 4] /\ pf \in [DOMAIN node' -> Nat]
      /\ root' \in DOMAIN node' /\ lv[root'] = 4 /\ pf[root'] = 0
      /\ \A b, c \in DOMAIN node' :
           lv[b] = lv[c] /\ pf[b] = pf[c] /\ lv[b] # 0 => b = c
  BY <1>1, <1>2 DEF Tree
<1> HIDE DEF PageEntry
<1> QED BY <1>1, <1>3, <1>4, <1>5, ZenonT(30) DEF Tree

(* In a page table it changes the translation of one page,                 *)
LEMMA SmallEntrySeen ==
  ASSUME NEW lv, NEW pf, NEW a, NEW i, NEW e, SetsEntry(lv, pf, a, i, e), lv[a] = 1,
         NEW p \in Pages
  PROVE  Translate(root, p * PAGE)' =
           IF pf[a] = Prefix(p, 1) /\ Digit(p, 1) = i THEN e
           ELSE Translate(root, p * PAGE)
<1>1. /\ DOMAIN node' = DOMAIN node
      /\ \A b \in DOMAIN node : b # a => node'[b] = node[b]
      /\ \A j \in 0 .. F - 1 : node'[a][j] = IF j = i THEN e ELSE node[a][j]
      /\ HugeSlots' = HugeSlots
  BY EntrySetFacts
<1>2. Tree(lv, pf) /\ a \in DOMAIN node /\ root' = root BY DEF SetsEntry
<1>3. Translates(lv, pf) BY <1>2, TreeTranslates
<1>4. Translates(lv, pf)'
  <2>1. Tree(lv, pf)' BY EntrySet
  <2> QED BY <2>1, TreeTranslatesNext
<1>5. \A b, l : OnPath(lv, pf, b, l, p)' <=> OnPath(lv, pf, b, l, p)
  BY <1>1 DEF OnPath
<1>6. p \in Nat /\ Digit(p, 1) \in 0 .. F - 1 BY PrefixTop, PrefixType
<1> DEFINE T == Translate(root, p * PAGE)
           U == Translate(root, p * PAGE)'
<1>7. ASSUME NEW b, OnPath(lv, pf, b, 1, p)
      PROVE  U = IF pf[a] = Prefix(p, 1) /\ Digit(p, 1) = i THEN e ELSE T
  <2>1. T = node[b][Digit(p, 1)] BY <1>3, <1>7 DEF Translates
  <2>2. U = node'[b][Digit(p, 1)] BY <1>4, <1>5, <1>7 DEF Translates
  <2>3. b \in DOMAIN node /\ lv[b] = 1 /\ pf[b] = Prefix(p, 1) BY <1>7 DEF OnPath
  <2>4. pf[a] = Prefix(p, 1) <=> a = b BY <1>2, <2>3 DEF Tree
  <2> QED BY <1>1, <1>2, <1>6, <2>1, <2>2, <2>3, <2>4
<1>8. ASSUME \A b : ~OnPath(lv, pf, b, 1, p), Prefix(p, 3) \notin HugeSlots
      PROVE  U = IF pf[a] = Prefix(p, 1) /\ Digit(p, 1) = i THEN e ELSE T
  <2>1. T = NotPresent BY <1>3, <1>8 DEF Translates
  <2>2. U = NotPresent BY <1>1, <1>4, <1>5, <1>8 DEF Translates
  <2>3. pf[a] # Prefix(p, 1) BY <1>2, <1>8 DEF OnPath
  <2> QED BY <2>1, <2>2, <2>3
<1>9. ASSUME \A b : ~OnPath(lv, pf, b, 1, p), Prefix(p, 3) \in HugeSlots
      PROVE  U = IF pf[a] = Prefix(p, 1) /\ Digit(p, 1) = i THEN e ELSE T
  <2>1. pf[a] # Prefix(p, 1) BY <1>2, <1>9 DEF OnPath
  <2>2. CASE \E b : OnPath(lv, pf, b, 3, p)
    <3>1. PICK b : OnPath(lv, pf, b, 3, p) BY <2>2
    <3>2. node'[b] = node[b] BY <1>1, <3>1 DEF OnPath
    <3>3. T = IF IsPresent(node[b][Digit(p, 3)])
                THEN Leaf(node[b][Digit(p, 3)], (p * PAGE) % HUGE) ELSE NotPresent
      BY <1>3, <1>9, <3>1 DEF Translates
    <3>4. U = IF IsPresent(node'[b][Digit(p, 3)])
                THEN Leaf(node'[b][Digit(p, 3)], (p * PAGE) % HUGE) ELSE NotPresent
      BY <1>1, <1>4, <1>5, <1>9, <3>1, ZenonT(30) DEF Translates
    <3> QED BY <2>1, <3>2, <3>3, <3>4
  <2>3. CASE \A b : ~OnPath(lv, pf, b, 3, p)
    <3>1. T = NotPresent BY <1>3, <2>3 DEF Translates
    <3>2. U = NotPresent BY <1>4, <1>5, <2>3 DEF Translates
    <3> QED BY <2>1, <3>1, <3>2
  <2> QED BY <2>2, <2>3
<1> QED BY <1>7, <1>8, <1>9, Zenon

(* and in a PDPT that of the pages of one huge page.                       *)
LEMMA HugeEntrySeen ==
  ASSUME NEW lv, NEW pf, NEW a, NEW i, NEW e, SetsEntry(lv, pf, a, i, e), lv[a] = 3,
         NEW p \in Pages
  PROVE  Translate(root, p * PAGE)' =
           IF pf[a] = Prefix(p, 3) /\ Digit(p, 3) = i
             THEN Leaf(e, (p * PAGE) % HUGE)
             ELSE Translate(root, p * PAGE)
<1>1. /\ DOMAIN node' = DOMAIN node
      /\ \A b \in DOMAIN node : b # a => node'[b] = node[b]
      /\ \A j \in 0 .. F - 1 : node'[a][j] = IF j = i THEN e ELSE node[a][j]
      /\ HugeSlots' = HugeSlots
  BY EntrySetFacts
<1>2. /\ Tree(lv, pf) /\ a \in DOMAIN node /\ root' = root
      /\ IsPresent(e) /\ pf[a] \in HugeSlots
  BY DEF SetsEntry
<1>3. Translates(lv, pf) BY <1>2, TreeTranslates
<1>4. Translates(lv, pf)'
  <2>1. Tree(lv, pf)' BY EntrySet
  <2> QED BY <2>1, TreeTranslatesNext
<1>5. \A b, l : OnPath(lv, pf, b, l, p)' <=> OnPath(lv, pf, b, l, p)
  BY <1>1 DEF OnPath
<1>6. p \in Nat /\ Digit(p, 3) \in 0 .. F - 1 BY PrefixTop, PrefixType
<1> DEFINE T == Translate(root, p * PAGE)
           U == Translate(root, p * PAGE)'
<1>7. CASE Prefix(p, 3) \in HugeSlots /\ \E b : OnPath(lv, pf, b, 3, p)
  <2>1. PICK b : OnPath(lv, pf, b, 3, p) BY <1>7
  <2>2. b \in DOMAIN node /\ lv[b] = 3 /\ pf[b] = Prefix(p, 3) BY <2>1 DEF OnPath
  <2>3. T = IF IsPresent(node[b][Digit(p, 3)])
              THEN Leaf(node[b][Digit(p, 3)], (p * PAGE) % HUGE) ELSE NotPresent
    BY <1>3, <1>7, <2>1 DEF Translates
  <2>4. U = IF IsPresent(node'[b][Digit(p, 3)])
              THEN Leaf(node'[b][Digit(p, 3)], (p * PAGE) % HUGE) ELSE NotPresent
    BY <1>1, <1>4, <1>5, <1>7, <2>1, Zenon DEF Translates
  <2>5. pf[a] = Prefix(p, 3) <=> a = b BY <1>2, <2>2 DEF Tree
  <2> HIDE DEF T, U
  <2>6. CASE a = b /\ Digit(p, 3) = i
    <3>1. node'[b][Digit(p, 3)] = e BY <1>1, <1>6, <2>6
    <3>2. U = Leaf(e, (p * PAGE) % HUGE) BY <1>2, <2>4, <3>1
    <3> QED BY <2>5, <2>6, <3>2 DEF U
  <2>7. CASE ~(a = b /\ Digit(p, 3) = i)
    <3>1. node'[b][Digit(p, 3)] = node[b][Digit(p, 3)] BY <1>1, <1>6, <2>2, <2>7
    <3>2. U = T BY <2>3, <2>4, <3>1
    <3> QED BY <2>5, <2>7, <3>2 DEF U, T
  <2> QED BY <2>6, <2>7
<1>8. CASE Prefix(p, 3) \in HugeSlots /\ ~\E b : OnPath(lv, pf, b, 3, p)
  <2>1. T = NotPresent BY <1>3, <1>8 DEF Translates
  <2>2. U = NotPresent BY <1>4, <1>5, <1>8 DEF Translates
  <2>3. pf[a] # Prefix(p, 3) BY <1>2, <1>8, Zenon DEF OnPath
  <2> QED BY <2>1, <2>2, <2>3
<1>9. CASE Prefix(p, 3) \notin HugeSlots
  <2>1. pf[a] # Prefix(p, 3) BY <1>2, <1>9
  <2>2. CASE \E b : OnPath(lv, pf, b, 1, p)
    <3>1. PICK b : OnPath(lv, pf, b, 1, p) BY <2>2
    <3>2. node'[b] = node[b] BY <1>1, <3>1 DEF OnPath
    <3>3. T = node[b][Digit(p, 1)] BY <1>3, <3>1 DEF Translates
    <3>4. U = node'[b][Digit(p, 1)] BY <1>4, <1>5, <3>1 DEF Translates
    <3> QED BY <2>1, <3>2, <3>3, <3>4
  <2>3. CASE \A b : ~OnPath(lv, pf, b, 1, p)
    <3>1. T = NotPresent BY <1>3, <1>9, <2>3 DEF Translates
    <3>2. U = NotPresent BY <1>1, <1>4, <1>5, <1>9, <2>3, ZenonT(30) DEF Translates
    <3> QED BY <2>1, <3>1, <3>2
  <2> QED BY <2>2, <2>3, Zenon
<1> QED BY <1>7, <1>8, <1>9, Zenon

(* duplicate_kernel adds a node that is not below root.                    *)
LEMMA NodeAside ==
  ASSUME NEW lv, NEW pf, Tree(lv, pf), NEW new, new \notin DOMAIN node,
         NEW n \in [0 .. F - 1 -> PageEntry],
         node' = WithNode(node, new, n), root' = root, booting' = booting,
         NEW lw, lw = WithNode(lv, new, 0), NEW pg, pg = WithNode(pf, new, 0)
  PROVE  /\ Tree(lw, pg)'
         /\ \A p \in Pages : Translate(root, p * PAGE)' = Translate(root, p * PAGE)
<1> DEFINE D == DOMAIN node
<1>1. /\ DOMAIN node' = D \cup {new} /\ node'[new] = n
      /\ \A b \in D : node'[b] = node[b]
  BY DEF WithNode
<1>2. /\ lv \in [D -> 0 .. 4] /\ pf \in [D -> Nat]
      /\ root \in D /\ lv[root] = 4 /\ pf[root] = 0
      /\ node \in [D -> [0 .. F - 1 -> PageEntry]]
  BY DEF Tree
<1>3. /\ lw \in [D \cup {new} -> 0 .. 4] /\ pg \in [D \cup {new} -> Nat]
      /\ \A b \in D : lw[b] = lv[b] /\ pg[b] = pf[b]
      /\ lw[new] = 0
  BY <1>2 DEF WithNode
<1>4. node' \in [D \cup {new} -> [0 .. F - 1 -> PageEntry]]
  <2> HIDE DEF PageEntry
  <2> QED BY <1>1, <1>2 DEF WithNode
<1>5. HugeSlots' = HugeSlots BY DEF HugeSlots
<1> HIDE DEF PageEntry
<1>6. ASSUME NEW a \in D \cup {new}, lw[a] \in 2 .. 4, NEW i \in 0 .. F - 1
      PROVE  LinksDown(lw, pg, a, i)'
  <2>1. a \in D BY <1>3, <1>6
  <2>2. LinksDown(lv, pf, a, i) BY <1>3, <1>6, <2>1 DEF Tree
  <2> QED BY <1>1, <1>3, <1>5, <2>1, <2>2, Zenon DEF LinksDown
<1>7. ASSUME NEW a \in D \cup {new}, lw[a] \in 1 .. 3
      PROVE  \E b \in D \cup {new}, j \in 0 .. F - 1 : Points(lw, pg, b, j, a)'
  <2>1. a \in D BY <1>3, <1>7
  <2>2. PICK b \in D, j \in 0 .. F - 1 : Points(lv, pf, b, j, a)
    BY <1>3, <1>7, <2>1 DEF Tree
  <2>3. Points(lw, pg, b, j, a)' BY <1>1, <1>3, <2>1, <2>2, ZenonT(30) DEF Points
  <2> QED BY <2>3
<1>8. \A b, c \in D \cup {new} :
         lw[b] = lw[c] /\ pg[b] = pg[c] /\ lw[b] # 0 => b = c
  BY <1>3 DEF Tree
<1>9. root' \in D \cup {new} /\ lw[root'] = 4 /\ pg[root'] = 0 BY <1>2, <1>3
<1>10. Tree(lw, pg)'
  <2> HIDE DEF D
  <2> QED BY <1>1, <1>3, <1>4, <1>6, <1>7, <1>8, <1>9, Zenon DEF Tree
<1>11. Translates(lv, pf) BY TreeTranslates
<1>12. Translates(lw, pg)' BY <1>10, TreeTranslatesNext
<1>13. ASSUME NEW p \in Pages
       PROVE  Translate(root, p * PAGE)' = Translate(root, p * PAGE)
  <2>1. \A b : \A l \in {1, 3} : OnPath(lw, pg, b, l, p)' <=> OnPath(lv, pf, b, l, p)
    BY <1>1, <1>3 DEF OnPath
  <2>2. \A b : \A l \in {1, 3} : OnPath(lv, pf, b, l, p) => node'[b] = node[b]
    BY <1>1 DEF OnPath
  <2> DEFINE T == Translate(root, p * PAGE)
             U == Translate(root, p * PAGE)'
  <2>3. CASE \E b : OnPath(lv, pf, b, 1, p)
    <3>1. PICK b : OnPath(lv, pf, b, 1, p) BY <2>3
    <3>2. T = node[b][Digit(p, 1)] BY <1>11, <3>1, Zenon DEF Translates
    <3>3. U = node'[b][Digit(p, 1)] BY <1>12, <2>1, <3>1, ZenonT(30) DEF Translates
    <3> QED BY <2>2, <3>1, <3>2, <3>3
  <2>4. CASE Prefix(p, 3) \in HugeSlots /\ \E b : OnPath(lv, pf, b, 3, p)
    <3>1. PICK b : OnPath(lv, pf, b, 3, p) BY <2>4
    <3>2. T = IF IsPresent(node[b][Digit(p, 3)])
                THEN Leaf(node[b][Digit(p, 3)], (p * PAGE) % HUGE) ELSE NotPresent
      BY <1>11, <2>4, <3>1, Zenon DEF Translates
    <3>3. U = IF IsPresent(node'[b][Digit(p, 3)])
                THEN Leaf(node'[b][Digit(p, 3)], (p * PAGE) % HUGE) ELSE NotPresent
      BY <1>5, <1>12, <2>1, <2>4, <3>1, ZenonT(30) DEF Translates
    <3>4. node'[b] = node[b] BY <2>2, <3>1
    <3> QED BY <3>2, <3>3, <3>4, Zenon
  <2>5. CASE Prefix(p, 3) \in HugeSlots /\ ~\E b : OnPath(lv, pf, b, 3, p)
    <3>1. T = NotPresent BY <1>11, <2>5, Zenon DEF Translates
    <3>2. U = NotPresent BY <1>12, <2>1, <2>5, Zenon DEF Translates
    <3> QED BY <3>1, <3>2, Zenon
  <2>6. CASE Prefix(p, 3) \notin HugeSlots /\ ~\E b : OnPath(lv, pf, b, 1, p)
    <3>1. T = NotPresent BY <1>11, <2>6, ZenonT(30) DEF Translates
    <3>2. U = NotPresent BY <1>5, <1>12, <2>1, <2>6, Zenon DEF Translates
    <3> QED BY <3>1, <3>2, Zenon
  <2> QED BY <2>3, <2>4, <2>5, <2>6, Zenon
<1> QED BY <1>10, <1>13

FirmwarePdptNode == [i \in 0 .. F - 1 |-> Entry(i * HUGE, "ReadWriteKernel1GiB")]

(* The firmware's nodes translate as its map says.                         *)
LEMMA FirmwareTranslates ==
  ASSUME FirmwarePml4 \in DOMAIN node, node[FirmwarePml4] = FirmwareNode,
         FirmwarePdpt \in DOMAIN node, node[FirmwarePdpt] = FirmwarePdptNode,
         NEW p \in Pages
  PROVE  Translate(FirmwarePml4, p * PAGE) = FirmwareMap[p]
<1>1. p \in Nat /\ Prefix(p, 4) = 0 BY PrefixTop
<1>2. PICK e4, e3, e2, e1 :
           /\ Entries(FirmwarePml4, p, e4, e3, e2, e1)
           /\ Translate(FirmwarePml4, p * PAGE) = Found(p, e4, e3, e2, e1)
  BY <1>1, Walks
<1>3. /\ Digit(p, 4) \in 0 .. F - 1 /\ Digit(p, 3) \in 0 .. F - 1
      /\ Prefix(p, 3) \in Nat
  BY <1>1, PrefixType
<1>4. Prefix(p, 3) = Digit(p, 4)
  <2>1. Prefix(p, 3) = F * Prefix(p, 4) + Digit(p, 4) BY <1>1, PrefixSplits
  <2> QED BY <1>1, <1>3, <2>1, Spans
<1>5. p * PAGE < LINER_MAPPING_SIZE <=> Prefix(p, 3) = 0
  <2> DEFINE n == F * F * F
  <2>1. n \in Nat \ {0} BY Spans
  <2>2. Prefix(p, 3) = 0 <=> n * 0 <= p /\ p < n * 0 + n BY <1>1, SlotRange
  <2>3. LINER_MAPPING_SIZE = n * PAGE BY Sizes, Spans
  <2> HIDE DEF n
  <2>4. p * PAGE < n * PAGE <=> p < n BY <1>1, <2>1, Scaled
  <2>5. Prefix(p, 3) = 0 <=> p < n BY <1>1, <2>1, <2>2
  <2> QED BY <2>3, <2>4, <2>5
<1>6. e4 = FirmwareNode[Digit(p, 4)] BY <1>2, ZenonT(30) DEF Entries, Lookup
<1>7. CASE Prefix(p, 3) # 0
  <2>1. e4 = NotPresent BY <1>3, <1>4, <1>6, <1>7 DEF FirmwareNode, EmptyNode
  <2>2. Translate(FirmwarePml4, p * PAGE) = NotPresent
    BY <1>2, <2>1 DEF Found, IsPresent, NotPresent
  <2> QED BY <1>5, <1>7, <2>2 DEF FirmwareMap
<1>8. CASE Prefix(p, 3) = 0
  <2>1. e4 = Entry(FirmwarePdpt, "ReadWriteExecuteKernel")
    BY <1>3, <1>4, <1>6, <1>8 DEF FirmwareNode, EmptyNode
  <2>2. IsPresent(e4) /\ e4.addr = FirmwarePdpt BY <2>1 DEF Entry, IsPresent
  <2>3. e3 = Entry(Digit(p, 3) * HUGE, "ReadWriteKernel1GiB")
    BY <1>2, <1>3, <2>2, ZenonT(30) DEF Entries, Lookup, FirmwarePdptNode
  <2>4. /\ IsPresent(e3) /\ IsHuge(e3) /\ e3.addr = Digit(p, 3) * HUGE
        /\ e3.attr = "ReadWriteKernel1GiB"
    BY <2>3 DEF Entry, IsPresent, IsHuge
  <2>5. Translate(FirmwarePml4, p * PAGE) = Leaf(e3, (p * PAGE) % HUGE)
    BY <1>2, <2>2, <2>4 DEF Found
  <2>6. p * PAGE = Digit(p, 3) * HUGE + ((p * PAGE) % HUGE)
    <3>1. /\ (p * PAGE) % HUGE \in Nat
          /\ p * PAGE = (Prefix(p, 3) * LINER_MAPPING_SIZE + Digit(p, 3) * HUGE)
                          + ((p * PAGE) % HUGE)
      BY <1>1, HugeLeaf
    <3>2. Digit(p, 3) * HUGE \in Nat BY <1>3, Sizes
    <3>3. 0 * LINER_MAPPING_SIZE = 0 BY Sizes
    <3> QED BY <1>8, <3>1, <3>2, <3>3
  <2> QED BY <1>5, <1>8, <2>4, <2>5, <2>6 DEF Leaf, FirmwareMap
<1> QED BY <1>7, <1>8
===============================================================================
