----------------------------- MODULE LBPointerProofs ---------------------------
(***************************************************************************)
(* Facts about message pointers and pages for every size of a linear buffer *)
(* (LBPointer): how the number of a message is split into a pointer and a   *)
(* page, and what the functions of lb_common.c make of the two.             *)
(***************************************************************************)
EXTENDS LBPointer, TLAPS, WellFoundedInduction

\* Euclidean division.
LEMMA DivMod ==
  ASSUME NEW x \in Int, NEW d \in Nat \ {0}
  PROVE  /\ x \div d \in Int
         /\ x % d \in 0 .. d - 1
         /\ x = d * (x \div d) + (x % d)
  OBVIOUS

\* Multiples of d are at least d apart.
LEMMA MulLt ==
  ASSUME NEW a \in Int, NEW b \in Int, NEW d \in Nat \ {0}, a < b
  PROVE  d * a + d <= d * b
  OBVIOUS

\* Quotient and remainder are the only ones.
LEMMA DivModUnique ==
  ASSUME NEW x \in Int, NEW d \in Nat \ {0}, NEW q \in Int, NEW r \in 0 .. d - 1,
         x = d * q + r
  PROVE  x \div d = q /\ x % d = r
  <1>1. x = d * (x \div d) + (x % d) /\ x % d \in 0 .. d - 1 /\ x \div d \in Int
    BY DivMod
  <1>2. ~ (q < x \div d)
    BY <1>1, MulLt
  <1>3. ~ (x \div d < q)
    BY <1>1, MulLt
  <1> QED
    BY <1>1, <1>2, <1>3

\* The remainder of what is below 2 * d.
LEMMA ModSmall ==
  ASSUME NEW d \in Nat \ {0}, NEW x \in 0 .. 2 * d - 1
  PROVE  x % d = IF x < d THEN x ELSE x - d
  <1>1. CASE x < d
    <2>1. x = d * 0 + x /\ x \in 0 .. d - 1 /\ x \in Int /\ 0 \in Int
      BY <1>1
    <2> QED BY <1>1, <2>1, DivModUnique
  <1>2. CASE x >= d
    <2>1. x = d * 1 + (x - d) /\ x - d \in 0 .. d - 1 /\ x \in Int /\ 1 \in Int
      BY <1>2
    <2> QED BY <1>2, <2>1, DivModUnique
  <1> QED
    BY <1>1, <1>2

\* Numbers less than d apart have different remainders.
LEMMA ModDistinct ==
  ASSUME NEW x \in Int, NEW y \in Int, NEW d \in Nat \ {0}, x < y, y - x < d
  PROVE  x % d # y % d
  <1> SUFFICES ASSUME x % d = y % d PROVE FALSE
    OBVIOUS
  <1> DEFINE q == x \div d
             s == y \div d
             r == x % d
  <1>1. q \in Int /\ s \in Int /\ r \in 0 .. d - 1 /\ x = d * q + r /\ y = d * s + r
    <2>1. q \in Int /\ r \in 0 .. d - 1 /\ x = d * q + r
      BY DivMod
    <2>2. s \in Int /\ y = d * s + r
      BY DivMod
    <2> QED BY <2>1, <2>2
  <1> HIDE DEF q, s, r
  <1>2. ~ (q < s)
    BY <1>1, MulLt
  <1>3. ~ (s < q)
    BY <1>1, MulLt
  <1> QED
    BY <1>1, <1>2, <1>3

\* A remainder may be taken before adding.
LEMMA ModAdd ==
  ASSUME NEW x \in Int, NEW k \in Int, NEW d \in Nat \ {0}
  PROVE  ((x % d) + k) % d = (x + k) % d
  <1> DEFINE q == x \div d
             r == x % d
             s == (r + k) \div d
             t == (r + k) % d
  <1>1. q \in Int /\ r \in 0 .. d - 1 /\ x = d * q + r
    BY DivMod
  <1>2. s \in Int /\ t \in 0 .. d - 1 /\ r + k = d * s + t
    <2> HIDE DEF r
    <2>1. r + k \in Int
      BY <1>1
    <2> QED BY ONLY <2>1, d \in Nat \ {0}, DivMod
  <1> HIDE DEF q, r, s, t
  <1>3. q + s \in Int /\ d * (q + s) = d * q + d * s
    BY <1>1, <1>2
  <1>4. x + k = d * (q + s) + t /\ x + k \in Int
    BY <1>1, <1>2, <1>3
  <1>5. (x + k) % d = t
    BY <1>2, <1>3, <1>4, DivModUnique
  <1> QED
    BY <1>5 DEF t, r

\* Adding d once changes no remainder.
LEMMA ModTurn ==
  ASSUME NEW x \in Int, NEW d \in Nat \ {0}
  PROVE  (x + d) % d = x % d
  <1> DEFINE q == x \div d
             r == x % d
  <1>1. q \in Int /\ r \in 0 .. d - 1 /\ x = d * q + r
    BY DivMod
  <1> HIDE DEF q, r
  <1>2. q + 1 \in Int /\ d * (q + 1) = d * q + d
    BY <1>1
  <1>3. x + d = d * (q + 1) + r /\ x + d \in Int
    BY <1>1, <1>2
  <1>4. (x + d) % d = r
    BY <1>1, <1>2, <1>3, DivModUnique
  <1> QED
    BY <1>4 DEF r

\* The remainder of a difference depends on the remainders only.
LEMMA ModMinus ==
  ASSUME NEW x \in Int, NEW y \in Int, NEW d \in Nat \ {0}
  PROVE  ((x % d) - (y % d)) % d = (-(y - x)) % d
  <1> DEFINE q == y \div d
             r == y % d
             z == x - y
             e == z \div d
             t == z % d
  <1>1. q \in Int /\ r \in 0 .. d - 1 /\ y = d * q + r
    BY DivMod
  <1>2. ((x % d) + (-r)) % d = (x + (-r)) % d
    <2>1. -r \in Int
      BY <1>1
    <2> HIDE DEF r
    <2> QED BY <2>1, ModAdd
  <1>3. e \in Int /\ t \in 0 .. d - 1 /\ z = d * e + t
    <2>1. z \in Int
      OBVIOUS
    <2> HIDE DEF z
    <2> QED BY ONLY <2>1, d \in Nat \ {0}, DivMod
  <1> HIDE DEF q, r, e, t
  <1>4. q + e \in Int /\ d * (q + e) = d * q + d * e
    BY <1>1, <1>3
  <1>5. x + (-r) = d * (q + e) + t /\ x + (-r) \in Int
    BY <1>1, <1>3, <1>4
  <1>6. (x + (-r)) % d = t
    BY <1>3, <1>4, <1>5, DivModUnique
  <1>7. z = -(y - x)
    OBVIOUS
  <1>8. (x % d) - r = (x % d) + (-r)
    <2>1. x % d \in Int
      BY DivMod
    <2> QED BY <1>1, <2>1
  <1> QED
    BY <1>2, <1>6, <1>7, <1>8 DEF r, t

\* The distance, 1 .. d, of two positions on a circle of d.
LEMMA Around ==
  ASSUME NEW a \in Int, NEW b \in Int, NEW d \in Nat \ {0}, b - a \in 1 .. d
  PROVE  b - a = LET e == (b % d) - (a % d) IN IF e <= 0 THEN e + d ELSE e
  <1> DEFINE q == a \div d
             r == a % d
             s == b \div d
             t == b % d
  <1>1. q \in Int /\ r \in 0 .. d - 1 /\ a = d * q + r
    BY DivMod
  <1>2. s \in Int /\ t \in 0 .. d - 1 /\ b = d * s + t
    BY DivMod
  <1> HIDE DEF q, r, s, t
  <1>3. ~ (s < q)
    BY <1>1, <1>2, MulLt
  <1>4. ~ (q + 1 < s)
    <2> SUFFICES ASSUME q + 1 < s PROVE FALSE
      OBVIOUS
    <2>1. q + 1 \in Int /\ d * (q + 1) = d * q + d
      BY <1>1
    <2>2. d * (q + 1) + d <= d * s
      BY <1>1, <1>2, MulLt
    <2> QED BY <1>1, <1>2, <2>1, <2>2
  <1>5. CASE s = q
    <2>1. b - a = t - r
      BY <1>1, <1>2, <1>5
    <2> QED BY <1>1, <1>2, <2>1 DEF r, t
  <1>6. CASE s = q + 1
    <2>1. d * s = d * q + d
      BY <1>1, <1>6
    <2>2. b - a = t - r + d
      BY <1>1, <1>2, <2>1
    <2> QED BY <1>1, <1>2, <2>2 DEF r, t
  <1> QED
    BY <1>1, <1>2, <1>3, <1>4, <1>5, <1>6

\* What is left of a circle of d when x of it, at least 1, is taken.
LEMMA ModLeft ==
  ASSUME NEW d \in Nat \ {0}, NEW x \in 1 .. d
  PROVE  (-x) % d = d - x
  <1>1. CASE x = d
    <2>1. -x = d * (-1) + 0 /\ 0 \in 0 .. d - 1 /\ -1 \in Int /\ -x \in Int
      BY <1>1
    <2>2. (-x) % d = 0
      BY ONLY <2>1, d \in Nat \ {0}, DivModUnique
    <2> QED BY <1>1, <2>2
  <1>2. CASE x < d
    <2>1. -x = d * (-1) + (d - x) /\ d - x \in 0 .. d - 1 /\ -1 \in Int /\ -x \in Int
      BY <1>2
    <2> QED BY ONLY <2>1, d \in Nat \ {0}, DivModUnique
  <1> QED
    BY <1>1, <1>2

(***************************************************************************)
(* Every nonempty set of numbers has a least element: induction in these    *)
(* proofs is by the least counterexample.                                   *)
(***************************************************************************)
LEMMA Least ==
  ASSUME NEW T \in SUBSET Nat, T # {}
  PROVE  \E x \in T : \A y \in T : x <= y
  <1> DEFINE R == {p \in Nat \X Nat : p[1] < p[2]}
  <1>1. IsWellFoundedOn(R, Nat)
    BY NatLessThanWellFounded DEF OpToRel
  <1>2. \E x \in T : \A y \in T : ~ (<<y, x>> \in R)
    <2> HIDE DEF R
    <2> QED BY <1>1, WFMin
  <1>3. PICK x \in T : \A y \in T : ~ (<<y, x>> \in R)
    BY <1>2
  <1>4. \A y \in T : ~ (y < x)
    BY <1>3
  <1> QED
    BY <1>4

\* The pointer range is four pages, and a page holds more than a full buffer.
LEMMA Sizes ==
  /\ MaxMsgs \in Nat \ {0} /\ PageSize \in Nat \ {0} /\ NSlots \in Nat \ {0}
  /\ PtrRange = 4 * PageSize /\ PtrRange \in Nat \ {0}
  /\ NSlots = MaxMsgs + 4
  /\ NSlots <= PageSize
  <1>1. /\ MaxMsgs \in Nat \ {0} /\ PageSize \in Nat \ {0} /\ NSlots \in Nat \ {0}
        /\ NSlots = MaxMsgs + 4 /\ PageSize % NSlots = 0
    BY PointerAssumption DEF PointerAssumption
  <1>2. PtrRange = 4 * PageSize /\ PtrRange \in Nat \ {0}
    BY <1>1 DEF PtrRange, NPages
  <1>3. PageSize = NSlots * (PageSize \div NSlots) /\ PageSize \div NSlots \in Int
    <2>1. /\ PageSize = NSlots * (PageSize \div NSlots) + (PageSize % NSlots)
          /\ PageSize \div NSlots \in Int
      <3>1. PageSize \in Int /\ NSlots \in Nat \ {0}
        BY <1>1
      <3> QED BY ONLY <3>1, DivMod
    <2> QED BY <1>1, <2>1
  <1>4. PageSize \div NSlots > 0
    <2>1. CASE PageSize \div NSlots < 0
      BY <1>1, <1>3, <2>1, MulLt
    <2>2. CASE PageSize \div NSlots = 0
      BY <1>1, <1>3, <2>2
    <2> QED BY <1>3, <2>1, <2>2
  <1>5. NSlots * 0 + NSlots <= NSlots * (PageSize \div NSlots)
    BY <1>1, <1>3, <1>4, MulLt
  <1> QED
    BY <1>1, <1>2, <1>3, <1>5

(***************************************************************************)
(* The pointer holds the page modulo four and the place in the page.        *)
(***************************************************************************)
LEMMA Split ==
  ASSUME NEW m \in Int
  PROVE  /\ PageOf(m) \in Int /\ m % PageSize \in 0 .. PageSize - 1
         /\ m = PageSize * PageOf(m) + (m % PageSize)
         /\ PageOf(m) % NPages \in 0 .. 3
         /\ PtrOf(m) \in 0 .. PtrRange - 1
         /\ PtrOf(m) = PageSize * (PageOf(m) % NPages) + (m % PageSize)
         /\ PtrOf(m) \div PageSize = PageOf(m) % NPages
         /\ PtrOf(m) % PageSize = m % PageSize
  <1> DEFINE q == PageOf(m)
             r == m % PageSize
             a == q \div 4
             b == q % 4
             p == PageSize * b + r
  <1>1. q \in Int /\ r \in 0 .. PageSize - 1 /\ m = PageSize * q + r
    BY Sizes, DivMod DEF PageOf
  <1>2. a \in Int /\ b \in 0 .. 3 /\ q = 4 * a + b
    BY <1>1
  <1>3. p \in 0 .. PtrRange - 1
    <2>1. CASE b = 0 BY <1>1, <2>1, Sizes
    <2>2. CASE b = 1 BY <1>1, <2>2, Sizes
    <2>3. CASE b = 2 BY <1>1, <2>3, Sizes
    <2>4. CASE b = 3 BY <1>1, <2>4, Sizes
    <2> QED BY <1>2, <2>1, <2>2, <2>3, <2>4
  <1>4. PageSize * q = PtrRange * a + PageSize * b
    BY <1>1, <1>2, Sizes
  <1>5. m = PtrRange * a + p
    BY <1>1, <1>2, <1>3, <1>4, Sizes
  <1>6. PtrOf(m) = p
    BY <1>2, <1>3, <1>5, Sizes, DivModUnique DEF PtrOf
  <1>7. p \div PageSize = b /\ p % PageSize = r
    <2>1. p = PageSize * b + r /\ p \in Int /\ b \in Int /\ PageSize \in Nat \ {0}
      BY <1>2, <1>3, Sizes
    <2> QED BY <1>1, <2>1, DivModUnique
  <1> QED
    BY <1>1, <1>2, <1>3, <1>6, <1>7 DEF NPages

\* The pointers of messages less than a pointer range apart.
LEMMA Ahead ==
  ASSUME NEW m \in Int, NEW d \in 0 .. PtrRange - 1
  PROVE  PtrOf(m + d) = IF PtrOf(m) + d < PtrRange THEN PtrOf(m) + d
                        ELSE PtrOf(m) + d - PtrRange
  <1> DEFINE k == m \div PtrRange
             p == PtrOf(m)
  <1>1. PtrRange \in Nat \ {0}
    BY Sizes
  <1>2. k \in Int /\ p \in 0 .. PtrRange - 1 /\ m = PtrRange * k + p
    BY <1>1, DivMod DEF PtrOf
  <1>3. m + d \in Int /\ PtrOf(m + d) = (m + d) % PtrRange
    BY <1>1 DEF PtrOf
  <1> HIDE DEF k, p
  <1>4. CASE p + d < PtrRange
    <2>1. m + d = PtrRange * k + (p + d) /\ p + d \in 0 .. PtrRange - 1
      BY <1>1, <1>2, <1>4
    <2> QED BY <1>1, <1>2, <1>3, <1>4, <2>1, DivModUnique DEF p
  <1>5. CASE p + d >= PtrRange
    <2>1. PtrRange * (k + 1) = PtrRange * k + PtrRange /\ k + 1 \in Int
      BY <1>1, <1>2
    <2>2. m + d = PtrRange * (k + 1) + (p + d - PtrRange) /\ p + d - PtrRange \in 0 .. PtrRange - 1
      BY <1>1, <1>2, <1>5, <2>1
    <2>3. (m + d) % PtrRange = p + d - PtrRange
      BY <1>1, <1>3, <2>1, <2>2, DivModUnique
    <2> QED BY <1>1, <1>2, <1>3, <1>5, <2>3 DEF p
  <1> QED
    BY <1>1, <1>2, <1>4, <1>5

\* The pointers of messages less than two buffers apart are in their order.
LEMMA CompareRight ==
  ASSUME NEW a \in Int, NEW b \in Int, a - b < 2 * MaxMsgs, b - a < 2 * MaxMsgs
  PROVE  PtrCompare(PtrOf(a), PtrOf(b)) = IF a = b THEN 0 ELSE IF a > b THEN 1 ELSE -1
  <1>1. /\ MaxMsgs \in Nat \ {0} /\ PtrRange \in Nat \ {0} /\ 4 * MaxMsgs < PtrRange
        /\ PtrOf(a) \in 0 .. PtrRange - 1 /\ PtrOf(b) \in 0 .. PtrRange - 1
    BY Sizes, Split
  <1> DEFINE p == PtrOf(a)
             q == PtrOf(b)
  <1>2. ASSUME a > b PROVE p = IF q + (a - b) < PtrRange THEN q + (a - b) ELSE q + (a - b) - PtrRange
    <2> DEFINE d == a - b
    <2>1. d \in 0 .. PtrRange - 1 /\ b + d = a
      BY <1>1, <1>2
    <2> HIDE DEF d
    <2>2. PtrOf(b + d) = IF PtrOf(b) + d < PtrRange THEN PtrOf(b) + d ELSE PtrOf(b) + d - PtrRange
      BY <2>1, Ahead
    <2> QED BY <2>1, <2>2 DEF d
  <1>3. ASSUME a < b PROVE q = IF p + (b - a) < PtrRange THEN p + (b - a) ELSE p + (b - a) - PtrRange
    <2> DEFINE d == b - a
    <2>1. d \in 0 .. PtrRange - 1 /\ a + d = b
      BY <1>1, <1>3
    <2> HIDE DEF d
    <2>2. PtrOf(a + d) = IF PtrOf(a) + d < PtrRange THEN PtrOf(a) + d ELSE PtrOf(a) + d - PtrRange
      BY <2>1, Ahead
    <2> QED BY <2>1, <2>2 DEF d
  <1>4. a = b => p = q
    OBVIOUS
  <1>5. p \in 0 .. PtrRange - 1 /\ q \in 0 .. PtrRange - 1
    BY <1>1
  <1> HIDE DEF p, q
  <1>6. PtrCompare(p, q) = IF a = b THEN 0 ELSE IF a > b THEN 1 ELSE -1
    BY <1>1, <1>2, <1>3, <1>4, <1>5 DEF PtrCompare
  <1> QED
    BY <1>6 DEF p, q

\* The message after m: its pointer, and whether it starts a page.
LEMMA Successor ==
  ASSUME NEW m \in Int
  PROVE  /\ PtrOf(m + 1) = (PtrOf(m) + 1) % PtrRange
         /\ PageOf(m + 1) = IF PtrOf(m + 1) % PageSize = 0 THEN PageOf(m) + 1 ELSE PageOf(m)
  <1> DEFINE q == PageOf(m)
             r == m % PageSize
  <1>1. /\ q \in Int /\ r \in 0 .. PageSize - 1 /\ m = PageSize * q + r
        /\ PtrOf(m) \in 0 .. PtrRange - 1
        /\ m + 1 \in Int
        /\ PtrOf(m + 1) % PageSize = (m + 1) % PageSize
        /\ PageOf(m + 1) = (m + 1) \div PageSize
        /\ PageSize \in Nat \ {0} /\ PtrRange \in Nat \ {0} /\ PtrRange > 1
    <2>1. m + 1 \in Int
      OBVIOUS
    <2>2. PageSize \in Nat \ {0} /\ PtrRange \in Nat \ {0} /\ PtrRange > 1
      BY Sizes
    <2>3. q \in Int /\ r \in 0 .. PageSize - 1 /\ m = PageSize * q + r
          /\ PtrOf(m) \in 0 .. PtrRange - 1
      BY Split
    <2>4. PtrOf(m + 1) % PageSize = (m + 1) % PageSize
      BY <2>1, Split
    <2> QED BY <2>1, <2>2, <2>3, <2>4 DEF PageOf
  <1> HIDE DEF q, r
  <1>2. PtrOf(m + 1) = (PtrOf(m) + 1) % PtrRange
    <2>1. PtrOf(m + 1) = IF PtrOf(m) + 1 < PtrRange THEN PtrOf(m) + 1
                         ELSE PtrOf(m) + 1 - PtrRange
      BY <1>1, Ahead
    <2>2. PtrOf(m) + 1 \in 0 .. 2 * PtrRange - 1
      BY <1>1
    <2> QED BY <1>1, <2>1, <2>2, ModSmall
  <1>3. CASE r < PageSize - 1
    <2>1. m + 1 = PageSize * q + (r + 1) /\ r + 1 \in 0 .. PageSize - 1
      BY <1>1, <1>3
    <2>2. (m + 1) \div PageSize = q /\ (m + 1) % PageSize = r + 1
      BY <1>1, <2>1, DivModUnique
    <2> QED BY <1>1, <1>2, <2>1, <2>2 DEF q
  <1>4. CASE r = PageSize - 1
    <2>1. PageSize * (q + 1) = PageSize * q + PageSize /\ q + 1 \in Int
      BY <1>1
    <2>2. m + 1 = PageSize * (q + 1) + 0 /\ 0 \in 0 .. PageSize - 1
      BY <1>1, <1>4, <2>1
    <2>3. (m + 1) \div PageSize = q + 1 /\ (m + 1) % PageSize = 0
      BY <1>1, <2>1, <2>2, DivModUnique
    <2> QED BY <1>1, <1>2, <2>3 DEF q
  <1> QED
    BY <1>1, <1>3, <1>4

(***************************************************************************)
(* LB_Get_corrected_page_number repairs a page that is one too large, or up *)
(* to two too small.                                                        *)
(***************************************************************************)
LEMMA Corrected ==
  ASSUME NEW m \in Int, NEW ref \in Int,
         ref - PageOf(m) \in -2 .. 1
  PROVE  CorrectedPage(PtrOf(m), ref) = PageOf(m)
  <1>1. PageOf(m) \in Int /\ PtrOf(m) \div PageSize = PageOf(m) % NPages
    BY Split
  <1> QED
    BY <1>1 DEF CorrectedPage, NPages

(***************************************************************************)
(* LB_Compute_pointer finds the message inc places from m, whatever the     *)
(* sign of inc and however many pages and wraps lie between.                *)
(***************************************************************************)
LEMMA ComputeRight ==
  ASSUME NEW m \in Int, NEW inc \in Int
  PROVE  ComputePointer(PtrOf(m), PageOf(m), inc)
           = [pt |-> PtrOf(m + inc), page |-> PageOf(m + inc)]
  <1> DEFINE p == PtrOf(m)
             q == PageOf(m)
             r == m % PageSize
  <1>1. /\ PageSize \in Nat \ {0} /\ PtrRange \in Nat \ {0}
        /\ m + inc \in Int /\ p \in Int
        /\ q \in Int /\ r \in 0 .. PageSize - 1 /\ m = PageSize * q + r
        /\ p % PageSize = r
    <2>1. PageSize \in Nat \ {0} /\ PtrRange \in Nat \ {0} /\ m + inc \in Int
      BY Sizes
    <2>2. p \in 0 .. PtrRange - 1 /\ q \in Int /\ r \in 0 .. PageSize - 1
          /\ m = PageSize * q + r /\ p % PageSize = r
      BY Split
    <2> QED BY <2>1, <2>2
  <1>2. (p + inc) % PtrRange = PtrOf(m + inc)
    <2> DEFINE k == m \div PtrRange
               l == (p + inc) \div PtrRange
               y == (p + inc) % PtrRange
    <2>1. k \in Int /\ m = PtrRange * k + p
      BY <1>1, DivMod DEF PtrOf
    <2>2. l \in Int /\ y \in 0 .. PtrRange - 1 /\ p + inc = PtrRange * l + y
      <3> HIDE DEF p
      <3>1. p + inc \in Int /\ PtrRange \in Nat \ {0}
        BY <1>1
      <3> QED BY ONLY <3>1, DivMod
    <2> HIDE DEF k, l, y, p
    <2>3. k + l \in Int /\ PtrRange * (k + l) = PtrRange * k + PtrRange * l
      BY <1>1, <2>1, <2>2
    <2>4. m + inc = PtrRange * (k + l) + y
      BY <1>1, <2>1, <2>2, <2>3
    <2>5. (m + inc) % PtrRange = y
      BY <1>1, <2>2, <2>3, <2>4, DivModUnique
    <2> QED BY <2>5 DEF y, PtrOf
  <1>3. ASSUME inc >= 0
        PROVE  PageOf(m + inc) = LET fwd == inc - (PageSize - r)
                                 IN  IF fwd >= 0 THEN q + 1 + (fwd \div PageSize) ELSE q
    <2> DEFINE fwd == inc - (PageSize - r)
               f   == fwd \div PageSize
               g   == fwd % PageSize
    <2>1. fwd \in Int /\ f \in Int /\ g \in 0 .. PageSize - 1 /\ fwd = PageSize * f + g
      <3>1. fwd \in Int /\ PageSize \in Nat \ {0}
        BY <1>1
      <3> HIDE DEF fwd
      <3> QED BY ONLY <3>1, DivMod
    <2> HIDE DEF q, r, f, g
    <2>2. CASE fwd < 0
      <3>1. r + inc \in 0 .. PageSize - 1 /\ m + inc = PageSize * q + (r + inc)
        BY <1>1, <1>3, <2>2
      <3>2. (m + inc) \div PageSize = q
        BY <1>1, <3>1, DivModUnique
      <3> QED BY <2>1, <2>2, <3>2 DEF PageOf
    <2>3. CASE fwd >= 0
      <3>1. q + 1 + f \in Int /\ PageSize * (q + 1 + f) = PageSize * q + PageSize + PageSize * f
        BY <1>1, <2>1
      <3>2. m + inc = PageSize * (q + 1 + f) + g
        BY <1>1, <2>1, <3>1
      <3>3. (m + inc) \div PageSize = q + 1 + f
        BY <1>1, <2>1, <3>1, <3>2, DivModUnique
      <3> QED BY <2>3, <3>3 DEF PageOf, f
    <2> QED BY <2>1, <2>2, <2>3
  <1>4. ASSUME inc < 0
        PROVE  PageOf(m + inc) = LET bwd == -inc - r - 1
                                 IN  IF bwd >= 0 THEN q - 1 - (bwd \div PageSize) ELSE q
    <2> DEFINE bwd == -inc - r - 1
               f   == bwd \div PageSize
               g   == bwd % PageSize
    <2>1. bwd \in Int /\ f \in Int /\ g \in 0 .. PageSize - 1 /\ bwd = PageSize * f + g
      <3>1. bwd \in Int /\ PageSize \in Nat \ {0}
        BY <1>1
      <3> HIDE DEF bwd
      <3> QED BY ONLY <3>1, DivMod
    <2> HIDE DEF q, r, f, g
    <2>2. CASE bwd < 0
      <3>1. r + inc \in 0 .. PageSize - 1 /\ m + inc = PageSize * q + (r + inc)
        BY <1>1, <1>4, <2>2
      <3>2. (m + inc) \div PageSize = q
        BY <1>1, <3>1, DivModUnique
      <3> QED BY <2>1, <2>2, <3>2 DEF PageOf
    <2>3. CASE bwd >= 0
      <3>1. q - 1 - f \in Int /\ PageSize * (q - 1 - f) = PageSize * q - PageSize - PageSize * f
        BY <1>1, <2>1
      <3>2. m + inc = PageSize * (q - 1 - f) + (PageSize - 1 - g) /\ PageSize - 1 - g \in 0 .. PageSize - 1
        BY <1>1, <2>1, <3>1
      <3>3. (m + inc) \div PageSize = q - 1 - f
        BY <1>1, <2>1, <3>1, <3>2, DivModUnique
      <3> QED BY <2>3, <3>3 DEF PageOf, f
    <2> QED BY <2>1, <2>2, <2>3
  <1> HIDE DEF p, q, r
  <1>5. ComputePointer(p, q, inc) = [pt |-> PtrOf(m + inc), page |-> PageOf(m + inc)]
    BY <1>1, <1>2, <1>3, <1>4 DEF ComputePointer
  <1> QED
    BY <1>5 DEF p, q

\* The pointer k places after (before, when negative) that of m.
LEMMA PtrStep ==
  ASSUME NEW m \in Int, NEW k \in Int
  PROVE  (PtrOf(m) + k + PtrRange) % PtrRange = PtrOf(m + k)
  <1>1. PtrRange \in Nat \ {0} /\ PtrOf(m) \in 0 .. PtrRange - 1
    BY Sizes, Split
  <1>2. ((m % PtrRange) + (k + PtrRange)) % PtrRange = (m + (k + PtrRange)) % PtrRange
    <2>1. k + PtrRange \in Int
      BY <1>1
    <2> QED BY <1>1, <2>1, ModAdd
  <1>3. (m + k + PtrRange) % PtrRange = (m + k) % PtrRange
    <2>1. m + k \in Int
      OBVIOUS
    <2> QED BY <1>1, <2>1, ModTurn
  <1>4. PtrOf(m) + k + PtrRange = (m % PtrRange) + (k + PtrRange) /\ m + (k + PtrRange) = m + k + PtrRange
    BY <1>1 DEF PtrOf
  <1> QED
    BY <1>2, <1>3, <1>4 DEF PtrOf

\* The pointers before and after that of m.
LEMMA Neighbours ==
  ASSUME NEW m \in Int
  PROVE  /\ PrevPtr(PtrOf(m)) = PtrOf(m - 1)
         /\ (PtrOf(m) + 1) % PtrRange = PtrOf(m + 1)
  <1>1. /\ m - 1 \in Int /\ (m - 1) + 1 = m
        /\ PtrRange \in Nat \ {0} /\ PtrRange > 1 /\ 1 \in 0 .. PtrRange - 1
    BY Sizes
  <1>2. PtrOf(m - 1) \in 0 .. PtrRange - 1
    BY <1>1, Split
  <1>3. PtrOf(m) = IF PtrOf(m - 1) + 1 < PtrRange THEN PtrOf(m - 1) + 1
                   ELSE PtrOf(m - 1) + 1 - PtrRange
    <2> DEFINE l == m - 1
    <2>1. PtrOf(l + 1) = IF PtrOf(l) + 1 < PtrRange THEN PtrOf(l) + 1
                         ELSE PtrOf(l) + 1 - PtrRange
      <3>1. l \in Int
        BY <1>1
      <3> HIDE DEF l
      <3> QED BY <1>1, <3>1, Ahead
    <2> QED BY <1>1, <2>1
  <1>4. PrevPtr(PtrOf(m)) = PtrOf(m - 1)
    BY <1>1, <1>2, <1>3 DEF PrevPtr
  <1> QED
    BY <1>4, Successor

\* Messages go to the slots of the directory in turn.
LEMMA SlotOf ==
  ASSUME NEW m \in Int
  PROVE  Slot(PtrOf(m)) = m % NSlots
  <1> DEFINE c == PageSize \div NSlots
             k == m \div PtrRange
             p == PtrOf(m)
             j == p \div NSlots
             s == p % NSlots
  <1>1. /\ NSlots \in Nat \ {0} /\ PtrRange \in Nat \ {0} /\ PageSize \in Nat \ {0}
        /\ PtrRange = 4 * PageSize
    BY Sizes
  <1>2. c \in Int /\ PageSize = NSlots * c
    <2>1. c \in Int /\ PageSize = NSlots * c + (PageSize % NSlots)
      <3>1. PageSize \in Int
        BY <1>1
      <3> QED BY <1>1, <3>1, DivMod
    <2> QED BY <1>1, <2>1, PointerAssumption DEF PointerAssumption
  <1>3. k \in Int /\ p \in 0 .. PtrRange - 1 /\ m = PtrRange * k + p
    BY <1>1, DivMod DEF PtrOf
  <1>4. j \in Int /\ s \in 0 .. NSlots - 1 /\ p = NSlots * j + s
    <2> HIDE DEF p
    <2>1. p \in Int
      BY <1>3
    <2> QED BY ONLY <1>1, <2>1, DivMod
  <1> HIDE DEF c, k, p, j, s
  <1>5. /\ 4 * c \in Int /\ (4 * c) * k \in Int
        /\ PtrRange * k = NSlots * ((4 * c) * k)
    BY <1>1, <1>2, <1>3
  <1> DEFINE e == (4 * c) * k
  <1> HIDE DEF e
  <1>6. e + j \in Int /\ NSlots * (e + j) = NSlots * e + NSlots * j
    BY <1>1, <1>4, <1>5 DEF e
  <1>7. m = NSlots * (e + j) + s
    BY <1>1, <1>3, <1>4, <1>5, <1>6 DEF e
  <1>8. m % NSlots = s
    BY <1>1, <1>4, <1>6, <1>7, DivModUnique
  <1> QED
    BY <1>8 DEF s, p, Slot

\* Pages of two messages at most a page apart.
LEMMA NearPages ==
  ASSUME NEW v \in Int, NEW w \in Int, w - v \in 0 .. PageSize
  PROVE  PageOf(w) - PageOf(v) \in 0 .. 1
  <1> DEFINE a == PageOf(v)
             b == PageOf(w)
             r == v % PageSize
             t == w % PageSize
  <1>1. a \in Int /\ r \in 0 .. PageSize - 1 /\ v = PageSize * a + r
    BY Split
  <1>2. b \in Int /\ t \in 0 .. PageSize - 1 /\ w = PageSize * b + t
    BY Split
  <1>3. PageSize \in Nat \ {0}
    BY Sizes
  <1> HIDE DEF a, b, r, t
  <1>4. ~ (b < a)
    BY <1>1, <1>2, <1>3, MulLt
  <1>5. ~ (a + 1 < b)
    <2> SUFFICES ASSUME a + 1 < b PROVE FALSE
      OBVIOUS
    <2>1. a + 1 \in Int /\ PageSize * (a + 1) = PageSize * a + PageSize
      BY <1>1, <1>3
    <2>2. PageSize * (a + 1) + PageSize <= PageSize * b
      BY <1>2, <1>3, <2>1, MulLt
    <2> QED BY <1>1, <1>2, <1>3, <2>1, <2>2
  <1> QED
    BY <1>1, <1>2, <1>4, <1>5 DEF a, b

\* InWindow holds of the messages 1 .. n places before the next one, as far
\* as a pointer range back.
LEMMA WindowRight ==
  ASSUME NEW w \in Int, NEW n \in 0 .. MaxMsgs, NEW d \in 1 .. PtrRange - 1
  PROVE  InWindow([n |-> n, p |-> PtrOf(w)], PtrOf(w - d)) <=> d <= n
  <1> DEFINE p == PtrOf(w)
             q == PtrOf(w - d)
  <1>1. /\ MaxMsgs \in Nat /\ PtrRange \in Nat /\ MaxMsgs < PtrRange
        /\ p \in 0 .. PtrRange - 1 /\ q \in 0 .. PtrRange - 1
    <2>1. w - d \in Int
      BY Sizes
    <2> QED BY <2>1, Sizes, Split
  <1>2. p = IF q + d < PtrRange THEN q + d ELSE q + d - PtrRange
    <2>1. w - d \in Int /\ d \in 0 .. PtrRange - 1 /\ (w - d) + d = w
      BY <1>1
    <2> QED BY <2>1, Ahead
  <1> HIDE DEF p, q
  <1>3. InWindow([n |-> n, p |-> p], q) <=> d <= n
    BY <1>1, <1>2 DEF InWindow
  <1> QED
    BY <1>3 DEF p, q

\* InWindow holds of no other pointers than those of the n messages.
LEMMA WindowPointers ==
  ASSUME NEW w \in Int, NEW n \in 0 .. MaxMsgs, NEW ptr \in 0 .. PtrRange - 1,
         InWindow([n |-> n, p |-> PtrOf(w)], ptr)
  PROVE  \E d \in 1 .. n : ptr = PtrOf(w - d)
  <1> DEFINE p == PtrOf(w)
             d == IF ptr < p THEN p - ptr ELSE p - ptr + PtrRange
  <1>1. /\ MaxMsgs \in Nat /\ PtrRange \in Nat /\ MaxMsgs < PtrRange
        /\ p \in 0 .. PtrRange - 1
    BY Sizes, Split
  <1>2. ptr # p
    <2>1. ~ InWindow([n |-> n, p |-> p], p)
      <3> HIDE DEF p
      <3> QED BY <1>1 DEF InWindow
    <2> QED BY <2>1
  <1>3. d \in 1 .. PtrRange - 1
    <2> HIDE DEF p
    <2> QED BY <1>1, <1>2
  <1>4. ptr = PtrOf(w - d)
    <2> DEFINE m == w - d
               e == PtrOf(m)
    <2>1. m \in Int /\ m + d = w
      BY <1>1, <1>3
    <2>2. d \in 0 .. PtrRange - 1
      BY <1>1, <1>3
    <2> HIDE DEF d, m
    <2>3. PtrOf(m + d) = IF PtrOf(m) + d < PtrRange THEN PtrOf(m) + d ELSE PtrOf(m) + d - PtrRange
      BY <2>1, <2>2, Ahead
    <2>4. e \in 0 .. PtrRange - 1
      BY <2>1, Split
    <2>5. p = IF e + d < PtrRange THEN e + d ELSE e + d - PtrRange
      BY <2>1, <2>3
    <2> HIDE DEF e, p
    <2>6. ptr = e
      BY <1>1, <1>2, <2>4, <2>5 DEF d
    <2> QED BY <2>6 DEF e, m
  <1>5. d <= n
    <2> HIDE DEF d
    <2> QED BY <1>3, <1>4, WindowRight
  <1> HIDE DEF d
  <1> QED
    BY <1>3, <1>4, <1>5

(***************************************************************************)
(* LB_Check_pointer is right about message m. The pages are compared first; *)
(* messages within two pages are within the pointer range, where the window *)
(* of available messages decides.                                           *)
(***************************************************************************)
LEMMA CheckRight ==
  ASSUME NEW w \in Nat, NEW n \in 0 .. MaxMsgs, NEW hdpage \in Int,
         hdpage - PageOf(w) \in -2 .. 1, NEW m \in Nat
  PROVE  CheckPointer([n |-> n, p |-> PtrOf(w)], hdpage, PtrOf(m), PageOf(m))
           = IF m >= w THEN "toCome" ELSE IF m >= w - n THEN "ok" ELSE "expired"
  <1> DEFINE num == [n |-> n, p |-> PtrOf(w)]
             q  == PageOf(w)
             r  == w % PageSize
             qm == PageOf(m)
             rm == m % PageSize
             p  == PtrOf(w)
             pm == PtrOf(m)
             verdict == CheckPointer(num, hdpage, pm, qm)
  <1>1. /\ num.p = p /\ num.n = n
        /\ MaxMsgs \in Nat \ {0} /\ PageSize \in Nat \ {0} /\ PtrRange = 4 * PageSize
        /\ MaxMsgs < PageSize
    BY Sizes
  <1>2. CorrectedPage(num.p, hdpage) = q
    BY <1>1, Corrected
  <1>3. /\ q \in Int /\ r \in 0 .. PageSize - 1 /\ w = PageSize * q + r
        /\ p = PageSize * (q % NPages) + r
    <2>1. w \in Int
      OBVIOUS
    <2> QED BY <2>1, Split
  <1>4. /\ qm \in Int /\ rm \in 0 .. PageSize - 1 /\ m = PageSize * qm + rm
        /\ pm = PageSize * (qm % NPages) + rm
    <2>1. m \in Int
      BY <1>1
    <2> QED BY <2>1, Split
  <1> SUFFICES verdict = IF m >= w THEN "toCome" ELSE IF m >= w - n THEN "ok" ELSE "expired"
    OBVIOUS
  <1> HIDE DEF num, q, r, qm, rm, p, pm
  <1>8. qm = q => (pm >= p <=> m >= w)
    <2> SUFFICES ASSUME qm = q PROVE pm >= p <=> m >= w
      OBVIOUS
    <2> DEFINE x == PageSize * (q % NPages)
               y == PageSize * q
    <2>1. x \in Int /\ y \in Int
      BY <1>1, <1>3 DEF NPages
    <2>2. p = x + r /\ pm = x + rm /\ w = y + r /\ m = y + rm
      BY <1>3, <1>4
    <2>3. r \in Int /\ rm \in Int
      BY <1>1, <1>3, <1>4
    <2> HIDE DEF x, y
    <2> QED BY <2>1, <2>2, <2>3
  <1>5. CASE qm > q
    <2>1. PageSize * q + PageSize <= PageSize * qm
      BY <1>1, <1>3, <1>4, <1>5, MulLt
    <2>2. m >= w
      BY <1>1, <1>3, <1>4, <2>1
    <2>3. verdict = "toCome"
      BY <1>2, <1>5 DEF CheckPointer
    <2> QED BY <2>2, <2>3
  <1>6. CASE qm = q /\ m >= w
    <2>1. pm >= p
      BY <1>6, <1>8
    <2>2. verdict = "toCome"
      BY <1>1, <1>2, <1>3, <1>6, <2>1 DEF CheckPointer
    <2> QED BY <1>6, <2>2
  <1>7. CASE qm < q \/ (qm = q /\ m < w)
    <2>1. m < w
      <3>1. CASE qm < q
        <4>1. PageSize * qm + PageSize <= PageSize * q
          BY <1>1, <1>3, <1>4, <3>1, MulLt
        <4> QED BY <1>1, <1>3, <1>4, <4>1
      <3> QED BY <1>7, <3>1
    <2>2. ~ (qm > q \/ (qm >= q /\ pm >= num.p))
      BY <1>1, <1>3, <1>4, <1>7, <1>8, <2>1
    <2>3. CASE q - qm > 2
      <3>1. verdict = "expired"
        BY <1>2, <2>2, <2>3 DEF CheckPointer
      <3>2. PageSize * (qm + 1) + PageSize <= PageSize * q
        <4>1. qm + 1 \in Int /\ q \in Int /\ PageSize \in Nat \ {0} /\ qm + 1 < q
          BY <1>1, <1>3, <1>4, <2>3
        <4> QED BY ONLY <4>1, MulLt
      <3>3. PageSize * (qm + 1) = PageSize * qm + PageSize
        BY <1>1, <1>4
      <3>4. m < w - n
        BY <1>1, <1>3, <1>4, <3>2, <3>3
      <3> QED BY <1>1, <2>1, <3>1, <3>4
    <2>4. CASE q - qm <= 2
      <3> DEFINE d == w - m
      <3>1. PageSize * q <= PageSize * qm + 2 * PageSize
        <4>1. q = qm \/ q = qm + 1 \/ q = qm + 2
          BY <1>3, <1>4, <1>7, <2>4
        <4> QED BY <1>1, <1>4, <4>1
      <3>2. d \in 1 .. PtrRange - 1 /\ m = w - d /\ w \in Int
        BY <1>1, <1>3, <1>4, <2>1, <3>1
      <3>3. InWindow(num, pm) <=> d <= n
        <4>1. InWindow([n |-> n, p |-> PtrOf(w)], PtrOf(w - d)) <=> d <= n
          BY <1>1, <3>2, WindowRight
        <4> QED BY <3>2, <4>1 DEF num, pm
      <3>4. verdict = IF d <= n THEN "ok" ELSE "expired"
        <4>1. ~ (q - qm > 2)
          BY <1>3, <1>4, <2>4
        <4> QED BY <1>1, <1>2, <2>2, <3>3, <4>1 DEF CheckPointer
      <3>5. d <= n <=> m >= w - n
        BY <1>1
      <3> QED BY <1>1, <2>1, <3>4, <3>5
    <2> QED
      BY <1>3, <1>4, <2>3, <2>4
  <1> QED
    BY <1>1, <1>3, <1>4, <1>5, <1>6, <1>7

================================================================================
