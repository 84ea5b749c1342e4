---------------------------- MODULE CMRequestsProofs ----------------------------
(***************************************************************************)
(* Theorems about the requests of a comm manager's link (CMRequests), for   *)
(* rings of every size and any number of requests: the types for any number *)
(* of circuits, the rest for links with one circuit.                        *)
(***************************************************************************)
EXTENDS CMRequests, TLAPS, WellFoundedInduction

(***************************************************************************)
(* Numbers. Every nonempty set of numbers has a least element: induction    *)
(* goes by the least counterexample.                                        *)
(***************************************************************************)
LEMMA Least ==
  ASSUME NEW T \in SUBSET Nat, T # {}
  PROVE  \E x \in T : \A y \in T : x <= y
  <1> DEFINE R == {p \in Nat \X Nat : p[1] < p[2]}
  <1>1. IsWellFoundedOn(R, Nat)
    BY NatLessThanWellFounded DEF OpToRel
  <1>2. \E x \in T : \A y \in T : ~ (<<y, x>> \in R)
    <2> HIDE DEF R
    <2> QED BY <1>1, WFMin
  <1>3. PICK x \in T : \A y \in T : ~ (<<y, x>> \in R)
    BY <1>2
  <1>4. \A y \in T : ~ (y < x)
    BY <1>3
  <1> QED
    BY <1>4

\* What holds of 0 and of the next number whenever of a number holds up to n.
LEMMA UpTo ==
  ASSUME NEW n \in Nat, NEW T, 0 \in T, \A i \in 0 .. n - 1 : i \in T => i + 1 \in T
  PROVE  \A i \in 0 .. n : i \in T
  <1> DEFINE F == {i \in 0 .. n : i \notin T}
  <1> SUFFICES ASSUME F # {} PROVE FALSE
    OBVIOUS
  <1>1. PICK x \in F : \A y \in F : x <= y
    <2>1. F \in SUBSET Nat
      OBVIOUS
    <2> HIDE DEF F
    <2> QED BY <2>1, Least
  <1>2. x \in 1 .. n /\ x \notin T
    OBVIOUS
  <1>3. x - 1 \in T
    <2> SUFFICES ASSUME x - 1 \notin T PROVE FALSE
      OBVIOUS
    <2>1. x - 1 \in F
      BY <1>2
    <2>2. x <= x - 1
      BY <1>1, <2>1
    <2> QED BY <1>2, <2>2
  <1>4. (x - 1) + 1 \in T
    BY <1>2, <1>3
  <1> QED
    BY <1>2, <1>4

\* Euclidean division.
LEMMA DivMod ==
  ASSUME NEW x \in Int, NEW d \in Nat \ {0}
  PROVE  /\ x \div d \in Int
         /\ x % d \in 0 .. d - 1
         /\ x = d * (x \div d) + (x % d)
  OBVIOUS

\* Multiples of d are at least d apart.
LEMMA MulLt ==
  ASSUME NEW a \in Int, NEW b \in Int, NEW d \in Nat \ {0}, a < b
  PROVE  d * a + d <= d * b
  OBVIOUS

\* Quotient and remainder are the only ones.
LEMMA DivModUnique ==
  ASSUME NEW x \in Int, NEW d \in Nat \ {0}, NEW q \in Int, NEW r \in 0 .. d - 1,
         x = d * q + r
  PROVE  x \div d = q /\ x % d = r
  <1>1. x = d * (x \div d) + (x % d) /\ x % d \in 0 .. d - 1 /\ x \div d \in Int
    BY DivMod
  <1>2. ~ (q < x \div d)
    BY <1>1, MulLt
  <1>3. ~ (x \div d < q)
    BY <1>1, MulLt
  <1> QED
    BY <1>1, <1>2, <1>3

\* The remainder of what is below 2 * d.
LEMMA ModSmall ==
  ASSUME NEW d \in Nat \ {0}, NEW x \in 0 .. 2 * d - 1
  PROVE  x % d = IF x < d THEN x ELSE x - d
  <1>1. CASE x < d
    <2>1. x = d * 0 + x /\ x \in 0 .. d - 1 /\ x \in Int /\ 0 \in Int
      BY <1>1
    <2> QED BY <1>1, <2>1, DivModUnique
  <1>2. CASE x >= d
    <2>1. x = d * 1 + (x - d) /\ x - d \in 0 .. d - 1 /\ x \in Int /\ 1 \in Int
      BY <1>2
    <2> QED BY <1>2, <2>1, DivModUnique
  <1> QED
    BY <1>1, <1>2

--------------------------------------------------------------------------------
(* The ring: places and positions. *)

At(l, i) == l.req[Slot(l, i)]

LEMMA Sizes == MaxReqs \in Nat \ {0} /\ NPvc \in Nat \ {0} /\ MaxRequests \in Nat
  BY CMAssumption

LEMMA SlotIs ==
  ASSUME NEW l, l.st_ind \in Slots, NEW i \in 0 .. MaxReqs
  PROVE  /\ Slot(l, i) = IF l.st_ind + i < MaxReqs THEN l.st_ind + i ELSE l.st_ind + i - MaxReqs
         /\ Slot(l, i) \in Slots
  <1> PICK s \in Slots : s = l.st_ind
    OBVIOUS
  <1>1. s + i \in 0 .. 2 * MaxReqs - 1 /\ s \in Int
    BY Sizes DEF Slots
  <1>2. (s + i) % MaxReqs = IF s + i < MaxReqs THEN s + i ELSE s + i - MaxReqs
    <2> PICK y \in 0 .. 2 * MaxReqs - 1 : y = s + i
      BY <1>1
    <2>1. y % MaxReqs = IF y < MaxReqs THEN y ELSE y - MaxReqs
      BY ModSmall, Sizes
    <2> QED BY <1>1, <2>1, Sizes
  <1> QED BY <1>1, <1>2, Sizes DEF Slot, Slots

LEMMA OffsetIs ==
  ASSUME NEW l, l.st_ind \in Slots, NEW x \in Slots
  PROVE  /\ Offset(l, x) = IF x < l.st_ind THEN MaxReqs + x - l.st_ind ELSE x - l.st_ind
         /\ Offset(l, x) \in Slots
  <1> PICK s \in Slots : s = l.st_ind
    OBVIOUS
  <1>1. MaxReqs + x - s \in 0 .. 2 * MaxReqs - 1 /\ s \in Int /\ x \in Int
    BY Sizes DEF Slots
  <1>2. (MaxReqs + x - s) % MaxReqs = IF x < s THEN MaxReqs + x - s ELSE x - s
    <2> PICK y \in 0 .. 2 * MaxReqs - 1 : y = MaxReqs + x - s
      BY <1>1
    <2>1. y % MaxReqs = IF y < MaxReqs THEN y ELSE y - MaxReqs
      BY ModSmall, Sizes
    <2> QED BY <1>1, <2>1, Sizes
  <1> QED BY <1>1, <1>2, Sizes DEF Offset, Slots

\* Slot and Offset are inverse.
LEMMA OffsetSlot ==
  ASSUME NEW l, l.st_ind \in Slots, NEW i \in Slots
  PROVE  Offset(l, Slot(l, i)) = i
  <1>1. i \in 0 .. MaxReqs
    BY Sizes DEF Slots
  <1> PICK s \in Slots : s = l.st_ind
    OBVIOUS
  <1> PICK x \in Slots : x = Slot(l, i)
    BY <1>1, SlotIs
  <1>2. x = IF s + i < MaxReqs THEN s + i ELSE s + i - MaxReqs
    BY <1>1, SlotIs
  <1>3. Offset(l, x) = IF x < s THEN MaxReqs + x - s ELSE x - s
    BY OffsetIs
  <1> QED BY <1>2, <1>3, Sizes DEF Slots

LEMMA SlotOffset ==
  ASSUME NEW l, l.st_ind \in Slots, NEW x \in Slots
  PROVE  Slot(l, Offset(l, x)) = x
  <1> PICK s \in Slots : s = l.st_ind
    OBVIOUS
  <1> PICK i \in Slots : i = Offset(l, x)
    BY OffsetIs
  <1>1. i \in 0 .. MaxReqs
    BY Sizes DEF Slots
  <1>2. Slot(l, i) = IF s + i < MaxReqs THEN s + i ELSE s + i - MaxReqs
    BY <1>1, SlotIs
  <1>3. i = IF x < s THEN MaxReqs + x - s ELSE x - s
    BY OffsetIs
  <1> QED BY <1>2, <1>3, Sizes DEF Slots

\* The place behind position i is that of position i + 1.
LEMMA SlotNext ==
  ASSUME NEW l, l.st_ind \in Slots, NEW i \in 0 .. MaxReqs - 2
  PROVE  (Slot(l, i) + 1) % MaxReqs = Slot(l, i + 1)
  <1> PICK s \in Slots : s = l.st_ind
    OBVIOUS
  <1>1. i \in 0 .. MaxReqs /\ i + 1 \in 0 .. MaxReqs /\ s \in Int /\ i \in Int
    BY Sizes DEF Slots
  <1> PICK x \in Slots : x = Slot(l, i)
    BY <1>1, SlotIs
  <1>2. x = IF s + i < MaxReqs THEN s + i ELSE s + i - MaxReqs
    BY <1>1, SlotIs
  <1>3. Slot(l, i + 1) = IF s + (i + 1) < MaxReqs THEN s + (i + 1) ELSE s + (i + 1) - MaxReqs
    BY <1>1, SlotIs
  <1>4. x + 1 \in 0 .. 2 * MaxReqs - 1 /\ x \in Int
    BY Sizes DEF Slots
  <1>5. (x + 1) % MaxReqs = IF x + 1 < MaxReqs THEN x + 1 ELSE x + 1 - MaxReqs
    <2> PICK y \in 0 .. 2 * MaxReqs - 1 : y = x + 1
      BY <1>4
    <2>1. y % MaxReqs = IF y < MaxReqs THEN y ELSE y - MaxReqs
      BY ModSmall, Sizes
    <2> QED BY <1>4, <2>1, Sizes
  <1> QED BY <1>1, <1>2, <1>3, <1>4, <1>5, Sizes DEF Slots

--------------------------------------------------------------------------------
(* The loops over the ring: what they visit, one place after the other.       *)

LEMMA RemoveLoop ==
  ASSUME NEW l, NEW matching, l.n_reqs \in Nat
  PROVE  \E r : /\ r[0] = l /\ RemoveMatching(l, matching) = r[l.n_reqs]
                /\ \A i \in 0 .. l.n_reqs - 1 :
                     r[i + 1] = RemoveAt(l, matching, r[i], Slot(l, i))
  <1> PICK n \in Nat : n = l.n_reqs
    OBVIOUS
  <1> DEFINE D(r, i) == IF i = 0 THEN l ELSE RemoveAt(l, matching, r[i - 1], Slot(l, i - 1))
             T == {k \in 0 .. n : \E f : f = [i \in 0 .. k |-> D(f, i)]}
             R == CHOOSE f : f = [i \in 0 .. n |-> D(f, i)]
  <1>1. \A k \in 0 .. n : k \in T
    <2>1. 0 \in T
      <3> DEFINE f == [i \in 0 .. 0 |-> l]
      <3>1. f = [i \in 0 .. 0 |-> D(f, i)]
        OBVIOUS
      <3>2. 0 \in 0 .. n
        OBVIOUS
      <3> HIDE DEF f, D
      <3> QED BY <3>1, <3>2
    <2>2. ASSUME NEW k \in 0 .. n - 1, k \in T PROVE k + 1 \in T
      <3>1. PICK f : f = [i \in 0 .. k |-> D(f, i)]
        BY <2>2
      <3> DEFINE e == RemoveAt(l, matching, f[k], Slot(l, k))
                 g == [i \in 0 .. k + 1 |-> IF i <= k THEN f[i] ELSE e]
      <3>2. ASSUME NEW i \in 0 .. k + 1 PROVE g[i] = D(g, i)
        <4>1. CASE i = 0
          BY <3>1, <4>1
        <4>2. CASE i \in 1 .. k
          <5>1. i - 1 \in 0 .. k /\ i \in 0 .. k /\ i # 0
            BY <4>2
          <5>2. g[i] = f[i] /\ g[i - 1] = f[i - 1]
            BY <5>1
          <5>3. f[i] = D(f, i)
            BY <3>1, <5>1
          <5> QED BY <5>1, <5>2, <5>3
        <4>3. CASE i = k + 1
          <5>1. g[k] = f[k] /\ g[k + 1] = e /\ i - 1 = k /\ i # 0
            BY <4>3
          <5> HIDE DEF g, e
          <5> QED BY <4>3, <5>1 DEF e
        <4> QED BY <4>1, <4>2, <4>3
      <3>3. g = [i \in 0 .. k + 1 |-> D(g, i)]
        BY <3>2
      <3>4. k + 1 \in 0 .. n
        OBVIOUS
      <3> HIDE DEF g, D
      <3> QED BY <3>3, <3>4
    <2> HIDE DEF T
    <2> QED BY <2>1, <2>2, UpTo
  <1>2. R = [i \in 0 .. n |-> D(R, i)]
    <2>1. n \in T
      BY <1>1
    <2> HIDE DEF D
    <2> QED BY <2>1
  <1>3. RemoveMatching(l, matching) = R[n]
    BY DEF RemoveMatching
  <1>4. R[0] = l
    <2>1. 0 \in 0 .. n
      OBVIOUS
    <2> HIDE DEF R
    <2> QED BY <1>2, <2>1
  <1>5. ASSUME NEW i \in 0 .. n - 1
        PROVE  R[i + 1] = RemoveAt(l, matching, R[i], Slot(l, i))
    <2>1. i + 1 \in 0 .. n /\ i + 1 # 0 /\ (i + 1) - 1 = i
      OBVIOUS
    <2> HIDE DEF R
    <2> QED BY <1>2, <2>1
  <1> HIDE DEF R
  <1> QED BY <1>3, <1>4, <1>5

LEMMA CleanupLoop ==
  ASSUME NEW l, l.n_reqs \in Nat
  PROVE  \E r : /\ r[0] = l /\ Cleanup(l) = r[l.n_reqs]
                /\ \A i \in 0 .. l.n_reqs - 1 :
                     r[i + 1] = CleanupAt(r[i], Slot(l, i))
  <1> PICK n \in Nat : n = l.n_reqs
    OBVIOUS
  <1> DEFINE D(r, i) == IF i = 0 THEN l ELSE CleanupAt(r[i - 1], Slot(l, i - 1))
             T == {k \in 0 .. n : \E f : f = [i \in 0 .. k |-> D(f, i)]}
             R == CHOOSE f : f = [i \in 0 .. n |-> D(f, i)]
  <1>1. \A k \in 0 .. n : k \in T
    <2>1. 0 \in T
      <3> DEFINE f == [i \in 0 .. 0 |-> l]
      <3>1. f = [i \in 0 .. 0 |-> D(f, i)]
        OBVIOUS
      <3>2. 0 \in 0 .. n
        OBVIOUS
      <3> HIDE DEF f, D
      <3> QED BY <3>1, <3>2
    <2>2. ASSUME NEW k \in 0 .. n - 1, k \in T PROVE k + 1 \in T
      <3>1. PICK f : f = [i \in 0 .. k |-> D(f, i)]
        BY <2>2
      <3> DEFINE e == CleanupAt(f[k], Slot(l, k))
                 g == [i \in 0 .. k + 1 |-> IF i <= k THEN f[i] ELSE e]
      <3>2. ASSUME NEW i \in 0 .. k + 1 PROVE g[i] = D(g, i)
        <4>1. CASE i = 0
          BY <3>1, <4>1
        <4>2. CASE i \in 1 .. k
          <5>1. i - 1 \in 0 .. k /\ i \in 0 .. k /\ i # 0
            BY <4>2
          <5>2. g[i] = f[i] /\ g[i - 1] = f[i - 1]
            BY <5>1
          <5>3. f[i] = D(f, i)
            BY <3>1, <5>1
          <5> QED BY <5>1, <5>2, <5>3
        <4>3. CASE i = k + 1
          <5>1. g[k] = f[k] /\ g[k + 1] = e /\ i - 1 = k /\ i # 0
            BY <4>3
          <5> HIDE DEF g, e
          <5> QED BY <4>3, <5>1 DEF e
        <4> QED BY <4>1, <4>2, <4>3
      <3>3. g = [i \in 0 .. k + 1 |-> D(g, i)]
        BY <3>2
      <3>4. k + 1 \in 0 .. n
        OBVIOUS
      <3> HIDE DEF g, D
      <3> QED BY <3>3, <3>4
    <2> HIDE DEF T
    <2> QED BY <2>1, <2>2, UpTo
  <1>2. R = [i \in 0 .. n |-> D(R, i)]
    <2>1. n \in T
      BY <1>1
    <2> HIDE DEF D
    <2> QED BY <2>1
  <1>3. Cleanup(l) = R[n]
    BY DEF Cleanup
  <1>4. R[0] = l
    <2>1. 0 \in 0 .. n
      OBVIOUS
    <2> HIDE DEF R
    <2> QED BY <1>2, <2>1
  <1>5. ASSUME NEW i \in 0 .. n - 1
        PROVE  R[i + 1] = CleanupAt(R[i], Slot(l, i))
    <2>1. i + 1 \in 0 .. n /\ i + 1 # 0 /\ (i + 1) - 1 = i
      OBVIOUS
    <2> HIDE DEF R
    <2> QED BY <1>2, <2>1
  <1> HIDE DEF R
  <1> QED BY <1>3, <1>4, <1>5

LEMMA PendingLoop ==
  ASSUME NEW l, NEW type, NEW ind, NEW code, Offset(l, ind) \in Nat
  PROVE  \E r : /\ r[0] = l /\ RespondPending(l, type, ind, code) = r[Offset(l, ind)]
                /\ \A i \in 0 .. Offset(l, ind) - 1 :
                     r[i + 1] = RespondIfType(r[i], Slot(l, i), type, code)
  <1> PICK n \in Nat : n = Offset(l, ind)
    OBVIOUS
  <1> DEFINE D(r, i) == IF i = 0 THEN l ELSE RespondIfType(r[i - 1], Slot(l, i - 1), type, code)
             T == {k \in 0 .. n : \E f : f = [i \in 0 .. k |-> D(f, i)]}
             R == CHOOSE f : f = [i \in 0 .. n |-> D(f, i)]
  <1>1. \A k \in 0 .. n : k \in T
    <2>1. 0 \in T
      <3> DEFINE f == [i \in 0 .. 0 |-> l]
      <3>1. f = [i \in 0 .. 0 |-> D(f, i)]
        OBVIOUS
      <3>2. 0 \in 0 .. n
        OBVIOUS
      <3> HIDE DEF f, D
      <3> QED BY <3>1, <3>2
    <2>2. ASSUME NEW k \in 0 .. n - 1, k \in T PROVE k + 1 \in T
      <3>1. PICK f : f = [i \in 0 .. k |-> D(f, i)]
        BY <2>2
      <3> DEFINE e == RespondIfType(f[k], Slot(l, k), type, code)
                 g == [i \in 0 .. k + 1 |-> IF i <= k THEN f[i] ELSE e]
      <3>2. ASSUME NEW i \in 0 .. k + 1 PROVE g[i] = D(g, i)
        <4>1. CASE i = 0
          BY <3>1, <4>1
        <4>2. CASE i \in 1 .. k
          <5>1. i - 1 \in 0 .. k /\ i \in 0 .. k /\ i # 0
            BY <4>2
          <5>2. g[i] = f[i] /\ g[i - 1] = f[i - 1]
            BY <5>1
          <5>3. f[i] = D(f, i)
            BY <3>1, <5>1
          <5> QED BY <5>1, <5>2, <5>3
        <4>3. CASE i = k + 1
          <5>1. g[k] = f[k] /\ g[k + 1] = e /\ i - 1 = k /\ i # 0
            BY <4>3
          <5> HIDE DEF g, e
          <5> QED BY <4>3, <5>1 DEF e
        <4> QED BY <4>1, <4>2, <4>3
      <3>3. g = [i \in 0 .. k + 1 |-> D(g, i)]
        BY <3>2
      <3>4. k + 1 \in 0 .. n
        OBVIOUS
      <3> HIDE DEF g, D
      <3> QED BY <3>3, <3>4
    <2> HIDE DEF T
    <2> QED BY <2>1, <2>2, UpTo
  <1>2. R = [i \in 0 .. n |-> D(R, i)]
    <2>1. n \in T
      BY <1>1
    <2> HIDE DEF D
    <2> QED BY <2>1
  <1>3. RespondPending(l, type, ind, code) = R[n]
    BY DEF RespondPending
  <1>4. R[0] = l
    <2>1. 0 \in 0 .. n
      OBVIOUS
    <2> HIDE DEF R
    <2> QED BY <1>2, <2>1
  <1>5. ASSUME NEW i \in 0 .. n - 1
        PROVE  R[i + 1] = RespondIfType(R[i], Slot(l, i), type, code)
    <2>1. i + 1 \in 0 .. n /\ i + 1 # 0 /\ (i + 1) - 1 = i
      OBVIOUS
    <2> HIDE DEF R
    <2> QED BY <1>2, <2>1
  <1> HIDE DEF R
  <1> QED BY <1>3, <1>4, <1>5

--------------------------------------------------------------------------------
(***************************************************************************)
(* What RemoveMatching does: k times it moves the requests behind a place    *)
(* one place forward. The request now at position p came from c[p] positions *)
(* further behind, or is a copy of the last one.                             *)
(***************************************************************************)
Origin(l, c, p) == IF p + c[p] < l.n_reqs THEN p + c[p] ELSE l.n_reqs - 1

Moved(l, m, c, k) ==
  /\ m = [l EXCEPT !.req = m.req, !.n_reqs = l.n_reqs - k]
  /\ m.req \in [Slots -> Request]
  /\ c \in [0 .. l.n_reqs - 1 -> 0 .. k]
  /\ \A p, q \in 0 .. l.n_reqs - 1 : p < q => c[p] <= c[q]
  /\ \A p \in 0 .. l.n_reqs - 1 : At(m, p) = At(l, Origin(l, c, p))
  /\ \A x \in Slots : Offset(l, x) >= l.n_reqs => m.req[x] = l.req[x]

\* Requests that stay, up to position b: they do not move, and no more are removed than
\* there are behind them (i places were visited).
FrontStays(l, matching, c, k, i) ==
  \A b \in 0 .. l.n_reqs - 1 :
    (\A q \in 0 .. b : At(l, q) \notin matching)
      => /\ \A p \in 0 .. b : c[p] = 0
         /\ k <= IF i <= b + 1 THEN 0 ELSE i - b - 1

\* When the last one stays, all that are not in matching do.
NoneLost(l, matching, c, k) ==
  l.n_reqs > 0 /\ At(l, l.n_reqs - 1) \notin matching
    => \A q \in 0 .. l.n_reqs - 1 :
         At(l, q) \notin matching => \E p \in 0 .. l.n_reqs - 1 - k : p + c[p] = q

\* After i visits: the places from the last one visited on are all as far ahead.
Visited(l, matching, m, c, k, i) ==
  /\ k \in 0 .. i
  /\ \A p \in 0 .. l.n_reqs - 1 : p + 1 >= i => c[p] = k
  /\ Moved(l, m, c, k)
  /\ FrontStays(l, matching, c, k, i)
  /\ NoneLost(l, matching, c, k)

\* The content of the ring after a removal at position i.
LEMMA ShiftedAt ==
  ASSUME NEW l, l \in Links, NEW r, r \in [Slots -> Request], NEW i \in 0 .. l.n_reqs - 1
  PROVE  /\ Shifted(l, r, Slot(l, i)) \in [Slots -> Request]
         /\ \A p \in 0 .. l.n_reqs - 1 :
              Shifted(l, r, Slot(l, i))[Slot(l, p)]
                = IF i <= p /\ p < l.n_reqs - 1 THEN r[Slot(l, p + 1)] ELSE r[Slot(l, p)]
         /\ \A x \in Slots : Offset(l, x) >= l.n_reqs => Shifted(l, r, Slot(l, i))[x] = r[x]
  <1> PICK n \in 0 .. MaxReqs : n = l.n_reqs
    BY DEF Links
  <1>1. l.st_ind \in Slots
    BY DEF Links
  <1>2. \A p \in 0 .. n - 1 : p \in Slots /\ p \in 0 .. MaxReqs
    BY Sizes DEF Slots
  <1>3. \A p \in 0 .. n - 1 : Slot(l, p) \in Slots /\ Offset(l, Slot(l, p)) = p
    BY <1>1, <1>2, SlotIs, OffsetSlot
  <1>4. \A p \in 0 .. n - 2 : (Slot(l, p) + 1) % MaxReqs = Slot(l, p + 1)
    BY <1>1, <1>2, SlotNext, Sizes DEF Slots
  <1>5. \A x \in Slots : Offset(l, x) \in Slots /\ Slot(l, Offset(l, x)) = x
    BY <1>1, OffsetIs, SlotOffset
  <1>6. ASSUME NEW x \in Slots, Offset(l, x) < n - 1 PROVE r[(x + 1) % MaxReqs] \in Request
    <2>1. Offset(l, x) \in 0 .. n - 2 /\ Offset(l, x) + 1 \in 0 .. n - 1
      BY <1>5, <1>6 DEF Slots
    <2>2. (x + 1) % MaxReqs = Slot(l, Offset(l, x) + 1)
      BY <1>4, <1>5, <2>1
    <2> QED BY <1>3, <2>1, <2>2
  <1>7. Shifted(l, r, Slot(l, i)) \in [Slots -> Request]
    BY <1>6 DEF Shifted
  <1>8. ASSUME NEW p \in 0 .. n - 1
        PROVE  Shifted(l, r, Slot(l, i))[Slot(l, p)]
                 = IF i <= p /\ p < n - 1 THEN r[Slot(l, p + 1)] ELSE r[Slot(l, p)]
    <2>1. Shifted(l, r, Slot(l, i))[Slot(l, p)]
            = IF i <= p /\ p < n - 1 THEN r[(Slot(l, p) + 1) % MaxReqs] ELSE r[Slot(l, p)]
      BY <1>3 DEF Shifted
    <2> QED BY <1>4, <2>1
  <1>9. ASSUME NEW x \in Slots, Offset(l, x) >= n PROVE Shifted(l, r, Slot(l, i))[x] = r[x]
    BY <1>5, <1>9 DEF Shifted, Slots
  <1> QED BY <1>7, <1>8, <1>9

\* A visit that finds nothing to remove.
LEMMA VisitStays ==
  ASSUME NEW l, l \in Links, NEW matching, NEW m, NEW c, NEW k, NEW i \in 0 .. l.n_reqs - 1,
         Visited(l, matching, m, c, k, i), m.req[Slot(l, i)] \notin matching
  PROVE  Visited(l, matching, RemoveAt(l, matching, m, Slot(l, i)), c, k, i + 1)
  <1> PICK n \in 0 .. MaxReqs : n = l.n_reqs
    BY DEF Links
  <1>1. RemoveAt(l, matching, m, Slot(l, i)) = m
    BY DEF RemoveAt
  <1>2. k \in 0 .. i /\ \A p \in 0 .. n - 1 : p + 1 >= i => c[p] = k
    BY DEF Visited
  <1>3. FrontStays(l, matching, c, k, i + 1)
    <2>1. ASSUME NEW b \in 0 .. n - 1, \A q \in 0 .. b : At(l, q) \notin matching
          PROVE  /\ \A p \in 0 .. b : c[p] = 0
                 /\ k <= IF i + 1 <= b + 1 THEN 0 ELSE i + 1 - b - 1
      <3>1. /\ \A p \in 0 .. b : c[p] = 0
            /\ k <= IF i <= b + 1 THEN 0 ELSE i - b - 1
        BY <2>1 DEF Visited, FrontStays
      <3> QED BY <1>2, <3>1
    <2> QED BY <2>1 DEF FrontStays
  <1> QED BY <1>1, <1>2, <1>3 DEF Visited

\* A visit that removes a request.
LEMMA VisitRemoves ==
  ASSUME NEW l, l \in Links, NEW matching, NEW m, NEW c, NEW k, NEW i \in 0 .. l.n_reqs - 1,
         Visited(l, matching, m, c, k, i), m.req[Slot(l, i)] \in matching
  PROVE  \E c2 : Visited(l, matching, RemoveAt(l, matching, m, Slot(l, i)), c2, k + 1, i + 1)
  <1> PICK n \in 0 .. MaxReqs : n = l.n_reqs
    BY DEF Links
  <1> PICK kk \in 0 .. i : kk = k
    BY DEF Visited
  <1> DEFINE c2 == [p \in 0 .. n - 1 |-> IF p >= i THEN kk + 1 ELSE c[p]]
             m2 == RemoveAt(l, matching, m, Slot(l, i))
  <1>1. /\ m = [l EXCEPT !.req = m.req, !.n_reqs = n - kk]
        /\ m.req \in [Slots -> Request]
        /\ c \in [0 .. n - 1 -> 0 .. kk]
        /\ \A p, q \in 0 .. n - 1 : p < q => c[p] <= c[q]
        /\ \A p \in 0 .. n - 1 : At(m, p) = At(l, Origin(l, c, p))
        /\ \A x \in Slots : Offset(l, x) >= n => m.req[x] = l.req[x]
    BY DEF Visited, Moved
  <1>2. \A p \in 0 .. n - 1 : p + 1 >= i => c[p] = kk
    BY DEF Visited
  <1>3. m2 = [l EXCEPT !.req = Shifted(l, m.req, Slot(l, i)), !.n_reqs = n - (kk + 1)]
    <2>1. m2 = [m EXCEPT !.req = Shifted(l, m.req, Slot(l, i)), !.n_reqs = m.n_reqs - 1]
      BY DEF RemoveAt
    <2>2. (n - kk) - 1 = n - (kk + 1)
      OBVIOUS
    <2> HIDE DEF m2
    <2>3. m.n_reqs = n - kk
      BY <1>1 DEF Links
    <2> QED BY <1>1, <2>1, <2>2, <2>3 DEF Links
  <1> PICK v : v = Shifted(l, m.req, Slot(l, i))
    OBVIOUS
  <1>4. /\ v \in [Slots -> Request]
        /\ \A p \in 0 .. n - 1 :
             v[Slot(l, p)]
               = IF i <= p /\ p < n - 1 THEN m.req[Slot(l, p + 1)] ELSE m.req[Slot(l, p)]
        /\ \A x \in Slots : Offset(l, x) >= n => v[x] = m.req[x]
    BY <1>1, ShiftedAt
  <1>5. m2.req = v /\ m2.st_ind = l.st_ind /\ m2.n_reqs = n - (kk + 1) /\ m.st_ind = l.st_ind
    <2> HIDE DEF m2
    <2> QED BY <1>1, <1>3 DEF Links
  <1>6. \A p : Slot(m2, p) = Slot(l, p) /\ Slot(m, p) = Slot(l, p)
    BY <1>5 DEF Slot
  <1>7. At(m, i) = At(l, Origin(l, c, i)) /\ At(m, i) \in matching /\ c[i] = kk
    BY <1>1, <1>2, <1>6 DEF At
  <1>8. c2 \in [0 .. n - 1 -> 0 .. kk + 1]
    BY <1>1
  <1>9. \A p, q \in 0 .. n - 1 : p < q => c2[p] <= c2[q]
    BY <1>1
  <1>10. \A p \in 0 .. n - 1 : p + 1 >= i + 1 => c2[p] = kk + 1
    OBVIOUS
  <1>11. ASSUME NEW p \in 0 .. n - 1 PROVE At(m2, p) = At(l, Origin(l, c2, p))
    <2>1. At(m2, p) = IF i <= p /\ p < n - 1 THEN At(m, p + 1) ELSE At(m, p)
      BY <1>4, <1>5, <1>6 DEF At
    <2>2. CASE i <= p /\ p < n - 1
      <3>1. p + 1 \in 0 .. n - 1 /\ c[p + 1] = kk /\ c2[p] = kk + 1
        BY <1>2, <2>2
      <3>2. Origin(l, c, p + 1) = Origin(l, c2, p)
        <4>1. (p + 1) + kk = p + (kk + 1)
          OBVIOUS
        <4> HIDE DEF c2
        <4> QED BY <3>1, <4>1 DEF Origin
      <3> HIDE DEF c2, m2
      <3> QED BY <1>1, <2>1, <2>2, <3>1, <3>2
    <2>3. CASE p < i
      <3>1. c2[p] = c[p]
        BY <2>3
      <3> HIDE DEF c2, m2
      <3> QED BY <1>1, <2>1, <2>3, <3>1 DEF Origin
    <2>4. CASE p >= i /\ p = n - 1
      <3>1. c2[p] = kk + 1 /\ c[p] = kk
        BY <1>2, <2>4
      <3>2. Origin(l, c, p) = n - 1 /\ Origin(l, c2, p) = n - 1
        <4> HIDE DEF c2
        <4> QED BY <2>4, <3>1 DEF Origin
      <3> HIDE DEF c2, m2
      <3> QED BY <1>1, <2>1, <2>4, <3>2
    <2> QED BY <2>2, <2>3, <2>4
  <1>12. ASSUME NEW x \in Slots, Offset(l, x) >= n PROVE m2.req[x] = l.req[x]
    BY <1>1, <1>4, <1>5, <1>12
  <1>13. Moved(l, m2, c2, kk + 1)
    <2> HIDE DEF c2, m2
    <2> QED BY <1>3, <1>4, <1>5, <1>8, <1>9, <1>11, <1>12 DEF Moved
  <1>14. FrontStays(l, matching, c2, kk + 1, i + 1)
    <2>1. ASSUME NEW b \in 0 .. n - 1, \A q \in 0 .. b : At(l, q) \notin matching
          PROVE  /\ \A p \in 0 .. b : c2[p] = 0
                 /\ kk + 1 <= IF i + 1 <= b + 1 THEN 0 ELSE i + 1 - b - 1
      <3>1. /\ \A p \in 0 .. b : c[p] = 0
            /\ kk <= IF i <= b + 1 THEN 0 ELSE i - b - 1
        BY <2>1 DEF Visited, FrontStays
      <3>2. b < i
        <4> SUFFICES ASSUME i <= b PROVE FALSE
          OBVIOUS
        <4>1. kk = 0 /\ c[i] = 0
          BY <1>7, <3>1
        <4>2. Origin(l, c, i) = i
          BY <4>1 DEF Origin
        <4> QED BY <1>7, <2>1, <4>2
      <3> QED BY <3>1, <3>2
    <2> HIDE DEF c2
    <2> QED BY <2>1 DEF FrontStays
  <1>15. NoneLost(l, matching, c2, kk + 1)
    <2>1. ASSUME At(l, n - 1) \notin matching, NEW q \in 0 .. n - 1, At(l, q) \notin matching
          PROVE  \E p \in 0 .. n - 1 - (kk + 1) : p + c2[p] = q
      <3>1. PICK p \in 0 .. n - 1 - kk : p + c[p] = q
        BY <2>1 DEF Visited, NoneLost
      <3>2. i + kk < n - 1 /\ Origin(l, c, i) = i + kk
        <4>1. Origin(l, c, i) # n - 1
          BY <1>7, <2>1
        <4> QED BY <1>7, <4>1 DEF Origin
      <3>3. CASE p < i
        <4>1. c2[p] = c[p] /\ p \in 0 .. n - 1 - (kk + 1)
          BY <3>2, <3>3
        <4> HIDE DEF c2
        <4> QED BY <3>1, <4>1
      <3>4. CASE p = i
        BY <1>7, <2>1, <3>1, <3>2, <3>4
      <3>5. CASE p > i
        <4>1. c[p] = kk /\ p - 1 \in 0 .. n - 1 - (kk + 1) /\ c2[p - 1] = kk + 1
          BY <1>2, <3>5
        <4>2. (p - 1) + (kk + 1) = q
          BY <3>1, <4>1
        <4> HIDE DEF c2
        <4> QED BY <4>1, <4>2
      <3> QED BY <3>3, <3>4, <3>5
    <2> HIDE DEF c2
    <2> QED BY <2>1 DEF NoneLost
  <1>16. k + 1 \in 0 .. i + 1
    OBVIOUS
  <1> HIDE DEF c2, m2
  <1>17. Visited(l, matching, m2, c2, kk + 1, i + 1)
    BY <1>10, <1>13, <1>14, <1>15, <1>16 DEF Visited
  <1> QED BY <1>17 DEF m2

\* What is left when requests are removed.
LEMMA RemoveResult ==
  ASSUME NEW l, l \in Links, NEW matching
  PROVE  \E c, k : Visited(l, matching, RemoveMatching(l, matching), c, k, l.n_reqs)
  <1> PICK n \in 0 .. MaxReqs : n = l.n_reqs
    BY DEF Links
  <1>1. PICK r : /\ r[0] = l /\ RemoveMatching(l, matching) = r[n]
                 /\ \A i \in 0 .. n - 1 : r[i + 1] = RemoveAt(l, matching, r[i], Slot(l, i))
    BY RemoveLoop, Sizes
  <1> DEFINE T == {i \in 0 .. n : \E c, k : Visited(l, matching, r[i], c, k, i)}
  <1>2. 0 \in T
    <2> DEFINE c == [p \in 0 .. n - 1 |-> 0]
    <2>1. \A p \in 0 .. n - 1 : c[p] = 0 /\ p + c[p] = p
      OBVIOUS
    <2>2. c \in [0 .. n - 1 -> 0 .. 0]
      OBVIOUS
    <2> HIDE DEF c
    <2>3. Moved(l, l, c, 0)
      <3>1. l = [l EXCEPT !.req = l.req, !.n_reqs = l.n_reqs - 0]
        <4>1. l.n_reqs - 0 = l.n_reqs
          OBVIOUS
        <4> QED BY <4>1 DEF Links
      <3>2. \A p \in 0 .. n - 1 : Origin(l, c, p) = p
        BY <2>1 DEF Origin
      <3> QED BY <2>1, <2>2, <3>1, <3>2 DEF Moved, Links
    <2>4. FrontStays(l, matching, c, 0, 0)
      BY <2>1 DEF FrontStays
    <2>5. NoneLost(l, matching, c, 0)
      <3>1. ASSUME NEW q \in 0 .. n - 1 PROVE \E p \in 0 .. n - 1 - 0 : p + c[p] = q
        BY <2>1
      <3> QED BY <3>1 DEF NoneLost
    <2>6. Visited(l, matching, r[0], c, 0, 0)
      BY <1>1, <2>1, <2>3, <2>4, <2>5 DEF Visited
    <2> QED BY <2>6
  <1>3. ASSUME NEW i \in 0 .. n - 1, i \in T PROVE i + 1 \in T
    <2>1. PICK c, k : Visited(l, matching, r[i], c, k, i)
      BY <1>3
    <2>2. k + 0 = k /\ i + 1 \in 0 .. n
      BY <2>1 DEF Visited
    <2>3. \E c2, k2 : Visited(l, matching, RemoveAt(l, matching, r[i], Slot(l, i)), c2, k2, i + 1)
      <3>1. CASE r[i].req[Slot(l, i)] \in matching
        BY <2>1, <3>1, VisitRemoves
      <3>2. CASE r[i].req[Slot(l, i)] \notin matching
        BY <2>1, <3>2, VisitStays
      <3> QED BY <3>1, <3>2
    <2> QED BY <1>1, <2>2, <2>3
  <1> HIDE DEF T
  <1>4. n \in T
    BY <1>2, <1>3, UpTo
  <1> QED BY <1>1, <1>4 DEF T

(***************************************************************************)
(* f tells where the requests in the ring of m stood in the ring of l: they *)
(* kept their order.                                                        *)
(***************************************************************************)
Kept(l, m, f) ==
  /\ f \in [0 .. m.n_reqs - 1 -> 0 .. l.n_reqs - 1]
  /\ \A p, q \in 0 .. m.n_reqs - 1 : p < q => f[p] < f[q]
  /\ \A p \in 0 .. m.n_reqs - 1 : At(m, p) = At(l, f[p])

\* m is l with other requests in its ring.
SameButRing(l, m) ==
  /\ m = [l EXCEPT !.st_ind = m.st_ind, !.req = m.req, !.n_reqs = m.n_reqs]
  /\ m \in Links
  /\ \A x \in Slots : m.req[x] = l.req[x] \/ \E i \in 0 .. l.n_reqs - 1 : m.req[x] = At(l, i)

LEMMA Removal ==
  ASSUME NEW l, l \in Links, NEW matching, NEW m, m = RemoveMatching(l, matching)
  PROVE  \E f :
           /\ SameButRing(l, m) /\ m.st_ind = l.st_ind
           /\ Kept(l, m, f)
           /\ \A b \in 0 .. l.n_reqs - 1 :
                (\A q \in 0 .. b : At(l, q) \notin matching)
                  => b < m.n_reqs /\ \A p \in 0 .. b : f[p] = p
           /\ l.n_reqs > 0 /\ At(l, l.n_reqs - 1) \notin matching
                => \A q \in 0 .. l.n_reqs - 1 :
                     At(l, q) \notin matching => \E p \in 0 .. m.n_reqs - 1 : f[p] = q
  <1> PICK n \in 0 .. MaxReqs : n = l.n_reqs
    BY DEF Links
  <1>1. PICK c, k : Visited(l, matching, m, c, k, n)
    BY RemoveResult
  <1> PICK kk \in 0 .. n : kk = k
    BY <1>1 DEF Visited
  <1>2. /\ m = [l EXCEPT !.req = m.req, !.n_reqs = n - kk]
        /\ m.req \in [Slots -> Request]
        /\ c \in [0 .. n - 1 -> 0 .. kk]
        /\ \A p, q \in 0 .. n - 1 : p < q => c[p] <= c[q]
        /\ \A p \in 0 .. n - 1 : At(m, p) = At(l, Origin(l, c, p))
        /\ \A x \in Slots : Offset(l, x) >= n => m.req[x] = l.req[x]
    BY <1>1 DEF Visited, Moved
  <1>3. m.n_reqs = n - kk /\ m.st_ind = l.st_ind /\ n - kk \in 0 .. MaxReqs
    <2>1. m.n_reqs = n - kk /\ m.st_ind = l.st_ind
      BY <1>2 DEF Links
    <2>2. n - kk \in 0 .. MaxReqs
      BY Sizes
    <2> QED BY <2>1, <2>2
  <1> DEFINE f == [p \in 0 .. n - kk - 1 |-> p + c[p]]
  <1>4. \A p \in 0 .. n - kk - 1 : p + c[p] \in 0 .. n - 1 /\ Origin(l, c, p) = p + c[p]
    BY <1>2 DEF Origin
  <1>5. Kept(l, m, f)
    <2>1. f \in [0 .. n - kk - 1 -> 0 .. n - 1]
      BY <1>4
    <2>2. \A p, q \in 0 .. n - kk - 1 : p < q => f[p] < f[q]
      BY <1>2
    <2>3. \A p \in 0 .. n - kk - 1 : At(m, p) = At(l, f[p])
      <3>1. \A p \in 0 .. n - kk - 1 : p \in 0 .. n - 1 /\ f[p] = p + c[p]
        OBVIOUS
      <3> HIDE DEF f
      <3> QED BY <1>2, <1>4, <3>1
    <2> HIDE DEF f
    <2> QED BY <1>3, <2>1, <2>2, <2>3 DEF Kept
  <1>6. m \in Links
    BY <1>2, <1>3 DEF Links
  <1>7. ASSUME NEW x \in Slots, m.req[x] # l.req[x]
        PROVE  \E i \in 0 .. n - 1 : m.req[x] = At(l, i)
    <2> PICK p \in Slots : p = Offset(l, x)
      BY OffsetIs DEF Links
    <2>1. p < n /\ p \in 0 .. n - 1
      BY <1>2, <1>7 DEF Slots
    <2>2. Slot(m, p) = x
      <3>1. Slot(l, p) = x
        BY SlotOffset DEF Links
      <3> QED BY <1>3, <3>1 DEF Slot
    <2>3. Origin(l, c, p) \in 0 .. n - 1
      BY <1>2, <2>1 DEF Origin
    <2> QED BY <1>2, <2>1, <2>2, <2>3 DEF At
  <1>8. SameButRing(l, m)
    <2>1. m = [l EXCEPT !.st_ind = m.st_ind, !.req = m.req, !.n_reqs = m.n_reqs]
      BY <1>2, <1>3 DEF Links
    <2> QED BY <1>6, <1>7, <2>1 DEF SameButRing
  <1>9. ASSUME NEW b \in 0 .. n - 1, \A q \in 0 .. b : At(l, q) \notin matching
        PROVE  b < n - kk /\ \A p \in 0 .. b : f[p] = p
    <2>1. /\ \A p \in 0 .. b : c[p] = 0
          /\ kk <= IF n <= b + 1 THEN 0 ELSE n - b - 1
      BY <1>1, <1>9 DEF Visited, FrontStays
    <2> QED BY <2>1
  <1>10. ASSUME n > 0, At(l, n - 1) \notin matching, NEW q \in 0 .. n - 1, At(l, q) \notin matching
         PROVE  \E p \in 0 .. n - kk - 1 : f[p] = q
    <2>1. PICK p \in 0 .. n - 1 - kk : p + c[p] = q
      BY <1>1, <1>10 DEF Visited, NoneLost
    <2>2. p \in 0 .. n - kk - 1
      OBVIOUS
    <2> QED BY <2>1, <2>2
  <1> HIDE DEF f
  <1> QED BY <1>3, <1>5, <1>8, <1>9, <1>10

\* The finished requests at the front go by moving st_ind.
LEMMA FrontGoes ==
  ASSUME NEW l, l \in Links, NEW k \in 0 .. l.n_reqs, NEW g,
         g = [l EXCEPT !.st_ind = (@ + k) % MaxReqs, !.n_reqs = @ - k]
  PROVE  /\ g \in Links /\ g.n_reqs = l.n_reqs - k /\ g.req = l.req
         /\ \A i \in 0 .. l.n_reqs - k : Slot(g, i) = Slot(l, i + k)
  <1> PICK n \in 0 .. MaxReqs : n = l.n_reqs
    BY DEF Links
  <1> PICK s \in Slots : s = l.st_ind
    BY DEF Links
  <1> PICK s2 \in Slots : s2 = Slot(l, k)
    BY SlotIs, Sizes
  <1>1. g = [l EXCEPT !.st_ind = s2, !.n_reqs = n - k]
    BY DEF Slot
  <1>2. n - k \in 0 .. MaxReqs
    BY Sizes
  <1>3. g.st_ind = s2 /\ g.n_reqs = n - k /\ g.req = l.req /\ g \in Links
    BY <1>1, <1>2 DEF Links
  <1>4. ASSUME NEW i \in 0 .. n - k PROVE Slot(g, i) = Slot(l, i + k)
    <2>1. i \in 0 .. MaxReqs /\ i + k \in 0 .. MaxReqs /\ k \in 0 .. MaxReqs
      BY Sizes
    <2>2. s2 = IF s + k < MaxReqs THEN s + k ELSE s + k - MaxReqs
      BY <2>1, SlotIs
    <2>3. Slot(g, i) = IF s2 + i < MaxReqs THEN s2 + i ELSE s2 + i - MaxReqs
      BY <1>3, <2>1, SlotIs
    <2>4. Slot(l, i + k) = IF s + (i + k) < MaxReqs THEN s + (i + k) ELSE s + (i + k) - MaxReqs
      BY <2>1, SlotIs
    <2>5. s \in 0 .. MaxReqs - 1 /\ s2 \in 0 .. MaxReqs - 1
      BY DEF Slots
    <2> HIDE DEF Slots
    <2> QED BY <2>1, <2>2, <2>3, <2>4, <2>5, Sizes
  <1> QED BY <1>3, <1>4

(***************************************************************************)
(* Rm_done_requests: what is left kept its order, the first unfinished      *)
(* request keeps its place too, and one that is lost stood between two that *)
(* are finished.                                                            *)
(***************************************************************************)
LEMMA RmDoneResult ==
  ASSUME NEW l, l \in Links, NEW m, m = RmDoneRequests(l)
  PROVE  \E f :
           /\ SameButRing(l, m)
           /\ Kept(l, m, f)
           /\ \A q \in 0 .. l.n_reqs - 1 :
                At(l, q).state # "done" /\ (\A i \in 0 .. q - 1 : At(l, i).state = "done")
                  => 0 < m.n_reqs /\ f[0] = q /\ Slot(m, 0) = Slot(l, q)
           /\ \A q \in 0 .. l.n_reqs - 1 :
                At(l, q).state # "done" =>
                  \/ \E p \in 0 .. m.n_reqs - 1 : f[p] = q
                  \/ \E i, j \in 0 .. l.n_reqs - 1 :
                       i < q /\ q < j /\ At(l, i).state = "done" /\ At(l, j).state = "done"
  <1> PICK n \in 0 .. MaxReqs : n = l.n_reqs
    BY DEF Links
  <1> DEFINE live == {i \in 0 .. n - 1 : l.req[Slot(l, i)].state # "done"}
             cnt == IF live = {} THEN n ELSE CHOOSE i \in live : \A j \in live : i <= j
             front == [l EXCEPT !.st_ind = (@ + cnt) % MaxReqs, !.n_reqs = @ - cnt]
  <1>1. m = RemoveMatching(front, Finished(front))
    BY DEF RmDoneRequests
  <1>2. /\ cnt \in 0 .. n
        /\ \A q \in 0 .. cnt - 1 : At(l, q).state = "done"
        /\ cnt < n => At(l, cnt).state # "done"
    <2>1. CASE live = {}
      BY <2>1 DEF At
    <2>2. CASE live # {}
      <3>1. \E i \in live : \A j \in live : i <= j
        <4>1. live \in SUBSET Nat
          OBVIOUS
        <4> HIDE DEF live
        <4> QED BY <2>2, <4>1, Least
      <3>2. cnt \in live /\ \A j \in live : cnt <= j
        <4> HIDE DEF live
        <4> QED BY <2>2, <3>1
      <3> HIDE DEF cnt
      <3> QED BY <3>2 DEF At
    <2> QED BY <2>1, <2>2
  <1> HIDE DEF live
  <1> PICK k \in 0 .. n : k = cnt
    BY <1>2
  <1> HIDE DEF front
  <1> PICK g : g = front
    OBVIOUS
  <1>3. g = [l EXCEPT !.st_ind = (@ + k) % MaxReqs, !.n_reqs = @ - k]
    <2> HIDE DEF cnt
    <2> QED BY DEF front
  <1>4. m = RemoveMatching(g, Finished(g))
    BY <1>1
  <1>5. /\ \A q \in 0 .. k - 1 : At(l, q).state = "done"
        /\ k < n => At(l, k).state # "done"
    BY <1>2
  <1> HIDE DEF cnt
  <1>6. /\ g \in Links /\ g.n_reqs = n - k /\ g.req = l.req
        /\ \A i \in 0 .. n - k : Slot(g, i) = Slot(l, i + k)
    <2>1. k \in 0 .. l.n_reqs
      OBVIOUS
    <2>2. /\ g \in Links /\ g.n_reqs = l.n_reqs - k /\ g.req = l.req
          /\ \A i \in 0 .. l.n_reqs - k : Slot(g, i) = Slot(l, i + k)
      BY ONLY <1>3, <2>1, l \in Links, FrontGoes
    <2> QED BY <2>2
  <1>7. \A i \in 0 .. n - k - 1 : At(g, i) = At(l, i + k)
    BY <1>6 DEF At
  <1>8. \A r \in Finished(g) : r.state = "done"
    BY DEF Finished, Unfinished
  <1>9. PICK e :
           /\ SameButRing(g, m) /\ m.st_ind = g.st_ind
           /\ Kept(g, m, e)
           /\ \A b \in 0 .. g.n_reqs - 1 :
                (\A q \in 0 .. b : At(g, q) \notin Finished(g))
                  => b < m.n_reqs /\ \A p \in 0 .. b : e[p] = p
           /\ g.n_reqs > 0 /\ At(g, g.n_reqs - 1) \notin Finished(g)
                => \A q \in 0 .. g.n_reqs - 1 :
                     At(g, q) \notin Finished(g) => \E p \in 0 .. m.n_reqs - 1 : e[p] = q
    BY <1>4, <1>6, Removal
  <1> PICK w \in 0 .. MaxReqs : w = m.n_reqs
    BY <1>9 DEF SameButRing, Links
  <1> DEFINE f == [p \in 0 .. w - 1 |-> e[p] + k]
  <1>10. /\ e \in [0 .. w - 1 -> 0 .. n - k - 1]
         /\ \A p, q \in 0 .. w - 1 : p < q => e[p] < e[q]
         /\ \A p \in 0 .. w - 1 : At(m, p) = At(g, e[p])
    BY <1>6, <1>9 DEF Kept
  <1>11. Kept(l, m, f)
    <2>1. f \in [0 .. w - 1 -> 0 .. n - 1]
      BY <1>10
    <2>2. \A p, q \in 0 .. w - 1 : p < q => f[p] < f[q]
      BY <1>10
    <2>3. \A p \in 0 .. w - 1 : At(m, p) = At(l, f[p])
      BY <1>7, <1>10
    <2> HIDE DEF f
    <2> QED BY <2>1, <2>2, <2>3 DEF Kept
  <1>12. SameButRing(l, m)
    <2>1. /\ m = [g EXCEPT !.st_ind = m.st_ind, !.req = m.req, !.n_reqs = m.n_reqs]
          /\ m \in Links
          /\ \A x \in Slots : m.req[x] = g.req[x] \/ \E i \in 0 .. n - k - 1 : m.req[x] = At(g, i)
      BY <1>6, <1>9 DEF SameButRing
    <2>2. m = [l EXCEPT !.st_ind = m.st_ind, !.req = m.req, !.n_reqs = m.n_reqs]
      BY <1>3, <2>1 DEF Links
    <2>3. \A x \in Slots : m.req[x] = l.req[x] \/ \E i \in 0 .. n - 1 : m.req[x] = At(l, i)
      <3>1. \A i \in 0 .. n - k - 1 : i + k \in 0 .. n - 1
        OBVIOUS
      <3> QED BY <1>6, <1>7, <2>1, <3>1
    <2> QED BY <2>1, <2>2, <2>3 DEF SameButRing
  <1>13. ASSUME NEW q \in 0 .. n - 1, At(l, q).state # "done",
                \A i \in 0 .. q - 1 : At(l, i).state = "done"
         PROVE  0 < w /\ f[0] = q /\ Slot(m, 0) = Slot(l, q)
    <2>1. q = k
      BY <1>5, <1>13
    <2>2. At(g, 0) \notin Finished(g) /\ 0 \in 0 .. n - k - 1
      BY <1>7, <1>8, <1>13, <2>1
    <2>3. 0 < w /\ e[0] = 0
      BY <1>6, <1>9, <2>2
    <2>4. f[0] = k
      BY <2>3
    <2>5. Slot(m, 0) = Slot(g, 0)
      BY <1>9 DEF Slot
    <2>6. Slot(g, 0) = Slot(l, 0 + k) /\ 0 + k = q
      BY <1>6, <2>1
    <2> QED BY <2>1, <2>3, <2>4, <2>5, <2>6
  <1>14. ASSUME NEW q \in 0 .. n - 1, At(l, q).state # "done",
                ~ \E i, j \in 0 .. n - 1 :
                    i < q /\ q < j /\ At(l, i).state = "done" /\ At(l, j).state = "done"
         PROVE  \E p \in 0 .. w - 1 : f[p] = q
    <2> PICK z \in 0 .. n - k - 1 : z + k = q
      <3>1. q - k \in 0 .. n - k - 1 /\ (q - k) + k = q
        BY <1>5, <1>14
      <3> QED BY <3>1
    <2>1. At(g, z) \notin Finished(g)
      BY <1>7, <1>8, <1>14
    <2>2. SUFFICES \E p \in 0 .. w - 1 : e[p] = z
      OBVIOUS
    <2>3. CASE \A b \in 0 .. z : At(g, b) \notin Finished(g)
      <3>1. z < w /\ e[z] = z
        BY <1>6, <1>9, <2>3
      <3> QED BY <3>1
    <2>4. CASE \E b \in 0 .. z : At(g, b) \in Finished(g)
      <3>1. PICK b \in 0 .. z : At(g, b) \in Finished(g)
        BY <2>4
      <3>2. b < z /\ b + k \in 0 .. n - 1 /\ b + k < q /\ At(l, b + k).state = "done"
        BY <1>7, <1>8, <2>1, <3>1
      <3>3. At(g, n - k - 1) \notin Finished(g)
        <4> SUFFICES ASSUME At(g, n - k - 1) \in Finished(g) PROVE FALSE
          OBVIOUS
        <4>1. z < n - k - 1 /\ n - k - 1 \in 0 .. n - k - 1 /\ (n - k - 1) + k = n - 1
          BY <2>1
        <4>2. q < n - 1 /\ n - 1 \in 0 .. n - 1 /\ At(l, n - 1).state = "done"
          BY <1>7, <1>8, <4>1
        <4> QED BY <1>14, <3>2, <4>2
      <3> QED BY <1>6, <1>9, <2>1, <3>3
    <2> QED BY <2>3, <2>4
  <1> HIDE DEF f
  <1> QED BY <1>11, <1>12, <1>13, <1>14

--------------------------------------------------------------------------------
(* Responses, one at a time.                                                  *)

\* What a response does not touch.
SameElse(l, m) ==
  /\ m.st_ind = l.st_ind /\ m.n_reqs = l.n_reqs /\ m.link_state = l.link_state
  /\ m.sockets = l.sockets /\ m.conn_req_ind = l.conn_req_ind /\ m.w_req_ind = l.w_req_ind
  /\ m.w_cnt = l.w_cnt /\ m.gone = l.gone /\ m.conveyed = l.conveyed
  /\ m.forgotten = l.forgotten

\* What it does, whoever gets it.
Told(l, m, r, code) ==
  /\ m.w_buf = IF r.type # "WRITE" THEN l.w_buf
               ELSE [p \in Pvcs |-> IF l.w_buf[p] = r.num THEN None ELSE l.w_buf[p]]
  /\ m.conn_activity = IF r.type \in {"CONNECT", "DISCONNECT"} /\ code # "IN_PROCESSING"
                       THEN "NO_ACTIVITY" ELSE l.conn_activity
  /\ m.out = Append(l.out, [num |-> r.num, type |-> r.type, code |-> code])
  /\ m.heard = Heard(l, r, code)

LEMMA RespondFields ==
  ASSUME NEW l, l \in Links, NEW r, r \in Request, r.num \in Nums, NEW code \in Codes,
         NEW m, m = Respond(l, r, code)
  PROVE  m \in Links /\ m.req = l.req /\ SameElse(l, m) /\ Told(l, m, r, code)
  <1> DEFINE buf == IF r.type # "WRITE" THEN l.w_buf
                    ELSE [p \in Pvcs |-> IF l.w_buf[p] = r.num THEN None ELSE l.w_buf[p]]
             act == IF r.type \in {"CONNECT", "DISCONNECT"} /\ code # "IN_PROCESSING"
                    THEN "NO_ACTIVITY" ELSE l.conn_activity
             o == Append(l.out, [num |-> r.num, type |-> r.type, code |-> code])
             h == Heard(l, r, code)
  <1>1. m = [l EXCEPT !.w_buf = buf, !.conn_activity = act, !.out = o, !.heard = h]
    BY DEF Respond
  <1>2. buf \in [Pvcs -> Nums \cup {None}]
    BY DEF Links
  <1>3. act \in {"NO_ACTIVITY", "CONNECTING", "DISCONNECTING"}
    BY DEF Links
  <1>4. o \in Seq(Responses)
    <2>1. [num |-> r.num, type |-> r.type, code |-> code] \in Responses
      BY DEF Responses, Request
    <2>2. l.out \in Seq(Responses)
      BY DEF Links
    <2> QED BY <2>1, <2>2
  <1>5. h \in BOOLEAN
    BY DEF Heard, Links
  <1>6. Told(l, m, r, code) <=>
          m.w_buf = buf /\ m.conn_activity = act /\ m.out = o /\ m.heard = h
    BY DEF Told
  <1> HIDE DEF buf, act, o, h
  <1>7. m \in Links
    BY <1>1, <1>2, <1>3, <1>4, <1>5 DEF Links
  <1>8. m.w_buf = buf /\ m.conn_activity = act /\ m.out = o /\ m.heard = h /\ m.req = l.req
    BY <1>1 DEF Links
  <1>9. SameElse(l, m)
    BY <1>1 DEF Links, SameElse
  <1> QED BY <1>6, <1>7, <1>8, <1>9

LEMMA RespondAtFields ==
  ASSUME NEW l, l \in Links, NEW x \in Slots, l.req[x].num \in Nums, NEW code \in Codes,
         NEW m, m = RespondAt(l, x, code)
  PROVE  /\ m \in Links /\ SameElse(l, m) /\ Told(l, m, l.req[x], code)
         /\ \A y \in Slots \ {x} : m.req[y] = l.req[y]
         /\ m.req[x] = [l.req[x] EXCEPT !.state = "done"]
  <1> PICK d : d = Respond(l, l.req[x], code)
    OBVIOUS
  <1>1. l.req[x] \in Request
    BY DEF Links
  <1>2. d \in Links /\ d.req = l.req /\ SameElse(l, d) /\ Told(l, d, l.req[x], code)
    BY <1>1, RespondFields
  <1>3. m = [d EXCEPT !.req[x].state = "done"]
    BY DEF RespondAt
  <1>4. [d.req[x] EXCEPT !.state = "done"] \in Request
    BY <1>1, <1>2 DEF Request
  <1> PICK v : v = [d.req EXCEPT ![x] = [d.req[x] EXCEPT !.state = "done"]]
    OBVIOUS
  <1>5. m = [d EXCEPT !.req = v]
    BY <1>3 DEF Links
  <1>6. m \in Links /\ m.req = v
    <2>1. v \in [Slots -> Request]
      BY <1>2, <1>4 DEF Links
    <2> QED BY <1>2, <1>5, <2>1 DEF Links
  <1>7. SameElse(d, m) /\ m.w_buf = d.w_buf /\ m.conn_activity = d.conn_activity
          /\ m.out = d.out /\ m.heard = d.heard
    BY <1>2, <1>5 DEF Links, SameElse
  <1>8. SameElse(l, m) /\ Told(l, m, l.req[x], code)
    BY <1>2, <1>7 DEF SameElse, Told
  <1>9. /\ \A y \in Slots \ {x} : m.req[y] = l.req[y]
        /\ m.req[x] = [l.req[x] EXCEPT !.state = "done"]
    BY <1>2, <1>6 DEF Links
  <1> QED BY <1>6, <1>8, <1>9

\* Who was answered, with one response more.
LEMMA AnsweredMore ==
  ASSUME NEW l, l \in Links, NEW m, NEW e, m.out = Append(l.out, e)
  PROVE  /\ Answered(m) = Answered(l) \cup {e.num}
         /\ \A i \in DOMAIN m.out :
              \/ i \in DOMAIN l.out /\ m.out[i] = l.out[i]
              \/ i = Len(l.out) + 1 /\ m.out[i] = e
         /\ Len(l.out) + 1 \in DOMAIN m.out /\ m.out[Len(l.out) + 1] = e
         /\ \A i \in DOMAIN l.out : i \in DOMAIN m.out /\ m.out[i] = l.out[i]
         /\ Len(l.out) + 1 \notin DOMAIN l.out
  <1> PICK o \in Seq(Responses) : o = l.out
    BY DEF Links
  <1>1. /\ DOMAIN o = 1 .. Len(o) /\ Len(o) \in Nat
        /\ DOMAIN Append(o, e) = 1 .. Len(o) + 1
        /\ \A i \in 1 .. Len(o) : Append(o, e)[i] = o[i]
        /\ Append(o, e)[Len(o) + 1] = e
    OBVIOUS
  <1>2. \A i \in DOMAIN m.out :
              \/ i \in DOMAIN l.out /\ m.out[i] = l.out[i]
              \/ i = Len(l.out) + 1 /\ m.out[i] = e
    BY <1>1
  <1>3. Len(o) + 1 \in DOMAIN m.out /\ m.out[Len(o) + 1] = e /\ Len(o) + 1 \notin DOMAIN o
    BY <1>1
  <1>4. \A i \in DOMAIN o : i \in DOMAIN m.out /\ m.out[i] = o[i]
    BY <1>1
  <1>5. Answered(m) = Answered(l) \cup {e.num}
    BY <1>2, <1>3, <1>4 DEF Answered
  <1> QED BY <1>2, <1>3, <1>4, <1>5

--------------------------------------------------------------------------------
(***************************************************************************)
(* What is known of every link, with requests numbered up to s: the ring    *)
(* and the indices in use are at requests that were sent.                   *)
(***************************************************************************)
Known(l, s) ==
  /\ l \in Links
  /\ \A x \in Slots : l.req[x].num # None =>
       /\ l.req[x].num \in 1 .. s
       /\ l.req[x].type = "WRITE" => l.req[x].parm \in Pvcs
  /\ \A i \in 0 .. l.n_reqs - 1 : At(l, i).num # None
  /\ \A p \in Pvcs : l.w_buf[p] # None => l.req[l.w_req_ind[p]].num # None
  /\ l.conn_activity # "NO_ACTIVITY" => l.req[l.conn_req_ind].num # None

\* The requests in the ring stand in the order in which they were sent.
Ordered(l) ==
  \A i, j \in 0 .. l.n_reqs - 1 : i < j => At(l, i).num < At(l, j).num

\* From l to m, all that happened to requests is that some of them came to their end.
Marks(l, m) ==
  /\ m \in Links
  /\ m.st_ind = l.st_ind /\ m.n_reqs = l.n_reqs /\ m.w_req_ind = l.w_req_ind
  /\ m.conn_req_ind = l.conn_req_ind /\ m.forgotten = l.forgotten
  /\ \A p \in Pvcs : m.w_buf[p] = l.w_buf[p] \/ m.w_buf[p] = None
  /\ m.conn_activity = l.conn_activity \/ m.conn_activity = "NO_ACTIVITY"
  /\ \A x \in Slots :
       \/ m.req[x] = l.req[x]
       \/ /\ m.req[x] = [l.req[x] EXCEPT !.state = "done"]
          /\ l.req[x].num \in Answered(m) \cup m.gone
  /\ Answered(l) \subseteq Answered(m) /\ l.gone \subseteq m.gone

LEMMA RingPlaces ==
  ASSUME NEW l, l \in Links
  PROVE  /\ \A i \in 0 .. l.n_reqs - 1 :
              /\ Slot(l, i) \in Slots /\ Slot(l, i) \in InRing(l) /\ Offset(l, Slot(l, i)) = i
              /\ At(l, i) = l.req[Slot(l, i)]
         /\ \A x \in InRing(l) :
              x \in Slots /\ \E i \in 0 .. l.n_reqs - 1 : x = Slot(l, i) /\ l.req[x] = At(l, i)
  <1>1. l.st_ind \in Slots /\ l.n_reqs \in 0 .. MaxReqs
    BY DEF Links
  <1>2. \A i \in 0 .. l.n_reqs - 1 : i \in Slots /\ i \in 0 .. MaxReqs
    BY <1>1, Sizes DEF Slots
  <1>3. \A i \in 0 .. l.n_reqs - 1 : Slot(l, i) \in Slots /\ Offset(l, Slot(l, i)) = i
    BY <1>1, <1>2, SlotIs, OffsetSlot
  <1> QED BY <1>3 DEF InRing, At

LEMMA KnownRing ==
  ASSUME NEW l, NEW s, Known(l, s), NEW x \in InRing(l)
  PROVE  x \in Slots /\ l.req[x] \in Request /\ l.req[x].num # None /\ l.req[x].num \in 1 .. s
  BY RingPlaces DEF Known, Links

LEMMA SameRing ==
  ASSUME NEW l, NEW m, m.st_ind = l.st_ind, m.n_reqs = l.n_reqs
  PROVE  InRing(m) = InRing(l) /\ \A x : Slot(m, x) = Slot(l, x) /\ Offset(m, x) = Offset(l, x)
  BY DEF InRing, Slot, Offset

\* A number stands for one request in the ring.
LEMMA Distinct ==
  ASSUME NEW l, l \in Links, Ordered(l), NEW x \in InRing(l), NEW y \in InRing(l),
         l.req[x].num = l.req[y].num
  PROVE  x = y
  <1>1. PICK i \in 0 .. l.n_reqs - 1 : x = Slot(l, i) /\ l.req[x] = At(l, i)
    BY RingPlaces
  <1>2. PICK j \in 0 .. l.n_reqs - 1 : y = Slot(l, j) /\ l.req[y] = At(l, j)
    BY RingPlaces
  <1>3. At(l, i).num \in Nat /\ At(l, j).num \in Nat
    BY <1>1, <1>2, RingPlaces DEF Links, Request
  <1>4. ~ (i < j) /\ ~ (j < i)
    BY <1>1, <1>2, <1>3 DEF Ordered
  <1> QED BY <1>1, <1>2, <1>4

LEMMA MarksSelf ==
  ASSUME NEW l, l \in Links PROVE Marks(l, l)
  BY DEF Marks

LEMMA MarksTrans ==
  ASSUME NEW l, l \in Links, NEW m, NEW k, Marks(l, m), Marks(m, k)
  PROVE  Marks(l, k)
  <1>1. ASSUME NEW x \in Slots
        PROVE  \/ k.req[x] = l.req[x]
               \/ /\ k.req[x] = [l.req[x] EXCEPT !.state = "done"]
                  /\ l.req[x].num \in Answered(k) \cup k.gone
    <2>1. l.req[x] \in Request
      BY DEF Links
    <2>2. [[l.req[x] EXCEPT !.state = "done"] EXCEPT !.state = "done"]
            = [l.req[x] EXCEPT !.state = "done"]
          /\ [l.req[x] EXCEPT !.state = "done"].num = l.req[x].num
      BY <2>1 DEF Request
    <2>3. \/ m.req[x] = l.req[x]
          \/ /\ m.req[x] = [l.req[x] EXCEPT !.state = "done"]
             /\ l.req[x].num \in Answered(m) \cup m.gone
      BY DEF Marks
    <2>4. \/ k.req[x] = m.req[x]
          \/ /\ k.req[x] = [m.req[x] EXCEPT !.state = "done"]
             /\ m.req[x].num \in Answered(k) \cup k.gone
      BY DEF Marks
    <2>5. Answered(m) \subseteq Answered(k) /\ m.gone \subseteq k.gone
      BY DEF Marks
    <2> QED BY <2>2, <2>3, <2>4, <2>5
  <1> QED BY <1>1 DEF Marks

\* A request is known by its fields whatever became of it.
LEMMA MarksFields ==
  ASSUME NEW l, l \in Links, NEW m, Marks(l, m), NEW x \in Slots
  PROVE  /\ m.req[x].num = l.req[x].num /\ m.req[x].type = l.req[x].type
         /\ m.req[x].parm = l.req[x].parm
         /\ m.req[x].state = l.req[x].state \/ m.req[x].state = "done"
         /\ l.req[x].state = "done" => m.req[x].state = "done"
         /\ m.req[x].state = l.req[x].state => m.req[x] = l.req[x]
  <1>1. l.req[x] \in Request
    BY DEF Links
  <1>2. m.req[x] = l.req[x] \/ m.req[x] = [l.req[x] EXCEPT !.state = "done"]
    BY DEF Marks
  <1> QED BY <1>1, <1>2 DEF Request

LEMMA MarksKeep ==
  ASSUME NEW l, NEW s, Known(l, s), NEW m, Marks(l, m)
  PROVE  Known(m, s) /\ (Ordered(l) => Ordered(m)) /\ InRing(m) = InRing(l)
  <1>1. l \in Links /\ m \in Links
    BY DEF Known, Marks
  <1>2. \A x \in Slots : /\ m.req[x].num = l.req[x].num /\ m.req[x].type = l.req[x].type
                         /\ m.req[x].parm = l.req[x].parm
    BY <1>1, MarksFields
  <1>3. m.n_reqs = l.n_reqs /\ \A i : Slot(m, i) = Slot(l, i)
    BY SameRing DEF Marks
  <1>4. \A i \in 0 .. l.n_reqs - 1 : At(m, i).num = At(l, i).num
    BY <1>1, <1>2, <1>3, RingPlaces DEF At
  <1>5. Ordered(l) => Ordered(m)
    BY <1>3, <1>4 DEF Ordered
  <1>6. \A p \in Pvcs : m.w_buf[p] # None => m.req[m.w_req_ind[p]].num # None
    BY <1>1, <1>2 DEF Known, Marks, Links
  <1>7. m.conn_activity # "NO_ACTIVITY" => m.req[m.conn_req_ind].num # None
    BY <1>1, <1>2 DEF Known, Marks, Links
  <1>8. Known(m, s)
    BY <1>1, <1>2, <1>3, <1>4, <1>6, <1>7 DEF Known
  <1>9. InRing(m) = InRing(l)
    BY SameRing DEF Marks
  <1> QED BY <1>5, <1>8, <1>9

\* A response to a request that was sent.
LEMMA RespondAtMarks ==
  ASSUME NEW s \in 0 .. MaxRequests, NEW l, Known(l, s), NEW x \in Slots,
         l.req[x].num # None, NEW code \in Codes, NEW m, m = RespondAt(l, x, code)
  PROVE  /\ Marks(l, m) /\ SameElse(l, m) /\ Told(l, m, l.req[x], code)
         /\ \A y \in Slots \ {x} : m.req[y] = l.req[y]
         /\ m.req[x] = [l.req[x] EXCEPT !.state = "done"]
  <1>1. l \in Links /\ l.req[x].num \in Nums
    BY Sizes DEF Known, Nums
  <1>2. /\ m \in Links /\ SameElse(l, m) /\ Told(l, m, l.req[x], code)
        /\ \A y \in Slots \ {x} : m.req[y] = l.req[y]
        /\ m.req[x] = [l.req[x] EXCEPT !.state = "done"]
    BY <1>1, RespondAtFields
  <1>3. Answered(m) = Answered(l) \cup {l.req[x].num}
    <2>1. Answered(m) = Answered(l)
            \cup {[num |-> l.req[x].num, type |-> l.req[x].type, code |-> code].num}
      BY <1>1, <1>2, AnsweredMore DEF Told
    <2> QED BY <2>1
  <1>4. \A p \in Pvcs : m.w_buf[p] = l.w_buf[p] \/ m.w_buf[p] = None
    BY <1>2 DEF Told
  <1> QED BY <1>2, <1>3, <1>4 DEF Marks, SameElse, Told

--------------------------------------------------------------------------------
(***************************************************************************)
(* The accounts of a step that began with the requests N: each of them is    *)
(* alive, answered once, or gone without an answer, and nobody else is.      *)
(***************************************************************************)
Accounts(N, l) ==
  /\ Live(l) \subseteq N /\ Answered(l) \subseteq N /\ l.gone \subseteq N
  /\ Live(l) \cap Answered(l) = {} /\ Live(l) \cap l.gone = {} /\ Answered(l) \cap l.gone = {}
  /\ \A i, j \in DOMAIN l.out : l.out[i].num = l.out[j].num => i = j

\* Nobody is forgotten.
Covers(N, l) == N \subseteq Live(l) \cup l.gone \cup Answered(l)

\* No write was said to be successful, none was.
Silent(l) ==
  /\ l.conveyed = None
  /\ \A i \in DOMAIN l.out : l.out[i].type = "WRITE" => l.out[i].code # "SUCCESS"

LEMMA MarksCover ==
  ASSUME NEW l, l \in Links, NEW m, Marks(l, m), NEW N, Covers(N, l)
  PROVE  Covers(N, m)
  <1>1. ASSUME NEW n \in Live(l) PROVE n \in Live(m) \cup m.gone \cup Answered(m)
    <2>1. PICK x \in InRing(l) : l.req[x].state # "done" /\ l.req[x].num = n
      BY DEF Live, Unfinished
    <2>2. x \in Slots
      BY RingPlaces
    <2>3. CASE m.req[x] = l.req[x]
      <3>1. x \in Unfinished(m)
        BY <2>1, <2>3, SameRing DEF Unfinished, Marks
      <3> QED BY <2>1, <2>3, <3>1 DEF Live
    <2>4. CASE l.req[x].num \in Answered(m) \cup m.gone
      BY <2>1, <2>4
    <2> QED BY <2>2, <2>3, <2>4 DEF Marks
  <1> QED BY <1>1 DEF Covers, Marks

\* A request in the ring ends: its number leaves the live ones.
LEMMA LiveWithout ==
  ASSUME NEW l, l \in Links, Ordered(l), NEW m, NEW x \in Unfinished(l),
         m.st_ind = l.st_ind, m.n_reqs = l.n_reqs, m.req[x].state = "done",
         \A y \in Slots \ {x} : m.req[y] = l.req[y]
  PROVE  /\ l.req[x].num \in Live(l)
         /\ \A n : n \in Live(m) <=> n \in Live(l) /\ n # l.req[x].num
  <1>1. InRing(m) = InRing(l)
    BY SameRing
  <1>2. Unfinished(m) = Unfinished(l) \ {x}
    BY <1>1, RingPlaces DEF Unfinished
  <1>3. \A y \in Unfinished(l) : y \in Slots /\ (l.req[y].num = l.req[x].num => y = x)
    BY Distinct, RingPlaces DEF Unfinished
  <1>4. \A y \in Unfinished(m) : m.req[y].num = l.req[y].num
    BY <1>2, <1>3
  <1>5. Live(m) \subseteq Live(l) \ {l.req[x].num}
    BY <1>2, <1>3, <1>4 DEF Live
  <1>6. Live(l) \ {l.req[x].num} \subseteq Live(m)
    <2>1. ASSUME NEW y \in Unfinished(l), y # x PROVE l.req[y].num \in Live(m)
      BY <1>2, <1>4, <2>1 DEF Live
    <2> QED BY <2>1 DEF Live
  <1>7. l.req[x].num \in Live(l)
    BY DEF Live
  <1> QED BY <1>5, <1>6, <1>7

\* The response that ends a request keeps the accounts.
LEMMA RespondAtAccounts ==
  ASSUME NEW s \in 0 .. MaxRequests, NEW l, Known(l, s), Ordered(l), NEW x \in Unfinished(l),
         NEW code \in Codes, NEW m, m = RespondAt(l, x, code), NEW N, Accounts(N, l)
  PROVE  Accounts(N, m)
  <1>1. l \in Links /\ x \in Slots /\ l.req[x].num # None
    BY RingPlaces DEF Known, Unfinished
  <1>2. /\ Marks(l, m) /\ SameElse(l, m) /\ Told(l, m, l.req[x], code)
        /\ \A y \in Slots \ {x} : m.req[y] = l.req[y]
        /\ m.req[x] = [l.req[x] EXCEPT !.state = "done"]
    BY <1>1, RespondAtMarks
  <1> PICK e : e = [num |-> l.req[x].num, type |-> l.req[x].type, code |-> code]
    OBVIOUS
  <1>3. m.out = Append(l.out, e) /\ e.num = l.req[x].num
    BY <1>2 DEF Told
  <1>4. m.req[x].state = "done" /\ m.st_ind = l.st_ind /\ m.n_reqs = l.n_reqs /\ m.gone = l.gone
    BY <1>1, <1>2 DEF SameElse, Links, Request
  <1>5. Live(m) = Live(l) \ {e.num} /\ e.num \in Live(l)
    <2>1. /\ l.req[x].num \in Live(l)
          /\ \A n : n \in Live(m) <=> n \in Live(l) /\ n # l.req[x].num
      <3>1. l \in Links /\ \A y \in Slots \ {x} : m.req[y] = l.req[y]
        BY <1>1, <1>2
      <3> QED BY ONLY <1>4, <3>1, Ordered(l), x \in Unfinished(l), LiveWithout
    <2> QED BY <1>3, <2>1
  <1>6. Answered(m) = Answered(l) \cup {e.num}
    BY <1>1, <1>3, AnsweredMore
  <1>7. ASSUME NEW i \in DOMAIN m.out, NEW j \in DOMAIN m.out, m.out[i].num = m.out[j].num
        PROVE  i = j
    <2>1. e.num \notin Answered(l)
      BY <1>5 DEF Accounts
    <2>2. \A k \in DOMAIN l.out : l.out[k].num # e.num
      BY <2>1 DEF Answered
    <2>3. \A k \in DOMAIN m.out :
              \/ k \in DOMAIN l.out /\ m.out[k] = l.out[k]
              \/ k = Len(l.out) + 1 /\ m.out[k] = e
      BY <1>1, <1>3, AnsweredMore
    <2> QED BY <1>7, <2>2, <2>3 DEF Accounts
  <1> QED BY <1>4, <1>5, <1>6, <1>7 DEF Accounts

\* A response other than the success of a write keeps silence.
LEMMA SilentMore ==
  ASSUME NEW l, l \in Links, Silent(l), NEW m, NEW r, NEW code, Told(l, m, r, code),
         m.conveyed = l.conveyed, r.type # "WRITE" \/ code # "SUCCESS"
  PROVE  Silent(m)
  <1> PICK e : e = [num |-> r.num, type |-> r.type, code |-> code]
    OBVIOUS
  <1>1. m.out = Append(l.out, e) /\ (e.type # "WRITE" \/ e.code # "SUCCESS")
    BY DEF Told
  <1>2. \A k \in DOMAIN m.out :
            \/ k \in DOMAIN l.out /\ m.out[k] = l.out[k]
            \/ k = Len(l.out) + 1 /\ m.out[k] = e
    BY <1>1, AnsweredMore
  <1> QED BY <1>1, <1>2 DEF Silent

--------------------------------------------------------------------------------
(* The end of the writes: CMPR_cleanup.                                       *)

\* What it leaves alone.
Calm(l, m) ==
  /\ m.link_state = l.link_state /\ m.sockets = l.sockets /\ m.heard = l.heard
  /\ m.conn_activity = l.conn_activity /\ m.conveyed = l.conveyed /\ m.w_cnt = l.w_cnt
  /\ Silent(l) => Silent(m)

LEMMA CleanupAtResult ==
  ASSUME NEW s \in 0 .. MaxRequests, NEW l, Known(l, s), NEW x \in InRing(l),
         NEW m, m = CleanupAt(l, x)
  PROVE  /\ Marks(l, m) /\ Calm(l, m)
         /\ \A y \in Slots \ {x} : m.req[y] = l.req[y]
         /\ l.req[x].type # "WRITE" => m.req[x] = l.req[x]
         /\ l.req[x].type = "WRITE" => m.req[x].state = "done"
         /\ l.req[x].type = "WRITE" /\ l.req[x].state = "started"
              => \A p \in Pvcs : l.req[x].num = l.w_buf[p] => m.w_buf[p] = None
         /\ Ordered(l) => \A N : Accounts(N, l) => Accounts(N, m)
  <1>1. l \in Links /\ x \in Slots /\ l.req[x].num # None /\ l.req[x] \in Request
    BY RingPlaces DEF Known, Links
  <1>2. CASE l.req[x].type # "WRITE" \/ l.req[x].state = "done"
    <2>1. m = l
      BY <1>2 DEF CleanupAt
    <2> QED BY <1>1, <1>2, <2>1, MarksSelf DEF Calm
  <1>3. CASE l.req[x].type = "WRITE" /\ l.req[x].state = "started"
    <2>1. m = RespondAt(l, x, "DISCONNECTED") /\ "DISCONNECTED" \in Codes
      BY <1>3 DEF CleanupAt, Codes
    <2>2. /\ Marks(l, m) /\ SameElse(l, m) /\ Told(l, m, l.req[x], "DISCONNECTED")
          /\ \A y \in Slots \ {x} : m.req[y] = l.req[y]
          /\ m.req[x] = [l.req[x] EXCEPT !.state = "done"]
      BY <1>1, <2>1, RespondAtMarks
    <2>3. Silent(l) => Silent(m)
      BY <1>1, <2>2, SilentMore DEF SameElse
    <2>4. Calm(l, m)
      BY <1>3, <2>2, <2>3 DEF Calm, SameElse, Told, Heard
    <2>5. m.req[x].state = "done"
      BY <1>1, <2>2 DEF Request
    <2>6. \A p \in Pvcs : l.req[x].num = l.w_buf[p] => m.w_buf[p] = None
      BY <1>3, <2>2 DEF Told
    <2>7. x \in Unfinished(l)
      BY <1>3 DEF Unfinished
    <2>8. Ordered(l) => \A N : Accounts(N, l) => Accounts(N, m)
      BY <2>1, <2>7, RespondAtAccounts
    <2> QED BY <1>3, <2>2, <2>4, <2>5, <2>6, <2>8
  <1>4. CASE l.req[x].type = "WRITE" /\ l.req[x].state \notin {"started", "done"}
    <2> PICK v : v = [l.req EXCEPT ![x] = [l.req[x] EXCEPT !.state = "done"]]
      OBVIOUS
    <2> PICK g : g = l.gone \cup {l.req[x].num}
      OBVIOUS
    <2>1. m = [l EXCEPT !.req = v, !.gone = g]
      <3>1. m = [l EXCEPT !.req[x].state = "done", !.gone = @ \cup {l.req[x].num}]
        BY <1>4 DEF CleanupAt
      <3> QED BY <3>1 DEF Links
    <2>2. v \in [Slots -> Request]
      <3>1. [l.req[x] EXCEPT !.state = "done"] \in Request
        BY <1>1 DEF Request
      <3> QED BY <1>1, <3>1 DEF Links
    <2>3. g \subseteq Nums
      BY <1>1, Sizes DEF Known, Nums, Links
    <2>4. m \in Links /\ m.req = v /\ m.gone = g
      BY <1>1, <2>1, <2>2, <2>3 DEF Links
    <2>5. /\ \A y \in Slots \ {x} : m.req[y] = l.req[y]
          /\ m.req[x] = [l.req[x] EXCEPT !.state = "done"]
      BY <1>1, <2>4 DEF Links
    <2>6. m.out = l.out /\ m.conveyed = l.conveyed
      BY <1>1, <2>1 DEF Links
    <2>7. Answered(m) = Answered(l) /\ (Silent(l) => Silent(m))
      BY <2>6 DEF Answered, Silent
    <2>8. Marks(l, m) /\ Calm(l, m)
      BY <1>1, <2>1, <2>4, <2>5, <2>7 DEF Marks, Calm, Links
    <2>9. m.req[x].state = "done"
      BY <1>1, <2>5 DEF Request
    <2>10. ASSUME Ordered(l), NEW N, Accounts(N, l) PROVE Accounts(N, m)
      <3>1. x \in Unfinished(l)
        BY <1>4 DEF Unfinished
      <3>2. m.st_ind = l.st_ind /\ m.n_reqs = l.n_reqs
        BY <2>8 DEF Marks
      <3>3. /\ l.req[x].num \in Live(l)
            /\ \A n : n \in Live(m) <=> n \in Live(l) /\ n # l.req[x].num
        <4>1. l \in Links /\ \A y \in Slots \ {x} : m.req[y] = l.req[y]
          BY <1>1, <2>5
        <4> QED BY ONLY <2>9, <3>1, <3>2, <4>1, Ordered(l), LiveWithout
      <3> QED BY <2>4, <2>6, <2>7, <2>10, <3>3 DEF Accounts
    <2> QED BY <1>4, <2>5, <2>8, <2>9, <2>10
  <1> QED BY <1>2, <1>3, <1>4

\* After i visits.
Cleaned(l, m, i) ==
  /\ Marks(l, m) /\ Calm(l, m)
  /\ \A x \in Slots : l.req[x].type # "WRITE" \/ x \notin InRing(l) => m.req[x] = l.req[x]
  /\ \A j \in 0 .. l.n_reqs - 1 : j >= i => At(m, j) = At(l, j)
  /\ \A j \in 0 .. i - 1 : At(l, j).type = "WRITE" =>
       /\ At(m, j).state = "done"
       /\ At(l, j).state = "started" =>
            \A p \in Pvcs : At(l, j).num = l.w_buf[p] => m.w_buf[p] = None
  /\ Ordered(l) => \A N : Accounts(N, l) => Accounts(N, m)

LEMMA CleanupVisit ==
  ASSUME NEW s \in 0 .. MaxRequests, NEW l, Known(l, s), NEW i \in 0 .. l.n_reqs - 1,
         NEW m, Cleaned(l, m, i), NEW k, k = CleanupAt(m, Slot(l, i))
  PROVE  Cleaned(l, k, i + 1)
  <1> PICK x : x = Slot(l, i)
    OBVIOUS
  <1> PICK n \in 0 .. MaxReqs : n = l.n_reqs
    BY DEF Known, Links
  <1>1. /\ l \in Links /\ m \in Links /\ Known(m, s) /\ (Ordered(l) => Ordered(m))
        /\ InRing(m) = InRing(l) /\ Marks(l, m)
    <2>1. Marks(l, m)
      BY DEF Cleaned
    <2>2. l \in Links /\ m \in Links
      BY <2>1 DEF Known, Marks
    <2> QED BY <2>1, <2>2, MarksKeep
  <1>2. x \in InRing(m) /\ x \in Slots
    BY <1>1, RingPlaces
  <1>3. /\ Marks(m, k) /\ Calm(m, k)
        /\ \A y \in Slots \ {x} : k.req[y] = m.req[y]
        /\ m.req[x].type # "WRITE" => k.req[x] = m.req[x]
        /\ m.req[x].type = "WRITE" => k.req[x].state = "done"
        /\ m.req[x].type = "WRITE" /\ m.req[x].state = "started"
             => \A p \in Pvcs : m.req[x].num = m.w_buf[p] => k.w_buf[p] = None
        /\ Ordered(m) => \A N : Accounts(N, m) => Accounts(N, k)
    BY <1>1, <1>2, CleanupAtResult
  <1>4. Marks(l, k) /\ Calm(l, k)
    BY <1>1, <1>3, MarksTrans DEF Cleaned, Calm
  <1>5. \A j : Slot(m, j) = Slot(l, j) /\ Slot(k, j) = Slot(l, j)
    BY <1>1, <1>4, SameRing DEF Marks
  <1>6. \A j \in 0 .. n - 1 : /\ Slot(l, j) \in Slots /\ (Slot(l, j) = x => j = i)
                              /\ At(l, j) = l.req[Slot(l, j)]
    <2>1. \A j \in 0 .. n - 1 : Offset(l, Slot(l, j)) = j /\ Slot(l, j) \in Slots
      BY <1>1, RingPlaces
    <2>2. Offset(l, x) = i
      BY <2>1
    <2> QED BY <2>1, <2>2 DEF At
  <1>7. m.req[x] = At(l, i) /\ At(l, i) = l.req[x]
    BY <1>5, <1>6 DEF Cleaned, At
  <1>8. \A y \in Slots : l.req[y].type # "WRITE" \/ y \notin InRing(l) => k.req[y] = l.req[y]
    BY <1>1, <1>2, <1>3, <1>7 DEF Cleaned
  <1>9. ASSUME NEW j \in 0 .. n - 1, j >= i + 1 PROVE At(k, j) = At(l, j)
    <2>1. At(k, j) = At(m, j)
      BY <1>3, <1>5, <1>6, <1>9 DEF At
    <2> QED BY <1>9, <2>1 DEF Cleaned
  <1>10. ASSUME NEW j \in 0 .. i, At(l, j).type = "WRITE"
         PROVE  /\ At(k, j).state = "done"
                /\ At(l, j).state = "started" =>
                     \A p \in Pvcs : At(l, j).num = l.w_buf[p] => k.w_buf[p] = None
    <2>1. CASE j = i
      <3>1. At(k, j) = k.req[x]
        BY <1>5, <2>1 DEF At
      <3>2. k.req[x].state = "done"
        BY <1>3, <1>7, <1>10, <2>1
      <3>3. ASSUME At(l, j).state = "started", NEW p \in Pvcs, At(l, j).num = l.w_buf[p]
            PROVE  k.w_buf[p] = None
        <4>1. m.w_buf[p] = l.w_buf[p] \/ m.w_buf[p] = None
          BY <1>1 DEF Marks
        <4>2. k.w_buf[p] = m.w_buf[p] \/ k.w_buf[p] = None
          BY <1>3 DEF Marks
        <4> QED BY <1>3, <1>7, <1>10, <2>1, <3>3, <4>1, <4>2
      <3> QED BY <3>1, <3>2, <3>3
    <2>2. CASE j # i
      <3>1. j \in 0 .. i - 1 /\ j \in 0 .. n - 1
        BY <2>2
      <3>2. At(k, j) = At(m, j)
        BY <1>3, <1>5, <1>6, <2>2, <3>1 DEF At
      <3>3. \A p \in Pvcs : k.w_buf[p] = m.w_buf[p] \/ k.w_buf[p] = None
        BY <1>3 DEF Marks
      <3> QED BY <1>10, <3>1, <3>2, <3>3 DEF Cleaned
    <2> QED BY <2>1, <2>2
  <1>11. Ordered(l) => \A N : Accounts(N, l) => Accounts(N, k)
    BY <1>1, <1>3 DEF Cleaned
  <1>12. \A j \in 0 .. (i + 1) - 1 : j \in 0 .. i
    OBVIOUS
  <1> QED BY <1>4, <1>8, <1>9, <1>10, <1>11, <1>12 DEF Cleaned

LEMMA CleanupResult ==
  ASSUME NEW s \in 0 .. MaxRequests, NEW l, Known(l, s), NEW m, m = Cleanup(l)
  PROVE  Cleaned(l, m, l.n_reqs)
  <1> PICK n \in 0 .. MaxReqs : n = l.n_reqs
    BY DEF Known, Links
  <1>1. PICK r : /\ r[0] = l /\ Cleanup(l) = r[n]
                 /\ \A i \in 0 .. n - 1 : r[i + 1] = CleanupAt(r[i], Slot(l, i))
    BY CleanupLoop, Sizes
  <1> DEFINE T == {i \in 0 .. n : Cleaned(l, r[i], i)}
  <1>2. 0 \in T
    <2>1. Marks(l, l)
      BY MarksSelf DEF Known
    <2>2. Cleaned(l, l, 0)
      BY <2>1 DEF Cleaned, Calm
    <2> QED BY <1>1, <2>2
  <1>3. ASSUME NEW i \in 0 .. n - 1, i \in T PROVE i + 1 \in T
    BY <1>1, <1>3, CleanupVisit
  <1> HIDE DEF T
  <1>4. n \in T
    BY <1>2, <1>3, UpTo
  <1> QED BY <1>1, <1>4 DEF T

--------------------------------------------------------------------------------
(* The connects (disconnects) in front of a disconnect (connect) come to their end. *)

Pending(l, type, i) ==
  \E j \in 0 .. i - 1 : At(l, j).type = type /\ At(l, j).state # "done"

\* After i visits.
Ended(l, m, type, code, i) ==
  /\ Marks(l, m)
  /\ m.link_state = l.link_state /\ m.w_buf = l.w_buf /\ m.conveyed = l.conveyed
  /\ Silent(l) => Silent(m)
  /\ code = "TERMINATED" => m.heard = l.heard
  /\ \A x \in Slots : l.req[x].type # type \/ Offset(l, x) >= i => m.req[x] = l.req[x]
  /\ \A j \in 0 .. i - 1 : At(l, j).type = type => At(m, j).state = "done"
  /\ IF Pending(l, type, i) THEN m.conn_activity = "NO_ACTIVITY" ELSE m = l
  /\ Ordered(l) => \A N : Accounts(N, l) => Accounts(N, m)

LEMMA PendingVisit ==
  ASSUME NEW s \in 0 .. MaxRequests, NEW l, Known(l, s), NEW i \in 0 .. l.n_reqs - 1,
         NEW type \in {"CONNECT", "DISCONNECT"}, NEW code \in {"SUCCESS", "TERMINATED"},
         NEW m, Ended(l, m, type, code, i), NEW k, k = RespondIfType(m, Slot(l, i), type, code)
  PROVE  Ended(l, k, type, code, i + 1)
  <1> PICK x : x = Slot(l, i)
    OBVIOUS
  <1> PICK n \in 0 .. MaxReqs : n = l.n_reqs
    BY DEF Known, Links
  <1>1. /\ l \in Links /\ m \in Links /\ Known(m, s) /\ (Ordered(l) => Ordered(m))
        /\ InRing(m) = InRing(l) /\ Marks(l, m)
    <2>1. Marks(l, m)
      BY DEF Ended
    <2>2. l \in Links /\ m \in Links
      BY <2>1 DEF Known, Marks
    <2> QED BY <2>1, <2>2, MarksKeep
  <1>2. x \in InRing(m) /\ x \in Slots /\ Offset(l, x) = i /\ At(l, i) = l.req[x]
    BY <1>1, RingPlaces
  <1>3. m.req[x] = l.req[x] /\ m.req[x].num # None
    <2>1. m.req[x] = l.req[x]
      BY <1>2 DEF Ended
    <2> QED BY <1>1, <1>2, <2>1 DEF Known
  <1>4. \A j \in 0 .. n - 1 : /\ Slot(l, j) \in Slots /\ Offset(l, Slot(l, j)) = j
                              /\ At(l, j) = l.req[Slot(l, j)]
    BY <1>1, RingPlaces
  <1>5. Pending(l, type, i + 1) <=>
          Pending(l, type, i) \/ (l.req[x].type = type /\ l.req[x].state # "done")
    <2>1. \A j : j \in 0 .. (i + 1) - 1 <=> j \in 0 .. i - 1 \/ j = i
      OBVIOUS
    <2> QED BY <1>2, <2>1 DEF Pending
  <1>6. \A y \in Slots : Offset(l, y) \in Int
    <2>1. l.st_ind \in Slots
      BY <1>1 DEF Links
    <2>2. \A y \in Slots : Offset(l, y) \in Slots
      BY <2>1, OffsetIs
    <2> QED BY <2>2 DEF Slots
  <1>7. CASE ~ (l.req[x].type = type /\ l.req[x].state # "done")
    <2>1. k = m
      BY <1>3, <1>7 DEF RespondIfType
    <2>2. ASSUME NEW j \in 0 .. i, At(l, j).type = type PROVE At(m, j).state = "done"
      <3>1. CASE j = i
        <4>1. At(m, j) = m.req[x]
          BY <1>1, <3>1, SameRing DEF At, Marks
        <4> QED BY <1>2, <1>3, <1>7, <2>2, <3>1, <4>1
      <3>2. CASE j # i
        <4>1. j \in 0 .. i - 1
          BY <3>2
        <4> QED BY <2>2, <4>1 DEF Ended
      <3> QED BY <3>1, <3>2
    <2>3. \A y \in Slots : Offset(l, y) >= i + 1 => Offset(l, y) >= i
      BY <1>6
    <2>4. \A j \in 0 .. (i + 1) - 1 : j \in 0 .. i
      OBVIOUS
    <2> QED BY <1>5, <1>7, <2>1, <2>2, <2>3, <2>4 DEF Ended
  <1>8. CASE l.req[x].type = type /\ l.req[x].state # "done"
    <2>1. k = RespondAt(m, x, code) /\ code \in Codes
      BY <1>3, <1>8 DEF RespondIfType, Codes
    <2>2. /\ Marks(m, k) /\ SameElse(m, k) /\ Told(m, k, m.req[x], code)
          /\ \A y \in Slots \ {x} : k.req[y] = m.req[y]
          /\ k.req[x] = [m.req[x] EXCEPT !.state = "done"]
      BY <1>1, <1>2, <1>3, <2>1, RespondAtMarks
    <2>3. Marks(l, k)
      BY <1>1, <2>2, MarksTrans
    <2>4. k.w_buf = m.w_buf /\ k.conn_activity = "NO_ACTIVITY"
            /\ (code = "TERMINATED" => k.heard = m.heard)
      BY <1>3, <1>8, <2>2 DEF Told, Heard
    <2>5. Silent(m) => Silent(k)
      BY <1>1, <1>3, <1>8, <2>2, SilentMore DEF SameElse
    <2>6. ASSUME NEW y \in Slots, l.req[y].type # type \/ Offset(l, y) >= i + 1
          PROVE  k.req[y] = l.req[y]
      <3>1. y # x
        BY <1>2, <1>8, <2>6
      <3>2. Offset(l, y) >= i + 1 => Offset(l, y) >= i
        BY <1>6
      <3> QED BY <2>2, <2>6, <3>1, <3>2 DEF Ended
    <2>7. ASSUME NEW j \in 0 .. i, At(l, j).type = type PROVE At(k, j).state = "done"
      <3>1. At(k, j) = k.req[Slot(l, j)] /\ At(m, j) = m.req[Slot(l, j)]
        BY <1>1, <2>3, SameRing DEF At, Marks
      <3>2. CASE j = i
        <4>1. m.req[x] \in Request
          BY <1>1, <1>2 DEF Links
        <4> QED BY <2>2, <3>1, <3>2, <4>1 DEF Request
      <3>3. CASE j # i
        <4>1. j \in 0 .. i - 1 /\ Slot(l, j) # x /\ Slot(l, j) \in Slots
          BY <1>2, <1>4, <3>3
        <4> QED BY <2>2, <2>7, <3>1, <4>1 DEF Ended
      <3> QED BY <3>2, <3>3
    <2>8. x \in Unfinished(m)
      BY <1>2, <1>3, <1>8 DEF Unfinished
    <2>9. Ordered(m) => \A N : Accounts(N, m) => Accounts(N, k)
      BY <1>1, <2>1, <2>8, RespondAtAccounts
    <2>10. \A j \in 0 .. (i + 1) - 1 : j \in 0 .. i
      OBVIOUS
    <2>11. k.link_state = m.link_state /\ k.conveyed = m.conveyed
      BY <2>2 DEF SameElse
    <2> QED BY <1>1, <1>5, <1>8, <2>3, <2>4, <2>5, <2>6, <2>7, <2>9, <2>10, <2>11 DEF Ended
  <1> QED BY <1>7, <1>8

LEMMA PendingResult ==
  ASSUME NEW s \in 0 .. MaxRequests, NEW l, Known(l, s), NEW q \in 0 .. l.n_reqs - 1,
         NEW type \in {"CONNECT", "DISCONNECT"}, NEW code \in {"SUCCESS", "TERMINATED"},
         NEW m, m = RespondPending(l, type, Slot(l, q), code)
  PROVE  Ended(l, m, type, code, q)
  <1>1. l \in Links /\ Offset(l, Slot(l, q)) = q
    BY RingPlaces DEF Known
  <1>2. PICK r : /\ r[0] = l /\ m = r[q]
                 /\ \A i \in 0 .. q - 1 : r[i + 1] = RespondIfType(r[i], Slot(l, i), type, code)
    <2>1. q \in Nat
      BY <1>1, Sizes DEF Links
    <2> QED BY <1>1, <2>1, PendingLoop
  <1> DEFINE T == {i \in 0 .. q : Ended(l, r[i], type, code, i)}
  <1>3. 0 \in T
    <2>1. Marks(l, l) /\ ~ Pending(l, type, 0)
      BY <1>1, MarksSelf DEF Pending
    <2>2. Ended(l, l, type, code, 0)
      BY <2>1 DEF Ended
    <2> QED BY <1>1, <1>2, <2>2, Sizes DEF Links
  <1>4. ASSUME NEW i \in 0 .. q - 1, i \in T PROVE i + 1 \in T
    <2>1. i \in 0 .. l.n_reqs - 1 /\ i + 1 \in 0 .. q
      BY <1>1, Sizes DEF Links
    <2> QED BY <1>2, <1>4, <2>1, PendingVisit
  <1> HIDE DEF T
  <1>5. q \in T
    <2>1. q \in Nat
      BY <1>1, Sizes DEF Links
    <2> QED BY <1>3, <1>4, <2>1, UpTo
  <1> QED BY <1>2, <1>5 DEF T

--------------------------------------------------------------------------------
(* Connections.                                                               *)

\* Nothing happens to requests: only the state of sockets and connection is set.
Restated(l, m) ==
  /\ m \in Links
  /\ m.st_ind = l.st_ind /\ m.n_reqs = l.n_reqs /\ m.req = l.req /\ m.w_buf = l.w_buf
  /\ m.w_req_ind = l.w_req_ind /\ m.conn_req_ind = l.conn_req_ind
  /\ m.conn_activity = l.conn_activity /\ m.out = l.out /\ m.gone = l.gone
  /\ m.conveyed = l.conveyed /\ m.forgotten = l.forgotten

LEMMA RestatedKeeps ==
  ASSUME NEW l, NEW m, Restated(l, m)
  PROVE  /\ Marks(l, m) /\ (Silent(l) => Silent(m))
         /\ \A N : Accounts(N, l) => Accounts(N, m)
         /\ Live(m) = Live(l) /\ Answered(m) = Answered(l)
  <1>1. Live(m) = Live(l)
    BY SameRing DEF Restated, Live, Unfinished
  <1>2. Answered(m) = Answered(l) /\ (Silent(l) => Silent(m))
    BY DEF Restated, Answered, Silent
  <1>3. \A N : Accounts(N, l) => Accounts(N, m)
    BY <1>1, <1>2 DEF Restated, Accounts
  <1>4. Marks(l, m)
    BY <1>2 DEF Restated, Marks
  <1> QED BY <1>1, <1>2, <1>3, <1>4

\* The request in the ring at x is in processing.
InProc(l, x, type) ==
  x \in InRing(l) /\ l.req[x].type = type /\ l.req[x].state = "started"

(***************************************************************************)
(* A link with one circuit: what the connection, the circuit and the        *)
(* requests in processing have to do with one another.                      *)
(***************************************************************************)
Proc(l) ==
  /\ l.conn_activity # "DISCONNECTING"
  /\ l.link_state = "CONNECTED" => l.conn_activity = "NO_ACTIVITY"
  /\ l.heard <=> l.link_state = "CONNECTED"
  /\ l.w_buf[1] # None =>
       /\ l.link_state = "CONNECTED"
       /\ InProc(l, l.w_req_ind[1], "WRITE")
       /\ l.req[l.w_req_ind[1]].num = l.w_buf[1]
  /\ l.conn_activity # "NO_ACTIVITY" => InProc(l, l.conn_req_ind, "CONNECT")
  /\ \A x \in InRing(l) : l.req[x].state = "started" =>
       \/ l.w_buf[1] # None /\ x = l.w_req_ind[1]
       \/ l.conn_activity # "NO_ACTIVITY" /\ x = l.conn_req_ind

\* Nothing is connected, nothing in processing.
Idle(l) ==
  /\ l.link_state = "DISCONNECTED" /\ l.conn_activity = "NO_ACTIVITY" /\ ~ l.heard
  /\ l.w_buf[1] = None
  /\ \A x \in InRing(l) : l.req[x].state # "started"

LEMMA IdleProc ==
  ASSUME NEW l, Idle(l)
  PROVE  Proc(l)
  BY DEF Idle, Proc

\* CMPR_cleanup of a link whose connection was just set: no write is left.
WritesEnded(l, m) ==
  /\ \A x \in InRing(l) : /\ l.req[x].type # "WRITE" => m.req[x] = l.req[x]
                          /\ l.req[x].type = "WRITE" => m.req[x].state = "done"
  /\ \A x \in InRing(l) :
       l.req[x].type = "WRITE" /\ l.req[x].state = "started"
         => \A p \in Pvcs : l.req[x].num = l.w_buf[p] => m.w_buf[p] = None

LEMMA CleanupEnds ==
  ASSUME NEW s \in 0 .. MaxRequests, NEW l, Known(l, s), NEW l1, Restated(l, l1),
         NEW d, d = Cleanup(l1)
  PROVE  /\ Marks(l, d) /\ Calm(l1, d) /\ WritesEnded(l, d) /\ Known(d, s)
         /\ (Silent(l) => Silent(d)) /\ d.conn_activity = l.conn_activity
         /\ InRing(d) = InRing(l) /\ (Ordered(l) => Ordered(d))
         /\ Ordered(l) => \A N : Accounts(N, l) => Accounts(N, d)
  <1>1. l \in Links
    BY DEF Known
  <1>2. /\ Known(l1, s) /\ Marks(l, l1) /\ InRing(l1) = InRing(l)
        /\ (Ordered(l) => Ordered(l1)) /\ (Silent(l) => Silent(l1))
        /\ \A N : Accounts(N, l) => Accounts(N, l1)
    BY RestatedKeeps, MarksKeep
  <1>3. Cleaned(l1, d, l1.n_reqs)
    BY <1>2, CleanupResult
  <1>4. Marks(l1, d) /\ Calm(l1, d)
    BY <1>3 DEF Cleaned
  <1>5. Known(d, s) /\ (Ordered(l1) => Ordered(d)) /\ InRing(d) = InRing(l) /\ Marks(l, d)
    BY <1>1, <1>2, <1>4, MarksKeep, MarksTrans
  <1>6. l1.req = l.req /\ l1.w_buf = l.w_buf /\ l1.conn_activity = l.conn_activity
    BY DEF Restated
  <1>7. ASSUME NEW x \in InRing(l)
        PROVE  /\ l.req[x].type # "WRITE" => d.req[x] = l.req[x]
               /\ l.req[x].type = "WRITE" => d.req[x].state = "done"
               /\ l.req[x].type = "WRITE" /\ l.req[x].state = "started"
                    => \A p \in Pvcs : l.req[x].num = l.w_buf[p] => d.w_buf[p] = None
    <2>1. PICK i \in 0 .. l1.n_reqs - 1 : x = Slot(l1, i) /\ l1.req[x] = At(l1, i) /\ x \in Slots
      BY <1>2, RingPlaces DEF Known
    <2>2. d.req[x] = At(d, i)
      BY <1>4, <2>1, SameRing DEF At, Marks
    <2> QED BY <1>3, <1>6, <2>1, <2>2 DEF Cleaned
  <1>8. WritesEnded(l, d)
    BY <1>7 DEF WritesEnded
  <1>9. (Silent(l) => Silent(d)) /\ d.conn_activity = l.conn_activity
    BY <1>2, <1>4, <1>6 DEF Calm
  <1>10. Ordered(l) => \A N : Accounts(N, l) => Accounts(N, d)
    BY <1>2, <1>3 DEF Cleaned
  <1> QED BY <1>2, <1>4, <1>5, <1>8, <1>9, <1>10

\* Once ended, writes stay so.
LEMMA WritesEndedTwice ==
  ASSUME NEW l, l \in Links, NEW m, NEW k, Marks(l, m), WritesEnded(l, m), Marks(m, k),
         WritesEnded(m, k), InRing(m) = InRing(l)
  PROVE  WritesEnded(l, k)
  <1>1. \A x \in InRing(l) : m.req[x].type = l.req[x].type
    BY MarksFields, RingPlaces
  <1>2. \A p \in Pvcs : m.w_buf[p] = None => k.w_buf[p] = None
    BY DEF Marks
  <1> QED BY <1>1, <1>2 DEF WritesEnded

\* CMPR_connect_failure
LEMMA ConnectFailureResult ==
  ASSUME NEW s \in 0 .. MaxRequests, NEW l, Known(l, s), NEW m, m = ConnectFailure(l)
  PROVE  /\ Marks(l, m)
         /\ NPvc = 1 /\ Proc(l) => Idle(m) /\ (Silent(l) => Silent(m))
         /\ NPvc = 1 /\ Proc(l) /\ Ordered(l) => \A N : Accounts(N, l) => Accounts(N, m)
  <1> DEFINE lost == l.conn_activity = "NO_ACTIVITY" /\ l.link_state = "CONNECTED"
             h == IF lost THEN FALSE ELSE l.heard
             l0 == [l EXCEPT !.link_state = "DISCONNECTED", !.heard = h]
  <1> PICK l1 : l1 = l0
    OBVIOUS
  <1> PICK d : d = Cleanup(l1)
    OBVIOUS
  <1>1. l \in Links /\ h \in BOOLEAN
    BY DEF Known, Links
  <1>2. m = IF d.conn_activity = "NO_ACTIVITY" THEN d ELSE RespondAt(d, d.conn_req_ind, "FAILED")
    BY DEF ConnectFailure
  <1>3. Proc(l) => h = FALSE
    BY DEF Proc
  <1> HIDE DEF h
  <1>4. Restated(l, l1) /\ l1.link_state = "DISCONNECTED" /\ l1.heard = h
    BY <1>1 DEF Restated, Links
  <1> HIDE DEF l0
  <1>5. /\ Marks(l, d) /\ Calm(l1, d) /\ WritesEnded(l, d) /\ Known(d, s)
        /\ (Silent(l) => Silent(d)) /\ d.conn_activity = l.conn_activity
        /\ InRing(d) = InRing(l) /\ (Ordered(l) => Ordered(d))
        /\ Ordered(l) => \A N : Accounts(N, l) => Accounts(N, d)
    BY <1>4, CleanupEnds
  <1>6. d.conn_activity # "NO_ACTIVITY" =>
          d.conn_req_ind \in Slots /\ d.req[d.conn_req_ind].num # None
    BY <1>5 DEF Known, Links
  <1>7. "FAILED" \in Codes
    BY DEF Codes
  <1>8. Marks(l, m)
    <2>1. CASE d.conn_activity = "NO_ACTIVITY"
      BY <1>2, <1>5, <2>1
    <2>2. CASE d.conn_activity # "NO_ACTIVITY"
      <3>1. Marks(d, m)
        <4> PICK y : y = d.conn_req_ind
          OBVIOUS
        <4>1. m = RespondAt(d, y, "FAILED") /\ y \in Slots /\ d.req[y].num # None
          BY <1>2, <1>6, <2>2
        <4>2. Known(d, s)
          BY <1>5
        <4> QED BY ONLY <1>7, <4>1, <4>2, s \in 0 .. MaxRequests, RespondAtMarks
      <3> QED BY <1>1, <1>5, <3>1, MarksTrans
    <2> QED BY <2>1, <2>2
  <1>9. ASSUME NPvc = 1, Proc(l)
         PROVE  /\ Idle(m) /\ (Silent(l) => Silent(m))
                /\ Ordered(l) => \A N : Accounts(N, l) => Accounts(N, m)
    <2> PICK z : z = l.conn_req_ind
      OBVIOUS
    <2>1. d.conn_activity = l.conn_activity /\ d.conn_req_ind = z
      BY <1>4, <1>5 DEF Restated, Calm, Marks
    <2>2. d.heard = FALSE /\ d.link_state = "DISCONNECTED"
      BY <1>3, <1>4, <1>5, <1>9 DEF Calm
    <2>3. \A x \in InRing(l) : l1.req[x] = l.req[x] /\ x \in Slots
      BY <1>1, <1>4, RingPlaces DEF Restated
    <2>4. \A x \in InRing(l) : /\ l.req[x].type # "WRITE" => d.req[x] = l.req[x]
                               /\ l.req[x].type = "WRITE" => d.req[x].state = "done"
      BY <1>5 DEF WritesEnded
    <2>5. d.w_buf[1] = None
      <3>1. 1 \in Pvcs /\ (d.w_buf[1] = l.w_buf[1] \/ d.w_buf[1] = None)
        BY <1>5, <1>9 DEF Pvcs, Marks
      <3> QED BY <1>5, <1>9, <3>1 DEF Proc, InProc, WritesEnded
    <2>6. CASE l.conn_activity = "NO_ACTIVITY"
      <3>1. m = d
        BY <1>2, <2>1, <2>6
      <3>2. ASSUME NEW x \in InRing(l), d.req[x].state = "started" PROVE FALSE
        <4>1. l.req[x].type # "WRITE" /\ l.req[x].state = "started"
          BY <2>4, <3>2
        <4> QED BY <1>9, <2>6, <4>1 DEF Proc, InProc
      <3>3. Idle(m)
        BY <1>5, <2>1, <2>2, <2>5, <2>6, <3>1, <3>2 DEF Idle
      <3> QED BY <1>5, <3>1, <3>3
    <2>7. CASE l.conn_activity # "NO_ACTIVITY"
      <3>1. m = RespondAt(d, z, "FAILED") /\ z \in Slots /\ d.req[z].num # None
        BY <1>2, <1>6, <2>1, <2>7
      <3>2. z \in InRing(l) /\ l.req[z].type = "CONNECT" /\ l.req[z].state = "started"
              /\ d.req[z] = l.req[z]
        BY <1>9, <2>4, <2>7 DEF Proc, InProc
      <3>3. /\ Marks(d, m) /\ SameElse(d, m) /\ Told(d, m, d.req[z], "FAILED")
            /\ \A y \in Slots \ {z} : m.req[y] = d.req[y]
            /\ m.req[z] = [d.req[z] EXCEPT !.state = "done"]
        BY <1>5, <1>7, <3>1, RespondAtMarks
      <3>4. m.conn_activity = "NO_ACTIVITY" /\ m.heard = FALSE /\ m.w_buf = d.w_buf
              /\ m.link_state = d.link_state /\ InRing(m) = InRing(l)
        BY <1>5, <3>2, <3>3, SameRing DEF Told, Heard, SameElse
      <3>5. m.req[z].state = "done"
        BY <1>1, <3>1, <3>2, <3>3 DEF Links, Request
      <3>6. ASSUME NEW x \in InRing(l), m.req[x].state = "started" PROVE FALSE
        <4>1. x # z /\ d.req[x].state = "started"
          BY <2>3, <3>3, <3>5, <3>6
        <4>2. l.req[x].type # "WRITE" /\ l.req[x].state = "started"
          BY <2>4, <4>1
        <4> QED BY <1>9, <2>7, <4>1, <4>2 DEF Proc, InProc
      <3>7. Idle(m)
        BY <2>2, <2>5, <3>4, <3>6 DEF Idle
      <3>8. Silent(l) => Silent(m)
        BY <1>5, <3>2, <3>3, SilentMore DEF SameElse, Known
      <3>9. z \in Unfinished(d)
        BY <1>5, <3>2 DEF Unfinished
      <3>10. Ordered(l) => \A N : Accounts(N, l) => Accounts(N, m)
        BY <1>5, <1>7, <3>1, <3>9, RespondAtAccounts
      <3> QED BY <3>7, <3>8, <3>10
    <2> QED BY <2>6, <2>7
  <1> QED BY <1>8, <1>9

\* The accounts and the silence about writes go on.
Sound(l, m) ==
  (Silent(l) => Silent(m)) /\ \A N : Accounts(N, l) => Accounts(N, m)

\* Process_exception
LEMMA ExceptionResult ==
  ASSUME NEW s \in 0 .. MaxRequests, NEW l, Known(l, s), l.conn_activity # "DISCONNECTING",
         NEW m, m = Exception(l)
  PROVE  /\ Marks(l, m)
         /\ NPvc = 1 /\ Proc(l) /\ Ordered(l) => Idle(m) /\ Sound(l, m)
  <1> PICK c : c = ConnectFailure(l)
    OBVIOUS
  <1>1. /\ Marks(l, c)
        /\ NPvc = 1 /\ Proc(l) => Idle(c) /\ (Silent(l) => Silent(c))
        /\ NPvc = 1 /\ Proc(l) /\ Ordered(l) => \A N : Accounts(N, l) => Accounts(N, c)
    BY ConnectFailureResult
  <1>2. c \in Links /\ c.conn_activity # "DISCONNECTING"
    BY <1>1 DEF Marks
  <1>3. m = [c EXCEPT !.sockets = (c.conn_activity = "CONNECTING")]
    BY <1>2 DEF Exception, Disconnect
  <1>4. Restated(c, m) /\ m.link_state = c.link_state /\ m.heard = c.heard
    BY <1>2, <1>3 DEF Restated, Links
  <1>5. Marks(c, m) /\ (Silent(c) => Silent(m)) /\ \A N : Accounts(N, c) => Accounts(N, m)
    BY <1>4, RestatedKeeps
  <1>6. Marks(l, m)
    BY <1>1, <1>5, MarksTrans DEF Known
  <1>7. Idle(c) => Idle(m)
    BY <1>4, SameRing DEF Restated, Idle
  <1> QED BY <1>1, <1>5, <1>6, <1>7 DEF Sound

\* HA_connection_procedure: the old connection and its writes are given up.
LEMMA StartConnecting ==
  ASSUME NEW s \in 0 .. MaxRequests, NEW l, Known(l, s), l.conn_activity = "CONNECTING",
         NEW m, m = ConnectionProcedure(l)
  PROVE  /\ Marks(l, m) /\ WritesEnded(l, m) /\ (Ordered(l) => Sound(l, m))
         /\ m.conn_activity = "CONNECTING" /\ m.heard = l.heard /\ m.link_state = "DISCONNECTED"
  <1> PICK l1 : l1 = [l EXCEPT !.link_state = "DISCONNECTED"]
    OBVIOUS
  <1> PICK d : d = Cleanup(l1)
    OBVIOUS
  <1>1. l \in Links
    BY DEF Known
  <1>2. Restated(l, l1) /\ l1.link_state = "DISCONNECTED" /\ l1.heard = l.heard
    BY <1>1 DEF Restated, Links
  <1>3. /\ Marks(l, d) /\ Calm(l1, d) /\ WritesEnded(l, d) /\ Known(d, s)
        /\ (Silent(l) => Silent(d)) /\ d.conn_activity = l.conn_activity
        /\ InRing(d) = InRing(l)
        /\ Ordered(l) => \A N : Accounts(N, l) => Accounts(N, d)
    BY <1>2, CleanupEnds
  <1>4. m = [d EXCEPT !.sockets = TRUE] /\ d \in Links
    BY <1>3 DEF ConnectionProcedure, Disconnect, Known
  <1>5. Restated(d, m) /\ m.link_state = d.link_state /\ m.heard = d.heard
    BY <1>4 DEF Restated, Links
  <1>6. Marks(d, m) /\ (Silent(d) => Silent(m)) /\ \A N : Accounts(N, d) => Accounts(N, m)
    BY <1>5, RestatedKeeps
  <1>7. Marks(l, m)
    BY <1>1, <1>3, <1>6, MarksTrans
  <1>8. WritesEnded(l, m)
    BY <1>3, <1>5 DEF WritesEnded, Restated
  <1>9. m.conn_activity = "CONNECTING" /\ m.heard = l.heard /\ m.link_state = "DISCONNECTED"
    BY <1>2, <1>3, <1>5 DEF Restated, Calm
  <1> QED BY <1>3, <1>6, <1>7, <1>8, <1>9 DEF Sound

\* The disconnect at z gave up the connection, and was answered.
GivenUp(l, m, z) ==
  /\ Marks(l, m) /\ (Ordered(l) => Sound(l, m))
  /\ \A x \in InRing(l) \ {z} : /\ l.req[x].type # "WRITE" => m.req[x] = l.req[x]
                                /\ l.req[x].type = "WRITE" => m.req[x].state = "done"
  /\ \A x \in InRing(l) :
       l.req[x].type = "WRITE" /\ l.req[x].state = "started"
         => \A p \in Pvcs : l.req[x].num = l.w_buf[p] => m.w_buf[p] = None
  /\ m.req[z].state = "done" /\ m.heard = FALSE
  /\ m.conn_activity = "NO_ACTIVITY" /\ m.link_state = "DISCONNECTED"

LEMMA Disconnecting ==
  ASSUME NEW s \in 0 .. MaxRequests, NEW l, Known(l, s), l.conn_activity = "DISCONNECTING",
         NEW z, z = l.conn_req_ind, z \in Unfinished(l), l.req[z].type = "DISCONNECT",
         NEW m, m = ConnectionProcedure(l)
  PROVE  GivenUp(l, m, z)
  <1> PICK l1 : l1 = [l EXCEPT !.link_state = "DISCONNECTED"]
    OBVIOUS
  <1> PICK c1 : c1 = Cleanup(l1)
    OBVIOUS
  <1> PICK c : c = Cleanup(c1)
    OBVIOUS
  <1> PICK d : d = [c EXCEPT !.link_state = "DISCONNECTED", !.sockets = FALSE]
    OBVIOUS
  <1>1. l \in Links /\ z \in InRing(l) /\ z \in Slots /\ l.req[z].state # "done"
    BY RingPlaces DEF Known, Unfinished
  <1>2. Restated(l, l1)
    BY <1>1 DEF Restated, Links
  <1>3. /\ Marks(l, c) /\ WritesEnded(l, c) /\ Known(c, s)
        /\ (Silent(l) => Silent(c)) /\ c1.conn_activity = l.conn_activity
        /\ InRing(c) = InRing(l) /\ (Ordered(l) => Ordered(c))
        /\ Ordered(l) => \A N : Accounts(N, l) => Accounts(N, c)
    <2>1. /\ Marks(l, c1) /\ WritesEnded(l, c1) /\ Known(c1, s)
          /\ (Silent(l) => Silent(c1)) /\ c1.conn_activity = l.conn_activity
          /\ InRing(c1) = InRing(l) /\ (Ordered(l) => Ordered(c1))
          /\ Ordered(l) => \A N : Accounts(N, l) => Accounts(N, c1)
      BY <1>2, CleanupEnds
    <2>2. Restated(c1, c1)
      BY <2>1 DEF Restated, Known
    <2>3. /\ Marks(c1, c) /\ WritesEnded(c1, c) /\ Known(c, s)
          /\ (Silent(c1) => Silent(c)) /\ c.conn_activity = c1.conn_activity
          /\ InRing(c) = InRing(c1) /\ (Ordered(c1) => Ordered(c))
          /\ Ordered(c1) => \A N : Accounts(N, c1) => Accounts(N, c)
      BY <2>1, <2>2, CleanupEnds
    <2>4. WritesEnded(l, c)
      BY <1>1, <2>1, <2>3, WritesEndedTwice
    <2>5. Marks(l, c)
      BY <1>1, <2>1, <2>3, MarksTrans
    <2> QED BY <2>1, <2>3, <2>4, <2>5
  <1>4. c \in Links /\ m = RespondAt(d, d.conn_req_ind, "SUCCESS")
    <2>1. m = Disconnect(c1)
      BY DEF ConnectionProcedure
    <2>2. c1.conn_activity = "DISCONNECTING"
      BY <1>3
    <2>3. c \in Links
      BY <1>3 DEF Known
    <2> QED BY <2>1, <2>2, <2>3 DEF Disconnect
  <1>5. Restated(c, d) /\ d.link_state = "DISCONNECTED"
    BY <1>4 DEF Restated, Links
  <1>6. /\ Marks(c, d) /\ (Silent(c) => Silent(d)) /\ \A N : Accounts(N, c) => Accounts(N, d)
        /\ Known(d, s) /\ InRing(d) = InRing(l) /\ (Ordered(c) => Ordered(d))
    BY <1>3, <1>5, RestatedKeeps, MarksKeep
  <1>7. d.conn_req_ind = z /\ d.req[z] = l.req[z] /\ d.req[z].num # None
    <2>1. d.conn_req_ind = z
      BY <1>3, <1>5 DEF Restated, Marks
    <2>2. d.req[z] = l.req[z]
      BY <1>1, <1>3, <1>5 DEF Restated, WritesEnded
    <2>3. d.req[z].num # None
      <3>1. z \in InRing(d)
        BY <1>1, <1>6
      <3> QED BY ONLY <1>6, <3>1, KnownRing
    <2> QED BY <2>1, <2>2, <2>3
  <1>8. "SUCCESS" \in Codes
    BY DEF Codes
  <1>9. /\ Marks(d, m) /\ SameElse(d, m) /\ Told(d, m, d.req[z], "SUCCESS")
        /\ \A y \in Slots \ {z} : m.req[y] = d.req[y]
        /\ m.req[z] = [d.req[z] EXCEPT !.state = "done"]
    <2>1. m = RespondAt(d, z, "SUCCESS") /\ z \in Slots /\ d.req[z].num # None /\ Known(d, s)
      BY <1>1, <1>4, <1>6, <1>7
    <2> QED BY ONLY <1>8, <2>1, s \in 0 .. MaxRequests, RespondAtMarks
  <1>10. /\ m.conn_activity = "NO_ACTIVITY" /\ m.heard = FALSE /\ m.w_buf = d.w_buf
         /\ m.link_state = "DISCONNECTED"
    BY <1>5, <1>7, <1>9 DEF Told, Heard, SameElse
  <1>11. m.req[z].state = "done"
    BY <1>1, <1>7, <1>9 DEF Links, Request
  <1>12. Marks(l, m)
    <2>1. Marks(l, d)
      BY <1>1, <1>3, <1>6, MarksTrans
    <2> QED BY <1>1, <1>9, <2>1, MarksTrans
  <1>13. \A x \in InRing(l) \ {z} : m.req[x] = c.req[x]
    BY <1>1, <1>5, <1>9, RingPlaces DEF Restated
  <1>14. c.w_buf = d.w_buf
    BY <1>5 DEF Restated
  <1>15. /\ \A x \in InRing(l) \ {z} : /\ l.req[x].type # "WRITE" => m.req[x] = l.req[x]
                                       /\ l.req[x].type = "WRITE" => m.req[x].state = "done"
         /\ \A x \in InRing(l) :
              l.req[x].type = "WRITE" /\ l.req[x].state = "started"
                => \A p \in Pvcs : l.req[x].num = l.w_buf[p] => m.w_buf[p] = None
    BY <1>3, <1>10, <1>13, <1>14 DEF WritesEnded
  <1>16. Silent(l) => Silent(m)
    BY <1>3, <1>6, <1>7, <1>9, SilentMore DEF SameElse, Known
  <1>17. ASSUME Ordered(l), NEW N, Accounts(N, l) PROVE Accounts(N, m)
    <2>1. z \in Unfinished(d)
      BY <1>1, <1>6, <1>7 DEF Unfinished
    <2>2. Ordered(d) /\ Accounts(N, d) /\ m = RespondAt(d, z, "SUCCESS")
      BY <1>3, <1>4, <1>6, <1>7, <1>17
    <2> QED BY <1>6, <1>8, <2>1, <2>2, RespondAtAccounts
  <1> QED BY <1>10, <1>11, <1>12, <1>15, <1>16, <1>17 DEF Sound, GivenUp

\* End_connecting
LEMMA EndConnectingResult ==
  ASSUME NEW s \in 0 .. MaxRequests, NEW l, Known(l, s), l.conn_activity = "CONNECTING",
         NEW m, m = EndConnecting(l)
  PROVE  /\ Marks(l, m)
         /\ Proc(l) /\ Ordered(l) => Proc(m) /\ Sound(l, m)
  <1> PICK z : z = l.conn_req_ind
    OBVIOUS
  <1> PICK d : d = RespondAt(l, z, "SUCCESS")
    OBVIOUS
  <1>1. l \in Links /\ z \in Slots /\ l.req[z].num # None /\ "SUCCESS" \in Codes
    BY DEF Known, Links, Codes
  <1>2. /\ Marks(l, d) /\ SameElse(l, d) /\ Told(l, d, l.req[z], "SUCCESS")
        /\ \A y \in Slots \ {z} : d.req[y] = l.req[y]
        /\ d.req[z] = [l.req[z] EXCEPT !.state = "done"]
    BY <1>1, RespondAtMarks
  <1>3. d \in Links /\ m = [d EXCEPT !.link_state = "CONNECTED"]
    BY <1>2 DEF Marks, EndConnecting
  <1>4. Restated(d, m) /\ m.link_state = "CONNECTED" /\ m.heard = d.heard
    BY <1>3 DEF Restated, Links
  <1>5. Marks(d, m) /\ (Silent(d) => Silent(m)) /\ \A N : Accounts(N, d) => Accounts(N, m)
    BY <1>4, RestatedKeeps
  <1>6. Marks(l, m)
    BY <1>1, <1>2, <1>5, MarksTrans
  <1>7. ASSUME Proc(l), Ordered(l) PROVE Proc(m) /\ Sound(l, m)
    <2>1. z \in InRing(l) /\ l.req[z].type = "CONNECT" /\ l.req[z].state = "started"
            /\ l.w_buf[1] = None
      BY <1>7 DEF Proc, InProc
    <2>2. /\ m.conn_activity = "NO_ACTIVITY" /\ m.heard = TRUE /\ m.w_buf = l.w_buf
          /\ InRing(m) = InRing(l) /\ m.req = d.req
      BY <1>2, <1>4, <2>1, SameRing DEF Told, Heard, SameElse, Restated
    <2>3. m.req[z].state = "done"
      BY <1>1, <1>2, <2>2 DEF Links, Request
    <2>4. ASSUME NEW x \in InRing(l), m.req[x].state = "started" PROVE FALSE
      <3>1. x # z /\ x \in Slots
        BY <1>1, <2>3, <2>4, RingPlaces
      <3>2. l.req[x].state = "started"
        BY <1>2, <2>2, <2>4, <3>1
      <3> QED BY <1>7, <2>1, <3>1, <3>2 DEF Proc
    <2>5. Proc(m)
      BY <1>4, <2>1, <2>2, <2>4 DEF Proc
    <2>6. Silent(l) => Silent(d)
      BY <1>1, <1>2, <2>1, SilentMore DEF SameElse
    <2>7. z \in Unfinished(l)
      BY <2>1 DEF Unfinished
    <2>8. \A N : Accounts(N, l) => Accounts(N, d)
      BY <1>1, <1>7, <2>7, RespondAtAccounts
    <2> QED BY <1>5, <2>5, <2>6, <2>8 DEF Sound
  <1> QED BY <1>6, <1>7

--------------------------------------------------------------------------------
(* Writing.                                                                   *)

\* Who was told that a write was successful: the one whose data reached the other side.
Truth(l) ==
  \A n \in Nums :
    l.conveyed = n <=>
      \E i \in DOMAIN l.out : l.out[i] = [num |-> n, type |-> "WRITE", code |-> "SUCCESS"]

LEMMA SilentTruth ==
  ASSUME NEW l, Silent(l)
  PROVE  Truth(l)
  <1>1. \A n \in Nums : n # None
    BY DEF Nums, None
  <1>2. ASSUME NEW n, NEW i \in DOMAIN l.out,
               l.out[i] = [num |-> n, type |-> "WRITE", code |-> "SUCCESS"]
        PROVE  FALSE
    BY <1>2 DEF Silent
  <1> QED BY <1>1, <1>2 DEF Silent, Truth

LEMMA TruthMore ==
  ASSUME NEW l, l \in Links, NEW m, NEW n \in Nums, m.conveyed = n,
         \A i \in DOMAIN l.out : l.out[i].type = "WRITE" => l.out[i].code # "SUCCESS",
         m.out = Append(l.out, [num |-> n, type |-> "WRITE", code |-> "SUCCESS"])
  PROVE  Truth(m)
  <1> PICK e : e = [num |-> n, type |-> "WRITE", code |-> "SUCCESS"]
    OBVIOUS
  <1>1. /\ \A i \in DOMAIN m.out :
              \/ i \in DOMAIN l.out /\ m.out[i] = l.out[i]
              \/ i = Len(l.out) + 1 /\ m.out[i] = e
         /\ Len(l.out) + 1 \in DOMAIN m.out /\ m.out[Len(l.out) + 1] = e
    BY AnsweredMore
  <1>2. ASSUME NEW k \in Nums, NEW i \in DOMAIN m.out,
               m.out[i] = [num |-> k, type |-> "WRITE", code |-> "SUCCESS"]
        PROVE  k = n
    <2>1. m.out[i].type = "WRITE" /\ m.out[i].code = "SUCCESS" /\ m.out[i].num = k
      BY <1>2
    <2>2. m.out[i] = e
      BY <1>1, <2>1
    <2> QED BY <2>1, <2>2
  <1> QED BY <1>1, <1>2 DEF Truth

\* As Proc with a write in processing, whether or not the link is connected.
Busy(l) ==
  /\ l.conn_activity # "DISCONNECTING"
  /\ l.link_state = "CONNECTED" => l.conn_activity = "NO_ACTIVITY"
  /\ l.heard <=> l.link_state = "CONNECTED"
  /\ l.w_buf[1] # None
  /\ InProc(l, l.w_req_ind[1], "WRITE") /\ l.req[l.w_req_ind[1]].num = l.w_buf[1]
  /\ l.conn_activity # "NO_ACTIVITY" => InProc(l, l.conn_req_ind, "CONNECT")
  /\ \A x \in InRing(l) : l.req[x].state = "started" =>
       \/ x = l.w_req_ind[1]
       \/ l.conn_activity # "NO_ACTIVITY" /\ x = l.conn_req_ind

\* The write in processing is answered.
LEMMA WriteAnswered ==
  ASSUME NEW s \in 0 .. MaxRequests, NPvc = 1, NEW l, Known(l, s), Busy(l), Ordered(l),
         NEW code \in Codes, NEW m, m = RespondAt(l, l.w_req_ind[1], code)
  PROVE  /\ Proc(m) /\ \A N : Accounts(N, l) => Accounts(N, m)
         /\ m.out = Append(l.out, [num |-> l.w_buf[1], type |-> "WRITE", code |-> code])
         /\ m.conveyed = l.conveyed /\ m.link_state = l.link_state
         /\ code # "SUCCESS" => Sound(l, m)
  <1> PICK x : x = l.w_req_ind[1]
    OBVIOUS
  <1>1. /\ l \in Links /\ x \in Slots /\ x \in InRing(l) /\ l.req[x].num # None
        /\ l.req[x] \in Request /\ l.req[x].type = "WRITE" /\ l.req[x].state = "started"
        /\ l.req[x].num = l.w_buf[1]
    BY KnownRing DEF Known, Busy, InProc
  <1>2. /\ Marks(l, m) /\ SameElse(l, m) /\ Told(l, m, l.req[x], code)
        /\ \A y \in Slots \ {x} : m.req[y] = l.req[y]
        /\ m.req[x] = [l.req[x] EXCEPT !.state = "done"]
    <2>1. m = RespondAt(l, x, code)
      OBVIOUS
    <2> QED BY ONLY <1>1, <2>1, Known(l, s), s \in 0 .. MaxRequests, code \in Codes, RespondAtMarks
  <1>3. m.w_buf[1] = None /\ m.conn_activity = l.conn_activity /\ m.heard = l.heard
    BY <1>1, <1>2 DEF Told, Heard, Pvcs
  <1>4. m.req[x].state = "done"
    BY <1>1, <1>2 DEF Request
  <1>5. /\ m.link_state = l.link_state /\ m.conn_req_ind = l.conn_req_ind
        /\ m.conveyed = l.conveyed /\ InRing(m) = InRing(l)
    BY <1>2, SameRing DEF SameElse
  <1>6. \A y \in InRing(l) \ {x} : m.req[y] = l.req[y]
    BY <1>1, <1>2, RingPlaces
  <1>7. m.conn_activity # "NO_ACTIVITY" => InProc(m, m.conn_req_ind, "CONNECT")
    BY <1>1, <1>3, <1>5, <1>6 DEF Busy, InProc
  <1>8. Proc(m)
    BY <1>3, <1>4, <1>5, <1>6, <1>7 DEF Busy, Proc
  <1>9. x \in Unfinished(l)
    BY <1>1 DEF Unfinished
  <1>10. \A N : Accounts(N, l) => Accounts(N, m)
    BY <1>9, RespondAtAccounts
  <1>11. m.out = Append(l.out, [num |-> l.w_buf[1], type |-> "WRITE", code |-> code])
    BY <1>1, <1>2 DEF Told
  <1>12. code # "SUCCESS" => (Silent(l) => Silent(m))
    BY <1>1, <1>2, <1>5, SilentMore
  <1> QED BY <1>5, <1>8, <1>10, <1>11, <1>12 DEF Sound

\* TCP_write_data, for a circuit with data to write.
LEMMA WriteMarks ==
  ASSUME NEW s \in 0 .. MaxRequests, NEW l, Known(l, s), l.conn_activity # "DISCONNECTING",
         NEW p \in Pvcs, l.w_buf[p] # None, NEW m \in WriteOutcomes(l, p)
  PROVE  Marks(l, m)
  <1> PICK x : x = l.w_req_ind[p]
    OBVIOUS
  <1> DEFINE written == [l EXCEPT !.w_cnt[p] = IF data_en THEN "all" ELSE "acked"]
             answered(w) == RespondAt([w EXCEPT !.conveyed = w.w_buf[p]], x, "SUCCESS")
  <1>1. l \in Links /\ x \in Slots /\ l.req[x].num # None /\ l.w_buf[p] \in Nums
    BY DEF Known, Links
  <1>2. {"SUCCESS", "FAILED", "DISCONNECTED"} \subseteq Codes
    BY DEF Codes
  <1>3. Marks(l, l)
    BY <1>1, MarksSelf
  <1>4. Restated(l, written)
    <2>1. [l.w_cnt EXCEPT ![p] = IF data_en THEN "all" ELSE "acked"]
            \in [Pvcs -> {"some", "all", "acked"}]
      BY <1>1 DEF Links
    <2> PICK v : v = [l.w_cnt EXCEPT ![p] = IF data_en THEN "all" ELSE "acked"]
      OBVIOUS
    <2>2. written = [l EXCEPT !.w_cnt = v]
      BY <1>1 DEF Links
    <2> HIDE DEF written
    <2> QED BY <1>1, <2>1, <2>2 DEF Restated, Links
  <1> HIDE DEF written
  <1>5. Marks(l, written) /\ Known(written, s)
    BY <1>4, RestatedKeeps, MarksKeep
  <1>6. Marks(l, RespondAt(l, x, "FAILED")) /\ Marks(l, RespondAt(l, x, "DISCONNECTED"))
    BY <1>1, <1>2, RespondAtMarks
  <1>7. ASSUME NEW w, Restated(l, w), Marks(l, w), Known(w, s) PROVE Marks(l, answered(w))
    <2> PICK v : v = [w EXCEPT !.conveyed = w.w_buf[p]]
      OBVIOUS
    <2>1. w \in Links /\ w.w_buf[p] \in Nums /\ w.req = l.req
      BY <1>1, <1>7 DEF Restated
    <2>2. /\ v \in Links /\ v.st_ind = w.st_ind /\ v.n_reqs = w.n_reqs /\ v.req = w.req
          /\ v.w_buf = w.w_buf /\ v.w_req_ind = w.w_req_ind /\ v.out = w.out /\ v.gone = w.gone
          /\ v.conn_activity = w.conn_activity /\ v.conn_req_ind = w.conn_req_ind
          /\ v.forgotten = w.forgotten
      BY <2>1 DEF Links
    <2>3. Answered(v) = Answered(w)
      BY <2>2 DEF Answered
    <2>4. Marks(w, v)
      BY <2>2, <2>3 DEF Marks
    <2>5. Known(v, s) /\ v.req[x].num # None
      BY <1>1, <1>7, <2>1, <2>2, <2>4, MarksKeep
    <2>6. Marks(v, RespondAt(v, x, "SUCCESS"))
      BY <1>1, <1>2, <2>5, RespondAtMarks
    <2>7. Marks(l, v)
      BY <1>1, <1>7, <2>4, MarksTrans
    <2> QED BY <1>1, <2>6, <2>7, MarksTrans
  <1>8. Restated(l, l)
    BY <1>1 DEF Restated
  <1>9. Marks(l, answered(l)) /\ Marks(l, answered(written))
    BY <1>3, <1>4, <1>5, <1>7, <1>8
  <1>10. Marks(l, Exception(RespondAt(l, x, "FAILED")))
    <2> PICK d : d = RespondAt(l, x, "FAILED")
      OBVIOUS
    <2>1. Marks(l, d) /\ Known(d, s)
      BY <1>6, MarksKeep
    <2>2. d.conn_activity # "DISCONNECTING"
      BY <2>1 DEF Marks
    <2>3. Marks(d, Exception(d))
      BY <2>1, <2>2, ExceptionResult
    <2> QED BY <1>1, <2>1, <2>3, MarksTrans
  <1>11. m \in {RespondAt(l, x, "DISCONNECTED"), l, Exception(RespondAt(l, x, "FAILED")), written,
                answered(written), answered(l)}
    <2> HIDE DEF answered
    <2>1. CASE l.link_state # "CONNECTED"
      BY <2>1 DEF WriteOutcomes
    <2>2. CASE l.link_state = "CONNECTED"
      BY <2>2 DEF WriteOutcomes, answered, written
    <2> QED BY <2>1, <2>2
  <1> HIDE DEF answered
  <1> QED BY <1>3, <1>5, <1>6, <1>9, <1>10, <1>11

LEMMA WriteResult ==
  ASSUME NEW s \in 0 .. MaxRequests, NPvc = 1, NEW l, Known(l, s), Busy(l), Ordered(l), Silent(l),
         NEW m \in WriteOutcomes(l, 1)
  PROVE  /\ Proc(m) /\ Truth(m) /\ m.conveyed \in {None, l.w_buf[1]}
         /\ \A N : Accounts(N, l) => Accounts(N, m)
  <1> PICK x : x = l.w_req_ind[1]
    OBVIOUS
  <1> DEFINE written == [l EXCEPT !.w_cnt[1] = IF data_en THEN "all" ELSE "acked"]
             answered(w) == RespondAt([w EXCEPT !.conveyed = w.w_buf[1]], x, "SUCCESS")
  <1>1. l \in Links /\ 1 \in Pvcs /\ l.w_buf[1] \in Nums
    BY DEF Known, Links, Busy, Pvcs
  <1>2. {"SUCCESS", "FAILED", "DISCONNECTED"} \subseteq Codes
    BY DEF Codes
  <1>3. Restated(l, written) /\ written.link_state = l.link_state /\ written.heard = l.heard
    <2>1. [l.w_cnt EXCEPT ![1] = IF data_en THEN "all" ELSE "acked"]
            \in [Pvcs -> {"some", "all", "acked"}]
      BY <1>1 DEF Links
    <2> PICK v : v = [l.w_cnt EXCEPT ![1] = IF data_en THEN "all" ELSE "acked"]
      OBVIOUS
    <2>2. written = [l EXCEPT !.w_cnt = v]
      BY <1>1 DEF Links
    <2> HIDE DEF written
    <2> QED BY <1>1, <2>1, <2>2 DEF Restated, Links
  <1> HIDE DEF written
  <1>4. Restated(l, l)
    BY <1>1 DEF Restated
  <1>5. ASSUME NEW w, Restated(l, w), w.link_state = l.link_state, w.heard = l.heard
        PROVE  Busy(w) /\ (l.link_state = "CONNECTED" => Proc(w))
    BY <1>5, SameRing DEF Restated, Busy, Proc, InProc
  <1>6. ASSUME NEW w, Restated(l, w), w.link_state = l.link_state, w.heard = l.heard,
               l.link_state = "CONNECTED"
        PROVE  Proc(w) /\ Silent(w) /\ Sound(l, w)
    BY <1>5, <1>6, RestatedKeeps DEF Sound
  <1>7. ASSUME NEW w, Restated(l, w), w.link_state = l.link_state, w.heard = l.heard
        PROVE  /\ Proc(answered(w)) /\ Truth(answered(w)) /\ answered(w).conveyed = l.w_buf[1]
               /\ \A N : Accounts(N, l) => Accounts(N, answered(w))
    <2> PICK v : v = [w EXCEPT !.conveyed = w.w_buf[1]]
      OBVIOUS
    <2> PICK k : k = RespondAt(v, x, "SUCCESS")
      OBVIOUS
    <2>1. /\ w \in Links /\ w.w_buf[1] = l.w_buf[1] /\ w.req = l.req /\ w.out = l.out
          /\ \A N : Accounts(N, l) => Accounts(N, w)
          /\ Known(w, s) /\ Ordered(w) /\ Busy(w) /\ x = w.w_req_ind[1]
      BY <1>1, <1>5, <1>7, RestatedKeeps, MarksKeep DEF Restated
    <2>2. /\ v \in Links /\ v.st_ind = w.st_ind /\ v.n_reqs = w.n_reqs /\ v.req = w.req
          /\ v.w_buf = w.w_buf /\ v.w_req_ind = w.w_req_ind /\ v.out = w.out /\ v.gone = w.gone
          /\ v.conn_activity = w.conn_activity /\ v.conn_req_ind = w.conn_req_ind
          /\ v.forgotten = w.forgotten /\ v.link_state = w.link_state /\ v.heard = w.heard
          /\ v.conveyed = w.w_buf[1]
      BY <1>1, <2>1 DEF Links
    <2>3. Answered(v) = Answered(w) /\ Live(v) = Live(w) /\ InRing(v) = InRing(w)
      <3>1. InRing(v) = InRing(w)
        BY <2>2, SameRing
      <3>2. Unfinished(v) = Unfinished(w)
        BY <2>2, <3>1 DEF Unfinished
      <3>3. Live(v) = Live(w)
        BY <2>2, <3>2 DEF Live
      <3>4. Answered(v) = Answered(w)
        BY <2>2 DEF Answered
      <3> QED BY <3>1, <3>3, <3>4
    <2>4. Marks(w, v)
      BY <2>2, <2>3 DEF Marks
    <2>5. Known(v, s) /\ Ordered(v)
      BY <2>1, <2>4, MarksKeep
    <2>6. Busy(v)
      BY <2>1, <2>2, <2>3 DEF Busy, InProc
    <2>7. \A N : Accounts(N, w) => Accounts(N, v)
      BY <2>2, <2>3 DEF Accounts
    <2>8. /\ Proc(k) /\ \A N : Accounts(N, v) => Accounts(N, k)
          /\ k.out = Append(v.out, [num |-> v.w_buf[1], type |-> "WRITE", code |-> "SUCCESS"])
          /\ k.conveyed = v.conveyed
      <3>1. k = RespondAt(v, v.w_req_ind[1], "SUCCESS")
        BY <2>1, <2>2
      <3>2. "SUCCESS" \in Codes
        BY <1>2
      <3> QED BY ONLY <2>5, <2>6, <3>1, <3>2, s \in 0 .. MaxRequests, NPvc = 1, WriteAnswered
    <2>9. Truth(k)
      <3>1. \A i \in DOMAIN v.out : v.out[i].type = "WRITE" => v.out[i].code # "SUCCESS"
        BY <2>1, <2>2 DEF Silent
      <3>2. v.w_buf[1] \in Nums /\ k.conveyed = v.w_buf[1]
        BY <1>1, <2>1, <2>2, <2>8
      <3> QED BY <2>2, <2>8, <3>1, <3>2, TruthMore
    <2> QED BY <2>1, <2>2, <2>7, <2>8, <2>9
  <1>8. ASSUME NEW code \in {"FAILED", "DISCONNECTED"}
        PROVE  /\ Proc(RespondAt(l, x, code)) /\ Sound(l, RespondAt(l, x, code))
               /\ Marks(l, RespondAt(l, x, code))
    <2>1. code \in Codes /\ code # "SUCCESS"
      BY <1>2
    <2>2. x \in Slots /\ l.req[x].num # None
      BY KnownRing DEF Busy, InProc
    <2> QED BY <2>1, <2>2, WriteAnswered, RespondAtMarks
  <1>9. /\ Proc(Exception(RespondAt(l, x, "FAILED")))
        /\ Sound(l, Exception(RespondAt(l, x, "FAILED")))
    <2> PICK d : d = RespondAt(l, x, "FAILED")
      OBVIOUS
    <2>1. Proc(d) /\ Sound(l, d) /\ Marks(l, d) /\ Known(d, s) /\ Ordered(d)
      BY <1>8, MarksKeep
    <2>2. d.conn_activity # "DISCONNECTING"
      BY <2>1 DEF Proc
    <2>3. Idle(Exception(d)) /\ Sound(d, Exception(d))
      BY <2>1, <2>2, ExceptionResult
    <2>4. Sound(l, Exception(d))
      BY <2>1, <2>3 DEF Sound
    <2> QED BY <2>3, <2>4, IdleProc
  <1>10. ASSUME NEW k, Proc(k), Sound(l, k)
         PROVE  /\ Proc(k) /\ Truth(k) /\ k.conveyed \in {None, l.w_buf[1]}
                /\ \A N : Accounts(N, l) => Accounts(N, k)
    <2>1. Silent(k)
      BY <1>10 DEF Sound
    <2> QED BY <1>10, <2>1, SilentTruth DEF Sound, Silent
  <1>11. \/ m = RespondAt(l, x, "DISCONNECTED")
         \/ m = Exception(RespondAt(l, x, "FAILED"))
         \/ l.link_state = "CONNECTED" /\ m \in {l, written}
         \/ m \in {answered(written), answered(l)}
    <2> HIDE DEF answered
    <2>1. CASE l.link_state # "CONNECTED"
      BY <2>1 DEF WriteOutcomes
    <2>2. CASE l.link_state = "CONNECTED"
      BY <2>2 DEF WriteOutcomes, answered, written, Busy
    <2> QED BY <2>1, <2>2
  <1> HIDE DEF answered
  <1>12. CASE m = RespondAt(l, x, "DISCONNECTED")
    BY <1>8, <1>10, <1>12
  <1>13. CASE m = Exception(RespondAt(l, x, "FAILED"))
    BY <1>9, <1>10, <1>13
  <1>14. CASE l.link_state = "CONNECTED" /\ m \in {l, written}
    BY <1>3, <1>4, <1>6, <1>10, <1>14
  <1>15. CASE m \in {answered(written), answered(l)}
    BY <1>3, <1>4, <1>7, <1>15
  <1> QED BY <1>11, <1>12, <1>13, <1>14, <1>15

--------------------------------------------------------------------------------
(* Processing a request.                                                      *)

\* A disconnect is over with the step that processes it.
Settled(l) ==
  /\ l.conn_activity # "DISCONNECTING"
  /\ \A x \in Slots : l.req[x].state = "started" => l.req[x].type \in {"CONNECT", "WRITE"}

\* No request waits in front of one in processing.
Serial(l) ==
  \A i, j \in 0 .. l.n_reqs - 1 :
    i < j /\ At(l, j).state = "started" => At(l, i).state # "new"

LEMMA MarksSettled ==
  ASSUME NEW l, l \in Links, NEW m, Marks(l, m)
  PROVE  (Settled(l) => Settled(m)) /\ (Serial(l) => Serial(m))
  <1>1. \A x \in Slots : /\ m.req[x].type = l.req[x].type
                         /\ m.req[x].state = l.req[x].state \/ m.req[x].state = "done"
    BY MarksFields
  <1>2. Settled(l) => Settled(m)
    BY <1>1 DEF Settled, Marks
  <1>3. m.n_reqs = l.n_reqs /\ \A i : Slot(m, i) = Slot(l, i)
    BY SameRing DEF Marks
  <1>4. \A i \in 0 .. l.n_reqs - 1 : At(m, i).state = At(l, i).state \/ At(m, i).state = "done"
    BY <1>1, <1>3, RingPlaces DEF At
  <1>5. Serial(l) => Serial(m)
    BY <1>3, <1>4 DEF Serial
  <1> QED BY <1>2, <1>5

\* The request that Search_req finds.
LEMMA NextFirst ==
  ASSUME NEW l, NEW s, Known(l, s), NEW x, Next1st(l, x)
  PROVE  /\ x \in InRing(l) /\ l.req[x].state = "new"
         /\ \E q \in 0 .. l.n_reqs - 1 :
              /\ x = Slot(l, q) /\ l.req[x] = At(l, q)
              /\ l.req[x].type # "WRITE" =>
                   \A j \in 0 .. q - 1 : At(l, j).state = "new" => At(l, j).type = "WRITE"
              /\ l.req[x].type = "WRITE" /\ NPvc = 1 =>
                   \A j \in 0 .. q - 1 : At(l, j).state # "new"
  <1> PICK n \in 0 .. MaxReqs : n = l.n_reqs
    BY DEF Known, Links
  <1>1. x \in InRing(l) /\ l.req[x].state = "new"
    BY DEF Next1st, Fresh
  <1>2. \A i \in 0 .. n - 1 : /\ Slot(l, i) \in InRing(l) /\ Offset(l, Slot(l, i)) = i
                              /\ At(l, i) = l.req[Slot(l, i)]
    BY RingPlaces DEF Known
  <1>3. PICK q \in 0 .. n - 1 : x = Slot(l, q) /\ l.req[x] = At(l, q)
    BY <1>1, RingPlaces DEF Known
  <1>4. \A j \in 0 .. q - 1 : j \in 0 .. n - 1
    OBVIOUS
  <1>5. ASSUME NEW j \in 0 .. q - 1, At(l, j).state = "new"
        PROVE  /\ Slot(l, j) \in Fresh(l) /\ Offset(l, Slot(l, j)) < Offset(l, x)
               /\ At(l, j) = l.req[Slot(l, j)]
    BY <1>2, <1>3, <1>4, <1>5 DEF Fresh
  <1>6. ASSUME l.req[x].type # "WRITE", NEW j \in 0 .. q - 1, At(l, j).state = "new"
        PROVE  At(l, j).type = "WRITE"
    BY <1>5, <1>6 DEF Next1st
  <1>7. ASSUME l.req[x].type = "WRITE", NPvc = 1, NEW j \in 0 .. q - 1, At(l, j).state = "new"
        PROVE  FALSE
    <2> PICK y : y = Slot(l, j)
      OBVIOUS
    <2>1. /\ y \in Fresh(l) /\ Offset(l, y) < Offset(l, x) /\ y \in InRing(l)
      BY <1>2, <1>4, <1>5, <1>7
    <2>2. l.req[y].type = "WRITE" /\ l.req[y].parm # l.req[x].parm
      BY <1>7, <2>1 DEF Next1st
    <2>3. l.req[y].parm \in Pvcs /\ l.req[x].parm \in Pvcs
      BY <1>1, <1>7, <2>1, <2>2, KnownRing DEF Known
    <2> QED BY <1>7, <2>2, <2>3 DEF Pvcs
  <1> QED BY <1>1, <1>3, <1>6, <1>7

\* The request in the ring at x is taken up.
Begins(l, m, x) ==
  /\ m \in Links
  /\ m.st_ind = l.st_ind /\ m.n_reqs = l.n_reqs /\ m.out = l.out /\ m.gone = l.gone
  /\ m.conveyed = l.conveyed /\ m.forgotten = l.forgotten /\ m.link_state = l.link_state
  /\ m.heard = l.heard
  /\ \A y \in Slots \ {x} : m.req[y] = l.req[y]
  /\ m.req[x] = [l.req[x] EXCEPT !.state = "started"]

LEMMA BeginsKeeps ==
  ASSUME NEW l, NEW s, Known(l, s), NEW x \in Unfinished(l), NEW m, Begins(l, m, x)
  PROVE  /\ InRing(m) = InRing(l) /\ Unfinished(m) = Unfinished(l)
         /\ \A y \in Slots : /\ m.req[y].num = l.req[y].num /\ m.req[y].type = l.req[y].type
                             /\ m.req[y].parm = l.req[y].parm
         /\ m.req[x].state = "started"
         /\ \A i \in 0 .. l.n_reqs - 1 : At(m, i).num = At(l, i).num /\ At(m, i).type = At(l, i).type
         /\ (Ordered(l) => Ordered(m)) /\ (Silent(l) => Silent(m))
         /\ \A N : (Accounts(N, l) => Accounts(N, m)) /\ (Covers(N, l) => Covers(N, m))
  <1>1. InRing(m) = InRing(l) /\ \A i : Slot(m, i) = Slot(l, i)
    BY SameRing DEF Begins
  <1>2. x \in Slots /\ l.req[x] \in Request /\ x \in InRing(l) /\ l.req[x].state # "done"
    BY KnownRing DEF Unfinished
  <1>3. /\ m.req[x].num = l.req[x].num /\ m.req[x].type = l.req[x].type
        /\ m.req[x].parm = l.req[x].parm /\ m.req[x].state = "started"
    BY <1>2 DEF Begins, Request
  <1>4. \A y \in Slots : /\ m.req[y].num = l.req[y].num /\ m.req[y].type = l.req[y].type
                         /\ m.req[y].parm = l.req[y].parm
    BY <1>3 DEF Begins
  <1>5. \A i \in 0 .. l.n_reqs - 1 : At(m, i).num = At(l, i).num /\ At(m, i).type = At(l, i).type
    BY <1>1, <1>4, RingPlaces DEF At, Known
  <1>6. Ordered(l) => Ordered(m)
    BY <1>5 DEF Ordered, Begins
  <1>7. \A y \in InRing(l) : y \in Slots
    BY KnownRing
  <1>8. Unfinished(m) = Unfinished(l)
    <2>1. \A y \in InRing(l) : m.req[y].state # "done" <=> l.req[y].state # "done"
      BY <1>2, <1>3, <1>7 DEF Begins
    <2> QED BY <1>1, <2>1 DEF Unfinished
  <1>9. Live(m) = Live(l)
    <2>1. \A y \in Unfinished(l) : m.req[y].num = l.req[y].num
      BY <1>4, <1>7 DEF Unfinished
    <2> QED BY <1>8, <2>1 DEF Live
  <1>10. Answered(m) = Answered(l) /\ (Silent(l) => Silent(m))
    BY DEF Begins, Answered, Silent
  <1>11. \A N : (Accounts(N, l) => Accounts(N, m)) /\ (Covers(N, l) => Covers(N, m))
    BY <1>9, <1>10 DEF Begins, Accounts, Covers
  <1> QED BY <1>1, <1>3, <1>4, <1>5, <1>6, <1>8, <1>10, <1>11

LEMMA StartedBegins ==
  ASSUME NEW l, NEW s, Known(l, s), NEW x \in Unfinished(l),
         NEW activity \in {"CONNECTING", "DISCONNECTING"}, NEW m, m = Started(l, x, activity)
  PROVE  /\ Begins(l, m, x) /\ Known(m, s) /\ m.w_buf = l.w_buf /\ m.w_req_ind = l.w_req_ind
         /\ m.conn_activity = activity /\ m.conn_req_ind = x
  <1>1. x \in Slots /\ l.req[x] \in Request /\ x \in InRing(l) /\ l \in Links /\ l.req[x].num # None
    BY KnownRing DEF Unfinished, Known
  <1> PICK v : v = [l.req EXCEPT ![x] = [l.req[x] EXCEPT !.state = "started"]]
    OBVIOUS
  <1>2. m = [l EXCEPT !.req = v, !.conn_activity = activity, !.conn_req_ind = x]
    <2>1. m = [l EXCEPT !.req[x].state = "started", !.conn_activity = activity,
                        !.conn_req_ind = x]
      BY DEF Started
    <2> QED BY <1>1, <2>1 DEF Links
  <1>3. v \in [Slots -> Request]
    <2>1. [l.req[x] EXCEPT !.state = "started"] \in Request
      BY <1>1 DEF Request
    <2> QED BY <1>1, <2>1 DEF Links
  <1>4. /\ m \in Links /\ m.req = v /\ m.conn_activity = activity /\ m.conn_req_ind = x
        /\ m.w_buf = l.w_buf /\ m.w_req_ind = l.w_req_ind
    BY <1>1, <1>2, <1>3 DEF Links
  <1>5. Begins(l, m, x)
    <2>1. /\ \A y \in Slots \ {x} : v[y] = l.req[y]
          /\ v[x] = [l.req[x] EXCEPT !.state = "started"]
      BY <1>1 DEF Links
    <2>2. /\ m.st_ind = l.st_ind /\ m.n_reqs = l.n_reqs /\ m.out = l.out /\ m.gone = l.gone
          /\ m.conveyed = l.conveyed /\ m.forgotten = l.forgotten /\ m.link_state = l.link_state
          /\ m.heard = l.heard
      BY <1>1, <1>2 DEF Links
    <2> QED BY <1>4, <2>1, <2>2 DEF Begins
  <1>6. /\ \A y \in Slots : /\ m.req[y].num = l.req[y].num /\ m.req[y].type = l.req[y].type
                            /\ m.req[y].parm = l.req[y].parm
        /\ \A i \in 0 .. l.n_reqs - 1 : At(m, i).num = At(l, i).num
    BY <1>5, BeginsKeeps
  <1>7. Known(m, s)
    <2>1. \A p \in Pvcs : l.w_req_ind[p] \in Slots
      BY <1>1 DEF Links
    <2>2. m.n_reqs = l.n_reqs
      BY <1>5 DEF Begins
    <2> QED BY <1>1, <1>4, <1>6, <2>1, <2>2 DEF Known
  <1> QED BY <1>4, <1>5, <1>7

\* What every step of the processing keeps, whatever the number of circuits.
Onward(l, m, s) ==
  /\ Known(m, s) /\ Settled(m) /\ m.forgotten = l.forgotten
  /\ (Ordered(l) => Ordered(m))
  /\ \A N : Covers(N, l) => Covers(N, m)

LEMMA MarksOnward ==
  ASSUME NEW l, NEW s, Known(l, s), Settled(l), NEW m, Marks(l, m)
  PROVE  Onward(l, m, s)
  <1>1. l \in Links
    BY DEF Known
  <1>2. Known(m, s) /\ (Ordered(l) => Ordered(m))
    BY MarksKeep
  <1>3. Settled(m)
    BY <1>1, MarksSettled
  <1>4. \A N : Covers(N, l) => Covers(N, m)
    BY <1>1, MarksCover
  <1> QED BY <1>2, <1>3, <1>4 DEF Onward, Marks

LEMMA BeginsOnward ==
  ASSUME NEW l, NEW s, Known(l, s), NEW x \in Unfinished(l), NEW b, Begins(l, b, x),
         Known(b, s), NEW m, Marks(b, m), Settled(m)
  PROVE  Onward(l, m, s)
  <1>1. /\ (Ordered(l) => Ordered(b)) /\ (\A N : Covers(N, l) => Covers(N, b))
        /\ b.forgotten = l.forgotten /\ b \in Links
    BY BeginsKeeps DEF Begins
  <1>2. Known(m, s) /\ (Ordered(b) => Ordered(m))
    BY MarksKeep
  <1>3. \A N : Covers(N, b) => Covers(N, m)
    BY <1>1, MarksCover
  <1> QED BY <1>1, <1>2, <1>3 DEF Onward, Marks

\* No disconnect is left in front of a connect that is processed.
LEMMA ConnectCases ==
  ASSUME NEW s \in 0 .. MaxRequests, NEW l, Known(l, s), Settled(l), NEW x, Next1st(l, x),
         l.req[x].type = "CONNECT", NEW m, m = ProcessConnect(l, x)
  PROVE  \/ l.conn_activity = "CONNECTING" /\ m = RespondAt(l, x, "IN_PROCESSING")
         \/ /\ l.conn_activity = "NO_ACTIVITY" /\ l.link_state = "CONNECTED"
            /\ m = RespondAt(l, x, "SUCCESS")
         \/ /\ l.conn_activity = "NO_ACTIVITY" /\ l.link_state = "DISCONNECTED"
            /\ m = ConnectionProcedure(Started(l, x, "CONNECTING"))
  <1>1. PICK q \in 0 .. l.n_reqs - 1 :
          /\ x = Slot(l, q)
          /\ \A j \in 0 .. q - 1 : At(l, j).state = "new" => At(l, j).type = "WRITE"
    BY NextFirst
  <1> PICK a : a = RespondPending(l, "DISCONNECT", x, "SUCCESS")
    OBVIOUS
  <1>2. Ended(l, a, "DISCONNECT", "SUCCESS", q)
    BY <1>1, PendingResult
  <1>3. ~ Pending(l, "DISCONNECT", q)
    <2>1. ASSUME NEW j \in 0 .. q - 1, At(l, j).type = "DISCONNECT", At(l, j).state # "done"
          PROVE  FALSE
      <3>1. j \in 0 .. l.n_reqs - 1 /\ l \in Links
        <4>1. l \in Links /\ l.n_reqs \in 0 .. MaxReqs
          BY DEF Known, Links
        <4> QED BY <4>1, Sizes
      <3>2. At(l, j) \in Request /\ Slot(l, j) \in Slots /\ At(l, j) = l.req[Slot(l, j)]
        BY <3>1, RingPlaces DEF Links
      <3>3. At(l, j).state = "new" \/ At(l, j).state = "started"
        BY <2>1, <3>2 DEF Request
      <3> QED BY <1>1, <2>1, <3>2, <3>3 DEF Settled
    <2> QED BY <2>1 DEF Pending
  <1>4. a = l
    BY <1>2, <1>3 DEF Ended
  <1>5. /\ l.conn_activity \in {"NO_ACTIVITY", "CONNECTING"}
        /\ l.link_state \in {"CONNECTED", "DISCONNECTED"}
    BY DEF Known, Links, Settled
  <1> QED BY <1>4, <1>5 DEF ProcessConnect

\* The link when the data of the write at x are taken up.
WriteBegun(l, x, p) ==
  [l EXCEPT !.w_buf[p] = l.req[x].num, !.w_req_ind[p] = x,
            !.w_cnt[p] = "some", !.req[x].state = "started"]

LEMMA WriteBegins ==
  ASSUME NEW s \in 0 .. MaxRequests, NEW l, Known(l, s), NEW x \in Unfinished(l),
         NEW p \in Pvcs, NEW b, b = WriteBegun(l, x, p)
  PROVE  /\ Begins(l, b, x) /\ Known(b, s)
         /\ b.conn_activity = l.conn_activity /\ b.conn_req_ind = l.conn_req_ind
         /\ b.w_buf[p] = l.req[x].num /\ b.w_req_ind[p] = x
  <1>1. /\ x \in Slots /\ l.req[x] \in Request /\ x \in InRing(l) /\ l \in Links
        /\ l.req[x].num \in 1 .. s /\ l.req[x].num # None
    BY KnownRing DEF Unfinished, Known
  <1>2. l.req[x].num \in Nums
    BY <1>1, Sizes DEF Nums
  <1> PICK v : v = [l.req EXCEPT ![x] = [l.req[x] EXCEPT !.state = "started"]]
    OBVIOUS
  <1> PICK buf : buf = [l.w_buf EXCEPT ![p] = l.req[x].num]
    OBVIOUS
  <1> PICK ind : ind = [l.w_req_ind EXCEPT ![p] = x]
    OBVIOUS
  <1> PICK cnt : cnt = [l.w_cnt EXCEPT ![p] = "some"]
    OBVIOUS
  <1>3. b = [l EXCEPT !.w_buf = buf, !.w_req_ind = ind, !.w_cnt = cnt, !.req = v]
    BY <1>1 DEF WriteBegun, Links
  <1>4. v \in [Slots -> Request]
    <2>1. [l.req[x] EXCEPT !.state = "started"] \in Request
      BY <1>1 DEF Request
    <2> QED BY <1>1, <2>1 DEF Links
  <1>5. /\ buf \in [Pvcs -> Nums \cup {None}] /\ ind \in [Pvcs -> Slots]
        /\ cnt \in [Pvcs -> {"some", "all", "acked"}]
    BY <1>1, <1>2 DEF Links
  <1>6. /\ b \in Links /\ b.w_buf = buf /\ b.w_req_ind = ind /\ b.req = v
        /\ b.conn_activity = l.conn_activity /\ b.conn_req_ind = l.conn_req_ind
    BY <1>1, <1>3, <1>4, <1>5 DEF Links
  <1>7. Begins(l, b, x)
    <2>1. /\ \A y \in Slots \ {x} : v[y] = l.req[y]
          /\ v[x] = [l.req[x] EXCEPT !.state = "started"]
      BY <1>1 DEF Links
    <2>2. /\ b.st_ind = l.st_ind /\ b.n_reqs = l.n_reqs /\ b.out = l.out /\ b.gone = l.gone
          /\ b.conveyed = l.conveyed /\ b.forgotten = l.forgotten /\ b.link_state = l.link_state
          /\ b.heard = l.heard
      BY <1>1, <1>3 DEF Links
    <2> QED BY <1>6, <2>1, <2>2 DEF Begins
  <1>8. /\ \A y \in Slots : /\ b.req[y].num = l.req[y].num /\ b.req[y].type = l.req[y].type
                            /\ b.req[y].parm = l.req[y].parm
        /\ \A i \in 0 .. l.n_reqs - 1 : At(b, i).num = At(l, i).num
    BY <1>7, BeginsKeeps
  <1>9. b.w_buf[p] = l.req[x].num /\ b.w_req_ind[p] = x
    BY <1>1, <1>6 DEF Links
  <1>10. \A d \in Pvcs \ {p} : b.w_buf[d] = l.w_buf[d] /\ b.w_req_ind[d] = l.w_req_ind[d]
    BY <1>1, <1>6 DEF Links
  <1>11. Known(b, s)
    <2>1. (\A d \in Pvcs : l.w_req_ind[d] \in Slots) /\ l.conn_req_ind \in Slots
      BY <1>1 DEF Links
    <2>2. b.n_reqs = l.n_reqs
      BY <1>7 DEF Begins
    <2>3. \A d \in Pvcs : b.w_buf[d] # None => b.req[b.w_req_ind[d]].num # None
      BY <1>1, <1>8, <1>9, <1>10, <2>1 DEF Known
    <2> QED BY <1>1, <1>6, <1>8, <2>1, <2>2, <2>3 DEF Known
  <1> QED BY <1>6, <1>7, <1>9, <1>11

\* Process_connect
LEMMA ConnectOnward ==
  ASSUME NEW s \in 0 .. MaxRequests, NEW l, Known(l, s), Settled(l), NEW x, Next1st(l, x),
         l.req[x].type = "CONNECT", NEW m, m = ProcessConnect(l, x)
  PROVE  Onward(l, m, s)
  <1>1. x \in Unfinished(l) /\ x \in Slots /\ l.req[x].num # None /\ l.req[x] \in Request
    BY NextFirst, KnownRing DEF Unfinished
  <1>2. "SUCCESS" \in Codes /\ "IN_PROCESSING" \in Codes
    BY DEF Codes
  <1>3. CASE m = RespondAt(l, x, "SUCCESS") \/ m = RespondAt(l, x, "IN_PROCESSING")
    <2> PICK code \in Codes : m = RespondAt(l, x, code)
      BY <1>2, <1>3
    <2>1. x \in Slots /\ l.req[x].num # None
      BY <1>1
    <2>2. Marks(l, m)
      BY ONLY <2>1, s \in 0 .. MaxRequests, Known(l, s), code \in Codes, m = RespondAt(l, x, code),
              RespondAtMarks
    <2> QED BY <2>2, MarksOnward
  <1>4. CASE m = ConnectionProcedure(Started(l, x, "CONNECTING"))
    <2> PICK b : b = Started(l, x, "CONNECTING")
      OBVIOUS
    <2>1. Begins(l, b, x) /\ Known(b, s) /\ b.conn_activity = "CONNECTING"
      BY <1>1, StartedBegins
    <2>2. Marks(b, m)
      BY <1>4, <2>1, StartConnecting
    <2>3. b.req[x].type = "CONNECT" /\ \A y \in Slots \ {x} : b.req[y] = l.req[y]
      BY <1>1, <2>1 DEF Begins, Request
    <2>4. Settled(b)
      BY <2>1, <2>3 DEF Settled
    <2>5. Settled(m)
      BY <2>1, <2>2, <2>4, MarksSettled DEF Begins
    <2> QED BY <1>1, <2>1, <2>2, <2>5, BeginsOnward
  <1> QED BY <1>3, <1>4, ConnectCases

\* Process_disconnect: the connects in front are over when the connection is given up.
LEMMA DisconnectCases ==
  ASSUME NEW s \in 0 .. MaxRequests, NEW l, Known(l, s), Settled(l),
         NEW q \in 0 .. l.n_reqs - 1, NEW x, x = Slot(l, q), l.req[x].state = "new",
         l.req[x].type = "DISCONNECT", NEW m, m = ProcessDisconnect(l, x)
  PROVE  \E a, b :
           /\ Ended(l, a, "CONNECT", "TERMINATED", q)
           /\ Onward(l, a, s) /\ x \in Unfinished(a) /\ a.req[x] = l.req[x]
           /\ InRing(a) = InRing(l)
           /\ b = Started(a, x, "DISCONNECTING") /\ Begins(a, b, x) /\ Known(b, s)
           /\ b.w_buf = l.w_buf /\ b.conn_activity = "DISCONNECTING" /\ b.conn_req_ind = x
           /\ b.req[x].type = "DISCONNECT" /\ x \in Unfinished(b)
           /\ m = ConnectionProcedure(b)
  <1>1. /\ l \in Links /\ x \in Slots /\ x \in InRing(l) /\ Offset(l, x) = q
        /\ l.req[x] \in Request
    BY RingPlaces DEF Known, Links
  <1> PICK a : a = RespondPending(l, "CONNECT", x, "TERMINATED")
    OBVIOUS
  <1>2. Ended(l, a, "CONNECT", "TERMINATED", q)
    BY PendingResult
  <1>3. Onward(l, a, s) /\ InRing(a) = InRing(l) /\ a.req[x] = l.req[x] /\ a.w_buf = l.w_buf
    <2>1. Marks(l, a) /\ a.w_buf = l.w_buf
      BY <1>2 DEF Ended
    <2>2. Onward(l, a, s) /\ InRing(a) = InRing(l)
      BY <2>1, MarksOnward, MarksKeep
    <2>3. a.req[x] = l.req[x]
      BY <1>1, <1>2 DEF Ended
    <2> QED BY <2>1, <2>2, <2>3
  <1>4. x \in Unfinished(a) /\ Known(a, s) /\ a.conn_activity # "DISCONNECTING"
    BY <1>1, <1>3 DEF Unfinished, Onward, Settled
  <1> PICK b : b = Started(a, x, "DISCONNECTING")
    OBVIOUS
  <1>5. /\ Begins(a, b, x) /\ Known(b, s) /\ b.w_buf = a.w_buf
        /\ b.conn_activity = "DISCONNECTING" /\ b.conn_req_ind = x
    BY <1>4, StartedBegins
  <1>6. b.req[x].type = "DISCONNECT" /\ x \in Unfinished(b)
    BY <1>1, <1>3, <1>4, <1>5, BeginsKeeps
  <1>7. m = ConnectionProcedure(b)
    BY <1>4 DEF ProcessDisconnect
  <1> QED BY <1>2, <1>3, <1>4, <1>5, <1>6, <1>7

LEMMA DisconnectOnward ==
  ASSUME NEW s \in 0 .. MaxRequests, NEW l, Known(l, s), Settled(l),
         NEW q \in 0 .. l.n_reqs - 1, NEW x, x = Slot(l, q), l.req[x].state = "new",
         l.req[x].type = "DISCONNECT", NEW m, m = ProcessDisconnect(l, x)
  PROVE  Onward(l, m, s)
  <1>1. PICK a, b :
           /\ Ended(l, a, "CONNECT", "TERMINATED", q)
           /\ Onward(l, a, s) /\ x \in Unfinished(a) /\ a.req[x] = l.req[x]
           /\ InRing(a) = InRing(l)
           /\ b = Started(a, x, "DISCONNECTING") /\ Begins(a, b, x) /\ Known(b, s)
           /\ b.w_buf = l.w_buf /\ b.conn_activity = "DISCONNECTING" /\ b.conn_req_ind = x
           /\ b.req[x].type = "DISCONNECT" /\ x \in Unfinished(b)
           /\ m = ConnectionProcedure(b)
    BY DisconnectCases
  <1>2. Marks(b, m) /\ m.req[x].state = "done" /\ m.conn_activity = "NO_ACTIVITY"
    <2> PICK z : z = b.conn_req_ind
      OBVIOUS
    <2>1. z \in Unfinished(b)
      BY <1>1
    <2>2. /\ b.req[z].type = "DISCONNECT" /\ z = x /\ Known(b, s)
          /\ b.conn_activity = "DISCONNECTING" /\ m = ConnectionProcedure(b)
      BY <1>1
    <2>3. GivenUp(b, m, z)
      BY ONLY <2>1, <2>2, z = b.conn_req_ind, s \in 0 .. MaxRequests, Disconnecting
    <2> QED BY <2>2, <2>3 DEF GivenUp
  <1>3. Known(a, s) /\ Settled(a) /\ b \in Links
    BY <1>1 DEF Onward, Begins
  <1>4. \A y \in Slots : /\ m.req[y].type = b.req[y].type
                         /\ m.req[y].state = b.req[y].state \/ m.req[y].state = "done"
    BY <1>2, <1>3, MarksFields
  <1>5. \A y \in Slots \ {x} : b.req[y] = a.req[y]
    BY <1>1 DEF Begins
  <1>6. Settled(m)
    BY <1>2, <1>3, <1>4, <1>5 DEF Settled
  <1>7. Onward(a, m, s)
    BY <1>1, <1>2, <1>3, <1>6, BeginsOnward
  <1> QED BY <1>1, <1>7 DEF Onward

\* Process_write
LEMMA WriteCases ==
  ASSUME NEW l, NEW x, NEW m \in ProcessWrite(l, x)
  PROVE  \/ m = l
         \/ /\ l.w_buf[l.req[x].parm] = None
            /\ m \in WriteOutcomes(WriteBegun(l, x, l.req[x].parm), l.req[x].parm)
  BY DEF ProcessWrite, WriteBegun

LEMMA WriteOnward ==
  ASSUME NEW s \in 0 .. MaxRequests, NEW l, Known(l, s), Settled(l), NEW x \in Unfinished(l),
         l.req[x].type = "WRITE", NEW m \in ProcessWrite(l, x)
  PROVE  Onward(l, m, s)
  <1> PICK p : p = l.req[x].parm
    OBVIOUS
  <1>1. /\ l \in Links /\ x \in Slots /\ p \in Pvcs /\ l.req[x] \in Request
        /\ l.req[x].num # None
    BY KnownRing DEF Unfinished, Known
  <1>2. CASE m = l
    BY <1>1, <1>2, MarksSelf, MarksOnward
  <1>3. CASE m \in WriteOutcomes(WriteBegun(l, x, p), p)
    <2> PICK b : b = WriteBegun(l, x, p)
      OBVIOUS
    <2>1. /\ Begins(l, b, x) /\ Known(b, s) /\ b.conn_activity = l.conn_activity
          /\ b.w_buf[p] = l.req[x].num
      BY ONLY <1>1, b = WriteBegun(l, x, p), x \in Unfinished(l), Known(l, s),
              s \in 0 .. MaxRequests, WriteBegins
    <2>2. Marks(b, m)
      BY <1>1, <1>3, <2>1, WriteMarks DEF Settled
    <2>3. b.req[x].type = "WRITE" /\ \A y \in Slots \ {x} : b.req[y] = l.req[y]
      BY <1>1, <2>1 DEF Begins, Request
    <2>4. Settled(b)
      BY <2>1, <2>3 DEF Settled
    <2>5. Settled(m)
      BY <2>1, <2>2, <2>4, MarksSettled DEF Begins
    <2> QED BY <2>1, <2>2, <2>5, BeginsOnward
  <1> QED BY <1>2, <1>3, WriteCases

\* CMPR_process_requests, for whichever request is next.
LEMMA ProcessOnward ==
  ASSUME NEW s \in 0 .. MaxRequests, NEW l, Known(l, s), Settled(l), NEW x, Next1st(l, x),
         NEW m \in Outcomes(l, x)
  PROVE  Onward(l, m, s)
  <1>1. PICK q \in 0 .. l.n_reqs - 1 : x = Slot(l, q) /\ l.req[x].state = "new"
    BY NextFirst
  <1>2. x \in Unfinished(l) /\ x \in Slots /\ l.req[x].num # None
    BY NextFirst, KnownRing DEF Unfinished
  <1>3. CASE l.req[x].type = "CONNECT"
    <2>1. m = ProcessConnect(l, x)
      BY <1>3 DEF Outcomes
    <2> QED BY <1>3, <2>1, ConnectOnward
  <1>4. CASE l.req[x].type = "DISCONNECT"
    <2>1. m = ProcessDisconnect(l, x)
      BY <1>4 DEF Outcomes
    <2> QED BY <1>1, <1>4, <2>1, DisconnectOnward
  <1>5. CASE l.req[x].type = "WRITE"
    <2>1. m \in ProcessWrite(l, x)
      BY <1>5 DEF Outcomes
    <2> QED BY <1>2, <1>5, <2>1, WriteOnward
  <1>6. CASE l.req[x].type \notin {"CONNECT", "DISCONNECT", "WRITE"}
    <2>1. m = RespondAt(l, x, "SUCCESS") /\ "SUCCESS" \in Codes
      BY <1>6 DEF Outcomes, Codes
    <2>2. Marks(l, m)
      BY <1>2, <2>1, RespondAtMarks
    <2> QED BY <2>2, MarksOnward
  <1> QED BY <1>3, <1>4, <1>5, <1>6

--------------------------------------------------------------------------------
(* Processing a request, when the link has one circuit.                       *)

\* Where a state in the ring came from, when m ended requests of b and b began x.
LEMMA BegunSerial ==
  ASSUME NEW l, NEW s, Known(l, s), Serial(l), NEW q \in 0 .. l.n_reqs - 1, NEW x,
         x = Slot(l, q), x \in Unfinished(l), NEW b, Begins(l, b, x), NEW m, Marks(b, m),
         \A i \in 0 .. q - 1 : At(l, i).state = "new" => At(m, i).state = "done"
  PROVE  Serial(m)
  <1> PICK n \in 0 .. MaxReqs : n = l.n_reqs
    BY DEF Known, Links
  <1>1. l \in Links /\ b \in Links /\ b.n_reqs = n /\ m.n_reqs = n /\ b.req[x].state = "started"
    BY BeginsKeeps DEF Known, Begins, Marks
  <1>2. \A i : Slot(b, i) = Slot(l, i) /\ Slot(m, i) = Slot(l, i)
    <2>1. \A i : Slot(b, i) = Slot(l, i)
      BY SameRing DEF Begins
    <2>2. \A i : Slot(m, i) = Slot(b, i)
      BY SameRing DEF Marks
    <2> QED BY <2>1, <2>2
  <1>3. \A i \in 0 .. n - 1 : Slot(l, i) \in Slots /\ (i # q => Slot(l, i) # x)
    BY <1>1, RingPlaces
  <1>4. \A i \in 0 .. n - 1 : i # q => At(b, i) = At(l, i)
    BY <1>2, <1>3 DEF Begins, At
  <1>5. \A i \in 0 .. n - 1 : At(m, i).state = At(b, i).state \/ At(m, i).state = "done"
    BY <1>1, <1>2, <1>3, MarksFields DEF At
  <1>6. At(b, q).state = "started"
    BY <1>1, <1>2 DEF At
  <1>7. ASSUME NEW i \in 0 .. n - 1, NEW j \in 0 .. n - 1, i < j,
               At(m, j).state = "started", At(m, i).state = "new"
        PROVE  FALSE
    <2>1. At(b, i).state = "new" /\ At(b, j).state = "started"
      BY <1>5, <1>7
    <2>2. i # q /\ At(l, i).state = "new"
      BY <1>4, <1>6, <2>1
    <2>3. CASE j = q
      <3>1. i \in 0 .. q - 1
        BY <1>7, <2>3
      <3> QED BY <1>7, <2>2, <3>1
    <2>4. CASE j # q
      <3>1. At(l, j).state = "started"
        BY <1>4, <2>1, <2>4
      <3> QED BY <1>7, <2>2, <3>1 DEF Serial
    <2> QED BY <2>3, <2>4
  <1> QED BY <1>1, <1>7 DEF Serial

\* A new request that is no write is answered, and nothing else happens.
LEMMA NewAnswered ==
  ASSUME NEW s \in 0 .. MaxRequests, NEW l, Known(l, s), Ordered(l), Proc(l),
         NEW x \in InRing(l), l.req[x].state = "new", l.req[x].type # "WRITE",
         NEW code \in Codes, NEW m, m = RespondAt(l, x, code),
         m.conn_activity = l.conn_activity, m.heard = l.heard
  PROVE  Proc(m) /\ Sound(l, m)
  <1>1. /\ l \in Links /\ x \in Slots /\ l.req[x].num # None /\ x \in Unfinished(l)
        /\ l.req[x] \in Request
    BY KnownRing DEF Known, Unfinished
  <1>2. /\ Marks(l, m) /\ SameElse(l, m) /\ Told(l, m, l.req[x], code)
        /\ \A y \in Slots \ {x} : m.req[y] = l.req[y]
        /\ m.req[x] = [l.req[x] EXCEPT !.state = "done"]
    BY <1>1, RespondAtMarks
  <1>3. m.w_buf = l.w_buf /\ m.req[x].state = "done"
    BY <1>1, <1>2 DEF Told, Request
  <1>4. \A y \in InRing(l) \ {x} : m.req[y] = l.req[y]
    BY <1>1, <1>2, RingPlaces
  <1>5. /\ m.link_state = l.link_state /\ m.conn_req_ind = l.conn_req_ind
        /\ m.w_req_ind = l.w_req_ind /\ InRing(m) = InRing(l) /\ m.conveyed = l.conveyed
    BY <1>2, SameRing DEF SameElse
  <1>6. m.w_buf[1] # None => InProc(m, m.w_req_ind[1], "WRITE")
                              /\ m.req[m.w_req_ind[1]].num = m.w_buf[1]
    BY <1>3, <1>4, <1>5 DEF Proc, InProc
  <1>7. m.conn_activity # "NO_ACTIVITY" => InProc(m, m.conn_req_ind, "CONNECT")
    BY <1>4, <1>5 DEF Proc, InProc
  <1>8. Proc(m)
    BY <1>3, <1>4, <1>5, <1>6, <1>7 DEF Proc
  <1>9. Silent(l) => Silent(m)
    BY <1>1, <1>2, <1>5, SilentMore
  <1>10. \A N : Accounts(N, l) => Accounts(N, m)
    BY <1>1, RespondAtAccounts
  <1> QED BY <1>8, <1>9, <1>10 DEF Sound

LEMMA ConnectProc ==
  ASSUME NEW s \in 0 .. MaxRequests, NPvc = 1, NEW l, Known(l, s), Settled(l), Ordered(l),
         Proc(l), NEW x, Next1st(l, x), l.req[x].type = "CONNECT", NEW m, m = ProcessConnect(l, x)
  PROVE  Proc(m) /\ Sound(l, m)
  <1>1. /\ l \in Links /\ x \in Slots /\ l.req[x].num # None /\ x \in Unfinished(l)
        /\ l.req[x] \in Request /\ x \in InRing(l) /\ l.req[x].state = "new"
    BY NextFirst, KnownRing DEF Known, Unfinished
  <1>2. "SUCCESS" \in Codes /\ "IN_PROCESSING" \in Codes
    BY DEF Codes
  <1>3. CASE l.conn_activity = "CONNECTING" /\ m = RespondAt(l, x, "IN_PROCESSING")
    <2>1. Told(l, m, l.req[x], "IN_PROCESSING")
      BY <1>1, <1>2, <1>3, RespondAtMarks
    <2>2. m.conn_activity = l.conn_activity /\ m.heard = l.heard
      BY <1>1, <2>1 DEF Told, Heard
    <2> QED BY <1>1, <1>2, <1>3, <2>2, NewAnswered
  <1>4. CASE /\ l.conn_activity = "NO_ACTIVITY" /\ l.link_state = "CONNECTED"
             /\ m = RespondAt(l, x, "SUCCESS")
    <2>1. Told(l, m, l.req[x], "SUCCESS")
      BY <1>1, <1>2, <1>4, RespondAtMarks
    <2>2. l.heard = TRUE
      BY <1>1, <1>4 DEF Proc, Links
    <2>3. m.conn_activity = l.conn_activity /\ m.heard = l.heard
      BY <1>1, <1>4, <2>1, <2>2 DEF Told, Heard
    <2> QED BY <1>1, <1>2, <1>4, <2>3, NewAnswered
  <1>5. CASE /\ l.conn_activity = "NO_ACTIVITY" /\ l.link_state = "DISCONNECTED"
             /\ m = ConnectionProcedure(Started(l, x, "CONNECTING"))
    <2> PICK b : b = Started(l, x, "CONNECTING")
      OBVIOUS
    <2>1. /\ Begins(l, b, x) /\ Known(b, s) /\ b.conn_activity = "CONNECTING"
          /\ b.conn_req_ind = x /\ b.w_buf = l.w_buf
      BY <1>1, StartedBegins
    <2>2. /\ Marks(b, m) /\ WritesEnded(b, m) /\ (Ordered(b) => Sound(b, m))
          /\ m.conn_activity = "CONNECTING" /\ m.heard = b.heard /\ m.link_state = "DISCONNECTED"
      BY <1>5, <2>1, StartConnecting
    <2>3. /\ InRing(b) = InRing(l) /\ Ordered(b) /\ (Silent(l) => Silent(b))
          /\ \A N : Accounts(N, l) => Accounts(N, b)
      BY <1>1, <2>1, BeginsKeeps
    <2>4. Sound(l, m)
      BY <2>2, <2>3 DEF Sound
    <2>5. ~ l.heard /\ l.w_buf[1] = None /\ m.heard = l.heard
          /\ \A y \in InRing(l) : l.req[y].state # "started"
      BY <1>5, <2>1, <2>2 DEF Proc, Begins
    <2>6. m.w_buf[1] = None
      BY <2>1, <2>2, <2>5 DEF Marks, Pvcs
    <2>7. InRing(m) = InRing(l) /\ m.conn_req_ind = x
      BY <2>1, <2>2, <2>3, MarksKeep DEF Marks
    <2>8. b.req[x].type = "CONNECT" /\ b.req[x].state = "started"
      BY <1>1, <2>1 DEF Begins, Request
    <2>9. InProc(m, x, "CONNECT")
      BY <1>1, <2>2, <2>3, <2>7, <2>8 DEF WritesEnded, InProc
    <2>10. ASSUME NEW y \in InRing(l), m.req[y].state = "started" PROVE y = x
      <3>1. y \in Slots /\ b \in Links
        BY <1>1, <2>1, RingPlaces DEF Begins
      <3>2. b.req[y].state = "started"
        BY <2>2, <2>10, <3>1, MarksFields
      <3> QED BY <2>1, <2>5, <3>1, <3>2 DEF Begins
    <2>11. Proc(m)
      BY <2>2, <2>5, <2>6, <2>7, <2>9, <2>10 DEF Proc
    <2> QED BY <2>4, <2>11
  <1> QED BY <1>3, <1>4, <1>5, ConnectCases

LEMMA DisconnectProc ==
  ASSUME NEW s \in 0 .. MaxRequests, NPvc = 1, NEW l, Known(l, s), Settled(l), Ordered(l),
         Serial(l), Proc(l), NEW q \in 0 .. l.n_reqs - 1, NEW x, x = Slot(l, q),
         l.req[x].state = "new", l.req[x].type = "DISCONNECT", NEW m, m = ProcessDisconnect(l, x)
  PROVE  Proc(m) /\ Sound(l, m)
  <1>1. PICK a, b :
           /\ Ended(l, a, "CONNECT", "TERMINATED", q)
           /\ Onward(l, a, s) /\ x \in Unfinished(a) /\ a.req[x] = l.req[x]
           /\ InRing(a) = InRing(l)
           /\ b = Started(a, x, "DISCONNECTING") /\ Begins(a, b, x) /\ Known(b, s)
           /\ b.w_buf = l.w_buf /\ b.conn_activity = "DISCONNECTING" /\ b.conn_req_ind = x
           /\ b.req[x].type = "DISCONNECT" /\ x \in Unfinished(b)
           /\ m = ConnectionProcedure(b)
    BY DisconnectCases
  <1>2. GivenUp(b, m, x)
    <2>1. x = b.conn_req_ind
      BY <1>1
    <2> QED BY ONLY <1>1, <2>1, s \in 0 .. MaxRequests, Disconnecting
  <1>3. /\ l \in Links /\ Known(a, s) /\ Ordered(a) /\ a \in Links /\ b \in Links
        /\ Marks(l, a) /\ (Silent(l) => Silent(a))
        /\ \A N : Accounts(N, l) => Accounts(N, a)
    BY <1>1 DEF Known, Onward, Ended, Begins
  <1>4. /\ InRing(b) = InRing(l) /\ Ordered(b) /\ (Silent(a) => Silent(b))
        /\ \A N : Accounts(N, a) => Accounts(N, b)
    BY <1>1, <1>3, BeginsKeeps
  <1>5. Sound(l, m)
    BY <1>2, <1>3, <1>4 DEF GivenUp, Sound
  <1>6. \A y \in InRing(l) : y # x => b.req[y] = a.req[y] /\ y \in Slots
    BY <1>1, <1>3, RingPlaces DEF Begins
  <1>7. ASSUME NEW y \in InRing(l), l.req[y].type = "CONNECT", l.req[y].state = "started"
        PROVE  a.req[y].state = "done"
    <2>1. PICK j \in 0 .. l.n_reqs - 1 : y = Slot(l, j) /\ l.req[y] = At(l, j)
      BY <1>3, RingPlaces
    <2>2. At(l, q) = l.req[x]
      BY DEF At
    <2>3. q \in Int /\ j \in Int /\ ~ (q < j) /\ q # j
      BY <1>3, <1>7, <2>1, <2>2, Sizes DEF Serial, Links
    <2>4. j \in 0 .. q - 1
      BY <2>3
    <2>5. At(a, j).state = "done"
      BY <1>1, <1>7, <2>1, <2>4 DEF Ended
    <2>6. At(a, j) = a.req[y]
      BY <1>3, <2>1, SameRing DEF At, Marks
    <2> QED BY <2>5, <2>6
  <1>8. ASSUME NEW y \in InRing(l), m.req[y].state = "started" PROVE FALSE
    <2>1. y # x
      BY <1>2, <1>8 DEF GivenUp
    <2>2. y \in InRing(b) \ {x}
      BY <1>4, <1>8, <2>1
    <2>3. b.req[y].type # "WRITE" /\ b.req[y] = m.req[y]
      BY <1>2, <1>8, <2>2 DEF GivenUp
    <2>4. a.req[y].state = "started" /\ a.req[y].type # "WRITE" /\ y \in Slots
      BY <1>6, <1>8, <2>1, <2>3
    <2>5. l.req[y].state = "started" /\ l.req[y].type # "WRITE"
      BY <1>3, <2>4, MarksFields
    <2>6. l.req[y].type = "CONNECT"
      BY <2>4, <2>5 DEF Settled
    <2> QED BY <1>7, <2>4, <2>5, <2>6
  <1>9. m.w_buf[1] = None
    <2>1. CASE l.w_buf[1] = None
      BY <1>1, <1>2, <2>1 DEF GivenUp, Marks, Pvcs
    <2>2. CASE l.w_buf[1] # None
      <3> PICK y : y = l.w_req_ind[1]
        OBVIOUS
      <3>1. /\ y \in InRing(l) /\ l.req[y].type = "WRITE" /\ l.req[y].state = "started"
            /\ l.req[y].num = l.w_buf[1]
        BY <2>2 DEF Proc, InProc
      <3>2. y # x /\ a.req[y] = l.req[y]
        BY <1>1, <1>6, <3>1 DEF Ended
      <3>3. b.req[y] = l.req[y] /\ y \in InRing(b)
        BY <1>4, <1>6, <3>1, <3>2
      <3> QED BY <1>1, <1>2, <3>1, <3>3 DEF GivenUp, Pvcs
    <2> QED BY <2>1, <2>2
  <1>10. InRing(m) = InRing(l)
    BY <1>1, <1>2, <1>4, MarksKeep DEF GivenUp
  <1>11. Idle(m)
    BY <1>2, <1>8, <1>9, <1>10 DEF GivenUp, Idle
  <1> QED BY <1>5, <1>11, IdleProc

\* Which write may reach the other side: one with no older write left.
InTurn(l, n) ==
  \A x, y \in Unfinished(l) :
    l.req[x].type = "WRITE" /\ l.req[y].type = "WRITE" /\ l.req[x].num < l.req[y].num
      => n # l.req[y].num

LEMMA NoneInTurn ==
  ASSUME NEW l, NEW s, Known(l, s)
  PROVE  InTurn(l, None)
  <1>1. \A y \in Unfinished(l) : l.req[y].num # None
    BY KnownRing DEF Unfinished
  <1> QED BY <1>1 DEF InTurn

\* A write with no other unfinished write in front of it is in turn.
LEMMA FrontInTurn ==
  ASSUME NEW l, NEW s, Known(l, s), Ordered(l), NEW q \in 0 .. l.n_reqs - 1,
         \A i \in 0 .. q - 1 : At(l, i).type = "WRITE" => At(l, i).state = "done"
  PROVE  InTurn(l, At(l, q).num)
  <1>1. l \in Links
    BY DEF Known
  <1>2. ASSUME NEW x \in Unfinished(l), NEW y \in Unfinished(l), l.req[x].type = "WRITE",
               l.req[x].num < l.req[y].num, At(l, q).num = l.req[y].num
        PROVE  FALSE
    <2>1. x \in InRing(l) /\ y \in InRing(l) /\ l.req[x].state # "done"
      BY DEF Unfinished
    <2>2. PICK i \in 0 .. l.n_reqs - 1 : x = Slot(l, i) /\ l.req[x] = At(l, i)
      BY <1>1, <2>1, RingPlaces
    <2>3. l.req[x].num \in Int /\ At(l, q).num \in Int
      <3>1. x \in Slots /\ Slot(l, q) \in Slots /\ At(l, q) = l.req[Slot(l, q)]
        BY <1>1, <2>1, RingPlaces
      <3> QED BY <1>1, <3>1 DEF Links, Request
    <2>4. i \in Int /\ q \in Int /\ ~ (q < i) /\ q # i
      BY <1>1, <1>2, <2>2, <2>3 DEF Ordered
    <2>5. i \in 0 .. q - 1
      BY <2>4
    <2> QED BY <1>2, <2>1, <2>2, <2>5
  <1> QED BY <1>2 DEF InTurn

\* The write in processing is in turn.
LEMMA CircuitInTurn ==
  ASSUME NPvc = 1, NEW l, NEW s, Known(l, s), Ordered(l), Serial(l), Proc(l),
         l.w_buf[1] # None
  PROVE  InTurn(l, l.w_buf[1])
  <1> PICK x : x = l.w_req_ind[1]
    OBVIOUS
  <1>1. /\ l \in Links /\ x \in InRing(l) /\ l.req[x].type = "WRITE"
        /\ l.req[x].state = "started" /\ l.req[x].num = l.w_buf[1]
        /\ l.conn_activity = "NO_ACTIVITY"
    BY DEF Proc, InProc, Known
  <1>2. PICK q \in 0 .. l.n_reqs - 1 : x = Slot(l, q) /\ l.req[x] = At(l, q)
    BY <1>1, RingPlaces
  <1>3. ASSUME NEW i \in 0 .. q - 1 PROVE At(l, i).state = "done"
    <2>1. i \in 0 .. l.n_reqs - 1 /\ i < q /\ i # q
      BY <1>1, Sizes DEF Links
    <2>2. /\ Slot(l, i) \in InRing(l) /\ Slot(l, i) # x /\ At(l, i) = l.req[Slot(l, i)]
          /\ At(l, i) \in Request
      BY <1>1, <1>2, <2>1, RingPlaces DEF Links
    <2>3. At(l, i).state # "started"
      BY <1>1, <2>2 DEF Proc
    <2>4. At(l, i).state # "new"
      BY <1>1, <1>2, <2>1 DEF Serial
    <2> QED BY <2>2, <2>3, <2>4 DEF Request
  <1> QED BY <1>1, <1>2, <1>3, FrontInTurn

LEMMA WriteProc ==
  ASSUME NEW s \in 0 .. MaxRequests, NPvc = 1, NEW l, Known(l, s), Settled(l), Ordered(l),
         Serial(l), Proc(l), Silent(l), NEW x, Next1st(l, x), l.req[x].type = "WRITE",
         NEW m \in ProcessWrite(l, x)
  PROVE  /\ Proc(m) /\ Truth(m) /\ InTurn(l, m.conveyed)
         /\ \A N : Accounts(N, l) => Accounts(N, m)
  <1>1. PICK q \in 0 .. l.n_reqs - 1 :
          /\ x = Slot(l, q) /\ l.req[x] = At(l, q)
          /\ \A j \in 0 .. q - 1 : At(l, j).state # "new"
    BY NextFirst
  <1>2. /\ x \in InRing(l) /\ x \in Slots /\ x \in Unfinished(l) /\ l.req[x] \in Request
        /\ l.req[x].num # None /\ l.req[x].state = "new" /\ l \in Links
    BY NextFirst, KnownRing DEF Unfinished, Known
  <1>3. l.req[x].parm = 1 /\ 1 \in Pvcs
    BY <1>2 DEF Known, Pvcs
  <1>4. CASE m = l
    <2>1. m.conveyed = None
      BY <1>4 DEF Silent
    <2> QED BY <1>4, <2>1, SilentTruth, NoneInTurn
  <1>5. CASE l.w_buf[1] = None /\ m \in WriteOutcomes(WriteBegun(l, x, 1), 1)
    <2> PICK b : b = WriteBegun(l, x, 1)
      OBVIOUS
    <2>1. /\ Begins(l, b, x) /\ Known(b, s) /\ b.conn_activity = l.conn_activity
          /\ b.conn_req_ind = l.conn_req_ind
          /\ b.w_buf[1] = l.req[x].num /\ b.w_req_ind[1] = x
      BY ONLY <1>2, <1>3, b = WriteBegun(l, x, 1), Known(l, s), s \in 0 .. MaxRequests, WriteBegins
    <2>2. /\ InRing(b) = InRing(l) /\ Ordered(b) /\ Silent(b) /\ b.req[x].state = "started"
          /\ b.req[x].type = "WRITE" /\ b.req[x].num = l.req[x].num
          /\ \A N : Accounts(N, l) => Accounts(N, b)
      BY <1>2, <2>1, BeginsKeeps
    <2>3. \A y \in InRing(l) \ {x} : b.req[y] = l.req[y]
      BY <1>2, <2>1, RingPlaces DEF Begins
    <2>4. b.link_state = l.link_state /\ b.heard = l.heard
      BY <2>1 DEF Begins
    <2>5. b.conn_activity # "NO_ACTIVITY" => InProc(b, b.conn_req_ind, "CONNECT")
      BY <1>2, <2>1, <2>2, <2>3 DEF Proc, InProc
    <2>6. \A y \in InRing(b) : b.req[y].state = "started" =>
            y = x \/ (b.conn_activity # "NO_ACTIVITY" /\ y = b.conn_req_ind)
      BY <1>5, <2>1, <2>2, <2>3 DEF Proc
    <2>7. Busy(b)
      BY <1>2, <2>1, <2>2, <2>4, <2>5, <2>6 DEF Proc, Busy, InProc
    <2>8. /\ Proc(m) /\ Truth(m) /\ m.conveyed \in {None, b.w_buf[1]}
          /\ \A N : Accounts(N, b) => Accounts(N, m)
      BY <1>5, <2>1, <2>2, <2>7, WriteResult
    <2>9. ASSUME NEW i \in 0 .. q - 1, At(l, i).type = "WRITE" PROVE At(l, i).state = "done"
      <3>1. i \in 0 .. l.n_reqs - 1
        BY <1>2, Sizes DEF Links
      <3>2. Slot(l, i) \in InRing(l) /\ At(l, i) = l.req[Slot(l, i)] /\ At(l, i) \in Request
        BY <1>2, <3>1, RingPlaces DEF Links
      <3>3. At(l, i).state # "started"
        BY <1>5, <2>9, <3>2 DEF Proc, InProc
      <3> QED BY <1>1, <3>2, <3>3 DEF Request
    <2>10. InTurn(l, l.req[x].num)
      BY <1>1, <2>9, FrontInTurn
    <2>11. InTurn(l, m.conveyed)
      BY <2>1, <2>8, <2>10, NoneInTurn
    <2> QED BY <2>2, <2>8, <2>11
  <1> QED BY <1>3, <1>4, <1>5, WriteCases

\* What a step without new requests does to a link with one circuit.
Served(l, m) ==
  /\ Serial(m)
  /\ Proc(l) => /\ Proc(m) /\ Truth(m) /\ InTurn(l, m.conveyed)
                /\ \A N : Accounts(N, l) => Accounts(N, m)

LEMMA SoundServed ==
  ASSUME NEW l, NEW s, Known(l, s), Silent(l), NEW m, Serial(m), Proc(l) => Proc(m) /\ Sound(l, m)
  PROVE  Served(l, m)
  <1>1. ASSUME Proc(l)
        PROVE  /\ Proc(m) /\ Truth(m) /\ InTurn(l, m.conveyed)
               /\ \A N : Accounts(N, l) => Accounts(N, m)
    <2>1. Silent(m) /\ m.conveyed = None
      BY <1>1 DEF Sound, Silent
    <2> QED BY <1>1, <2>1, SilentTruth, NoneInTurn DEF Sound
  <1> QED BY <1>1 DEF Served

LEMMA ConnectServed ==
  ASSUME NEW s \in 0 .. MaxRequests, NPvc = 1, NEW l, Known(l, s), Settled(l), Ordered(l),
         Serial(l), Silent(l), NEW x, Next1st(l, x), l.req[x].type = "CONNECT",
         NEW m, m = ProcessConnect(l, x)
  PROVE  Served(l, m)
  <1>1. PICK q \in 0 .. l.n_reqs - 1 :
          /\ x = Slot(l, q)
          /\ \A j \in 0 .. q - 1 : At(l, j).state = "new" => At(l, j).type = "WRITE"
    BY NextFirst
  <1>2. /\ x \in Slots /\ x \in Unfinished(l) /\ l.req[x].num # None /\ l \in Links
        /\ l.req[x] \in Request
    BY NextFirst, KnownRing DEF Unfinished, Known
  <1>3. "SUCCESS" \in Codes /\ "IN_PROCESSING" \in Codes
    BY DEF Codes
  <1>4. Proc(l) => Proc(m) /\ Sound(l, m)
    BY ConnectProc
  <1>5. CASE m = RespondAt(l, x, "SUCCESS") \/ m = RespondAt(l, x, "IN_PROCESSING")
    <2> PICK code \in Codes : m = RespondAt(l, x, code)
      BY <1>3, <1>5
    <2>1. x \in Slots /\ l.req[x].num # None
      BY <1>2
    <2>2. Marks(l, m)
      BY ONLY <2>1, s \in 0 .. MaxRequests, Known(l, s), code \in Codes, m = RespondAt(l, x, code),
              RespondAtMarks
    <2>3. Serial(m)
      BY <1>2, <2>2, MarksSettled
    <2> QED BY <1>4, <2>3, SoundServed
  <1>6. CASE m = ConnectionProcedure(Started(l, x, "CONNECTING"))
    <2> PICK b : b = Started(l, x, "CONNECTING")
      OBVIOUS
    <2>1. Begins(l, b, x) /\ Known(b, s) /\ b.conn_activity = "CONNECTING"
      BY <1>2, StartedBegins
    <2>2. Marks(b, m) /\ WritesEnded(b, m)
      BY <1>6, <2>1, StartConnecting
    <2>3. \A y \in Slots \ {x} : b.req[y] = l.req[y]
      BY <2>1 DEF Begins
    <2>4. ASSUME NEW i \in 0 .. q - 1, At(l, i).state = "new" PROVE At(m, i).state = "done"
      <3>1. i \in 0 .. l.n_reqs - 1 /\ i # q
        BY <1>2, Sizes DEF Links
      <3> PICK y : y = Slot(l, i)
        OBVIOUS
      <3>2. y \in InRing(l) /\ At(l, i) = l.req[y] /\ y \in Slots /\ y # x
        BY <1>1, <1>2, <3>1, RingPlaces
      <3>3. InRing(b) = InRing(l) /\ Slot(m, i) = y
        BY <2>1, <2>2, SameRing DEF Begins, Marks
      <3>4. b.req[y].type = "WRITE"
        BY <1>1, <2>3, <2>4, <3>2
      <3>5. m.req[y].state = "done"
        BY <2>2, <3>2, <3>3, <3>4 DEF WritesEnded
      <3> QED BY <3>3, <3>5 DEF At
    <2>5. Serial(m)
      BY <1>1, <1>2, <2>1, <2>2, <2>4, BegunSerial
    <2> QED BY <1>4, <2>5, SoundServed
  <1> QED BY <1>5, <1>6, ConnectCases

LEMMA DisconnectServed ==
  ASSUME NEW s \in 0 .. MaxRequests, NPvc = 1, NEW l, Known(l, s), Settled(l), Ordered(l),
         Serial(l), Silent(l), NEW q \in 0 .. l.n_reqs - 1, NEW x, x = Slot(l, q),
         l.req[x].state = "new", l.req[x].type = "DISCONNECT", NEW m, m = ProcessDisconnect(l, x)
  PROVE  Served(l, m)
  <1>1. PICK a, b :
           /\ Ended(l, a, "CONNECT", "TERMINATED", q)
           /\ Onward(l, a, s) /\ x \in Unfinished(a) /\ a.req[x] = l.req[x]
           /\ InRing(a) = InRing(l)
           /\ b = Started(a, x, "DISCONNECTING") /\ Begins(a, b, x) /\ Known(b, s)
           /\ b.w_buf = l.w_buf /\ b.conn_activity = "DISCONNECTING" /\ b.conn_req_ind = x
           /\ b.req[x].type = "DISCONNECT" /\ x \in Unfinished(b)
           /\ m = ConnectionProcedure(b)
    BY DisconnectCases
  <1>2. GivenUp(b, m, x)
    <2>1. x = b.conn_req_ind
      BY <1>1
    <2> QED BY ONLY <1>1, <2>1, s \in 0 .. MaxRequests, Disconnecting
  <1> PICK n \in 0 .. MaxReqs : n = l.n_reqs
    BY DEF Known, Links
  <1>3. /\ l \in Links /\ a \in Links /\ b \in Links /\ Marks(l, a) /\ Marks(b, m)
        /\ m.n_reqs = n
    BY <1>1, <1>2 DEF Known, Ended, Begins, Marks, GivenUp
  <1>4. Serial(a)
    BY <1>3, MarksSettled
  <1>5. \A i : Slot(b, i) = Slot(l, i) /\ Slot(m, i) = Slot(l, i) /\ Slot(a, i) = Slot(l, i)
    <2>1. \A i : Slot(a, i) = Slot(l, i)
      BY <1>3, SameRing DEF Marks
    <2>2. \A i : Slot(b, i) = Slot(a, i)
      BY <1>1, SameRing DEF Begins
    <2>3. m.st_ind = b.st_ind /\ m.n_reqs = b.n_reqs
      BY <1>3 DEF Marks
    <2>4. \A i : Slot(m, i) = Slot(b, i)
      BY ONLY <2>3, SameRing
    <2> QED BY <2>1, <2>2, <2>4
  <1>6. ASSUME NEW i \in 0 .. n - 1
        PROVE  At(m, i).state = "done" \/ At(m, i).state = At(a, i).state
    <2> PICK y : y = Slot(l, i)
      OBVIOUS
    <2>1. y \in Slots /\ At(m, i) = m.req[y] /\ At(a, i) = a.req[y]
      BY <1>3, <1>5, RingPlaces DEF At
    <2>2. m.req[y].state = "done" \/ m.req[y].state = b.req[y].state
      BY <1>3, <2>1, MarksFields
    <2>3. y = x => m.req[y].state = "done"
      BY <1>2 DEF GivenUp
    <2>4. y # x => b.req[y] = a.req[y]
      BY <1>1, <2>1 DEF Begins
    <2> QED BY <2>1, <2>2, <2>3, <2>4
  <1>7. Serial(m)
    BY <1>3, <1>4, <1>6 DEF Serial, Marks
  <1>8. Proc(l) => Proc(m) /\ Sound(l, m)
    BY DisconnectProc
  <1> QED BY <1>7, <1>8, SoundServed

LEMMA WriteServed ==
  ASSUME NEW s \in 0 .. MaxRequests, NPvc = 1, NEW l, Known(l, s), Settled(l), Ordered(l),
         Serial(l), Silent(l), NEW x, Next1st(l, x), l.req[x].type = "WRITE",
         NEW m \in ProcessWrite(l, x)
  PROVE  Served(l, m)
  <1>1. PICK q \in 0 .. l.n_reqs - 1 :
          x = Slot(l, q) /\ \A j \in 0 .. q - 1 : At(l, j).state # "new"
    BY NextFirst
  <1>2. /\ x \in Unfinished(l) /\ l.req[x].num # None /\ l \in Links
        /\ l.req[x] \in Request
    BY NextFirst, KnownRing DEF Unfinished, Known
  <1>3. l.req[x].parm = 1 /\ 1 \in Pvcs
    BY <1>2, KnownRing DEF Known, Pvcs, Unfinished
  <1>4. Serial(m)
    <2>1. CASE m = l
      BY <2>1
    <2>2. CASE m \in WriteOutcomes(WriteBegun(l, x, 1), 1)
      <3> PICK b : b = WriteBegun(l, x, 1)
        OBVIOUS
      <3>1. /\ Begins(l, b, x) /\ Known(b, s) /\ b.conn_activity = l.conn_activity
            /\ b.w_buf[1] = l.req[x].num
        BY ONLY <1>2, <1>3, b = WriteBegun(l, x, 1), Known(l, s), s \in 0 .. MaxRequests,
                WriteBegins
      <3>2. Marks(b, m)
        BY <1>2, <1>3, <2>2, <3>1, WriteMarks DEF Settled
      <3> QED BY <1>1, <1>2, <3>1, <3>2, BegunSerial
    <2> QED BY <1>3, <2>1, <2>2, WriteCases
  <1> QED BY <1>4, WriteProc DEF Served

LEMMA ProcessServed ==
  ASSUME NEW s \in 0 .. MaxRequests, NPvc = 1, NEW l, Known(l, s), Settled(l), Ordered(l),
         Serial(l), Silent(l), NEW x, Next1st(l, x), NEW m \in Outcomes(l, x)
  PROVE  Served(l, m)
  <1>1. PICK q \in 0 .. l.n_reqs - 1 : x = Slot(l, q) /\ l.req[x].state = "new"
    BY NextFirst
  <1>2. /\ x \in Unfinished(l) /\ x \in Slots /\ l.req[x].num # None /\ l \in Links
        /\ x \in InRing(l)
    BY NextFirst, KnownRing DEF Unfinished, Known
  <1>3. CASE l.req[x].type = "CONNECT"
    <2>1. m = ProcessConnect(l, x)
      BY <1>3 DEF Outcomes
    <2> QED BY <1>3, <2>1, ConnectServed
  <1>4. CASE l.req[x].type = "DISCONNECT"
    <2>1. m = ProcessDisconnect(l, x)
      BY <1>4 DEF Outcomes
    <2> QED BY <1>1, <1>4, <2>1, DisconnectServed
  <1>5. CASE l.req[x].type = "WRITE"
    <2>1. m \in ProcessWrite(l, x)
      BY <1>5 DEF Outcomes
    <2> QED BY <1>5, <2>1, WriteServed
  <1>6. CASE l.req[x].type \notin {"CONNECT", "DISCONNECT", "WRITE"}
    <2>1. m = RespondAt(l, x, "SUCCESS") /\ "SUCCESS" \in Codes
      BY <1>6 DEF Outcomes, Codes
    <2>2. Marks(l, m) /\ Told(l, m, l.req[x], "SUCCESS")
      BY <1>2, <2>1, RespondAtMarks
    <2>3. Serial(m)
      BY <1>2, <2>2, MarksSettled
    <2>4. m.conn_activity = l.conn_activity /\ m.heard = l.heard
      BY <1>6, <2>2 DEF Told, Heard
    <2>5. Proc(l) => Proc(m) /\ Sound(l, m)
      BY <1>1, <1>2, <1>6, <2>1, <2>4, NewAnswered
    <2> QED BY <2>3, <2>5, SoundServed
  <1> QED BY <1>3, <1>4, <1>5, <1>6

--------------------------------------------------------------------------------
(* Reading a request: the ring changes.                                       *)

\* Some of the requests in the ring are gone, and places were copied.
LEMMA KeptKeeps ==
  ASSUME NEW l, NEW s, Known(l, s), NEW m, SameButRing(l, m), NEW f, Kept(l, m, f)
  PROVE  /\ Known(m, s) /\ (Ordered(l) => Ordered(m)) /\ (Serial(l) => Serial(m))
         /\ (Settled(l) => Settled(m)) /\ Live(m) \subseteq Live(l) /\ (Silent(l) => Silent(m))
         /\ Answered(m) = Answered(l) /\ m.out = l.out /\ m.gone = l.gone
         /\ m.forgotten = l.forgotten /\ m.conveyed = l.conveyed
         /\ m.conn_activity = l.conn_activity /\ m.conn_req_ind = l.conn_req_ind
         /\ m.w_buf = l.w_buf /\ m.w_req_ind = l.w_req_ind
         /\ m.link_state = l.link_state /\ m.heard = l.heard
  <1> PICK n \in 0 .. MaxReqs : n = l.n_reqs
    BY DEF Known, Links
  <1> PICK k \in 0 .. MaxReqs : k = m.n_reqs
    BY DEF SameButRing, Links
  <1>1. l \in Links /\ m \in Links
    BY DEF Known, SameButRing
  <1>2. /\ m.out = l.out /\ m.gone = l.gone
        /\ m.forgotten = l.forgotten /\ m.conveyed = l.conveyed
        /\ m.conn_activity = l.conn_activity /\ m.conn_req_ind = l.conn_req_ind
        /\ m.w_buf = l.w_buf /\ m.w_req_ind = l.w_req_ind
        /\ m.link_state = l.link_state /\ m.heard = l.heard
    <2> PICK rq : rq = m.req
      OBVIOUS
    <2> PICK si : si = m.st_ind
      OBVIOUS
    <2>1. m = [l EXCEPT !.st_ind = si, !.req = rq, !.n_reqs = k]
      BY DEF SameButRing
    <2> QED BY <1>1, <2>1 DEF Links
  <1>3. /\ f \in [0 .. k - 1 -> 0 .. n - 1]
        /\ \A p, q \in 0 .. k - 1 : p < q => f[p] < f[q]
        /\ \A p \in 0 .. k - 1 : At(m, p) = At(l, f[p])
    BY DEF Kept
  <1>4. \A x \in Slots : m.req[x] = l.req[x] \/ \E y \in Slots : m.req[x] = l.req[y] /\ y \in InRing(l)
    BY <1>1, RingPlaces DEF SameButRing
  <1>5. Known(m, s)
    <2>1. \A x \in Slots : m.req[x].num # None =>
            /\ m.req[x].num \in 1 .. s
            /\ m.req[x].type = "WRITE" => m.req[x].parm \in Pvcs
      BY <1>4 DEF Known
    <2>2. \A i \in 0 .. k - 1 : At(m, i).num # None
      BY <1>3 DEF Known
    <2>3. \A x \in Slots : l.req[x].num # None => m.req[x].num # None
      BY <1>4, KnownRing
    <2>4. (\A p \in Pvcs : l.w_req_ind[p] \in Slots) /\ l.conn_req_ind \in Slots
      BY <1>1 DEF Links
    <2> QED BY <1>1, <1>2, <2>1, <2>2, <2>3, <2>4 DEF Known
  <1>6. Ordered(l) => Ordered(m)
    BY <1>3 DEF Ordered
  <1>7. Serial(l) => Serial(m)
    BY <1>3 DEF Serial
  <1>8. Settled(l) => Settled(m)
    BY <1>2, <1>4 DEF Settled
  <1>9. Live(m) \subseteq Live(l)
    <2>1. ASSUME NEW x \in InRing(m), m.req[x].state # "done" PROVE m.req[x].num \in Live(l)
      <3>1. PICK i \in 0 .. k - 1 : m.req[x] = At(m, i)
        BY <1>1, <2>1, RingPlaces
      <3>2. f[i] \in 0 .. n - 1 /\ At(m, i) = At(l, f[i])
        BY <1>3
      <3>3. Slot(l, f[i]) \in InRing(l) /\ At(l, f[i]) = l.req[Slot(l, f[i])]
        BY <1>1, <3>2, RingPlaces
      <3> QED BY <2>1, <3>1, <3>2, <3>3 DEF Live, Unfinished
    <2> QED BY <2>1 DEF Live, Unfinished
  <1>10. Answered(m) = Answered(l) /\ (Silent(l) => Silent(m))
    BY <1>2 DEF Answered, Silent
  <1> QED BY <1>2, <1>5, <1>6, <1>7, <1>8, <1>9, <1>10

\* Who is in processing kept its place.
LEMMA KeptProc ==
  ASSUME NEW l, NEW s, Known(l, s), NEW m, SameButRing(l, m), NEW f, Kept(l, m, f), Proc(l),
         \A q \in 0 .. l.n_reqs - 1 : At(l, q).state = "started" =>
           \E p \in 0 .. m.n_reqs - 1 : f[p] = q /\ Slot(m, p) = Slot(l, q)
  PROVE  Proc(m)
  <1> PICK n \in 0 .. MaxReqs : n = l.n_reqs
    BY DEF Known, Links
  <1> PICK k \in 0 .. MaxReqs : k = m.n_reqs
    BY DEF SameButRing, Links
  <1>1. l \in Links /\ m \in Links
    BY DEF Known, SameButRing
  <1>2. /\ m.conn_activity = l.conn_activity /\ m.conn_req_ind = l.conn_req_ind
        /\ m.w_buf = l.w_buf /\ m.w_req_ind = l.w_req_ind
        /\ m.link_state = l.link_state /\ m.heard = l.heard
    BY KeptKeeps
  <1>3. /\ f \in [0 .. k - 1 -> 0 .. n - 1]
        /\ \A p, q \in 0 .. k - 1 : p < q => f[p] < f[q]
        /\ \A p \in 0 .. k - 1 : At(m, p) = At(l, f[p])
    BY DEF Kept
  <1>4. ASSUME NEW x \in InRing(l), l.req[x].state = "started"
        PROVE  x \in InRing(m) /\ m.req[x] = l.req[x]
    <2>1. PICK q \in 0 .. n - 1 : x = Slot(l, q) /\ l.req[x] = At(l, q)
      BY <1>1, RingPlaces
    <2>2. PICK p \in 0 .. k - 1 : f[p] = q /\ Slot(m, p) = Slot(l, q)
      BY <1>4, <2>1
    <2>3. At(m, p) = m.req[x] /\ x \in InRing(m)
      BY <1>1, <2>1, <2>2, RingPlaces
    <2> QED BY <1>3, <2>1, <2>2, <2>3
  <1>5. ASSUME NEW x \in InRing(m), m.req[x].state = "started"
        PROVE  x \in InRing(l) /\ l.req[x].state = "started"
    <2>1. PICK p \in 0 .. k - 1 : x = Slot(m, p) /\ m.req[x] = At(m, p)
      BY <1>1, RingPlaces
    <2>2. f[p] \in 0 .. n - 1 /\ At(l, f[p]) = m.req[x]
      BY <1>3, <2>1
    <2>3. PICK p2 \in 0 .. k - 1 : f[p2] = f[p] /\ Slot(m, p2) = Slot(l, f[p])
      BY <1>5, <2>2
    <2>4. p2 = p
      <3>1. ~ (p2 < p) /\ ~ (p < p2)
        BY <1>3, <2>2, <2>3
      <3> QED BY <3>1
    <2>5. x = Slot(l, f[p])
      BY <2>1, <2>3, <2>4
    <2> QED BY <1>1, <1>5, <2>2, <2>5, RingPlaces
  <1>6. m.w_buf[1] # None => InProc(m, m.w_req_ind[1], "WRITE")
                              /\ m.req[m.w_req_ind[1]].num = m.w_buf[1]
    BY <1>2, <1>4 DEF Proc, InProc
  <1>7. m.conn_activity # "NO_ACTIVITY" => InProc(m, m.conn_req_ind, "CONNECT")
    BY <1>2, <1>4 DEF Proc, InProc
  <1> QED BY <1>2, <1>5, <1>6, <1>7 DEF Proc

\* One request at most is in processing, and no other unfinished one stands in front of it.
LEMMA FirstLive ==
  ASSUME NEW l, NEW s, Known(l, s), Serial(l), Proc(l), NEW q \in 0 .. l.n_reqs - 1,
         At(l, q).state = "started"
  PROVE  /\ \A i \in 0 .. q - 1 : At(l, i).state = "done"
         /\ \A i \in 0 .. l.n_reqs - 1 : At(l, i).state = "started" => i = q
  <1> PICK n \in 0 .. MaxReqs : n = l.n_reqs
    BY DEF Known, Links
  <1>1. \A i \in 0 .. n - 1 : /\ Slot(l, i) \in InRing(l) /\ Offset(l, Slot(l, i)) = i
                              /\ At(l, i) = l.req[Slot(l, i)] /\ At(l, i) \in Request
    BY RingPlaces DEF Known, Links
  <1>2. l.w_buf[1] # None => l.conn_activity = "NO_ACTIVITY"
    BY DEF Proc
  <1>3. ASSUME NEW i \in 0 .. n - 1, At(l, i).state = "started" PROVE i = q
    <2>1. Slot(l, i) = Slot(l, q)
      BY <1>1, <1>2, <1>3 DEF Proc
    <2> QED BY <1>1, <2>1
  <1>4. ASSUME NEW i \in 0 .. q - 1 PROVE At(l, i).state = "done"
    <2>1. i \in 0 .. n - 1 /\ i < q /\ i # q
      OBVIOUS
    <2>2. At(l, i).state # "new"
      BY <2>1 DEF Serial
    <2> QED BY <1>1, <1>3, <2>1, <2>2 DEF Request
  <1> QED BY <1>3, <1>4

\* The request stands between two finished ones: BetweenFinished for any link.
Between(l, n) ==
  \E i, j, k \in 0 .. l.n_reqs - 1 :
    /\ i < j /\ j < k /\ l.req[Slot(l, j)].num = n
    /\ l.req[Slot(l, i)].state = "done" /\ l.req[Slot(l, k)].state = "done"

\* Rm_done_requests
LEMMA RoomResult ==
  ASSUME NEW l, NEW s, Known(l, s), NEW m, m = RmDoneRequests(l)
  PROVE  \E f : /\ SameButRing(l, m) /\ Kept(l, m, f)
                /\ Serial(l) /\ Proc(l) => Proc(m)
                /\ \A n \in Live(l) : n \in Live(m) \/ Between(l, n)
  <1>1. l \in Links
    BY DEF Known
  <1>2. PICK f :
           /\ SameButRing(l, m)
           /\ Kept(l, m, f)
           /\ \A q \in 0 .. l.n_reqs - 1 :
                At(l, q).state # "done" /\ (\A i \in 0 .. q - 1 : At(l, i).state = "done")
                  => 0 < m.n_reqs /\ f[0] = q /\ Slot(m, 0) = Slot(l, q)
           /\ \A q \in 0 .. l.n_reqs - 1 :
                At(l, q).state # "done" =>
                  \/ \E p \in 0 .. m.n_reqs - 1 : f[p] = q
                  \/ \E i, j \in 0 .. l.n_reqs - 1 :
                       i < q /\ q < j /\ At(l, i).state = "done" /\ At(l, j).state = "done"
    BY <1>1, RmDoneResult
  <1>3. m \in Links /\ m.n_reqs \in 0 .. MaxReqs
    BY <1>2 DEF SameButRing, Links
  <1>4. ASSUME Serial(l), Proc(l) PROVE Proc(m)
    <2>1. ASSUME NEW q \in 0 .. l.n_reqs - 1, At(l, q).state = "started"
          PROVE  \E p \in 0 .. m.n_reqs - 1 : f[p] = q /\ Slot(m, p) = Slot(l, q)
      <3>1. \A i \in 0 .. q - 1 : At(l, i).state = "done"
        BY <1>4, <2>1, FirstLive
      <3>2. 0 < m.n_reqs /\ f[0] = q /\ Slot(m, 0) = Slot(l, q)
        BY <1>2, <2>1, <3>1
      <3>3. 0 \in 0 .. m.n_reqs - 1
        BY <1>3, <3>2, Sizes
      <3> QED BY <3>2, <3>3
    <2> QED BY <1>2, <1>4, <2>1, KeptProc
  <1>5. ASSUME NEW n \in Live(l) PROVE n \in Live(m) \/ Between(l, n)
    <2>1. PICK x \in InRing(l) : l.req[x].state # "done" /\ l.req[x].num = n
      BY DEF Live, Unfinished
    <2>2. PICK q \in 0 .. l.n_reqs - 1 : x = Slot(l, q) /\ l.req[x] = At(l, q)
      BY <1>1, RingPlaces
    <2>3. CASE \E p \in 0 .. m.n_reqs - 1 : f[p] = q
      <3>1. PICK p \in 0 .. m.n_reqs - 1 : f[p] = q
        BY <2>3
      <3>2. At(m, p) = At(l, q)
        BY <1>2, <3>1 DEF Kept
      <3>3. Slot(m, p) \in InRing(m) /\ At(m, p) = m.req[Slot(m, p)]
        BY <1>3, RingPlaces
      <3>4. Slot(m, p) \in Unfinished(m) /\ m.req[Slot(m, p)].num = n
        BY <2>1, <2>2, <3>2, <3>3 DEF Unfinished
      <3> QED BY <3>4 DEF Live
    <2>4. CASE \E i, j \in 0 .. l.n_reqs - 1 :
                 i < q /\ q < j /\ At(l, i).state = "done" /\ At(l, j).state = "done"
      BY <2>1, <2>2, <2>4 DEF Between, At
    <2> QED BY <1>2, <2>1, <2>2, <2>3, <2>4
  <1> QED BY <1>2, <1>4, <1>5

\* A request as the user sends it, after s others.
Sent(r, s) == r \in Request /\ r.num = s + 1 /\ r.state = "new"

\* Who came from l to m: at most the new request, answered or not.
LEMMA PutResult ==
  ASSUME NEW s \in 0 .. MaxRequests, NEW l, Known(l, s), l.n_reqs < MaxReqs,
         NEW r, Sent(r, s), r.type = "WRITE" => r.parm \in Pvcs, NEW m, m = Put(l, r)
  PROVE  /\ Known(m, s + 1) /\ (Ordered(l) => Ordered(m)) /\ (Serial(l) => Serial(m))
         /\ (Settled(l) => Settled(m)) /\ (Silent(l) => Silent(m)) /\ (Proc(l) => Proc(m))
         /\ Live(m) = Live(l) \cup {s + 1}
         /\ m.out = l.out /\ m.gone = l.gone /\ m.forgotten = l.forgotten
  <1> PICK n \in 0 .. MaxReqs : n = l.n_reqs
    BY DEF Known, Links
  <1> PICK y : y = Slot(l, n)
    OBVIOUS
  <1> PICK v : v = [l.req EXCEPT ![y] = r]
    OBVIOUS
  <1>1. /\ l \in Links /\ n \in 0 .. MaxReqs - 1 /\ n + 1 \in 0 .. MaxReqs /\ y \in Slots
        /\ Offset(l, y) = n
    <2>1. l \in Links /\ n \in 0 .. MaxReqs - 1 /\ n + 1 \in 0 .. MaxReqs
      BY Sizes DEF Known
    <2>2. l.st_ind \in Slots /\ n \in Slots
      BY <2>1 DEF Links, Slots
    <2> QED BY <2>1, <2>2, SlotIs, OffsetSlot
  <1>2. m = [l EXCEPT !.req = v, !.n_reqs = n + 1]
    BY <1>1 DEF Put, Links
  <1>3. v \in [Slots -> Request]
    BY <1>1 DEF Links, Sent
  <1>4. /\ m \in Links /\ m.req = v /\ m.n_reqs = n + 1 /\ m.st_ind = l.st_ind
        /\ m.out = l.out /\ m.gone = l.gone /\ m.forgotten = l.forgotten
        /\ m.conveyed = l.conveyed /\ m.conn_activity = l.conn_activity
        /\ m.conn_req_ind = l.conn_req_ind /\ m.w_buf = l.w_buf /\ m.w_req_ind = l.w_req_ind
        /\ m.link_state = l.link_state /\ m.heard = l.heard
    BY <1>1, <1>2, <1>3 DEF Links
  <1>5. v[y] = r /\ \A x \in Slots \ {y} : v[x] = l.req[x]
    BY <1>1 DEF Links
  <1>6. \A i : Slot(m, i) = Slot(l, i)
    BY <1>4 DEF Slot
  <1>7. \A i \in 0 .. n - 1 : /\ Slot(l, i) \in Slots \ {y} /\ i \in 0 .. n
                              /\ Slot(l, i) \in InRing(l) /\ At(l, i) = l.req[Slot(l, i)]
    <2>1. ASSUME NEW i \in 0 .. n - 1 PROVE i # n /\ i \in 0 .. n
      OBVIOUS
    <2> QED BY <1>1, <2>1, RingPlaces
  <1>8. (\A i \in 0 .. n - 1 : At(m, i) = At(l, i)) /\ At(m, n) = r
    BY <1>4, <1>5, <1>6, <1>7 DEF At
  <1>9. \A i \in 0 .. n : i = n \/ i \in 0 .. n - 1
    OBVIOUS
  <1>10. r.num = s + 1 /\ r.state = "new" /\ r.num \in Nat /\ r.num # None /\ s + 1 \in 1 .. s + 1
    BY Sizes DEF Sent, None
  <1>11. 0 .. m.n_reqs - 1 = 0 .. n
    BY <1>4
  <1>12. \A i \in 0 .. n - 1 : At(l, i).num # None /\ At(l, i).num \in 1 .. s
    BY <1>7, KnownRing DEF Known
  <1>13. Known(m, s + 1)
    <2>1. \A x \in Slots : m.req[x].num # None =>
            /\ m.req[x].num \in 1 .. s + 1
            /\ m.req[x].type = "WRITE" => m.req[x].parm \in Pvcs
      <3>1. \A k \in 1 .. s : k \in 1 .. s + 1
        BY Sizes
      <3> QED BY <1>4, <1>5, <1>10, <3>1 DEF Known
    <2>2. \A i \in 0 .. n : At(m, i).num # None
      BY <1>8, <1>9, <1>10, <1>12
    <2>3. \A x \in Slots : l.req[x].num # None => m.req[x].num # None
      BY <1>4, <1>5, <1>10
    <2>4. (\A p \in Pvcs : l.w_req_ind[p] \in Slots) /\ l.conn_req_ind \in Slots
      BY <1>1 DEF Links
    <2> QED BY <1>4, <1>11, <2>1, <2>2, <2>3, <2>4 DEF Known
  <1>14. ASSUME Ordered(l) PROVE Ordered(m)
    <2>1. ASSUME NEW i \in 0 .. n, NEW j \in 0 .. n, i < j PROVE At(m, i).num < At(m, j).num
      <3>1. i \in 0 .. n - 1
        BY <2>1
      <3>2. CASE j = n
        BY <1>8, <1>10, <1>12, <3>1, <3>2
      <3>3. CASE j # n
        <4>1. j \in 0 .. n - 1
          BY <3>3
        <4> QED BY <1>8, <1>14, <2>1, <3>1, <4>1 DEF Ordered
      <3> QED BY <3>2, <3>3
    <2> QED BY <1>11, <2>1 DEF Ordered
  <1>15. ASSUME Serial(l) PROVE Serial(m)
    <2>1. ASSUME NEW i \in 0 .. n, NEW j \in 0 .. n, i < j, At(m, j).state = "started"
          PROVE  At(m, i).state # "new"
      <3>1. j \in 0 .. n - 1 /\ i \in 0 .. n - 1
        BY <1>8, <1>10, <2>1
      <3> QED BY <1>8, <1>15, <2>1, <3>1 DEF Serial
    <2> QED BY <1>11, <2>1 DEF Serial
  <1>16. Settled(l) => Settled(m)
    BY <1>4, <1>5, <1>10 DEF Settled
  <1>17. /\ \A x \in InRing(l) : x \in InRing(m) /\ x \in Slots \ {y} /\ m.req[x] = l.req[x]
         /\ \A x \in InRing(m) : x \in InRing(l) \/ x = y
         /\ y \in InRing(m) /\ m.req[y] = r
    <2>1. \A x \in InRing(l) : \E i \in 0 .. n - 1 : x = Slot(l, i)
      BY DEF InRing
    <2>2. InRing(m) = {Slot(l, i) : i \in 0 .. n}
      BY <1>6, <1>11 DEF InRing
    <2>3. \A x \in InRing(l) : x \in InRing(m) /\ x \in Slots \ {y}
      BY <1>7, <2>1, <2>2
    <2>4. \A x \in InRing(m) : x \in InRing(l) \/ x = y
      BY <1>7, <1>9, <2>2
    <2>5. y \in InRing(m)
      <3>1. n \in 0 .. n
        OBVIOUS
      <3> QED BY <2>2, <3>1
    <2> QED BY <1>4, <1>5, <2>3, <2>4, <2>5
  <1>18. Live(m) = Live(l) \cup {s + 1}
    <2>1. /\ \A x \in Unfinished(l) : x \in Unfinished(m) /\ m.req[x].num = l.req[x].num
          /\ \A x \in Unfinished(m) : x \in Unfinished(l) \/ x = y
          /\ y \in Unfinished(m) /\ m.req[y].num = s + 1
      BY <1>10, <1>17 DEF Unfinished
    <2>2. Live(m) \subseteq Live(l) \cup {s + 1}
      BY <2>1 DEF Live
    <2>3. Live(l) \cup {s + 1} \subseteq Live(m)
      BY <2>1 DEF Live
    <2> QED BY <2>2, <2>3
  <1>19. ASSUME Proc(l) PROVE Proc(m)
    <2>1. m.w_buf[1] # None => InProc(m, m.w_req_ind[1], "WRITE")
                                /\ m.req[m.w_req_ind[1]].num = m.w_buf[1]
      BY <1>4, <1>17, <1>19 DEF Proc, InProc
    <2>2. m.conn_activity # "NO_ACTIVITY" => InProc(m, m.conn_req_ind, "CONNECT")
      BY <1>4, <1>17, <1>19 DEF Proc, InProc
    <2>3. ASSUME NEW x \in InRing(m), m.req[x].state = "started"
          PROVE  x \in InRing(l) /\ l.req[x].state = "started"
      BY <1>10, <1>17, <2>3
    <2> QED BY <1>4, <1>19, <2>1, <2>2, <2>3 DEF Proc
  <1>20. Silent(l) => Silent(m)
    BY <1>4 DEF Silent
  <1> QED BY <1>4, <1>13, <1>14, <1>15, <1>16, <1>18, <1>19, <1>20

\* The link at the start of a step.
Hushed(l) == l.out = << >> /\ l.gone = {} /\ l.conveyed = None

LEMMA HushedSilent ==
  ASSUME NEW l, Hushed(l)
  PROVE  /\ Silent(l) /\ Answered(l) = {} /\ Accounts(Live(l), l) /\ Covers(Live(l), l)
         /\ DOMAIN l.out = {}
  <1>1. DOMAIN l.out = {}
    BY DEF Hushed
  <1>2. Answered(l) = {} /\ Silent(l)
    BY <1>1 DEF Answered, Silent, Hushed
  <1>3. Accounts(Live(l), l)
    BY <1>1, <1>2 DEF Accounts, Hushed
  <1> QED BY <1>1, <1>2, <1>3 DEF Covers

LEMMA KnownMore ==
  ASSUME NEW s \in Nat, NEW l, Known(l, s)
  PROVE  Known(l, s + 1)
  <1>1. \A k \in 1 .. s : k \in 1 .. s + 1
    OBVIOUS
  <1> QED BY <1>1 DEF Known

\* A response to a request that is not in the ring.
LEMMA OtherAnswered ==
  ASSUME NEW s \in 0 .. MaxRequests, s + 1 \in Nums, NEW l, Known(l, s), NEW r, Sent(r, s),
         NEW code \in Codes \ {"SUCCESS", "FAILED", "IN_PROCESSING"}, NEW m, m = Respond(l, r, code)
  PROVE  /\ Known(m, s + 1) /\ (Ordered(l) => Ordered(m)) /\ (Serial(l) => Serial(m))
         /\ (Settled(l) => Settled(m)) /\ (Silent(l) => Silent(m))
         /\ Proc(l) /\ (r.type \in {"CONNECT", "DISCONNECT"} => l.conn_activity = "NO_ACTIVITY")
              => Proc(m)
         /\ Live(m) = Live(l) /\ m.gone = l.gone /\ m.forgotten = l.forgotten
         /\ m.out = Append(l.out, [num |-> s + 1, type |-> r.type, code |-> code])
  <1>1. l \in Links /\ r \in Request /\ r.num \in Nums /\ r.num = s + 1
    BY DEF Known, Sent
  <1>2. m \in Links /\ m.req = l.req /\ SameElse(l, m) /\ Told(l, m, r, code)
    BY <1>1, RespondFields
  <1>3. /\ \A p \in Pvcs : m.w_buf[p] = l.w_buf[p] \/ m.w_buf[p] = None
        /\ m.conn_activity = l.conn_activity \/ m.conn_activity = "NO_ACTIVITY"
        /\ m.heard = l.heard
        /\ (r.type \in {"CONNECT", "DISCONNECT"} => l.conn_activity = "NO_ACTIVITY")
             => m.conn_activity = l.conn_activity
    BY <1>2 DEF Told, Heard
  <1>4. /\ m.n_reqs = l.n_reqs /\ InRing(m) = InRing(l)
        /\ \A i : Slot(m, i) = Slot(l, i) /\ At(m, i) = At(l, i)
    BY <1>2, SameRing DEF SameElse, At
  <1>5. Known(m, s)
    BY <1>2, <1>3, <1>4 DEF Known, SameElse
  <1>6. Known(m, s + 1)
    BY <1>5, KnownMore, Sizes
  <1>7. (Ordered(l) => Ordered(m)) /\ (Serial(l) => Serial(m)) /\ (Settled(l) => Settled(m))
    BY <1>2, <1>3, <1>4 DEF Ordered, Serial, Settled
  <1>8. Live(m) = Live(l)
    BY <1>2, <1>4 DEF Live, Unfinished
  <1>9. ASSUME Proc(l), r.type \in {"CONNECT", "DISCONNECT"} => l.conn_activity = "NO_ACTIVITY"
        PROVE  Proc(m)
    <2>1. m.w_buf[1] = l.w_buf[1]
      <3>1. CASE l.w_buf[1] = None
        BY <1>2, <3>1, Sizes DEF Told, Pvcs
      <3>2. CASE l.w_buf[1] # None
        <4>1. l.w_buf[1] \in 1 .. s
          BY <1>9, <3>2, KnownRing DEF Proc, InProc
        <4>2. l.w_buf[1] # r.num
          BY <1>1, <4>1, Sizes
        <4> QED BY <1>2, <4>2, Sizes DEF Told, Pvcs
      <3> QED BY <3>1, <3>2
    <2>2. m.conn_activity = l.conn_activity /\ m.heard = l.heard
      BY <1>3, <1>9
    <2> QED BY <1>2, <1>4, <1>9, <2>1, <2>2 DEF Proc, InProc, SameElse
  <1>10. Silent(l) => Silent(m)
    BY <1>1, <1>2, SilentMore DEF SameElse
  <1> QED BY <1>1, <1>2, <1>6, <1>7, <1>8, <1>9, <1>10 DEF SameElse, Told

\* What is shown of the reading of a request, the one after s others, on a link with one circuit.
Got(l, m, s) ==
  /\ Ordered(m) /\ Serial(m)
  /\ ~ m.forgotten => Proc(m) /\ Silent(m) /\ Accounts(Live(l) \cup {s + 1}, m)
  /\ \A n \in Live(l) : n \in Live(m) \cup m.gone \cup Answered(m) \/ Between(l, n)

\* The new request is the only one that is answered.
LEMMA OneAccount ==
  ASSUME NEW s \in Nat, NEW l, l \in Links, l.out = << >>, NEW N, N \subseteq 1 .. s,
         Live(l) \subseteq N, l.gone \subseteq N, Live(l) \cap l.gone = {},
         NEW e, e.num = s + 1, NEW m, m.out = Append(l.out, e), m.gone = l.gone, Live(m) = Live(l)
  PROVE  Accounts(N \cup {s + 1}, m)
  <1>1. DOMAIN l.out = {} /\ Answered(l) = {}
    BY DEF Answered
  <1>2. /\ Answered(m) = {s + 1}
        /\ \A i \in DOMAIN m.out : i = Len(l.out) + 1
    <2>1. /\ Answered(m) = Answered(l) \cup {e.num}
          /\ \A i \in DOMAIN m.out :
               \/ i \in DOMAIN l.out /\ m.out[i] = l.out[i]
               \/ i = Len(l.out) + 1 /\ m.out[i] = e
      BY ONLY l \in Links, m.out = Append(l.out, e), AnsweredMore
    <2> QED BY ONLY <1>1, <2>1, e.num = s + 1
  <1>3. s + 1 \notin N
    OBVIOUS
  <1> QED BY <1>2, <1>3 DEF Accounts

LEMMA LiveSent ==
  ASSUME NEW l, NEW s, Known(l, s)
  PROVE  Live(l) \subseteq 1 .. s
  BY KnownRing DEF Live, Unfinished

\* The ring is full.
LEMMA TurnAwayResult ==
  ASSUME NEW s \in 0 .. MaxRequests, s + 1 \in Nums, NEW l, Known(l, s), NEW r, Sent(r, s),
         NEW m, m = TurnAway(l, r)
  PROVE  /\ Known(m, s + 1) /\ (Ordered(l) => Ordered(m)) /\ (Serial(l) => Serial(m))
         /\ (Settled(l) => Settled(m)) /\ (Silent(l) => Silent(m))
         /\ Proc(l) /\ ~ m.forgotten => Proc(m)
         /\ ~ m.forgotten => ~ l.forgotten
         /\ Live(m) = Live(l) /\ m.gone = l.gone
         /\ m.out = Append(l.out, [num |-> s + 1, type |-> r.type, code |-> "TOO_MANY_REQUESTS"])
  <1> PICK d : d = Respond(l, r, "TOO_MANY_REQUESTS")
    OBVIOUS
  <1> PICK fg : fg = (r.type \in {"CONNECT", "DISCONNECT"} /\ l.conn_activity # "NO_ACTIVITY")
    OBVIOUS
  <1>1. /\ Known(d, s + 1) /\ (Ordered(l) => Ordered(d)) /\ (Serial(l) => Serial(d))
        /\ (Settled(l) => Settled(d)) /\ (Silent(l) => Silent(d))
        /\ Proc(l) /\ (r.type \in {"CONNECT", "DISCONNECT"} => l.conn_activity = "NO_ACTIVITY")
              => Proc(d)
        /\ Live(d) = Live(l) /\ d.gone = l.gone /\ d.forgotten = l.forgotten
        /\ d.out = Append(l.out, [num |-> s + 1, type |-> r.type, code |-> "TOO_MANY_REQUESTS"])
    <2>1. "TOO_MANY_REQUESTS" \in Codes \ {"SUCCESS", "FAILED", "IN_PROCESSING"}
      BY DEF Codes
    <2> QED BY <2>1, OtherAnswered
  <1>2. d \in Links /\ d.forgotten \in BOOLEAN /\ fg \in BOOLEAN
    BY <1>1 DEF Known, Links
  <1> PICK h \in BOOLEAN : h = (d.forgotten \/ fg)
    BY <1>2
  <1>3. m = [d EXCEPT !.forgotten = h]
    <2>1. m = [d EXCEPT !.forgotten = @ \/ fg]
      BY DEF TurnAway
    <2>2. m = [d EXCEPT !.forgotten = d.forgotten \/ fg]
      BY <1>2, <2>1 DEF Links
    <2> QED BY <2>2
  <1>4. /\ m \in Links /\ m.st_ind = d.st_ind /\ m.n_reqs = d.n_reqs /\ m.req = d.req
        /\ m.w_buf = d.w_buf /\ m.w_req_ind = d.w_req_ind /\ m.link_state = d.link_state
        /\ m.conn_activity = d.conn_activity /\ m.conn_req_ind = d.conn_req_ind
        /\ m.heard = d.heard /\ m.out = d.out /\ m.gone = d.gone /\ m.conveyed = d.conveyed
        /\ m.forgotten = h
    BY <1>2, <1>3 DEF Links
  <1>5. InRing(m) = InRing(d) /\ \A i : At(m, i) = At(d, i)
    BY <1>4, SameRing DEF At
  <1>6. Known(m, s + 1)
    BY <1>1, <1>4, <1>5 DEF Known
  <1>7. /\ (Ordered(d) => Ordered(m)) /\ (Serial(d) => Serial(m)) /\ (Settled(d) => Settled(m))
        /\ (Silent(d) => Silent(m)) /\ (Proc(d) => Proc(m)) /\ Live(m) = Live(d)
    <2>1. Live(m) = Live(d)
      BY <1>4, <1>5 DEF Live, Unfinished
    <2>2. (Ordered(d) => Ordered(m)) /\ (Serial(d) => Serial(m))
      BY <1>4, <1>5 DEF Ordered, Serial
    <2>3. (Settled(d) => Settled(m)) /\ (Silent(d) => Silent(m))
      BY <1>4 DEF Settled, Silent
    <2>4. Proc(d) => Proc(m)
      BY <1>4, <1>5 DEF Proc, InProc
    <2> QED BY <2>1, <2>2, <2>3, <2>4
  <1>8. ~ m.forgotten => ~ l.forgotten /\ ~ fg
    BY <1>1, <1>4
  <1>9. Proc(l) /\ ~ m.forgotten => Proc(m)
    BY <1>1, <1>7, <1>8
  <1> QED BY <1>1, <1>4, <1>6, <1>7, <1>8, <1>9

\* A request put in the list, or turned away.
LEMMA AcceptResult ==
  ASSUME NEW s \in 0 .. MaxRequests, s + 1 \in Nums, NEW l, Known(l, s), Hushed(l), Settled(l),
         NEW r, Sent(r, s), r.type = "WRITE" => r.parm \in Pvcs, NEW m, m = Accept(l, r)
  PROVE  /\ Known(m, s + 1) /\ Settled(m)
         /\ Ordered(l) /\ Serial(l) /\ (~ l.forgotten => Proc(l)) => Got(l, m, s)
  <1> PICK k : k = RmDoneRequests(l)
    OBVIOUS
  <1>1. PICK f : /\ SameButRing(l, k) /\ Kept(l, k, f)
                 /\ Serial(l) /\ Proc(l) => Proc(k)
                 /\ \A n \in Live(l) : n \in Live(k) \/ Between(l, n)
    BY RoomResult
  <1>2. /\ Known(k, s) /\ Settled(k) /\ (Ordered(l) => Ordered(k)) /\ (Serial(l) => Serial(k))
        /\ Live(k) \subseteq Live(l) /\ Silent(k) /\ k.out = << >> /\ k.gone = {}
        /\ k.forgotten = l.forgotten
    <2>1. Silent(l) /\ l.out = << >> /\ l.gone = {}
      BY HushedSilent DEF Hushed
    <2> QED BY <1>1, <2>1, KeptKeeps
  <1>3. k \in Links /\ k.n_reqs \in 0 .. MaxReqs /\ l.forgotten \in BOOLEAN /\ s \in Nat
    BY <1>2, Sizes DEF Known, Links
  <1>4. Live(l) \subseteq 1 .. s
    BY LiveSent
  <1>5. CASE k.n_reqs >= MaxReqs
    <2>1. m = TurnAway(k, r)
      BY <1>5 DEF Accept
    <2>2. /\ Known(m, s + 1) /\ (Ordered(k) => Ordered(m)) /\ (Serial(k) => Serial(m))
          /\ (Settled(k) => Settled(m)) /\ (Silent(k) => Silent(m))
          /\ Proc(k) /\ ~ m.forgotten => Proc(m)
          /\ ~ m.forgotten => ~ k.forgotten
          /\ Live(m) = Live(k) /\ m.gone = k.gone
          /\ m.out = Append(k.out, [num |-> s + 1, type |-> r.type, code |-> "TOO_MANY_REQUESTS"])
      BY <1>2, <2>1, TurnAwayResult
    <2>3. Accounts(Live(l) \cup {s + 1}, m)
      <3> PICK e : e = [num |-> s + 1, type |-> r.type, code |-> "TOO_MANY_REQUESTS"]
        OBVIOUS
      <3>1. e.num = s + 1 /\ m.out = Append(k.out, e)
        BY <2>2
      <3>2. Live(k) \cap k.gone = {} /\ k.gone \subseteq Live(l)
        BY <1>2
      <3> QED BY <1>2, <1>3, <1>4, <2>2, <3>1, <3>2, OneAccount
    <2>4. Ordered(l) /\ Serial(l) /\ (~ l.forgotten => Proc(l)) => Got(l, m, s)
      BY <1>1, <1>2, <2>2, <2>3 DEF Got
    <2> QED BY <1>2, <2>2, <2>4
  <1>6. CASE ~ (k.n_reqs >= MaxReqs)
    <2>1. m = Put(k, r) /\ k.n_reqs < MaxReqs
      BY <1>3, <1>6, Sizes DEF Accept
    <2>2. /\ Known(m, s + 1) /\ (Ordered(k) => Ordered(m)) /\ (Serial(k) => Serial(m))
          /\ (Settled(k) => Settled(m)) /\ (Silent(k) => Silent(m)) /\ (Proc(k) => Proc(m))
          /\ Live(m) = Live(k) \cup {s + 1}
          /\ m.out = k.out /\ m.gone = k.gone /\ m.forgotten = k.forgotten
      BY <1>2, <2>1, PutResult
    <2>3. DOMAIN m.out = {} /\ Answered(m) = {} /\ m.gone = {}
      BY <1>2, <2>2 DEF Answered
    <2>4. Accounts(Live(l) \cup {s + 1}, m)
      BY <1>2, <2>2, <2>3 DEF Accounts
    <2>5. Ordered(l) /\ Serial(l) /\ (~ l.forgotten => Proc(l)) => Got(l, m, s)
      BY <1>1, <1>2, <2>2, <2>4 DEF Got
    <2> QED BY <1>2, <2>2, <2>5
  <1> QED BY <1>5, <1>6

\* The requests a cancel is for, and their numbers.
MatchingIn(l, c) == {r \in {l.req[x] : x \in InRing(l)} : Matches(c, r)}

NumsOf(matching) == {r.num : r \in matching}

\* The requests that the removal of a cancel leaves: the ones in processing, and the
\* ones it is not for.
LEMMA CancelKeeps ==
  ASSUME NEW s, NEW l, Known(l, s), Ordered(l), Serial(l), NEW c,
         NEW matching, matching = MatchingIn(l, c),
         NEW m, m = RemoveMatching(l, matching)
  PROVE  /\ \A n \in Live(l) : n \in Live(m) \/ n \in NumsOf(matching)
         /\ NumsOf(matching) \subseteq Live(l)
         /\ Proc(l) => Proc(m)
  <1> PICK n \in 0 .. MaxReqs : n = l.n_reqs
    BY DEF Known, Links
  <1>1. l \in Links
    BY DEF Known
  <1>2. PICK f :
           /\ SameButRing(l, m) /\ m.st_ind = l.st_ind
           /\ Kept(l, m, f)
           /\ \A b \in 0 .. n - 1 :
                (\A q \in 0 .. b : At(l, q) \notin matching)
                  => b < m.n_reqs /\ \A p \in 0 .. b : f[p] = p
           /\ n > 0 /\ At(l, n - 1) \notin matching
                => \A q \in 0 .. n - 1 :
                     At(l, q) \notin matching => \E p \in 0 .. m.n_reqs - 1 : f[p] = q
    BY ONLY <1>1, m = RemoveMatching(l, matching), n = l.n_reqs, Removal
  <1>3. m \in Links /\ m.n_reqs \in 0 .. MaxReqs
    BY <1>2 DEF SameButRing, Links
  <1>4. \A i \in 0 .. n - 1 : /\ Slot(l, i) \in InRing(l) /\ At(l, i) = l.req[Slot(l, i)]
                              /\ At(l, i) \in Request
    BY <1>1, RingPlaces DEF Links
  <1>5. \A i \in 0 .. n - 1 : At(l, i) \in matching <=> Matches(c, At(l, i))
    BY <1>4 DEF MatchingIn
  <1>6. \A q \in 0 .. n - 1 : \A i \in 0 .. q : i \in 0 .. n - 1 /\ (i = q \/ i < q)
    OBVIOUS
  <1>7. ASSUME NEW q \in 0 .. n - 1, At(l, q).state = "started"
        PROVE  q < m.n_reqs /\ f[q] = q
    <2>1. \A i \in 0 .. q : At(l, i).state # "new"
      BY <1>6, <1>7 DEF Serial
    <2>2. \A i \in 0 .. q : At(l, i) \notin matching
      BY <1>5, <1>6, <2>1 DEF Matches
    <2>3. q \in 0 .. q
      OBVIOUS
    <2> QED BY <1>2, <2>2, <2>3
  <1>8. ASSUME NEW q \in 0 .. n - 1, At(l, q).state # "done"
        PROVE  At(l, q) \in matching \/ \E p \in 0 .. m.n_reqs - 1 : f[p] = q
    <2>1. CASE At(l, q).state = "started"
      <3>1. q < m.n_reqs /\ f[q] = q
        BY <1>7, <2>1
      <3>2. q \in 0 .. m.n_reqs - 1
        BY <1>3, <3>1, Sizes
      <3> QED BY <3>1, <3>2
    <2>2. CASE At(l, q) \notin matching /\ At(l, q).state = "new"
      <3>1. n > 0 /\ n - 1 \in 0 .. n - 1
        OBVIOUS
      <3>2. CASE At(l, n - 1) \notin matching
        BY <1>2, <2>2, <3>1, <3>2
      <3>3. CASE At(l, n - 1) \in matching
        <4>1. Matches(c, At(l, n - 1)) /\ ~ Matches(c, At(l, q))
          BY <1>5, <2>2, <3>1, <3>3
        <4>2. c.parm # None /\ c.parm = At(l, n - 1).num
          BY <2>2, <4>1 DEF Matches
        <4>3. ASSUME NEW i \in 0 .. q PROVE At(l, i) \notin matching
          <5>1. i \in 0 .. n - 1 /\ q # n - 1
            BY <1>6, <3>3, <2>2
          <5>2. i < n - 1
            BY <5>1
          <5>3. At(l, i).num < At(l, n - 1).num /\ At(l, i).num \in Nat /\ At(l, n - 1).num \in Nat
            BY <1>4, <3>1, <5>1, <5>2 DEF Ordered, Request
          <5>4. At(l, i).num # c.parm
            BY <4>2, <5>3
          <5> QED BY <1>5, <4>2, <5>1, <5>4 DEF Matches
        <4>4. q < m.n_reqs /\ \A p \in 0 .. q : f[p] = p
          BY <1>2, <4>3
        <4>5. q \in 0 .. m.n_reqs - 1 /\ q \in 0 .. q
          BY <1>3, <4>4, Sizes
        <4> QED BY <4>4, <4>5
      <3> QED BY <3>2, <3>3
    <2> QED BY <1>4, <1>8, <2>1, <2>2 DEF Request
  <1>9. ASSUME NEW k \in Live(l) PROVE k \in Live(m) \/ k \in NumsOf(matching)
    <2>1. PICK x \in InRing(l) : l.req[x].state # "done" /\ l.req[x].num = k
      BY DEF Live, Unfinished
    <2>2. PICK q \in 0 .. n - 1 : x = Slot(l, q) /\ l.req[x] = At(l, q)
      BY <1>1, RingPlaces
    <2>3. CASE At(l, q) \in matching
      BY <2>1, <2>2, <2>3 DEF NumsOf
    <2>4. CASE At(l, q) \notin matching
      <3>1. PICK p \in 0 .. m.n_reqs - 1 : f[p] = q
        BY <1>8, <2>1, <2>2, <2>4
      <3>2. At(m, p) = At(l, q)
        BY <1>2, <3>1 DEF Kept
      <3>3. Slot(m, p) \in InRing(m) /\ At(m, p) = m.req[Slot(m, p)]
        BY <1>3, RingPlaces
      <3>4. Slot(m, p) \in Unfinished(m) /\ m.req[Slot(m, p)].num = k
        BY <2>1, <2>2, <3>2, <3>3 DEF Unfinished
      <3> QED BY <3>4 DEF Live
    <2> QED BY <2>3, <2>4
  <1>10. NumsOf(matching) \subseteq Live(l)
    <2>1. ASSUME NEW r \in matching PROVE r.num \in Live(l)
      <3>1. PICK x \in InRing(l) : r = l.req[x]
        BY <2>1 DEF MatchingIn
      <3>2. r.state = "new"
        BY <2>1 DEF Matches, MatchingIn
      <3> QED BY <3>1, <3>2 DEF Live, Unfinished
    <2> QED BY <2>1 DEF NumsOf
  <1>11. ASSUME Proc(l) PROVE Proc(m)
    <2>1. ASSUME NEW q \in 0 .. n - 1, At(l, q).state = "started"
          PROVE  \E p \in 0 .. m.n_reqs - 1 : f[p] = q /\ Slot(m, p) = Slot(l, q)
      <3>1. q < m.n_reqs /\ f[q] = q
        BY <1>7, <2>1
      <3>2. q \in 0 .. m.n_reqs - 1
        BY <1>3, <3>1, Sizes
      <3>3. Slot(m, q) = Slot(l, q)
        BY <1>2 DEF Slot
      <3> QED BY <3>1, <3>2, <3>3
    <2> QED BY <1>2, <1>11, <2>1, KeptProc
  <1> QED BY <1>9, <1>10, <1>11

\* The requests that are gone are counted.
WithGone(l, lost) == [l EXCEPT !.gone = @ \cup lost]

LEMMA Counted ==
  ASSUME NEW k, NEW s, Known(k, s), NEW lost \in SUBSET Nums, NEW d,
         d = WithGone(k, lost)
  PROVE  /\ Known(d, s) /\ (Ordered(k) => Ordered(d)) /\ (Serial(k) => Serial(d))
         /\ (Settled(k) => Settled(d)) /\ (Silent(k) => Silent(d)) /\ (Proc(k) => Proc(d))
         /\ Live(d) = Live(k) /\ d.out = k.out /\ d.gone = k.gone \cup lost
         /\ d.forgotten = k.forgotten
  <1>1. k \in Links
    BY DEF Known
  <1> PICK g \in SUBSET Nums : g = k.gone \cup lost
    BY <1>1 DEF Links
  <1>2. d = [k EXCEPT !.gone = g]
    BY <1>1 DEF Links, WithGone
  <1>3. /\ d \in Links /\ d.st_ind = k.st_ind /\ d.n_reqs = k.n_reqs /\ d.req = k.req
        /\ d.w_buf = k.w_buf /\ d.w_req_ind = k.w_req_ind /\ d.link_state = k.link_state
        /\ d.conn_activity = k.conn_activity /\ d.conn_req_ind = k.conn_req_ind
        /\ d.heard = k.heard /\ d.out = k.out /\ d.gone = g /\ d.conveyed = k.conveyed
        /\ d.forgotten = k.forgotten
    BY <1>1, <1>2 DEF Links
  <1>4. InRing(d) = InRing(k) /\ \A i : At(d, i) = At(k, i)
    BY <1>3, SameRing DEF At
  <1>5. Known(d, s)
    BY <1>3, <1>4 DEF Known
  <1>6. Live(d) = Live(k)
    BY <1>3, <1>4 DEF Live, Unfinished
  <1>7. (Ordered(k) => Ordered(d)) /\ (Serial(k) => Serial(d))
    BY ONLY <1>3, <1>4 DEF Ordered, Serial
  <1>8. (Settled(k) => Settled(d)) /\ (Silent(k) => Silent(d))
    BY ONLY <1>3 DEF Settled, Silent
  <1>9. Proc(k) => Proc(d)
    BY ONLY <1>3, <1>4 DEF Proc, InProc
  <1> QED BY <1>3, <1>5, <1>6, <1>7, <1>8, <1>9

\* CMPR_process_cancel
LEMMA CancelResult ==
  ASSUME NEW s \in 0 .. MaxRequests, s + 1 \in Nums, NEW l, Known(l, s), Hushed(l), Settled(l),
         NEW r, Sent(r, s), r.type = "CANCEL", NEW m, m = ProcessCancel(l, r)
  PROVE  /\ Known(m, s + 1) /\ Settled(m)
         /\ Ordered(l) /\ Serial(l) /\ (~ l.forgotten => Proc(l)) => Got(l, m, s)
  <1> PICK matching : matching = MatchingIn(l, r)
    OBVIOUS
  <1> PICK k : k = RemoveMatching(l, matching)
    OBVIOUS
  <1> PICK lost : lost = NumsOf(matching) \ Live(k)
    OBVIOUS
  <1> PICK d : d = WithGone(k, lost)
    OBVIOUS
  <1> PICK code : code = "COUNT"
    OBVIOUS
  <1>1. m = Respond(d, r, code)
    BY DEF ProcessCancel, WithGone, NumsOf, MatchingIn
  <1>2. PICK f : SameButRing(l, k) /\ Kept(l, k, f)
    BY Removal DEF Known
  <1>3. /\ Known(k, s) /\ Settled(k) /\ (Ordered(l) => Ordered(k)) /\ (Serial(l) => Serial(k))
        /\ Live(k) \subseteq Live(l) /\ Silent(k) /\ k.out = << >> /\ k.gone = {}
        /\ k.forgotten = l.forgotten
    <2>1. Silent(l) /\ l.out = << >> /\ l.gone = {}
      BY HushedSilent DEF Hushed
    <2> QED BY <1>2, <2>1, KeptKeeps
  <1>4. NumsOf(matching) \subseteq Live(l)
    <2>1. ASSUME NEW q \in matching PROVE q.num \in Live(l)
      <3>1. PICK x \in InRing(l) : q = l.req[x]
        BY <2>1 DEF MatchingIn
      <3>2. q.state = "new"
        BY <2>1 DEF Matches, MatchingIn
      <3> QED BY <3>1, <3>2 DEF Live, Unfinished
    <2> QED BY <2>1 DEF NumsOf
  <1>5. Live(l) \subseteq 1 .. s /\ 1 .. s \subseteq Nums
    <2>1. Live(l) \subseteq 1 .. s
      BY LiveSent
    <2>2. 1 .. s \subseteq Nums
      BY Sizes DEF Nums
    <2> QED BY <2>1, <2>2
  <1>6. lost \in SUBSET Nums
    BY <1>4, <1>5
  <1>7. /\ Known(d, s) /\ (Ordered(k) => Ordered(d)) /\ (Serial(k) => Serial(d))
        /\ (Settled(k) => Settled(d)) /\ (Silent(k) => Silent(d)) /\ (Proc(k) => Proc(d))
        /\ Live(d) = Live(k) /\ d.out = k.out /\ d.gone = k.gone \cup lost
        /\ d.forgotten = k.forgotten
    <2>1. Known(k, s)
      BY <1>3
    <2> QED BY ONLY <1>6, <2>1, d = WithGone(k, lost), Counted
  <1>8. lost \subseteq Live(l) /\ Live(k) \cap lost = {} /\ s \in Nat
    BY <1>4, Sizes
  <1>12. /\ Known(m, s + 1) /\ (Ordered(d) => Ordered(m)) /\ (Serial(d) => Serial(m))
         /\ (Settled(d) => Settled(m)) /\ (Silent(d) => Silent(m))
         /\ Proc(d) => Proc(m)
         /\ Live(m) = Live(d) /\ m.gone = d.gone /\ m.forgotten = d.forgotten
         /\ m.out = Append(d.out, [num |-> s + 1, type |-> r.type, code |-> code])
    <2>1. "COUNT" \in Codes \ {"SUCCESS", "FAILED", "IN_PROCESSING"}
      BY DEF Codes
    <2>2. r.type \in {"CONNECT", "DISCONNECT"} => d.conn_activity = "NO_ACTIVITY"
      OBVIOUS
    <2>3. code \in Codes \ {"SUCCESS", "FAILED", "IN_PROCESSING"} /\ m = Respond(d, r, code)
      BY <1>1, <2>1
    <2> QED BY ONLY <1>7, <2>2, <2>3, s \in 0 .. MaxRequests, s + 1 \in Nums, Sent(r, s),
                 OtherAnswered
  <1>13. Accounts(Live(l) \cup {s + 1}, m)
    <2> PICK e : e = [num |-> s + 1, type |-> r.type, code |-> code]
      OBVIOUS
    <2>1. e.num = s + 1 /\ m.out = Append(d.out, e)
      BY <1>12
    <2>2. /\ Live(d) \cap d.gone = {} /\ d.gone \subseteq Live(l) /\ Live(d) \subseteq Live(l)
          /\ d.out = << >> /\ s \in Nat /\ d \in Links
      BY ONLY <1>3, <1>7, <1>8 DEF Known
    <2>3. m.gone = d.gone /\ Live(m) = Live(d) /\ Live(l) \subseteq 1 .. s
      BY <1>5, <1>12
    <2> QED BY ONLY <2>1, <2>2, <2>3, OneAccount
  <1>14. ASSUME Ordered(l), Serial(l), ~ l.forgotten => Proc(l) PROVE Got(l, m, s)
    <2>1. /\ \A n \in Live(l) : n \in Live(k) \/ n \in NumsOf(matching)
          /\ Proc(l) => Proc(k)
      BY <1>14, CancelKeeps
    <2>2. \A n \in Live(l) : n \in Live(m) \cup m.gone
      BY <1>7, <1>12, <2>1
    <2> QED BY ONLY <1>3, <1>7, <1>12, <1>13, <1>14, <2>1, <2>2 DEF Got
  <1> QED BY <1>3, <1>7, <1>12, <1>14

\* GetRequest, whatever the user sends.
LEMMA GetResult ==
  ASSUME NEW s \in 0 .. MaxRequests, s + 1 \in Nums, NEW l, Known(l, s), Hushed(l), Settled(l),
         NEW r, Sent(r, s), NEW m,
         m = IF ~Legal(r) THEN Respond(l, r, "INVALID_PARAMETER")
             ELSE IF r.type = "CANCEL" THEN ProcessCancel(l, r) ELSE Accept(l, r)
  PROVE  /\ Known(m, s + 1) /\ Settled(m)
         /\ Ordered(l) /\ Serial(l) /\ (~ l.forgotten => Proc(l)) => Got(l, m, s)
  <1>1. CASE ~Legal(r)
    <2>1. "INVALID_PARAMETER" \in Codes \ {"SUCCESS", "FAILED", "IN_PROCESSING"}
      BY DEF Codes
    <2> PICK code \in Codes \ {"SUCCESS", "FAILED", "IN_PROCESSING"} : code = "INVALID_PARAMETER"
      BY <2>1
    <2>2. m = Respond(l, r, code) /\ r.type = "WRITE"
      BY <1>1 DEF Legal
    <2>3. /\ Known(m, s + 1) /\ (Ordered(l) => Ordered(m)) /\ (Serial(l) => Serial(m))
          /\ (Settled(l) => Settled(m)) /\ (Silent(l) => Silent(m))
          /\ (Proc(l) => Proc(m))
          /\ Live(m) = Live(l) /\ m.gone = l.gone /\ m.forgotten = l.forgotten
          /\ m.out = Append(l.out, [num |-> s + 1, type |-> r.type, code |-> code])
      <3>1. r.type \in {"CONNECT", "DISCONNECT"} => l.conn_activity = "NO_ACTIVITY"
        BY <2>2
      <3>2. m = Respond(l, r, code)
        BY <2>2
      <3> QED BY ONLY <3>1, <3>2, s \in 0 .. MaxRequests, s + 1 \in Nums, Known(l, s), Sent(r, s),
              code \in Codes \ {"SUCCESS", "FAILED", "IN_PROCESSING"}, OtherAnswered
    <2>4. Accounts(Live(l) \cup {s + 1}, m)
      <3> PICK e : e = [num |-> s + 1, type |-> r.type, code |-> code]
        OBVIOUS
      <3>1. e.num = s + 1 /\ m.out = Append(l.out, e)
        BY <2>3
      <3>2. /\ Live(l) \cap l.gone = {} /\ l.gone \subseteq Live(l) /\ l.out = << >> /\ s \in Nat
            /\ l \in Links
        BY Sizes DEF Hushed, Known
      <3>3. m.gone = l.gone /\ Live(m) = Live(l) /\ Live(l) \subseteq 1 .. s
        BY <2>3, LiveSent
      <3> QED BY ONLY <3>1, <3>2, <3>3, OneAccount
    <2>5. Silent(l)
      BY HushedSilent
    <2>6. Ordered(l) /\ Serial(l) /\ (~ l.forgotten => Proc(l)) => Got(l, m, s)
      BY ONLY <2>3, <2>4, <2>5 DEF Got
    <2> QED BY <2>3, <2>6
  <1>2. CASE Legal(r) /\ r.type = "CANCEL"
    <2>1. m = ProcessCancel(l, r) /\ r.type = "CANCEL"
      BY <1>2
    <2> QED BY ONLY <2>1, s \in 0 .. MaxRequests, s + 1 \in Nums, Known(l, s), Hushed(l), Settled(l),
            Sent(r, s), CancelResult
  <1>3. CASE Legal(r) /\ r.type # "CANCEL"
    <2>1. m = Accept(l, r) /\ (r.type = "WRITE" => r.parm \in Pvcs)
      BY <1>3 DEF Legal
    <2> QED BY ONLY <2>1, s \in 0 .. MaxRequests, s + 1 \in Nums, Known(l, s), Hushed(l), Settled(l),
            Sent(r, s), AcceptResult
  <1> QED BY <1>1, <1>2, <1>3

--------------------------------------------------------------------------------
(* The steps of the poll.                                                     *)

LEMMA MarksServed ==
  ASSUME NEW l, NEW s, Known(l, s), Settled(l), Silent(l), NEW m, Marks(l, m),
         NPvc = 1 /\ Proc(l) /\ Ordered(l) => Proc(m) /\ Sound(l, m)
  PROVE  /\ Onward(l, m, s)
         /\ NPvc = 1 /\ Ordered(l) /\ Serial(l) => Served(l, m)
  <1>1. Onward(l, m, s)
    BY MarksOnward
  <1>2. ASSUME NPvc = 1, Ordered(l), Serial(l) PROVE Served(l, m)
    <2>1. Serial(m)
      BY <1>2, MarksSettled DEF Known
    <2>2. Proc(l) => Proc(m) /\ Sound(l, m)
      BY <1>2
    <2> QED BY <2>1, <2>2, SoundServed
  <1> QED BY <1>1, <1>2

LEMMA ConnectedServed ==
  ASSUME NEW s \in 0 .. MaxRequests, NEW l, Known(l, s), Settled(l), Silent(l),
         l.conn_activity = "CONNECTING", NEW m, m = EndConnecting(l)
  PROVE  /\ Onward(l, m, s)
         /\ NPvc = 1 /\ Ordered(l) /\ Serial(l) => Served(l, m)
  BY EndConnectingResult, MarksServed

LEMMA ExceptionServed ==
  ASSUME NEW s \in 0 .. MaxRequests, NEW l, Known(l, s), Settled(l), Silent(l),
         NEW m, m = Exception(l)
  PROVE  /\ Onward(l, m, s)
         /\ NPvc = 1 /\ Ordered(l) /\ Serial(l) => Served(l, m)
  <1>1. l.conn_activity # "DISCONNECTING"
    BY DEF Settled
  <1>2. /\ Marks(l, m)
        /\ NPvc = 1 /\ Proc(l) /\ Ordered(l) => Idle(m) /\ Sound(l, m)
    BY <1>1, ExceptionResult
  <1>3. Idle(m) => Proc(m)
    BY IdleProc
  <1> QED BY <1>2, <1>3, MarksServed

\* TCP_write_data for a circuit with data to write; a is l with its acknowledgment noted.
LEMMA WritingServed ==
  ASSUME NEW s \in 0 .. MaxRequests, NEW l, Known(l, s), Settled(l), Silent(l),
         NEW p \in Pvcs, l.link_state = "CONNECTED", l.w_buf[p] # None,
         NEW a, Restated(l, a), a.link_state = l.link_state, a.heard = l.heard,
         NEW m \in WriteOutcomes(a, p)
  PROVE  /\ Onward(l, m, s)
         /\ NPvc = 1 /\ Ordered(l) /\ Serial(l) => Served(l, m)
  <1>1. /\ Marks(l, a) /\ Silent(a) /\ Known(a, s) /\ (Ordered(l) => Ordered(a))
        /\ InRing(a) = InRing(l) /\ \A N : Accounts(N, l) => Accounts(N, a)
    BY RestatedKeeps, MarksKeep
  <1>2. a.w_buf = l.w_buf /\ a.w_req_ind = l.w_req_ind /\ a.conn_activity = l.conn_activity
          /\ a.conn_req_ind = l.conn_req_ind /\ a.req = l.req
    BY DEF Restated
  <1>3. Marks(a, m)
    BY <1>1, <1>2, WriteMarks DEF Settled
  <1>4. Marks(l, m)
    BY <1>1, <1>3, MarksTrans DEF Known
  <1>5. Onward(l, m, s)
    BY <1>4, MarksOnward
  <1>6. ASSUME NPvc = 1, Ordered(l), Serial(l) PROVE Served(l, m)
    <2>1. Serial(m)
      BY <1>4, <1>6, MarksSettled DEF Known
    <2>2. ASSUME Proc(l)
          PROVE  /\ Proc(m) /\ Truth(m) /\ InTurn(l, m.conveyed)
                 /\ \A N : Accounts(N, l) => Accounts(N, m)
      <3>1. p = 1
        BY <1>6 DEF Pvcs
      <3>2. Busy(a)
        BY <1>1, <1>2, <2>2, <3>1 DEF Proc, Busy, InProc
      <3>3. /\ Proc(m) /\ Truth(m) /\ m.conveyed \in {None, a.w_buf[1]}
            /\ \A N : Accounts(N, a) => Accounts(N, m)
        BY <1>1, <1>6, <3>1, <3>2, WriteResult
      <3>4. InTurn(l, l.w_buf[1])
        BY <1>6, <2>2, <3>1, CircuitInTurn
      <3>5. InTurn(l, m.conveyed)
        BY <1>2, <3>3, <3>4, NoneInTurn
      <3> QED BY <1>1, <3>3, <3>5
    <2> QED BY <2>1, <2>2 DEF Served
  <1> QED BY <1>5, <1>6

\* Nothing happens.
LEMMA SelfServed ==
  ASSUME NEW s \in 0 .. MaxRequests, NEW l, Known(l, s), Settled(l), Silent(l)
  PROVE  /\ Onward(l, l, s)
         /\ NPvc = 1 /\ Ordered(l) /\ Serial(l) => Served(l, l)
  <1>1. Marks(l, l)
    BY MarksSelf DEF Known
  <1>2. Sound(l, l)
    BY DEF Sound
  <1> QED BY <1>1, <1>2, MarksServed

--------------------------------------------------------------------------------
(* The steps of the main loop.                                                *)

LEMMA QuietIs ==
  ASSUME NEW s, Known(link, s), NEW l, l = Quiet
  PROVE  /\ Known(l, s) /\ Hushed(l) /\ Silent(l)
         /\ (Settled(link) => Settled(l)) /\ (Ordered(link) => Ordered(l))
         /\ (Serial(link) => Serial(l)) /\ (Proc(link) => Proc(l))
         /\ Live(l) = Live(link) /\ Fresh(l) = Fresh(link) /\ l.forgotten = link.forgotten
         /\ \A n : (Between(l, n) => BetweenFinished(n)) /\ (InTurn(l, n) => InTurn(link, n))
         /\ \A x : Next1st(link, x) => Next1st(l, x)
         /\ l.conn_activity = link.conn_activity /\ l.link_state = link.link_state
         /\ l.w_buf = link.w_buf /\ l.w_cnt = link.w_cnt
  <1>1. link \in Links
    BY DEF Known
  <1>2. l = [link EXCEPT !.out = << >>, !.gone = {}, !.conveyed = None]
    BY DEF Quiet
  <1>3. << >> \in Seq(Responses) /\ {} \in SUBSET Nums
    OBVIOUS
  <1>4. /\ l \in Links /\ l.st_ind = link.st_ind /\ l.n_reqs = link.n_reqs /\ l.req = link.req
        /\ l.w_buf = link.w_buf /\ l.w_req_ind = link.w_req_ind /\ l.link_state = link.link_state
        /\ l.conn_activity = link.conn_activity /\ l.conn_req_ind = link.conn_req_ind
        /\ l.heard = link.heard /\ l.w_cnt = link.w_cnt /\ l.forgotten = link.forgotten
        /\ l.out = << >> /\ l.gone = {} /\ l.conveyed = None
    BY <1>1, <1>2, <1>3 DEF Links
  <1>5. /\ InRing(l) = InRing(link)
        /\ \A i : Slot(l, i) = Slot(link, i) /\ Offset(l, i) = Offset(link, i)
                  /\ At(l, i) = At(link, i)
    BY <1>4, SameRing DEF At
  <1>6. Unfinished(l) = Unfinished(link) /\ Live(l) = Live(link) /\ Fresh(l) = Fresh(link)
    BY ONLY <1>4, <1>5 DEF Live, Unfinished, Fresh
  <1>7. Known(l, s)
    BY ONLY <1>4, <1>5, Known(link, s) DEF Known
  <1>8. /\ (Settled(link) => Settled(l)) /\ (Ordered(link) => Ordered(l))
        /\ (Serial(link) => Serial(l))
    BY ONLY <1>4, <1>5 DEF Settled, Ordered, Serial
  <1>9. Proc(link) => Proc(l)
    BY ONLY <1>4, <1>5 DEF Proc, InProc
  <1>10. \A n : (Between(l, n) => BetweenFinished(n)) /\ (InTurn(l, n) => InTurn(link, n))
    BY ONLY <1>4, <1>5, <1>6 DEF Between, BetweenFinished, InTurn
  <1>11. \A x : Next1st(link, x) => Next1st(l, x)
    BY ONLY <1>4, <1>5, <1>6 DEF Next1st
  <1>12. Hushed(l) /\ Silent(l)
    BY <1>4, HushedSilent DEF Hushed
  <1> QED BY <1>4, <1>6, <1>7, <1>8, <1>9, <1>10, <1>11, <1>12

(***************************************************************************)
(* What holds of every link, and what holds besides of one with one circuit. *)
(***************************************************************************)
CMBase ==
  /\ sent \in 0 .. MaxRequests /\ Known(link, sent) /\ Settled(link)
  /\ data_en \in BOOLEAN /\ phase \in {"get", "poll"}

CMOne ==
  /\ Ordered(link) /\ Serial(link)
  /\ ~ link.forgotten => Proc(link) /\ Truth(link)

\* A step is about the requests that are there, or reads one more.
Handles(l) ==
  /\ sent' = sent /\ Onward(l, link', sent)
  /\ NPvc = 1 /\ Ordered(l) /\ Serial(l) => Served(l, link')

Reads(l) ==
  /\ sent' = sent + 1 /\ sent + 1 \in Nums /\ Known(link', sent + 1) /\ Settled(link')
  /\ Ordered(l) /\ Serial(l) /\ (~ l.forgotten => Proc(l)) => Got(l, link', sent)

LEMMA NextSteps ==
  ASSUME CMBase, Next, NEW l, l = Quiet
  PROVE  /\ Handles(l) \/ Reads(l)
         /\ data_en' = data_en /\ phase' \in {"get", "poll"}
  <1> PICK s \in 0 .. MaxRequests : s = sent
    BY DEF CMBase
  <1>1. /\ Known(l, s) /\ Settled(l) /\ Hushed(l) /\ Silent(l) /\ Fresh(l) = Fresh(link)
        /\ \A x : Next1st(link, x) => Next1st(l, x)
        /\ l.conn_activity = link.conn_activity /\ l.link_state = link.link_state
        /\ l.w_buf = link.w_buf /\ l.w_cnt = link.w_cnt /\ l \in Links
    BY QuietIs DEF CMBase, Known
  <1>2. CASE GetRequest
    <2>1. PICK r \in NewRequests :
            link' = IF ~Legal(r) THEN Respond(l, r, "INVALID_PARAMETER")
                    ELSE IF r.type = "CANCEL" THEN ProcessCancel(l, r) ELSE Accept(l, r)
      BY <1>2 DEF GetRequest
    <2>2. s + 1 \in Nums /\ s + 1 \in Nat
      BY <1>2, Sizes DEF GetRequest, Nums
    <2>3. Sent(r, s)
      <3>1. None \in Nat /\ Pvcs \subseteq Nat /\ 1 .. s \subseteq Nat
        BY Sizes DEF None, Pvcs
      <3> QED BY <2>2, <3>1 DEF NewRequests, Sent, Request, Types
    <2>4. /\ Known(link', s + 1) /\ Settled(link')
          /\ Ordered(l) /\ Serial(l) /\ (~ l.forgotten => Proc(l)) => Got(l, link', s)
      <3> PICK m : m = link'
        OBVIOUS
      <3>1. m = IF ~Legal(r) THEN Respond(l, r, "INVALID_PARAMETER")
                ELSE IF r.type = "CANCEL" THEN ProcessCancel(l, r) ELSE Accept(l, r)
        BY <2>1
      <3>2. /\ Known(m, s + 1) /\ Settled(m)
            /\ Ordered(l) /\ Serial(l) /\ (~ l.forgotten => Proc(l)) => Got(l, m, s)
        BY ONLY <1>1, <2>2, <2>3, <3>1, s \in 0 .. MaxRequests, GetResult
      <3> QED BY <3>2
    <2> QED BY <1>2, <2>2, <2>4 DEF GetRequest, Reads
  <1>3. CASE ProcessRequest
    <2>1. sent' = s /\ data_en' = data_en /\ phase' \in {"get", "poll"}
      BY <1>3 DEF ProcessRequest
    <2>2. CASE Fresh(link) = {}
      <3>1. link' = l
        BY <1>3, <2>2 DEF ProcessRequest
      <3>2. Handles(l)
        BY <1>1, <2>1, <3>1, SelfServed DEF Handles
      <3> QED BY <2>1, <3>2
    <2>3. CASE Fresh(link) # {}
      <3>1. PICK x \in Slots : Next1st(link, x) /\ link' \in Outcomes(l, x)
        BY <1>3, <2>3 DEF ProcessRequest
      <3>2. Next1st(l, x)
        BY <1>1, <3>1
      <3>3. Onward(l, link', s)
        BY <1>1, <3>1, <3>2, ProcessOnward
      <3>4. NPvc = 1 /\ Ordered(l) /\ Serial(l) => Served(l, link')
        BY <1>1, <3>1, <3>2, ProcessServed
      <3> QED BY <2>1, <3>3, <3>4 DEF Handles
    <2> QED BY <2>2, <2>3
  <1>4. CASE EndPoll
    <2>1. link' = l /\ sent' = s /\ data_en' = data_en /\ phase' \in {"get", "poll"}
      BY <1>4 DEF EndPoll
    <2> QED BY <1>1, <2>1, SelfServed DEF Handles
  <1>5. CASE Connected
    <2>1. /\ link' = EndConnecting(l) /\ l.conn_activity = "CONNECTING" /\ sent' = s
          /\ data_en' = data_en /\ phase' \in {"get", "poll"}
      BY <1>1, <1>5 DEF Connected, Polled, CMBase
    <2> QED BY <1>1, <2>1, ConnectedServed DEF Handles
  <1>6. CASE ConnectionLost
    <2>1. /\ link' = Exception(l) /\ sent' = s
          /\ data_en' = data_en /\ phase' \in {"get", "poll"}
      BY <1>6 DEF ConnectionLost, Polled, CMBase
    <2> QED BY <1>1, <2>1, ExceptionServed DEF Handles
  <1>7. ASSUME NEW p \in Pvcs, WriteMore(p) PROVE Handles(l) /\ data_en' = data_en
                                                   /\ phase' \in {"get", "poll"}
    <2>1. /\ link' \in WriteOutcomes(l, p) \ {l} /\ sent' = s /\ l.link_state = "CONNECTED"
          /\ data_en' = data_en /\ phase' \in {"get", "poll"}
      BY <1>1, <1>7 DEF WriteMore, Polled, CMBase
    <2>2. l.w_buf[p] # None
      BY <2>1 DEF WriteOutcomes
    <2>3. Restated(l, l)
      BY <1>1 DEF Restated
    <2> QED BY <1>1, <2>1, <2>2, <2>3, WritingServed DEF Handles
  <1>8. ASSUME NEW p \in Pvcs, DataAck(p) PROVE Handles(l) /\ data_en' = data_en
                                                 /\ phase' \in {"get", "poll"}
    <2> PICK a : a = [l EXCEPT !.w_cnt[p] = "acked"]
      OBVIOUS
    <2>1. /\ link' \in WriteOutcomes(a, p) /\ sent' = s /\ l.link_state = "CONNECTED"
          /\ l.w_buf[p] # None /\ data_en' = data_en /\ phase' \in {"get", "poll"}
      BY <1>1, <1>8 DEF DataAck, Polled, CMBase
    <2>2. Restated(l, a) /\ a.link_state = l.link_state /\ a.heard = l.heard
      <3> PICK c : c = [l.w_cnt EXCEPT ![p] = "acked"]
        OBVIOUS
      <3>1. c \in [Pvcs -> {"some", "all", "acked"}]
        BY <1>1 DEF Links
      <3>2. a = [l EXCEPT !.w_cnt = c]
        BY <1>1 DEF Links
      <3> QED BY <1>1, <3>1, <3>2 DEF Restated, Links
    <2> QED BY <1>1, <2>1, <2>2, WritingServed DEF Handles
  <1> QED BY <1>2, <1>3, <1>4, <1>5, <1>6, <1>7, <1>8 DEF Next

LEMMA InitBase == Init => CMBase
  <1> SUFFICES ASSUME Init PROVE CMBase
    OBVIOUS
  <1>1. /\ link.req = [x \in Slots |-> AllDone] /\ link.n_reqs = 0 /\ link.w_buf = [p \in Pvcs |-> None]
        /\ link.conn_activity = "NO_ACTIVITY"
    BY DEF Init
  <1>2. 0 \in Slots /\ 0 \in 0 .. MaxReqs /\ sent \in 0 .. MaxRequests
    BY Sizes DEF Slots, Init
  <1>3. AllDone \in Request /\ AllDone.num = None /\ AllDone.state = "done"
    BY DEF AllDone, Request, Types, None
  <1>4. /\ [x \in Slots |-> AllDone] \in [Slots -> Request]
        /\ [p \in Pvcs |-> None] \in [Pvcs -> Nums \cup {None}]
        /\ [p \in Pvcs |-> 0] \in [Pvcs -> Slots]
        /\ [p \in Pvcs |-> "some"] \in [Pvcs -> {"some", "all", "acked"}]
        /\ << >> \in Seq(Responses) /\ {} \in SUBSET Nums
    BY <1>2, <1>3
  <1>5. link \in Links
    BY <1>2, <1>4 DEF Init, Links
  <1>6. \A x \in Slots : link.req[x].num = None /\ link.req[x].state = "done"
    BY <1>1, <1>3
  <1>7. \A p \in Pvcs : link.w_buf[p] = None
    BY <1>1
  <1>8. Known(link, sent)
    BY <1>1, <1>5, <1>6, <1>7 DEF Known
  <1>9. Settled(link)
    BY <1>1, <1>6 DEF Settled
  <1> QED BY <1>2, <1>8, <1>9 DEF Init, CMBase

LEMMA InitOne == Init => CMOne
  <1> SUFFICES ASSUME Init PROVE CMOne
    OBVIOUS
  <1>1. /\ link.n_reqs = 0 /\ link.w_buf = [p \in Pvcs |-> None] /\ link.heard = FALSE
        /\ link.conn_activity = "NO_ACTIVITY" /\ link.link_state = "DISCONNECTED"
        /\ link.out = << >> /\ link.gone = {} /\ link.conveyed = None
    BY DEF Init
  <1>2. InRing(link) = {}
    BY <1>1 DEF InRing
  <1>3. Ordered(link) /\ Serial(link)
    BY <1>1 DEF Ordered, Serial
  <1>4. link.w_buf[1] = None
    BY <1>1, Sizes DEF Pvcs
  <1>5. Proc(link)
    BY <1>1, <1>2, <1>4 DEF Proc
  <1>6. Hushed(link)
    BY <1>1 DEF Hushed
  <1>7. Truth(link)
    BY <1>6, HushedSilent, SilentTruth
  <1> QED BY <1>3, <1>5, <1>7 DEF CMOne

LEMMA BaseSteps == CMBase /\ [Next]_vars => CMBase'
  <1> SUFFICES ASSUME CMBase, [Next]_vars PROVE CMBase'
    OBVIOUS
  <1>1. CASE Next
    <2> PICK l : l = Quiet
      OBVIOUS
    <2>1. /\ Handles(l) \/ Reads(l)
          /\ data_en' = data_en /\ phase' \in {"get", "poll"}
      BY <1>1, NextSteps
    <2>2. CASE Handles(l)
      BY <2>1, <2>2 DEF Handles, Onward, CMBase
    <2>3. CASE Reads(l)
      <3>1. sent + 1 \in 0 .. MaxRequests
        BY <2>3, Sizes DEF Reads, Nums
      <3> QED BY <2>1, <2>3, <3>1 DEF Reads, CMBase
    <2> QED BY <2>1, <2>2, <2>3
  <1>2. CASE UNCHANGED vars
    <2>1. link' = link /\ data_en' = data_en /\ phase' = phase /\ sent' = sent
      BY <1>2 DEF vars
    <2>2. Known(link', sent') /\ Settled(link')
      BY <2>1 DEF CMBase
    <2> QED BY <2>1, <2>2 DEF CMBase
  <1> QED BY <1>1, <1>2

\* What a step other than a stuttering one does to a link with one circuit.
LEMMA OneStep ==
  ASSUME NPvc = 1, CMBase, CMOne, Next
  PROVE  /\ CMOne'
         /\ ~ link'.forgotten =>
              /\ Accounts(Live(link) \cup ((sent + 1) .. sent'), link')
              /\ InTurn(link, link'.conveyed)
         /\ \A n \in Live(link) : \/ n \in Live(link') \cup link'.gone \cup Answered(link')
                                  \/ BetweenFinished(n)
  <1> PICK l : l = Quiet
    OBVIOUS
  <1> PICK s \in 0 .. MaxRequests : s = sent
    BY DEF CMBase
  <1>1. /\ Known(l, s) /\ Hushed(l) /\ Silent(l) /\ Settled(l) /\ Ordered(l) /\ Serial(l)
        /\ Live(l) = Live(link) /\ l.forgotten = link.forgotten
        /\ (~ link.forgotten => Proc(l))
        /\ \A n : (Between(l, n) => BetweenFinished(n)) /\ (InTurn(l, n) => InTurn(link, n))
    BY QuietIs DEF CMBase, CMOne
  <1>2. Handles(l) \/ Reads(l)
    BY NextSteps
  <1> PICK m : m = link'
    OBVIOUS
  <1>3. CASE Handles(l)
    <2>1. sent' = s /\ Onward(l, m, s) /\ Served(l, m)
      BY <1>1, <1>3 DEF Handles
    <2>2. /\ m.forgotten = l.forgotten /\ Ordered(m) /\ Serial(m)
          /\ \A N : Covers(N, l) => Covers(N, m)
      BY <1>1, <2>1 DEF Onward, Served
    <2>3. ~ m.forgotten =>
            /\ Proc(m) /\ Truth(m) /\ InTurn(l, m.conveyed)
            /\ \A N : Accounts(N, l) => Accounts(N, m)
      BY <1>1, <2>1, <2>2 DEF Served
    <2>4. Accounts(Live(l), l) /\ Covers(Live(l), l)
      BY <1>1, HushedSilent
    <2>5. CMOne'
      <3>1. /\ Ordered(link') /\ Serial(link')
            /\ ~ link'.forgotten => Proc(link') /\ Truth(link')
        BY <2>2, <2>3
      <3> QED BY <3>1 DEF CMOne
    <2>6. (sent + 1) .. sent' = {}
      BY <2>1
    <2>7. ~ m.forgotten =>
            Accounts(Live(link) \cup ((sent + 1) .. sent'), m) /\ InTurn(link, m.conveyed)
      <3>1. Live(link) \cup ((sent + 1) .. sent') = Live(l)
        BY <1>1, <2>6
      <3> QED BY <1>1, <2>3, <2>4, <3>1
    <2>8. \A n \in Live(link) : n \in Live(m) \cup m.gone \cup Answered(m)
      <3>1. Covers(Live(l), m)
        BY <2>2, <2>4
      <3> QED BY <1>1, <3>1 DEF Covers
    <2> QED BY <1>1, <2>2, <2>5, <2>7, <2>8
  <1>4. CASE Reads(l)
    <2>1. sent' = s + 1 /\ Known(m, s + 1) /\ Got(l, m, s)
      BY <1>1, <1>4 DEF Reads
    <2>2. /\ Ordered(m) /\ Serial(m)
          /\ ~ m.forgotten => Proc(m) /\ Silent(m) /\ Accounts(Live(l) \cup {s + 1}, m)
          /\ \A n \in Live(l) : n \in Live(m) \cup m.gone \cup Answered(m) \/ Between(l, n)
      BY <2>1 DEF Got
    <2>3. CMOne'
      <3>1. /\ Ordered(link') /\ Serial(link')
            /\ ~ link'.forgotten => Proc(link') /\ Truth(link')
        BY <2>2, SilentTruth
      <3> QED BY <3>1 DEF CMOne
    <2>4. (sent + 1) .. sent' = {s + 1}
      BY <2>1, Sizes
    <2>5. Live(link) \cup ((sent + 1) .. sent') = Live(l) \cup {s + 1}
      BY <1>1, <2>4
    <2>6. ~ m.forgotten =>
            Accounts(Live(link) \cup ((sent + 1) .. sent'), m) /\ InTurn(link, m.conveyed)
      <3>1. Silent(m) => InTurn(link, m.conveyed)
        BY <1>1, NoneInTurn DEF Silent
      <3> QED BY <2>2, <2>5, <3>1
    <2>7. \A n \in Live(link) : \/ n \in Live(m) \cup m.gone \cup Answered(m)
                               \/ BetweenFinished(n)
      BY <1>1, <2>2
    <2> QED BY <2>3, <2>6, <2>7
  <1> QED BY <1>2, <1>3, <1>4

LEMMA OneSteps ==
  ASSUME NPvc = 1
  PROVE  CMBase /\ CMOne /\ [Next]_vars => CMOne'
  <1> SUFFICES ASSUME CMBase, CMOne, [Next]_vars PROVE CMOne'
    OBVIOUS
  <1>1. CASE Next
    BY <1>1, OneStep
  <1>2. CASE UNCHANGED vars
    <2>1. link' = link
      BY <1>2 DEF vars
    <2>2. /\ Ordered(link') /\ Serial(link')
          /\ ~ link'.forgotten => Proc(link') /\ Truth(link')
      BY <2>1 DEF CMOne
    <2> QED BY <2>2 DEF CMOne
  <1> QED BY <1>1, <1>2

(***************************************************************************)
(* The link is at all times what Link_struct declares: whatever is sent and  *)
(* whatever happens to the connection, the ring holds at most MAX_N_REQS     *)
(* requests, and responses are to requests that were sent.                   *)
(***************************************************************************)
THEOREM TypeCorrect == Spec => []TypeOK
  <1>1. CMBase => TypeOK
    BY DEF CMBase, TypeOK, Known
  <1> QED BY <1>1, InitBase, BaseSteps, PTL DEF Spec

LEMMA OneInvariant ==
  ASSUME NPvc = 1
  PROVE  Spec => [](CMBase /\ CMOne)
  BY InitBase, InitOne, BaseSteps, OneSteps, PTL DEF Spec

(***************************************************************************)
(* On a link with one circuit w_req_ind and conn_req_ind are at the write    *)
(* and the connect in processing, however the ring was shifted under them,   *)
(* as long as no connect or disconnect was turned away by a full ring.       *)
(***************************************************************************)
THEOREM IndicesRight ==
  ASSUME NPvc = 1
  PROVE  Spec => []IndexRight
  <1>1. CMBase /\ CMOne => IndexRight
    <2> SUFFICES ASSUME CMBase, CMOne, ~ link.forgotten PROVE IndexRight
      BY DEF IndexRight
    <2>1. Proc(link)
      BY DEF CMOne
    <2>2. Pvcs = {1}
      BY DEF Pvcs
    <2>3. \A x, type : InProc(link, x, type) => InProcessing(x, type)
      BY DEF InProc, InProcessing, Unfinished
    <2>4. WriteIndexRight
      BY <2>1, <2>2, <2>3 DEF Proc, WriteIndexRight
    <2> QED BY <2>1, <2>3, <2>4 DEF Proc, IndexRight
  <1> QED BY <1>1, OneInvariant, PTL

(***************************************************************************)
(* On such a link a write is answered CM_SUCCESS if and only if its data     *)
(* reached the other side, and what the user last heard of the connection    *)
(* is the state it is in.                                                    *)
(***************************************************************************)
THEOREM UserKnows ==
  ASSUME NPvc = 1
  PROVE  Spec => []UserToldTruth
  <1>1. CMBase /\ CMOne => UserToldTruth
    BY DEF CMOne, UserToldTruth, Truth, Proc
  <1> QED BY <1>1, OneInvariant, PTL

(***************************************************************************)
(* On such a link a step answers only requests that were waiting or just     *)
(* came, each once, and ends them; and a request that waits is answered,     *)
(* cancelled or dropped before it leaves the ring, but for one that stands   *)
(* between two finished ones. The latter holds even after a connect or       *)
(* disconnect was turned away.                                               *)
(***************************************************************************)
THEOREM EachAnsweredOnce ==
  ASSUME NPvc = 1
  PROVE  Spec => AnsweredOnce
  <1>1. CMBase /\ CMOne /\ [Next]_vars => [AnswersOnce]_vars
    <2> SUFFICES ASSUME CMBase, CMOne, Next PROVE AnswersOnce
      OBVIOUS
    <2>1. /\ ~ link'.forgotten => Accounts(Live(link) \cup ((sent + 1) .. sent'), link')
          /\ \A n \in Live(link) : \/ n \in Live(link') \cup link'.gone \cup Answered(link')
                                   \/ BetweenFinished(n)
      BY OneStep
    <2>2. \A N : Accounts(N, link') =>
            /\ Answered(link') \subseteq N
            /\ \A i, j \in DOMAIN link'.out : link'.out[i].num = link'.out[j].num => i = j
            /\ Answered(link') \cap (Live(link') \cup link'.gone) = {}
      BY DEF Accounts
    <2> QED BY <2>1, <2>2 DEF AnswersOnce
  <1> QED BY <1>1, OneInvariant, PTL DEF Spec, AnsweredOnce

(***************************************************************************)
(* On such a link the writes reach the other side in the order in which they *)
(* were sent: none whose data are conveyed leaves an older one behind, as    *)
(* long as no connect or disconnect was turned away.                         *)
(***************************************************************************)
THEOREM OlderWritesFirst ==
  ASSUME NPvc = 1
  PROVE  Spec => WritesInOrder
  <1>1. CMBase /\ CMOne /\ [Next]_vars => [WritesOldest]_vars
    <2> SUFFICES ASSUME CMBase, CMOne, Next PROVE WritesOldest
      OBVIOUS
    <2>1. ~ link'.forgotten => InTurn(link, link'.conveyed)
      BY OneStep
    <2> QED BY <2>1 DEF InTurn, WritesOldest
  <1> QED BY <1>1, OneInvariant, PTL DEF Spec, WritesInOrder
================================================================================
