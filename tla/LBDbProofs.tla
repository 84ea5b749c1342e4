------------------------------ MODULE LBDbProofs -------------------------------
(***************************************************************************)
(* The message data base (LBDb) for every number of messages, size of the   *)
(* area, number of readers, calls and failures: no space is ever given to   *)
(* two messages, and a read that takes no lock returns one whole message.   *)
(***************************************************************************)
EXTENDS LBDb, TLAPS, WellFoundedInduction

--------------------------------------------------------------------------------
(* Arithmetic *)

\* The remainder by the number of slots, and by two.
LEMMA DivMod ==
  ASSUME NEW x \in Int, NEW d \in Nat \ {0}
  PROVE  /\ x \div d \in Int
         /\ x % d \in 0 .. d - 1
         /\ x = d * (x \div d) + (x % d)
  BY Z3

\* Different multiples are at least the factor apart.
LEMMA MulLt ==
  ASSUME NEW q \in Int, NEW s \in Int, NEW d \in Nat \ {0}, q < s
  PROVE  d * q + d <= d * s
  <1>1. PICK e \in Nat : s = q + 1 + e
    <2>1. s - q - 1 \in Nat /\ s = q + 1 + (s - q - 1)
      OBVIOUS
    <2> QED BY <2>1
  <1>2. d * s = d * q + d + d * e /\ d * e \in Nat
    BY <1>1
  <1> QED
    BY <1>2

\* Numbers less than d apart have different remainders.
LEMMA ModDistinct ==
  ASSUME NEW x \in Int, NEW y \in Int, NEW d \in Nat \ {0}, x < y, y - x < d
  PROVE  x % d # y % d
  <1> SUFFICES ASSUME x % d = y % d PROVE FALSE
    OBVIOUS
  <1> DEFINE q == x \div d
             s == y \div d
             r == x % d
  <1>1. q \in Int /\ s \in Int /\ r \in 0 .. d - 1 /\ x = d * q + r /\ y = d * s + r
    <2>1. q \in Int /\ r \in 0 .. d - 1 /\ x = d * q + r
      BY DivMod
    <2>2. s \in Int /\ y = d * s + r
      BY DivMod
    <2> QED BY <2>1, <2>2
  <1> HIDE DEF q, s, r
  <1>2. ~ (q < s)
    BY <1>1, MulLt
  <1>3. ~ (s < q)
    BY <1>1, MulLt
  <1> QED
    BY <1>1, <1>2, <1>3

\* A set of natural numbers has a least element.
LEMMA Least ==
  ASSUME NEW T \in SUBSET Nat, T # {}
  PROVE  \E x \in T : \A y \in T : x <= y
  <1> DEFINE R == {p \in Nat \X Nat : p[1] < p[2]}
  <1>1. IsWellFoundedOn(R, Nat)
    BY NatLessThanWellFounded DEF OpToRel
  <1>2. \E x \in T : \A y \in T : ~ (<<y, x>> \in R)
    <2> HIDE DEF R
    <2> QED BY <1>1, WFMin
  <1>3. PICK x \in T : \A y \in T : ~ (<<y, x>> \in R)
    BY <1>2
  <1>4. \A y \in T : ~ (y < x)
    BY <1>3
  <1> QED
    BY <1>4

\* What the assumptions say of the constants.
LEMMA Constants ==
  /\ MaxMsgs \in Nat \ {0} /\ Area \in Nat \ {0} /\ IdMask \in Nat \ {0}
  /\ BinaryMin \in Nat /\ BinaryMin >= 2 /\ MaxLead \in 0 .. 3
  /\ NSlots \in Nat \ {0} /\ NSlots = MaxMsgs + 4
  /\ MaxId \in Nat /\ MaxId = 2 * IdMask - 1 /\ MaxMsgs <= MaxId
  /\ Lengths \subseteq 0 .. Area /\ UserIds \subseteq 1 .. MaxId
  /\ Before \subseteq 0 .. MaxMsgs /\ \A n \in Before : n <= Area
  /\ MaxCalls \in Nat /\ MaxClears \in Nat /\ MaxFaults \in Nat
  <1>1. /\ MaxMsgs \in Nat \ {0} /\ Area \in Nat \ {0} /\ IdMask \in Nat \ {0}
        /\ MaxCalls \in Nat /\ MaxClears \in Nat /\ MaxFaults \in Nat
    BY DbAssumption DEF DbAssumption
  <1>2. MaxId \in Nat /\ MaxId = 2 * IdMask - 1 /\ MaxMsgs <= MaxId
    BY <1>1, DbAssumption DEF MaxId, DbAssumption
  <1>3. UserIds \subseteq 1 .. MaxId
    <2>1. UserIds \subseteq 1 .. IdMask - 1
      BY DbAssumption DEF DbAssumption
    <2> QED BY <1>1, <1>2, <2>1
  <1>4. BinaryMin \in Nat /\ BinaryMin >= 2
    BY DbAssumption DEF DbAssumption
  <1> QED
    BY <1>1, <1>2, <1>3, <1>4, DbAssumption DEF DbAssumption, NSlots

--------------------------------------------------------------------------------
(* The binary search stays among the messages *)

\* Both halves of an interval are shorter, and a long one has a middle.
LEMMA Middle ==
  ASSUME NEW s \in Nat, NEW e \in Nat, NEW mid, mid = (s + e) \div 2
  PROVE  /\ mid \in Nat
         /\ mid > s => e - mid < e - s /\ mid - s < e - s /\ mid < e
  BY Z3

Length(i) == IF i[1] < i[2] THEN i[2] - i[1] ELSE 0

\* Halve looks at shorter intervals only.
LEMMA HalveLooks ==
  ASSUME NEW id, NEW f, NEW g, NEW i \in Nat \X Nat,
         \A j \in Nat \X Nat : Length(j) < Length(i) => f[j] = g[j]
  PROVE  Halve(id, f, i) = Halve(id, g, i)
  <1> DEFINE mid == (i[1] + i[2]) \div 2
  <1>1. i[1] \in Nat /\ i[2] \in Nat
    OBVIOUS
  <1>2. mid \in Nat /\ (mid > i[1] => i[2] - mid < Length(i) /\ mid - i[1] < Length(i))
    <2>1. mid \in Nat /\ (mid > i[1] => i[2] - mid < i[2] - i[1] /\ mid - i[1] < i[2] - i[1] /\ mid < i[2])
      BY <1>1, Middle
    <2> HIDE DEF mid
    <2> QED BY <1>1, <2>1 DEF Length
  <1>3. CASE mid <= i[1]
    BY <1>3 DEF Halve
  <1>4. CASE mid > i[1]
    <2>1. <<mid, i[2]>> \in Nat \X Nat /\ <<i[1], mid>> \in Nat \X Nat
      BY <1>1, <1>2
    <2>2. Length(<<mid, i[2]>>) < Length(i) /\ Length(<<i[1], mid>>) < Length(i)
      <3> HIDE DEF mid
      <3> QED BY <1>1, <1>2, <1>4 DEF Length
    <2>3. f[<<mid, i[2]>>] = g[<<mid, i[2]>>] /\ f[<<i[1], mid>>] = g[<<i[1], mid>>]
      BY <2>1, <2>2
    <2> HIDE DEF mid
    <2>4. Halve(id, f, i) = IF mid <= i[1] THEN i[2]
                            ELSE IF Masked(id) >= Masked(dir[Slot(mid)].id) THEN f[<<mid, i[2]>>]
                            ELSE f[<<i[1], mid>>]
      BY DEF Halve, mid
    <2>5. Halve(id, g, i) = IF mid <= i[1] THEN i[2]
                            ELSE IF Masked(id) >= Masked(dir[Slot(mid)].id) THEN g[<<mid, i[2]>>]
                            ELSE g[<<i[1], mid>>]
      BY DEF Halve, mid
    <2> QED
      BY <2>3, <2>4, <2>5
  <1> QED
    BY <1>1, <1>2, <1>3, <1>4

\* A function that is right for the intervals up to a length.
Good(id, f, n) == \A i \in Nat \X Nat : Length(i) <= n => f[i] = Halve(id, f, i)

\* Two such functions agree.
LEMMA GoodAgree ==
  ASSUME NEW id, NEW f, NEW g, NEW n \in Nat, Good(id, f, n), Good(id, g, n)
  PROVE  \A i \in Nat \X Nat : Length(i) <= n => f[i] = g[i]
  <1> DEFINE T == {Length(i) : i \in {j \in Nat \X Nat : Length(j) <= n /\ f[j] # g[j]}}
  <1>1. T \in SUBSET Nat
    BY DEF Length
  <1>2. ASSUME T # {} PROVE FALSE
    <2>1. PICK x \in T : \A y \in T : x <= y
      <3> HIDE DEF T
      <3> QED BY <1>1, <1>2, Least
    <2>2. PICK i \in Nat \X Nat : Length(i) = x /\ Length(i) <= n /\ f[i] # g[i]
      OBVIOUS
    <2>3. ASSUME NEW j \in Nat \X Nat, Length(j) < Length(i) PROVE f[j] = g[j]
      <3>1. Length(j) \in Nat /\ Length(i) \in Nat
        BY DEF Length
      <3>2. Length(j) \notin T
        <4> HIDE DEF T
        <4> QED BY <1>1, <2>1, <2>2, <2>3, <3>1
      <3>3. Length(j) <= n
        BY <2>2, <2>3, <3>1
      <3> QED
        BY <3>2, <3>3
    <2>4. Halve(id, f, i) = Halve(id, g, i)
      BY <2>3, HalveLooks
    <2> QED
      BY <2>2, <2>4 DEF Good
  <1> QED
    BY <1>2

\* There is one for every length.
LEMMA GoodExists ==
  ASSUME NEW id
  PROVE  \A n \in Nat : \E f : Good(id, f, n)
  <1> DEFINE T == {n \in Nat : ~ \E f : Good(id, f, n)}
  <1>1. ASSUME T # {} PROVE FALSE
    <2>1. PICK n \in T : \A y \in T : n <= y
      <3>1. T \in SUBSET Nat
        OBVIOUS
      <3> HIDE DEF T
      <3> QED BY <1>1, <3>1, Least
    <2>2. n \in Nat /\ ~ \E f : Good(id, f, n)
      OBVIOUS
    <2>3. PICK f : n > 0 => Good(id, f, n - 1)
      <3>1. n > 0 => n - 1 \notin T
        <4> HIDE DEF T
        <4> QED BY <2>1, <2>2
      <3> QED
        BY <2>2, <3>1
    <2> DEFINE g == [i \in Nat \X Nat |-> Halve(id, f, i)]
    <2>4. ASSUME NEW i \in Nat \X Nat, Length(i) <= n PROVE g[i] = Halve(id, g, i)
      <3>1. ASSUME NEW j \in Nat \X Nat, Length(j) < Length(i) PROVE f[j] = g[j]
        <4>1. Length(j) \in Nat /\ Length(i) \in Nat
          BY DEF Length
        <4>2. n > 0 /\ Length(j) <= n - 1
          BY <2>2, <2>4, <3>1, <4>1
        <4>3. f[j] = Halve(id, f, j)
          BY <2>3, <4>2 DEF Good
        <4> QED
          BY <4>3
      <3>2. Halve(id, f, i) = Halve(id, g, i)
        <4> HIDE DEF g
        <4> QED BY <3>1, HalveLooks
      <3>3. g[i] = Halve(id, f, i)
        OBVIOUS
      <3> QED
        BY <3>2, <3>3
    <2>5. Good(id, g, n)
      BY <2>4 DEF Good
    <2> QED
      BY <2>2, <2>5
  <1> QED
    BY <1>1

\* The recursive definition in Bisect defines a function.
LEMMA BisectExists ==
  ASSUME NEW id
  PROVE  \E f : f = [i \in Nat \X Nat |-> Halve(id, f, i)]
  <1> DEFINE G(n) == CHOOSE f : Good(id, f, n)
             h == [i \in Nat \X Nat |-> G(Length(i))[i]]
  <1>1. \A n \in Nat : Good(id, G(n), n)
    BY GoodExists
  <1> HIDE DEF G
  <1>2. ASSUME NEW i \in Nat \X Nat PROVE h[i] = Halve(id, h, i)
    <2> DEFINE g == G(Length(i))
    <2>1. Length(i) \in Nat
      BY DEF Length
    <2>2. Good(id, g, Length(i))
      BY <1>1, <2>1
    <2> HIDE DEF g
    <2>3. ASSUME NEW j \in Nat \X Nat, Length(j) < Length(i) PROVE g[j] = h[j]
      <3>1. Length(j) \in Nat
        BY DEF Length
      <3>2. Good(id, G(Length(j)), Length(j))
        BY <1>1, <3>1
      <3>3. Good(id, g, Length(j))
        <4>1. \A k \in Nat \X Nat : Length(k) \in Nat
          BY DEF Length
        <4> QED BY <2>1, <2>2, <2>3, <3>1, <4>1 DEF Good
      <3>4. G(Length(j))[j] = g[j]
        BY <3>1, <3>2, <3>3, GoodAgree
      <3> QED
        BY <3>4
    <2>4. Halve(id, g, i) = Halve(id, h, i)
      <3> HIDE DEF h
      <3> QED BY <2>3, HalveLooks
    <2>5. h[i] = g[i]
      BY DEF g
    <2>6. g[i] = Halve(id, g, i)
      BY <2>1, <2>2 DEF Good
    <2> QED
      BY <2>4, <2>5, <2>6
  <1>3. h = [i \in Nat \X Nat |-> Halve(id, h, i)]
    <2>1. \A i \in Nat \X Nat : h[i] = Halve(id, h, i)
      BY <1>2
    <2>2. h = [i \in Nat \X Nat |-> h[i]]
      OBVIOUS
    <2> HIDE DEF h
    <2> QED BY <2>1, <2>2
  <1> QED
    BY <1>3

\* The id of a message.
Id(pt) == dir[Slot(pt)].id

\* Where a search by halves of the messages i may end: at one of them, with one
\* before it; the masked id searched for is below that of the end, unless that
\* is the last, and not below that of the one before, unless that is the first.
Ends(id, i, e) ==
  /\ e \in i[1] + 1 .. i[2]
  /\ e = i[2] \/ ~ (Masked(id) >= Masked(Id(e)))
  /\ e - 1 = i[1] \/ Masked(id) >= Masked(Id(e - 1))

\* One halving, when the halves end right.
LEMMA HalveEnds ==
  ASSUME NEW id, NEW f, NEW s \in Nat, NEW e \in Nat, s < e,
         NEW mid, mid = (s + e) \div 2,
         mid > s => Ends(id, <<mid, e>>, f[<<mid, e>>]) /\ Ends(id, <<s, mid>>, f[<<s, mid>>])
  PROVE  Ends(id, <<s, e>>, Halve(id, f, <<s, e>>))
  <1>1. mid \in Nat /\ (mid > s => mid < e) /\ (~ (mid > s) => e - 1 = s)
    BY Z3
  <1>2. Halve(id, f, <<s, e>>) =
          IF mid <= s THEN e
          ELSE IF Masked(id) >= Masked(Id(mid)) THEN f[<<mid, e>>] ELSE f[<<s, mid>>]
    BY DEF Halve, Id
  <1>3. CASE ~ (mid > s)
    <2>1. Halve(id, f, <<s, e>>) = e
      BY <1>1, <1>2, <1>3
    <2> QED BY <1>1, <1>3, <2>1 DEF Ends
  <1>4. CASE mid > s /\ Masked(id) >= Masked(Id(mid))
    <2> DEFINE x == f[<<mid, e>>]
    <2>1. Halve(id, f, <<s, e>>) = x
      BY <1>1, <1>2, <1>4
    <2>2. Ends(id, <<mid, e>>, x)
      BY <1>4
    <2> HIDE DEF x
    <2>3. /\ x \in mid + 1 .. e
          /\ x = e \/ ~ (Masked(id) >= Masked(Id(x)))
          /\ x - 1 = mid \/ Masked(id) >= Masked(Id(x - 1))
      BY <2>2 DEF Ends
    <2>4. Masked(id) >= Masked(Id(x - 1))
      BY <1>4, <2>3
    <2>5. x \in s + 1 .. e
      BY <1>1, <1>4, <2>3
    <2> QED BY <2>1, <2>3, <2>4, <2>5 DEF Ends
  <1>5. CASE mid > s /\ ~ (Masked(id) >= Masked(Id(mid)))
    <2> DEFINE x == f[<<s, mid>>]
    <2>1. Halve(id, f, <<s, e>>) = x
      BY <1>1, <1>2, <1>5
    <2>2. Ends(id, <<s, mid>>, x)
      BY <1>5
    <2> HIDE DEF x
    <2>3. /\ x \in s + 1 .. mid
          /\ x = mid \/ ~ (Masked(id) >= Masked(Id(x)))
          /\ x - 1 = s \/ Masked(id) >= Masked(Id(x - 1))
      BY <2>2 DEF Ends
    <2>4. ~ (Masked(id) >= Masked(Id(x)))
      BY <1>5, <2>3
    <2>5. x \in s + 1 .. e
      BY <1>1, <1>5, <2>3
    <2> QED BY <2>1, <2>3, <2>4, <2>5 DEF Ends
  <1> QED
    BY <1>3, <1>4, <1>5

\* So does the whole search.
LEMMA BisectEnds ==
  ASSUME NEW id, NEW st \in Nat, NEW end \in Nat, st < end
  PROVE  Ends(id, <<st, end>>, Bisect(id, st, end))
  <1> DEFINE f == CHOOSE f : f = [i \in Nat \X Nat |-> Halve(id, f, i)]
             T == {Length(i) : i \in {j \in Nat \X Nat : j[1] < j[2] /\ ~ Ends(id, j, f[j])}}
  <1>1. f = [i \in Nat \X Nat |-> Halve(id, f, i)]
    BY BisectExists
  <1>2. Bisect(id, st, end) = f[<<st, end>>]
    BY DEF Bisect
  <1> HIDE DEF f
  <1>3. \A i \in Nat \X Nat : f[i] = Halve(id, f, i)
    BY <1>1
  <1>4. ASSUME T # {} PROVE FALSE
    <2>1. T \in SUBSET Nat
      BY DEF Length
    <2>2. PICK x \in T : \A y \in T : x <= y
      <3> HIDE DEF T
      <3> QED BY <1>4, <2>1, Least
    <2>3. PICK i \in Nat \X Nat : Length(i) = x /\ i[1] < i[2] /\ ~ Ends(id, i, f[i])
      OBVIOUS
    <2> DEFINE mid == (i[1] + i[2]) \div 2
    <2>4. i[1] \in Nat /\ i[2] \in Nat /\ i = <<i[1], i[2]>>
      OBVIOUS
    <2>5. mid \in Nat /\ (mid > i[1] => mid < i[2])
      BY <2>4, Middle
    <2>6. ASSUME NEW j \in Nat \X Nat, j[1] < j[2], Length(j) < Length(i)
          PROVE  Ends(id, j, f[j])
      <3>1. Length(j) \notin T
        <4>1. Length(j) \in Nat /\ Length(i) \in Nat
          BY DEF Length
        <4> HIDE DEF T
        <4> QED BY <2>1, <2>2, <2>3, <2>6, <4>1
      <3> QED
        BY <2>6, <3>1
    <2> HIDE DEF T
    <2>7. ASSUME mid > i[1]
          PROVE  /\ Ends(id, <<mid, i[2]>>, f[<<mid, i[2]>>])
                 /\ Ends(id, <<i[1], mid>>, f[<<i[1], mid>>])
      <3>1. <<mid, i[2]>> \in Nat \X Nat /\ <<i[1], mid>> \in Nat \X Nat
        BY <2>4, <2>5
      <3> HIDE DEF mid
      <3>2. Length(<<mid, i[2]>>) < Length(i) /\ Length(<<i[1], mid>>) < Length(i)
        BY <2>3, <2>4, <2>5, <2>7 DEF Length
      <3>3. <<mid, i[2]>>[1] < <<mid, i[2]>>[2] /\ <<i[1], mid>>[1] < <<i[1], mid>>[2]
        BY <2>4, <2>5, <2>7
      <3> QED BY <2>6, <3>1, <3>2, <3>3
    <2>8. Ends(id, <<i[1], i[2]>>, Halve(id, f, <<i[1], i[2]>>))
      <3>1. mid = (i[1] + i[2]) \div 2
        OBVIOUS
      <3> HIDE DEF mid
      <3> QED BY <2>3, <2>4, <2>7, <3>1, HalveEnds
    <2> QED
      BY <1>3, <2>3, <2>4, <2>8
  <1>5. <<st, end>> \in Nat \X Nat /\ <<st, end>>[1] < <<st, end>>[2]
    OBVIOUS
  <1>6. Ends(id, <<st, end>>, f[<<st, end>>])
    BY <1>4, <1>5
  <1> QED
    BY <1>2, <1>6

\* In particular, among the messages.
LEMMA BisectInside ==
  ASSUME NEW id, NEW st \in Nat, NEW end \in Nat, st < end
  PROVE  Bisect(id, st, end) \in st + 1 .. end
  BY BisectEnds DEF Ends

\* What is found is among the messages.
LEMMA FoundInside ==
  ASSUME NEW id, first \in Nat, next \in Nat
  PROVE  Found(id) \subseteq Window
  <1>1. CASE next - first >= BinaryMin /\ non_dec
    <2>1. next - 1 \in Nat /\ first < next - 1
      BY <1>1, Constants
    <2>2. Bisect(id, first, next - 1) \in first + 1 .. next - 1
      BY <2>1, BisectInside
    <2> DEFINE e == Bisect(id, first, next - 1)
    <2>3. Candidates(id) = {e - 1, e}
      BY <1>1 DEF Candidates
    <2> HIDE DEF e
    <2>4. e \in first + 1 .. next - 1
      BY <2>2 DEF e
    <2>5. {e - 1, e} \subseteq Window
      BY <2>4 DEF Window
    <2> QED
      BY <2>3, <2>5 DEF Found
  <1>2. CASE ~ (next - first >= BinaryMin /\ non_dec)
    BY <1>2 DEF Found, Candidates
  <1> QED
    BY <1>1, <1>2

\* A set of messages has a latest one.
LEMMA LatestIn ==
  ASSUME NEW S \in SUBSET Window, S # {}, first \in Nat, next \in Nat
  PROVE  Latest(S) \in S
  <1> DEFINE T == {next - p : p \in S}
  <1>1. S \subseteq Nat /\ \A p \in S : p < next
    BY DEF Window
  <1>2. T \in SUBSET Nat /\ T # {}
    <2>1. \A p \in S : next - p \in Nat
      BY <1>1
    <2> QED BY <2>1
  <1>3. PICK x \in T : \A y \in T : x <= y
    <2> HIDE DEF T
    <2> QED BY <1>2, Least
  <1>4. PICK p \in S : x = next - p
    OBVIOUS
  <1>5. \A o \in S : next - p <= next - o
    BY <1>3, <1>4
  <1>6. \A o \in S : o <= p
    BY <1>1, <1>5
  <1> QED
    BY <1>6 DEF Latest

--------------------------------------------------------------------------------
(* The inductive invariant of the writers *)

Value == [n : Int, len : Int]
InfoType == [len : -1 .. Area, loc : 0 .. Area, val : Value]
Unit == Int \X Int

CallType ==
  [pc : {"body", "info", "publish", "table", "free", "freed"}, id : 0 .. MaxId,
   len : -1 .. Area, pt : Nat, kind : {"replace", "any", "byUser"}, loc : 0 .. Area,
   k : 0 .. Area, old : InfoType, val : Value]

Header == first \in Nat /\ next \in first .. first + MaxMsgs

DbType ==
  /\ Header
  /\ {by_user, deleted, non_dec, sms_ok} \subseteq BOOLEAN
  /\ dir \in [0 .. NSlots - 1 -> [id : 0 .. MaxId, ucnt : Nat, info : [0 .. 1 -> InfoType]]]
  /\ total \in 0 .. Area /\ size \in 0 .. Area /\ free \subseteq 0 .. Area - 1
  /\ unit \in [0 .. Area - 1 -> Unit]
  /\ w \in {Idle} \cup CallType
  /\ calls \in 0 .. MaxCalls /\ clears \in 0 .. MaxClears /\ faults \in 0 .. MaxFaults

\* The space of a message, which holds it whole.
Place(pt) == Span(Current(pt).loc, Current(pt).len)
Whole(pt) ==
  LET m == Current(pt)
  IN  /\ m.len = m.val.len
      /\ \A k \in 0 .. m.len - 1 : unit[m.loc + k] = <<m.val.n, k>>
      /\ Place(pt) \subseteq 0 .. size - 1

\* Messages are whole in space of their own.
Stored ==
  /\ \A pt \in Window : Whole(pt)
  /\ \A p, q \in Window : p # q => Place(p) \cap Place(q) = {}

\* The steps before and after a message is made current; the space it was
\* given, and that of the version it replaces.
Storing == w.pc \in {"body", "info", "publish"}
Published == w.pc \in {"table", "free", "freed"}
Mine == Span(w.loc, w.len)
Old == Span(w.old.loc, w.old.len)

\* A call works in space that no message has; it frees what none has any more.
StoringInv ==
  /\ w.val.len = w.len
  /\ IF w.kind = "replace" THEN w.pt \in Window /\ w.old = Current(w.pt)
                           ELSE w.pt = next /\ next < first + MaxMsgs /\ w.old.len = -1
  /\ Mine \cap Live = {} /\ Mine \subseteq 0 .. Area - 1
  /\ \A k \in 0 .. w.k - 1 : unit[w.loc + k] = <<w.val.n, k>>
  /\ w.k > 0 => w.loc + w.k <= size
  /\ IF w.pc = "body" THEN w.k < w.len ELSE w.len > 0 => w.k = w.len
  /\ w.pc = "publish" =>
       LET d == dir[Slot(w.pt)]
       IN  IF w.kind = "replace" THEN d.info[(d.ucnt + 1) % 2] = Info(w.len, w.loc, w.val)
           ELSE d.ucnt = 0 /\ d.info[0] = Info(w.len, w.loc, w.val)

PublishedInv == Old \cap Live = {} /\ Old \subseteq 0 .. size - 1

(***************************************************************************)
(* The table is right, although not marked so yet, while a call that took   *)
(* or frees space is under way. The space of the call, and of the version   *)
(* it replaces, is not free in it; unless a call failed, nothing else that  *)
(* is in no message is missing.                                             *)
(***************************************************************************)
Trusted == sms_ok \/ ((Storing \/ w.pc = "table") /\ w.len > 0) \/ w.pc = "freed"
Taken == Live \cup (IF Storing THEN Mine ELSE {}) \cup (IF Published THEN Old ELSE {})
Growing == w.pc = "body" /\ total = w.loc + w.len /\ size = w.loc + w.k

TableInv ==
  /\ free \subseteq 0 .. total - 1
  /\ Trusted =>
       /\ free \cap Taken = {} /\ size <= total
       /\ Storing => Mine \subseteq 0 .. total - 1
       /\ faults = 0 => free = (0 .. total - 1) \ Taken /\ (total = size \/ Growing)

DbInv ==
  /\ DbType /\ Stored /\ TableInv
  /\ w.pc # "idle" => w \in CallType
  /\ Storing => StoringInv
  /\ Published => PublishedInv

--------------------------------------------------------------------------------
(* Slots and messages *)

LEMMA SlotType ==
  ASSUME NEW pt \in Int
  PROVE  Slot(pt) \in 0 .. NSlots - 1
  BY Constants, DivMod DEF Slot

LEMMA SlotsDiffer ==
  ASSUME NEW p \in Int, NEW q \in Int, p # q, p - q < NSlots, q - p < NSlots
  PROVE  Slot(p) # Slot(q)
  <1>1. CASE p < q
    BY <1>1, Constants, ModDistinct DEF Slot
  <1>2. CASE q < p
    BY <1>2, Constants, ModDistinct DEF Slot
  <1> QED
    BY <1>1, <1>2

\* The infos of a message are used in turn.
LEMMA Turns ==
  ASSUME NEW u \in Nat
  PROVE  u % 2 \in 0 .. 1 /\ (u + 1) % 2 \in 0 .. 1 /\ (u + 1) % 2 # u % 2
  BY Z3

LEMMA CurrentType ==
  ASSUME DbType, NEW pt \in Int
  PROVE  /\ dir[Slot(pt)] \in [id : 0 .. MaxId, ucnt : Nat, info : [0 .. 1 -> InfoType]]
         /\ dir[Slot(pt)].ucnt \in Nat
         /\ Current(pt) \in InfoType
  <1>1. dir[Slot(pt)] \in [id : 0 .. MaxId, ucnt : Nat, info : [0 .. 1 -> InfoType]]
    BY SlotType DEF DbType
  <1>2. dir[Slot(pt)].ucnt \in Nat /\ dir[Slot(pt)].info \in [0 .. 1 -> InfoType]
    BY <1>1
  <1> QED
    BY <1>1, <1>2, Turns DEF Current

LEMMA WindowType ==
  ASSUME Header
  PROVE  /\ first \in Nat /\ next \in Nat /\ first <= next /\ next <= first + MaxMsgs
         /\ Window \subseteq Nat /\ next \notin Window
         /\ \A p \in Window : p < next /\ first <= p /\ Slot(p) # Slot(next)
         /\ \A p, q \in Window : p # q => Slot(p) # Slot(q)
  <1>1. first \in Nat /\ next \in Nat /\ first <= next /\ next <= first + MaxMsgs
    BY Constants DEF Header
  <1>2. Window \subseteq Nat /\ next \notin Window /\ \A p \in Window : p < next /\ first <= p
    BY <1>1 DEF Window
  <1>3. ASSUME NEW p \in Window PROVE Slot(p) # Slot(next)
    <2>1. p \in Int /\ next \in Int /\ p # next /\ p - next < NSlots /\ next - p < NSlots
      BY <1>1, <1>2, <1>3, Constants
    <2> QED BY <2>1, SlotsDiffer
  <1>4. ASSUME NEW p \in Window, NEW q \in Window, p # q PROVE Slot(p) # Slot(q)
    <2>1. p \in Int /\ q \in Int /\ p - q < NSlots /\ q - p < NSlots
      BY <1>1, <1>2, <1>4, Constants
    <2> QED BY <1>4, <2>1, SlotsDiffer
  <1> QED
    BY <1>1, <1>2, <1>3, <1>4

LEMMA LiveIs == Live = UNION {Place(pt) : pt \in Window}
  BY DEF Live, Place

LEMMA LiveInside ==
  ASSUME Stored
  PROVE  Live \subseteq 0 .. size - 1
  BY LiveIs DEF Stored, Whole

\* The messages and their infos are those before.
MessagesKept == Window' = Window /\ \A pt \in Window : Current(pt)' = Current(pt)

LEMMA LiveKept ==
  ASSUME MessagesKept
  PROVE  Live' = Live /\ \A pt \in Window : Place(pt)' = Place(pt)
  <1>1. \A pt \in Window : Place(pt)' = Place(pt)
    BY DEF MessagesKept, Place, Span
  <1> QED
    BY <1>1 DEF MessagesKept, Live, Place

LEMMA StoredKept ==
  ASSUME DbType, Stored, MessagesKept, \A u \in Live : unit'[u] = unit[u],
         size' \in Nat, size <= size'
  PROVE  Stored'
  <1>1. ASSUME NEW pt \in Window PROVE Whole(pt)'
    <2> DEFINE m == Current(pt)
    <2>1. Whole(pt) /\ Current(pt)' = m /\ Place(pt)' = Place(pt) /\ Place(pt) \subseteq Live
      BY <1>1, LiveKept, LiveIs DEF Stored, MessagesKept
    <2>2. m \in InfoType
      BY <1>1, CurrentType, WindowType DEF DbType
    <2>3. ASSUME NEW k \in 0 .. m.len - 1 PROVE unit'[m.loc + k] = <<m.val.n, k>>
      <3> HIDE DEF m
      <3>1. m.loc + k \in Span(m.loc, m.len)
        BY <2>2, <2>3 DEF Span, InfoType
      <3>2. m.loc + k \in Live
        BY <2>1, <3>1 DEF Place, m
      <3>3. unit[m.loc + k] = <<m.val.n, k>>
        BY <2>1, <2>3 DEF Whole, m
      <3> QED BY <3>2, <3>3
    <2>4. Place(pt)' \subseteq 0 .. size' - 1
      BY <2>1 DEF Whole, DbType
    <2> QED
      BY <2>1, <2>3, <2>4 DEF Whole
  <1>2. \A p, q \in Window : p # q => Place(p)' \cap Place(q)' = {}
    BY LiveKept DEF Stored
  <1> QED
    BY <1>1, <1>2 DEF Stored, MessagesKept

--------------------------------------------------------------------------------
(* The table of free space *)

\* Between calls the table, checked, has no space in use as free, and has all
\* the other space unless calls failed.
LEMMA TableRight ==
  ASSUME DbInv, w.pc = "idle"
  PROVE  /\ Table.total \in 0 .. Area /\ size <= Table.total
         /\ Table.free \subseteq 0 .. Table.total - 1
         /\ Table.free \cap Live = {}
         /\ faults = 0 => /\ Table.total = size
                          /\ Table.free = (0 .. Table.total - 1) \ Live
  <1>1. ~ Storing /\ ~ Published /\ ~ Growing
    BY DEF DbInv, Storing, Published, Growing
  <1>2. total \in 0 .. Area /\ size \in 0 .. Area /\ free \subseteq 0 .. total - 1
    BY DEF DbInv, DbType, TableInv
  <1>3. CASE sms_ok
    <2>1. Table.total = total /\ Table.free = free
      BY <1>3 DEF Table
    <2>2. Taken = Live
      BY <1>1 DEF Taken
    <2>3. /\ free \cap Taken = {} /\ size <= total
          /\ faults = 0 => free = (0 .. total - 1) \ Taken /\ (total = size \/ Growing)
      BY <1>3 DEF DbInv, TableInv, Trusted
    <2> QED
      BY <1>1, <1>2, <2>1, <2>2, <2>3
  <1>4. CASE ~ sms_ok
    <2>1. Table.total = size /\ Table.free = (0 .. size - 1) \ Live
      BY <1>4 DEF Table
    <2> QED
      BY <1>2, <2>1
  <1> QED
    BY <1>3, <1>4

\* The space that is found is free, or new at the end.
LEMMA SpaceFound ==
  ASSUME DbInv, w.pc = "idle", NEW len \in 1 .. Area, NEW loc \in FreeSpace(len)
  PROVE  /\ loc \in 0 .. Area
         /\ Span(loc, len) \cap Live = {}
         /\ Span(loc, len) \subseteq 0 .. Area - 1
         /\ IF loc \in Table.free THEN Span(loc, len) \subseteq Table.free
            ELSE loc = Table.total
  <1> DEFINE T == Table
             fit == {s \in Segments(T.free) : s[2] >= len}
             best == {s \in fit : \A o \in fit : s[2] <= o[2]}
  <1>0. /\ T.total \in 0 .. Area /\ size <= T.total /\ size \in 0 .. Area
        /\ T.free \subseteq 0 .. T.total - 1 /\ T.free \cap Live = {}
    BY TableRight DEF DbInv, DbType
  <1>1. FreeSpace(len) = IF fit # {} THEN {s[1] : s \in best}
                         ELSE IF T.total + len <= Area THEN {T.total} ELSE {}
    BY DEF FreeSpace
  <1> HIDE DEF T
  <1>2. CASE fit # {}
    <2>1. PICK s \in best : loc = s[1]
      <3> HIDE DEF best
      <3> QED BY <1>1, <1>2
    <2>2. s \in T.free \X (1 .. Area) /\ Span(s[1], s[2]) \subseteq T.free /\ s[2] >= len
      BY DEF Segments
    <2>3. loc \in T.free /\ s[2] \in 1 .. Area /\ Span(loc, s[2]) \subseteq T.free
      BY <2>1, <2>2
    <2>4. loc \in 0 .. Area - 1
      BY <1>0, <2>3, Constants
    <2>5. Span(loc, len) \subseteq Span(loc, s[2])
      BY <2>2, <2>3, <2>4 DEF Span
    <2>6. Span(loc, len) \subseteq T.free
      BY <2>3, <2>5
    <2>7. T.free \subseteq 0 .. Area - 1
      BY <1>0, Constants
    <2> QED
      BY <1>0, <2>3, <2>4, <2>6, <2>7, Constants DEF T
  <1>3. CASE fit = {}
    <2>1. loc = T.total /\ T.total + len <= Area
      BY <1>1, <1>3
    <2>2. Live \subseteq 0 .. size - 1
      BY LiveInside DEF DbInv
    <2>3. Span(loc, len) \cap Live = {}
      BY <1>0, <2>1, <2>2 DEF Span
    <2>4. Span(loc, len) \subseteq 0 .. Area - 1
      BY <1>0, <2>1, Constants DEF Span
    <2>5. loc \notin T.free
      BY <1>0, <2>1
    <2> QED
      BY <1>0, <2>1, <2>3, <2>4, <2>5 DEF T
  <1> QED
    BY <1>2, <1>3

--------------------------------------------------------------------------------
(* The start of a call *)

\* The call as the writer remembers it.
LEMMA CallMade ==
  ASSUME NEW id \in 0 .. MaxId, NEW len \in -1 .. Area, NEW pt \in Nat,
         NEW kind \in {"replace", "any", "byUser"}, NEW loc \in 0 .. Area,
         DbType, Call(id, len, pt, kind, loc)
  PROVE  /\ w' \in CallType
         /\ w'.pc = IF len > 0 THEN "body" ELSE "info"
         /\ w'.len = len /\ w'.pt = pt /\ w'.kind = kind /\ w'.loc = loc /\ w'.k = 0
         /\ w'.old = IF kind = "replace" THEN Current(pt) ELSE Info(-1, 0, None)
         /\ w'.val.len = len
  <1> DEFINE old == IF kind = "replace" THEN Current(pt) ELSE Info(-1, 0, None)
             val == [n |-> calls + 1, len |-> len]
             pc == IF len > 0 THEN "body" ELSE "info"
  <1>1. old \in InfoType
    <2>1. Info(-1, 0, None) \in InfoType
      BY Constants DEF Info, None, InfoType, Value
    <2> QED BY <2>1, CurrentType
  <1>2. val \in Value /\ pc \in {"body", "info"} /\ 0 \in 0 .. Area /\ val.len = len
    BY Constants DEF DbType, Value
  <1>3. w' = [pc |-> pc, id |-> id, len |-> len, pt |-> pt, kind |-> kind, loc |-> loc,
              k |-> 0, old |-> old, val |-> val]
    BY DEF Call
  <1> HIDE DEF old, val, pc
  <1>4. w' \in CallType
    BY <1>1, <1>2, <1>3 DEF CallType
  <1>5. /\ w'.pc = pc /\ w'.len = len /\ w'.pt = pt /\ w'.kind = kind /\ w'.loc = loc
        /\ w'.k = 0 /\ w'.old = old /\ w'.val = val
    BY <1>3
  <1> QED
    BY <1>2, <1>4, <1>5 DEF old, pc

\* The infos of all slots are as before; ids may change.
InfosKept ==
  /\ dir' \in [0 .. NSlots - 1 -> [id : 0 .. MaxId, ucnt : Nat, info : [0 .. 1 -> InfoType]]]
  /\ \A s \in 0 .. NSlots - 1 : dir'[s].ucnt = dir[s].ucnt /\ dir'[s].info = dir[s].info

LEMMA InfosMessages ==
  ASSUME DbType, InfosKept, UNCHANGED <<first, next>>
  PROVE  MessagesKept /\ \A pt \in Int : Current(pt)' = Current(pt)
  <1>1. ASSUME NEW pt \in Int PROVE Current(pt)' = Current(pt)
    <2>1. Slot(pt) \in 0 .. NSlots - 1
      BY SlotType
    <2> QED BY <2>1 DEF InfosKept, Current, Slot
  <1>2. Window' = Window /\ Window \subseteq Int
    BY WindowType DEF Window, DbType
  <1> QED
    BY <1>1, <1>2 DEF MessagesKept

\* A call that is given its space, or refused.
LEMMA AllocateStep ==
  ASSUME DbInv, w.pc = "idle", InfosKept, UNCHANGED <<header, size, unit, clears, faults>>,
         calls' \in 0 .. MaxCalls,
         NEW id \in 0 .. MaxId, NEW len \in -1 .. Area, NEW pt \in Nat,
         NEW kind \in {"replace", "any", "byUser"},
         IF kind = "replace" THEN pt \in Window ELSE pt = next /\ next < first + MaxMsgs,
         Allocate(id, len, pt, kind)
  PROVE  DbInv'
  <1>0. DbType /\ Stored
    BY DEF DbInv
  <1>1. MessagesKept /\ Current(pt)' = Current(pt)
    BY <1>0, InfosMessages DEF header
  <1>2. Live' = Live
    BY <1>1, LiveKept
  <1>3. UNCHANGED <<first, next, by_user, deleted, non_dec, size, unit, clears, faults>>
    BY DEF header
  <1>4. Stored'
    BY <1>0, <1>1, <1>3, StoredKept DEF DbType
  <1>5. Table.total \in 0 .. Area /\ Table.free \subseteq 0 .. Area - 1
    BY TableRight, Constants
  \* All but the call and the table.
  <1>6. ASSUME w' \in {Idle} \cup CallType, total' \in 0 .. Area, free' \subseteq 0 .. Area - 1,
               sms_ok' \in BOOLEAN
        PROVE  DbType'
    <2>1. Header'
      BY <1>0, <1>3 DEF DbType, Header
    <2>2. dir' \in [0 .. NSlots - 1 -> [id : 0 .. MaxId, ucnt : Nat, info : [0 .. 1 -> InfoType]]]
      BY DEF InfosKept
    <2> QED
      BY <1>0, <1>3, <1>6, <2>1, <2>2 DEF DbType
  \* The call, in the space it got.
  <1>7. ASSUME NEW loc \in 0 .. Area, Call(id, len, pt, kind, loc),
               Span(loc, len) \cap Live = {}, Span(loc, len) \subseteq 0 .. Area - 1
        PROVE  /\ w' \in CallType /\ Storing' /\ ~ Published' /\ StoringInv'
               /\ w'.len = len /\ w'.loc = loc /\ w'.k = 0
               /\ w'.pc = (IF len > 0 THEN "body" ELSE "info")
    <2>1. /\ w' \in CallType
          /\ w'.pc = IF len > 0 THEN "body" ELSE "info"
          /\ w'.len = len /\ w'.pt = pt /\ w'.kind = kind /\ w'.loc = loc /\ w'.k = 0
          /\ w'.old = IF kind = "replace" THEN Current(pt) ELSE Info(-1, 0, None)
          /\ w'.val.len = len
      BY <1>0, <1>7, CallMade
    <2>2. Storing' /\ ~ Published'
      BY <2>1 DEF Storing, Published
    <2>3. Mine' = Span(loc, len)
      BY <2>1 DEF Mine, Span
    <2>4. IF kind = "replace" THEN pt \in Window' /\ w'.old = Current(pt)'
          ELSE pt = next' /\ next' < first' + MaxMsgs /\ w'.old.len = -1
      BY <1>1, <1>3, <2>1 DEF MessagesKept, Info
    <2>4a. IF w'.kind = "replace" THEN w'.pt \in Window' /\ w'.old = Current(w.pt)'
           ELSE w'.pt = next' /\ next' < first' + MaxMsgs /\ w'.old.len = -1
      <3>1. Current(w.pt)' = Current(pt)'
        BY <2>1 DEF Current, Slot
      <3> QED BY <2>1, <2>4, <3>1
    <2>5. 0 .. w'.k - 1 = {} /\ ~ (w'.k > 0)
      BY <2>1
    <2>6. IF w'.pc = "body" THEN w'.k < w'.len ELSE w'.len > 0 => w'.k = w'.len
      BY <2>1
    <2>7. w'.pc # "publish" /\ w'.val.len = w'.len
      BY <2>1
    <2>8. StoringInv'
      BY <1>2, <1>7, <2>3, <2>4a, <2>5, <2>6, <2>7 DEF StoringInv
    <2> QED
      BY <2>1, <2>2, <2>8
  <1>8. CASE len <= 0
    <2>1. Call(id, len, pt, kind, 0) /\ UNCHANGED <<sms_ok, total, free>>
      BY <1>8 DEF Allocate, table
    <2>2. Span(0, len) = {}
      BY <1>8 DEF Span
    <2>3. /\ w' \in CallType /\ Storing' /\ ~ Published' /\ StoringInv'
          /\ w'.len = len /\ w'.loc = 0 /\ w'.pc = "info"
      BY <1>7, <1>8, <2>1, <2>2, Constants
    <2>4. DbType'
      BY <1>0, <1>6, <2>1, <2>3 DEF DbType
    <2>5. Mine' = {} /\ Taken' = Live
      BY <1>2, <2>2, <2>3 DEF Mine, Taken, Span
    <2>6. Trusted' => sms_ok
      BY <1>8, <2>1, <2>3 DEF Trusted, Storing
    <2>7. TableInv'
      <3>1. ~ Storing /\ ~ Published /\ ~ Growing
        BY DEF Storing, Published, Growing
      <3>2. Taken = Live
        BY <3>1 DEF Taken
      <3>3. TableInv
        BY DEF DbInv
      <3>4. free' \subseteq 0 .. total' - 1
        BY <2>1, <3>3 DEF TableInv
      <3>5. ASSUME Trusted'
            PROVE  /\ free' \cap Taken' = {} /\ size' <= total'
                   /\ Storing' => Mine' \subseteq 0 .. total' - 1
                   /\ faults' = 0 => /\ free' = (0 .. total' - 1) \ Taken'
                                     /\ total' = size' \/ Growing'
        <4>1. Trusted
          BY <2>6, <3>5 DEF Trusted
        <4>2. /\ free \cap Taken = {} /\ size <= total
              /\ faults = 0 => free = (0 .. total - 1) \ Taken /\ (total = size \/ Growing)
          BY <3>3, <4>1 DEF TableInv
        <4> QED
          BY <1>3, <2>1, <2>5, <3>1, <3>2, <4>2
      <3> QED
        BY <3>4, <3>5 DEF TableInv
    <2> QED
      BY <1>4, <2>3, <2>4, <2>7 DEF DbInv
  <1>9. CASE len > 0
    <2>1. len \in 1 .. Area
      BY <1>9
    <2>2. CASE \E loc \in FreeSpace(len) : Call(id, len, pt, kind, loc) /\ Take(loc, len)
      <3>1. PICK loc \in FreeSpace(len) : Call(id, len, pt, kind, loc) /\ Take(loc, len)
        BY <2>2
      <3>2. /\ loc \in 0 .. Area
            /\ Span(loc, len) \cap Live = {}
            /\ Span(loc, len) \subseteq 0 .. Area - 1
            /\ IF loc \in Table.free THEN Span(loc, len) \subseteq Table.free
               ELSE loc = Table.total
        BY <2>1, SpaceFound
      <3>3. /\ w' \in CallType /\ Storing' /\ ~ Published' /\ StoringInv'
            /\ w'.len = len /\ w'.loc = loc /\ w'.k = 0 /\ w'.pc = "body"
        BY <1>7, <1>9, <3>1, <3>2
      <3> DEFINE tt == Table.total
                 tf == Table.free
      <3>4. /\ tt \in 0 .. Area /\ size <= tt /\ tf \subseteq 0 .. tt - 1
            /\ tf \cap Live = {}
            /\ faults = 0 => tt = size /\ tf = (0 .. tt - 1) \ Live
        BY TableRight
      <3>5. /\ sms_ok' \in BOOLEAN /\ free' = tf \ Span(loc, len)
            /\ total' = IF loc \in tf THEN tt ELSE tt + len
        BY <3>1 DEF Take
      <3>6. Mine' = Span(loc, len) /\ Taken' = Live \cup Span(loc, len)
        BY <1>2, <3>3 DEF Mine, Taken, Span
      <3>7. IF loc \in tf THEN Span(loc, len) \subseteq tf ELSE loc = tt
        BY <3>2
      <3> HIDE DEF tt, tf
      <3>8. Live \subseteq 0 .. size - 1 /\ size \in 0 .. Area
        BY <1>0, LiveInside DEF DbType
      <3>9. /\ total' \in 0 .. Area /\ size <= total' /\ tt <= total'
            /\ Span(loc, len) \subseteq 0 .. total' - 1
        <4>1. CASE loc \in tf
          <5>1. total' = tt /\ Span(loc, len) \subseteq tf
            BY <3>5, <3>7, <4>1
          <5>2. Span(loc, len) \subseteq 0 .. total' - 1
            BY <3>4, <5>1
          <5>3. tt <= total'
            BY <3>4, <5>1, Constants
          <5> QED
            BY <3>4, <5>1, <5>2, <5>3
        <4>2. CASE loc \notin tf
          <5>1. total' = tt + len /\ loc = tt
            BY <3>5, <3>7, <4>2
          <5>2. loc + len - 1 \in Span(loc, len)
            BY <2>1, <3>2 DEF Span
          <5>3. loc + len - 1 <= Area - 1
            BY <3>2, <5>2, Constants
          <5> QED
            BY <2>1, <3>4, <3>8, <5>1, <5>3, Constants DEF Span
        <4> QED
          BY <4>1, <4>2
      <3>10. free' \subseteq 0 .. total' - 1
        <4>1. free' \subseteq 0 .. tt - 1
          BY <3>4, <3>5
        <4>2. tt \in Int /\ total' \in Int /\ tt <= total'
          BY <3>4, <3>9, Constants
        <4>3. \A u \in free' : u \in 0 .. tt - 1
          BY <4>1
        <4>4. \A x, y \in Int : x <= y => \A u \in 0 .. x - 1 : u \in 0 .. y - 1
          OBVIOUS
        <4>5. \A u \in free' : u \in 0 .. total' - 1
          BY <4>2, <4>3, <4>4
        <4> QED BY <4>5
      <3>11. free' \cap Taken' = {}
        BY <3>4, <3>5, <3>6
      <3>12. faults = 0 => /\ free' = (0 .. total' - 1) \ Taken'
                           /\ total' = size \/ Growing'
        <4> SUFFICES ASSUME faults = 0
                     PROVE  free' = (0 .. total' - 1) \ Taken' /\ (total' = size \/ Growing')
          OBVIOUS
        <4>1. tt = size /\ tf = (0 .. tt - 1) \ Live
          BY <3>4
        <4>2. CASE loc \in tf
          BY <3>5, <3>6, <4>1, <4>2
        <4>3. CASE loc \notin tf
          <5>1. total' = tt + len /\ loc = tt
            BY <3>5, <3>7, <4>3
          <5>2. Growing'
            BY <1>3, <3>3, <4>1, <5>1, <3>8 DEF Growing
          <5>3. Span(loc, len) = tt .. total' - 1
            BY <2>1, <3>4, <5>1, Constants DEF Span
          <5>4. tf = (0 .. tt - 1) \ Live /\ tf \ Span(loc, len) = tf
            BY <3>4, <4>1, <5>3
          <5>5. 0 .. total' - 1 = (0 .. tt - 1) \cup (tt .. total' - 1)
            BY <2>1, <3>4, <5>1, Constants
          <5>6. (tt .. total' - 1) \cap (0 .. tt - 1) = {}
            BY <3>4, Constants
          <5>7. free' = (0 .. total' - 1) \ Taken'
            BY <3>5, <3>6, <5>3, <5>4, <5>5, <5>6
          <5> QED
            BY <5>2, <5>7
        <4> QED
          BY <4>2, <4>3
      <3>13. TableInv'
        BY <1>3, <3>6, <3>9, <3>10, <3>11, <3>12 DEF TableInv
      <3>14. DbType'
        BY <1>6, <3>3, <3>5, <3>9, <3>10, Constants
      <3> QED
        BY <1>4, <3>3, <3>13, <3>14 DEF DbInv
    <2>3. CASE /\ FreeSpace(len) = {}
               /\ sms_ok' = TRUE /\ free' = Table.free /\ total' = Table.total
               /\ w' = Idle
      <3>1. w'.pc = "idle"
        BY <2>3 DEF Idle
      <3>2. ~ Storing' /\ ~ Published'
        BY <3>1 DEF Storing, Published
      <3>3. Taken' = Live
        BY <1>2, <3>2 DEF Taken
      <3>4. TableInv'
        BY <1>3, <2>3, <3>2, <3>3, TableRight DEF TableInv
      <3>5. DbType'
        BY <1>5, <1>6, <2>3
      <3> QED
        BY <1>4, <3>1, <3>2, <3>4, <3>5 DEF DbInv
    <2>4. ~ (len <= 0)
      BY <1>9
    <2> QED
      BY <2>2, <2>3, <2>4 DEF Allocate
  <1> QED
    BY <1>8, <1>9

LEMMA BeginStep ==
  ASSUME DbInv, Begin
  PROVE  w.pc = "idle" /\ calls' \in 0 .. MaxCalls
  <1>1. calls \in 0 .. MaxCalls
    BY DEF DbInv, DbType
  <1> QED
    BY <1>1, Constants DEF Begin

LEMMA ReplaceStep ==
  ASSUME DbInv, NEW id \in 0 .. MaxId, NEW len \in -1 .. Area, Replace(id, len)
  PROVE  DbInv'
  <1>1. w.pc = "idle" /\ calls' \in 0 .. MaxCalls
    BY BeginStep DEF Replace
  <1>2. first \in Nat /\ next \in Nat
    BY WindowType DEF DbInv, DbType
  <1>3. Found(id) # {} /\ Found(id) \subseteq Window
    BY <1>2, FoundInside DEF Replace
  <1> DEFINE pt == Latest(Found(id))
  <1>4. pt \in Window
    BY <1>2, <1>3, LatestIn
  <1>5. pt \in Nat
    BY <1>4, WindowType DEF DbInv, DbType
  <1>6. InfosKept
    BY DEF Replace, InfosKept, DbInv, DbType
  <1>7. Allocate(id, len, pt, "replace")
    BY DEF Replace
  <1> HIDE DEF pt
  <1>8. UNCHANGED <<header, size, unit, clears, faults>>
    BY DEF Replace
  <1> QED
    BY <1>1, <1>4, <1>5, <1>6, <1>7, <1>8, AllocateStep

LEMMA AddStep ==
  ASSUME DbInv, NEW id \in UserIds \cup {0}, NEW len \in Lengths, Add(id, len)
  PROVE  DbInv'
  <1>1. w.pc = "idle" /\ calls' \in 0 .. MaxCalls
    BY BeginStep DEF Add
  <1>2. first \in Nat /\ next \in Nat /\ next < first + MaxMsgs
    BY WindowType, Constants DEF DbInv, DbType, Add
  <1>3. InfosKept
    BY DEF Add, InfosKept, DbInv, DbType
  <1>4. len \in -1 .. Area /\ id \in 0 .. MaxId
    BY Constants
  <1>5. UNCHANGED <<header, size, unit, clears, faults>>
    BY DEF Add
  <1>6. CASE id = 0
    <2>1. NextId \in 0 .. MaxId
      <3>1. CASE next = first
        BY <3>1, Constants DEF NextId
      <3>2. CASE next # first
        <4>1. dir[Slot(next - 1)].id \in 0 .. MaxId
          BY <1>2, CurrentType DEF DbInv
        <4> DEFINE x == dir[Slot(next - 1)].id + 1
                   d == MaxId + 1
        <4>2. d \in Nat \ {0} /\ x \in Int /\ d - 1 = MaxId
          BY <4>1, Constants
        <4>3. NextId = x % d
          BY <3>2 DEF NextId
        <4> HIDE DEF x, d
        <4>4. x % d \in 0 .. d - 1
          BY <4>2, DivMod
        <4> QED BY <4>2, <4>3, <4>4
      <3> QED BY <3>1, <3>2
    <2>2. Allocate(NextId, len, next, "any")
      BY <1>6 DEF Add
    <2> QED
      BY <1>1, <1>2, <1>3, <1>4, <1>5, <2>1, <2>2, AllocateStep
  <1>7. CASE id # 0
    <2>1. Allocate(id, len, next, "byUser")
      BY <1>7 DEF Add
    <2> QED
      BY <1>1, <1>2, <1>3, <1>4, <1>5, <2>1, AllocateStep
  <1> QED
    BY <1>6, <1>7

LEMMA ReuseStep ==
  ASSUME DbInv, NEW len \in Lengths, Reuse(len)
  PROVE  DbInv' /\ InfosKept
  <1>1. w.pc = "idle" /\ calls' \in 0 .. MaxCalls
    BY BeginStep DEF Reuse
  <1> DEFINE Up(p) == dir[Slot(p)].id + IdMask
             NewId(p) == IF Up(p) > MaxId THEN Up(p) % IdMask ELSE Up(p)
  <1>2. PICK pt \in Window : /\ dir' = [dir EXCEPT ![Slot(pt)].id = NewId(pt)]
                             /\ Allocate(NewId(pt), len, pt, "replace")
    BY DEF Reuse
  <1>3. pt \in Nat /\ Slot(pt) \in 0 .. NSlots - 1
    BY WindowType, SlotType DEF DbInv, DbType
  <1> DEFINE id == NewId(pt)
  <1>4. id \in 0 .. MaxId
    <2>1. Up(pt) \in Nat
      <3>1. dir[Slot(pt)].id \in 0 .. MaxId
        BY <1>3, CurrentType DEF DbInv
      <3> QED BY <3>1, Constants
    <2>2. \A x \in Nat : x % IdMask \in 0 .. IdMask - 1
      BY DivMod, Constants
    <2> HIDE DEF Up
    <2>3. Up(pt) % IdMask \in 0 .. IdMask - 1
      BY <2>1, <2>2
    <2> QED
      BY <2>1, <2>3, Constants
  <1> HIDE DEF NewId
  <1>5. InfosKept
    <2>1. dir \in [0 .. NSlots - 1 -> [id : 0 .. MaxId, ucnt : Nat, info : [0 .. 1 -> InfoType]]]
      BY DEF DbInv, DbType
    <2>2. dir' = [dir EXCEPT ![Slot(pt)] = [@ EXCEPT !.id = id]]
      BY <1>2
    <2> HIDE DEF id
    <2>3. [dir[Slot(pt)] EXCEPT !.id = id]
            \in [id : 0 .. MaxId, ucnt : Nat, info : [0 .. 1 -> InfoType]]
      BY <1>3, <1>4, <2>1
    <2>4. dir' \in [0 .. NSlots - 1 -> [id : 0 .. MaxId, ucnt : Nat, info : [0 .. 1 -> InfoType]]]
      BY <2>1, <2>2, <2>3
    <2>5. ASSUME NEW s \in 0 .. NSlots - 1
          PROVE  dir'[s].ucnt = dir[s].ucnt /\ dir'[s].info = dir[s].info
      <3>1. CASE s = Slot(pt)
        <4>1. dir'[s] = [dir[s] EXCEPT !.id = id]
          BY <1>3, <2>1, <2>2, <3>1
        <4>2. dir[s] \in [id : 0 .. MaxId, ucnt : Nat, info : [0 .. 1 -> InfoType]]
          BY <2>1
        <4> QED BY <4>1, <4>2
      <3>2. CASE s # Slot(pt)
        BY <2>1, <2>2, <3>2
      <3> QED BY <3>1, <3>2
    <2> QED
      BY <2>4, <2>5 DEF InfosKept
  <1>6. UNCHANGED <<header, size, unit, clears, faults>>
    BY DEF Reuse
  <1>7. len \in -1 .. Area
    BY Constants
  <1>8. Allocate(id, len, pt, "replace")
    BY <1>2
  <1> HIDE DEF id
  <1> QED
    BY <1>1, <1>3, <1>4, <1>5, <1>6, <1>7, <1>8, AllocateStep

--------------------------------------------------------------------------------
(* The steps of a call *)

\* A call in progress, at its next step.
LEMMA CallStep ==
  ASSUME w \in CallType, NEW pc \in {"body", "info", "publish", "table", "free", "freed"},
         w' = [w EXCEPT !.pc = pc]
  PROVE  /\ w' \in CallType /\ w'.pc = pc
         /\ w'.id = w.id /\ w'.len = w.len /\ w'.pt = w.pt /\ w'.kind = w.kind
         /\ w'.loc = w.loc /\ w'.k = w.k /\ w'.old = w.old /\ w'.val = w.val
  BY DEF CallType

LEMMA CallFields ==
  ASSUME w \in CallType
  PROVE  /\ w.len \in -1 .. Area /\ w.pt \in Nat /\ w.loc \in 0 .. Area /\ w.k \in 0 .. Area
         /\ w.old \in InfoType /\ w.val \in Value /\ w.val.n \in Int /\ w.val.len \in Int
         /\ w.old.len \in -1 .. Area /\ w.old.loc \in 0 .. Area
         /\ w.kind \in {"replace", "any", "byUser"} /\ w.id \in 0 .. MaxId
  BY DEF CallType, InfoType, Value

LEMMA StoreUnitStep ==
  ASSUME DbInv, StoreUnit
  PROVE  DbInv'
  <1>1. /\ w.pc = "body" /\ w \in CallType /\ DbType /\ Stored /\ TableInv /\ Storing /\ StoringInv
    BY DEF StoreUnit, DbInv, Storing
  <1>2. /\ UNCHANGED <<first, next, by_user, deleted, non_dec, dir, sms_ok, total, free>>
        /\ UNCHANGED <<calls, clears, faults>>
    BY DEF StoreUnit, header, table, bounds
  <1> DEFINE u == w.loc + w.k
             pc == IF w.k + 1 = w.len THEN "info" ELSE "body"
  <1>3. /\ unit' = [unit EXCEPT ![u] = <<w.val.n, w.k>>]
        /\ size' = IF u < size THEN size ELSE u + 1
        /\ w' = [w EXCEPT !.k = w.k + 1, !.pc = pc]
    BY <1>1 DEF StoreUnit
  <1>4. w.k < w.len /\ w.k \in Nat /\ w.loc \in Nat /\ w.len \in -1 .. Area
    BY <1>1, CallFields, Constants DEF StoringInv
  <1>5. u \in Mine /\ u \in 0 .. Area - 1 /\ u \notin Live
    <2>1. u \in Mine
      BY <1>4, Constants DEF Mine, Span
    <2> QED BY <1>1, <2>1 DEF StoringInv
  <1> HIDE DEF u
  <1>6. size' \in 0 .. Area /\ size <= size' /\ u + 1 <= size' /\ size \in 0 .. Area
    <2>1. size \in 0 .. Area
      BY <1>1 DEF DbType
    <2> QED BY <1>3, <1>5, <2>1, Constants
  <1>7. /\ w' \in CallType /\ w'.pc = pc /\ w'.k = w.k + 1
        /\ w'.id = w.id /\ w'.len = w.len /\ w'.pt = w.pt /\ w'.kind = w.kind
        /\ w'.loc = w.loc /\ w'.old = w.old /\ w'.val = w.val
    <2>1. w.k + 1 \in 0 .. Area /\ pc \in {"body", "info"}
      BY <1>4, Constants
    <2> HIDE DEF pc
    <2> QED BY <1>1, <1>3, <2>1 DEF CallType
  <1>8. unit' \in [0 .. Area - 1 -> Unit]
    <2>1. <<w.val.n, w.k>> \in Unit
      BY <1>1, <1>4, CallFields DEF Unit
    <2> QED BY <1>1, <1>3, <1>5, <2>1 DEF DbType
  <1>9. DbType'
    BY <1>1, <1>2, <1>6, <1>7, <1>8 DEF DbType, Header
  <1>10. MessagesKept
    BY <1>2 DEF MessagesKept, Window, Current, Slot
  <1>11. Stored'
    <2>1. \A x \in Live : unit'[x] = unit[x]
      <3>1. Live \subseteq 0 .. Area - 1
        BY <1>1, <1>6, LiveInside, Constants
      <3> QED BY <1>1, <1>3, <1>5, <3>1 DEF DbType
    <2> QED
      BY <1>1, <1>6, <1>10, <2>1, StoredKept
  <1>12. Live' = Live /\ Mine' = Mine
    BY <1>7, <1>10, LiveKept DEF Mine, Span
  <1>13. Storing' /\ ~ Published' /\ ~ Published
    BY <1>1, <1>7 DEF Storing, Published
  <1>14. StoringInv'
    <2>1. w'.val.len = w'.len
      BY <1>1, <1>7 DEF StoringInv
    <2>2. IF w'.kind = "replace" THEN w'.pt \in Window' /\ w'.old = Current(w.pt)'
          ELSE w'.pt = next' /\ next' < first' + MaxMsgs /\ w'.old.len = -1
      <3>1. w.kind = "replace" => Current(w.pt)' = Current(w.pt)
        BY <1>2, <1>7 DEF Current, Slot
      <3> QED BY <1>1, <1>2, <1>7, <3>1 DEF StoringInv, Window
    <2>3. Mine' \cap Live' = {} /\ Mine' \subseteq 0 .. Area - 1
      BY <1>1, <1>12 DEF StoringInv
    <2>4. ASSUME NEW k \in 0 .. w'.k - 1 PROVE unit'[w'.loc + k] = <<w'.val.n, k>>
      <3>1. k \in 0 .. w.k
        BY <1>4, <1>7
      <3>2. CASE k = w.k
        <4>1. w'.loc + k = u
          BY <1>7, <3>2 DEF u
        <4> QED BY <1>1, <1>3, <1>5, <1>7, <3>2, <4>1 DEF DbType
      <3>3. CASE k # w.k
        <4>1. k \in 0 .. w.k - 1
          BY <1>4, <3>1, <3>3
        <4>2. w.loc + k # u /\ w.loc + k \in Mine
          BY <1>4, <3>1, <3>3, Constants DEF u, Mine, Span
        <4>3. w.loc + k \in 0 .. Area - 1
          BY <1>1, <4>2 DEF StoringInv
        <4>4. unit[w.loc + k] = <<w.val.n, k>>
          BY <1>1, <4>1 DEF StoringInv
        <4> QED BY <1>1, <1>3, <1>7, <4>2, <4>3, <4>4 DEF DbType
      <3> QED BY <3>2, <3>3
    <2>5. w'.loc + w'.k <= size'
      BY <1>4, <1>6, <1>7 DEF u
    <2>6. IF w'.pc = "body" THEN w'.k < w'.len ELSE w'.len > 0 => w'.k = w'.len
      BY <1>4, <1>7
    <2>7. w'.pc # "publish"
      BY <1>7
    <2> QED
      BY <2>1, <2>2, <2>3, <2>4, <2>5, <2>6, <2>7 DEF StoringInv
  <1>15. TableInv'
    <2>1. Taken' = Live \cup Mine /\ Taken = Live \cup Mine
      BY <1>1, <1>12, <1>13 DEF Taken
    <2>2. w.len > 0
      BY <1>4
    <2>3. Trusted
      BY <1>1, <2>2 DEF Trusted
    <2>4. /\ free \cap Taken = {} /\ size <= total /\ Mine \subseteq 0 .. total - 1
          /\ faults = 0 => free = (0 .. total - 1) \ Taken /\ (total = size \/ Growing)
      BY <1>1, <2>3 DEF TableInv
    <2>5. total \in 0 .. Area
      BY <1>1 DEF DbType
    <2>6. u + 1 <= total
      BY <1>5, <2>4, <2>5, Constants
    <2>7. size' <= total
      BY <1>3, <1>5, <1>6, <2>4, <2>5, <2>6, Constants
    <2>8. total = size => size' = total
      BY <1>3, <1>5, <1>6, <2>5, <2>6, Constants
    <2>9. Growing => total = size' \/ Growing'
      <3>1. Growing => total = w.loc + w.len /\ size = u
        BY DEF Growing, u
      <3>2. Growing => size' = u + 1
        BY <1>3, <1>5, <3>1, Constants
      <3>3. CASE w.k + 1 = w.len
        BY <1>4, <3>1, <3>2, <3>3 DEF u
      <3>4. CASE w.k + 1 # w.len
        <4>1. w'.pc = "body"
          BY <1>7, <3>4
        <4> QED BY <1>2, <1>4, <1>7, <3>1, <3>2, <4>1 DEF Growing, u
      <3> QED BY <3>3, <3>4
    <2> QED
      BY <1>1, <1>2, <1>12, <2>1, <2>4, <2>7, <2>8, <2>9 DEF TableInv
  <1> QED
    BY <1>7, <1>9, <1>11, <1>13, <1>14, <1>15 DEF DbInv

\* The steps that leave the messages, their space and the free space alone
\* change the state of the table only with that of the call.
LEMMA TableKept ==
  ASSUME DbInv, UNCHANGED <<sms_ok, total, free, size, faults>>, Live' = Live, Taken' = Taken,
         Trusted' => Trusted, Storing' => Storing /\ Mine' = Mine, ~ Growing
  PROVE  TableInv'
  <1>1. TableInv
    BY DEF DbInv
  <1>2. free' \subseteq 0 .. total' - 1
    BY <1>1 DEF TableInv
  <1>3. ASSUME Trusted'
        PROVE  /\ free' \cap Taken' = {} /\ size' <= total'
               /\ Storing' => Mine' \subseteq 0 .. total' - 1
               /\ faults' = 0 => free' = (0 .. total' - 1) \ Taken' /\ (total' = size' \/ Growing')
    BY <1>1, <1>3 DEF TableInv
  <1> QED
    BY <1>2, <1>3 DEF TableInv

\* The messages whose slot has not been used again, the available ones first.
Recent == {pt \in Nat : pt < next /\ next - pt < NSlots}
Ucnt(pt) == dir[Slot(pt)].ucnt
RecentKept == \A pt \in Recent : Ucnt(pt)' = Ucnt(pt) /\ Current(pt)' = Current(pt)

LEMMA RecentSlots ==
  ASSUME Header
  PROVE  /\ Window \subseteq Recent
         /\ \A p \in Recent : Slot(p) # Slot(next)
         /\ \A p \in Recent, q \in Window : p # q => Slot(p) # Slot(q)
  <1>1. first \in Nat /\ next \in Nat /\ first <= next /\ next <= first + MaxMsgs
    BY WindowType
  <1>2. Window \subseteq Recent
    BY <1>1, Constants DEF Window, Recent
  <1>3. ASSUME NEW p \in Recent PROVE Slot(p) # Slot(next)
    <2>1. p \in Int /\ next \in Int /\ p # next /\ p - next < NSlots /\ next - p < NSlots
      BY <1>1, Constants DEF Recent
    <2> QED BY <2>1, SlotsDiffer
  <1>4. ASSUME NEW p \in Recent, NEW q \in Window, p # q PROVE Slot(p) # Slot(q)
    <2>1. p \in Int /\ q \in Int /\ p - q < NSlots /\ q - p < NSlots
      BY <1>1, Constants DEF Recent, Window
    <2> QED BY <1>4, <2>1, SlotsDiffer
  <1> QED
    BY <1>2, <1>3, <1>4

SlotInfos == [id : 0 .. MaxId, ucnt : Nat, info : [0 .. 1 -> InfoType]]

LEMMA StoreInfoStep ==
  ASSUME DbInv, StoreInfo
  PROVE  DbInv' /\ RecentKept
  <1>1. /\ w.pc = "info" /\ w \in CallType /\ DbType /\ Stored /\ TableInv /\ Storing /\ StoringInv
    BY DEF StoreInfo, DbInv, Storing
  <1>2. UNCHANGED <<first, next, sms_ok, total, free, size, unit, calls, clears, faults>>
    BY DEF StoreInfo, table, bounds
  <1>3. w' = [w EXCEPT !.pc = "publish"]
    BY DEF StoreInfo, Goto
  <1>4. /\ w' \in CallType /\ w'.pc = "publish"
        /\ w'.id = w.id /\ w'.len = w.len /\ w'.pt = w.pt /\ w'.kind = w.kind
        /\ w'.loc = w.loc /\ w'.k = w.k /\ w'.old = w.old /\ w'.val = w.val
    BY <1>1, <1>3, CallStep
  <1> DEFINE s == Slot(w.pt)
             info == Info(w.len, w.loc, w.val)
             u == dir[s].ucnt
             d == IF w.kind # "replace"
                    THEN [id |-> w.id, ucnt |-> 0, info |-> [dir[s].info EXCEPT ![0] = info]]
                    ELSE [dir[s] EXCEPT !.info = [dir[s].info EXCEPT ![(u + 1) % 2] = info]]
  <1>5. s \in 0 .. NSlots - 1 /\ u \in Nat /\ dir[s] \in SlotInfos
        /\ dir[s].info \in [0 .. 1 -> InfoType]
    BY <1>1, CallFields, CurrentType, SlotType DEF SlotInfos
  <1>6. info \in InfoType
    BY <1>1, CallFields DEF Info, InfoType
  <1>7. dir \in [0 .. NSlots - 1 -> SlotInfos]
    BY <1>1 DEF DbType, SlotInfos
  <1> HIDE DEF s, info
  <1>8. d \in SlotInfos
    <2>1. CASE w.kind # "replace"
      <3>1. [dir[s].info EXCEPT ![0] = info] \in [0 .. 1 -> InfoType]
        BY <1>5, <1>6
      <3> QED BY <1>1, <2>1, <3>1, CallFields DEF SlotInfos
    <2>2. CASE w.kind = "replace"
      <3>1. (u + 1) % 2 \in 0 .. 1
        BY <1>5, Turns
      <3> HIDE DEF u
      <3>2. [dir[s].info EXCEPT ![(u + 1) % 2] = info] \in [0 .. 1 -> InfoType]
        BY <1>5, <1>6, <3>1
      <3> QED BY <1>5, <2>2, <3>2 DEF SlotInfos
    <2> QED BY <2>1, <2>2
  <1>9. dir' = [dir EXCEPT ![s] = d]
    <2>1. dir' = IF w.kind # "replace"
                 THEN [dir EXCEPT ![s].id = w.id, ![s].ucnt = 0, ![s].info[0] = info]
                 ELSE [dir EXCEPT ![s].info[(dir[s].ucnt + 1) % 2] = info]
      BY DEF StoreInfo, s, info
    <2>2. CASE w.kind = "replace"
      BY <2>1, <2>2
    <2>3. CASE w.kind # "replace"
      <3> DEFINE d1 == [dir[s] EXCEPT !.id = w.id]
                 d2 == [d1 EXCEPT !.ucnt = 0]
                 f1 == [dir EXCEPT ![s].id = w.id]
                 f2 == [f1 EXCEPT ![s].ucnt = 0]
                 f3 == [f2 EXCEPT ![s].info[0] = info]
      <3>1. dir' = f3
        BY <2>1, <2>3
      <3>2. f1 = [dir EXCEPT ![s] = d1]
        OBVIOUS
      <3>3. f2 = [dir EXCEPT ![s] = d2]
        BY <1>5, <1>7, <3>2
      <3>4. d2 \in SlotInfos /\ d2.id = w.id /\ d2.ucnt = 0 /\ d2.info = dir[s].info
        <4>1. w.id \in 0 .. MaxId
          BY <1>1, CallFields
        <4> QED BY <1>5, <4>1 DEF SlotInfos
      <3>5. f2 \in [0 .. NSlots - 1 -> SlotInfos] /\ f2[s] = d2
        <4> HIDE DEF d2, f2
        <4> QED BY <1>5, <1>7, <3>3, <3>4
      <3>6. f3 = [f2 EXCEPT ![s] = [f2[s] EXCEPT !.info = [f2[s].info EXCEPT ![0] = info]]]
        OBVIOUS
      <3> HIDE DEF d2, f2
      <3>7. [d2 EXCEPT !.info = [d2.info EXCEPT ![0] = info]]
              = [id |-> d2.id, ucnt |-> d2.ucnt, info |-> [d2.info EXCEPT ![0] = info]]
        BY <3>4 DEF SlotInfos
      <3>8. [d2 EXCEPT !.info = [d2.info EXCEPT ![0] = info]] = d
        BY <2>3, <3>4, <3>7 DEF d
      <3>9. [f2 EXCEPT ![s] = d] = [dir EXCEPT ![s] = d]
        BY <1>5, <1>7, <3>3, <3>5
      <3> QED BY <3>1, <3>5, <3>6, <3>8, <3>9
    <2> QED BY <2>2, <2>3
  <1> HIDE DEF d
  <1>10. dir' \in [0 .. NSlots - 1 -> SlotInfos] /\ dir'[s] = d
    BY <1>5, <1>7, <1>8, <1>9
  <1>11. DbType'
    <2>1. {by_user, deleted, non_dec, sms_ok}' \subseteq BOOLEAN
      BY <1>1, <1>2 DEF StoreInfo, DbType
    <2> QED BY <1>1, <1>2, <1>4, <1>10, <2>1 DEF DbType, Header, SlotInfos
  <1>12. RecentKept
    <2>1. ASSUME NEW pt \in Recent PROVE Ucnt(pt)' = Ucnt(pt) /\ Current(pt)' = Current(pt)
      <3>1. pt \in Nat /\ Slot(pt) \in 0 .. NSlots - 1
        BY SlotType DEF Recent
      <3>2. CASE Slot(pt) # s
        <4>1. dir'[Slot(pt)] = dir[Slot(pt)]
          BY <1>7, <1>9, <3>1, <3>2
        <4> QED BY <4>1 DEF Current, Slot, Ucnt
      <3>3. CASE Slot(pt) = s
        <4>1. w.kind = "replace"
          <5>1. w.kind # "replace" => w.pt = next
            BY <1>1 DEF StoringInv
          <5>2. Slot(pt) # Slot(next)
            BY <1>1, <2>1, RecentSlots DEF DbType
          <5> QED BY <3>3, <5>1, <5>2 DEF s
        <4>2. d.ucnt = u /\ d.info = [dir[s].info EXCEPT ![(u + 1) % 2] = info]
          BY <1>5, <4>1 DEF d, SlotInfos
        <4>3. d.info[u % 2] = dir[s].info[u % 2]
          BY <1>5, <4>2, Turns
        <4>4. Current(pt)' = d.info[d.ucnt % 2] /\ Ucnt(pt)' = d.ucnt
          BY <1>10, <3>3 DEF Current, Slot, Ucnt
        <4> QED BY <3>3, <4>2, <4>3, <4>4 DEF Current, Ucnt
      <3> QED BY <3>2, <3>3
    <2> QED BY <2>1 DEF RecentKept
  <1>12a. MessagesKept
    BY <1>1, <1>2, <1>12, RecentSlots DEF MessagesKept, RecentKept, Window, DbType
  <1>13. Stored'
    BY <1>1, <1>2, <1>12a, StoredKept DEF DbType
  <1>14. Live' = Live /\ Mine' = Mine
    BY <1>4, <1>12a, LiveKept DEF Mine, Span
  <1>15. Storing' /\ ~ Published' /\ ~ Published
    BY <1>1, <1>4 DEF Storing, Published
  <1>16. w.kind # "replace" => w'.pt = next' /\ next' < first' + MaxMsgs /\ w'.old.len = -1
    BY <1>1, <1>2, <1>4 DEF StoringInv
  <1>17. w.kind = "replace" => w'.pt \in Window' /\ w'.old = Current(w.pt)'
    <2>1. w.kind = "replace" => w.pt \in Window /\ w.old = Current(w.pt)
      BY <1>1 DEF StoringInv
    <2>3. w.kind = "replace" => dir'[Slot(w.pt)].info[dir'[Slot(w.pt)].ucnt % 2] = Current(w.pt)
      BY <1>12a, <2>1 DEF MessagesKept, Current, Slot
    <2>4. Current(w.pt)' = dir'[Slot(w.pt)].info[dir'[Slot(w.pt)].ucnt % 2]
      BY <1>4 DEF Current, Slot
    <2> QED BY <1>4, <1>12a, <2>1, <2>3, <2>4 DEF MessagesKept
  <1>18. LET e == dir'[Slot(w'.pt)]
         IN  IF w'.kind = "replace" THEN e.info[(e.ucnt + 1) % 2] = Info(w'.len, w'.loc, w'.val)
             ELSE e.ucnt = 0 /\ e.info[0] = Info(w'.len, w'.loc, w'.val)
    <2>1. dir'[Slot(w'.pt)] = d /\ Info(w'.len, w'.loc, w'.val) = info
      BY <1>4, <1>10 DEF s, info
    <2>2. CASE w.kind = "replace"
      <3>1. d.ucnt = u /\ d.info = [dir[s].info EXCEPT ![(u + 1) % 2] = info]
        BY <1>5, <2>2 DEF d, SlotInfos
      <3>2. d.info[(d.ucnt + 1) % 2] = info
        BY <1>5, <3>1, Turns
      <3> QED BY <1>4, <2>1, <2>2, <3>2
    <2>3. CASE w.kind # "replace"
      <3>1. d.ucnt = 0 /\ d.info = [dir[s].info EXCEPT ![0] = info]
        BY <2>3 DEF d
      <3>2. d.info[0] = info
        BY <1>5, <3>1
      <3> QED BY <1>4, <2>1, <2>3, <3>1, <3>2
    <2> QED BY <2>2, <2>3
  <1>19. StoringInv'
    <2>1. /\ w'.val.len = w'.len
          /\ \A k \in 0 .. w'.k - 1 : unit'[w'.loc + k] = <<w'.val.n, k>>
          /\ w'.k > 0 => w'.loc + w'.k <= size'
          /\ w'.len > 0 => w'.k = w'.len
      BY <1>1, <1>2, <1>4 DEF StoringInv
    <2>2. Mine' \cap Live' = {} /\ Mine' \subseteq 0 .. Area - 1
      BY <1>1, <1>14 DEF StoringInv
    <2> QED BY <1>4, <1>16, <1>17, <1>18, <2>1, <2>2 DEF StoringInv, Slot
  <1>20. TableInv'
    <2>1. Taken' = Taken
      BY <1>1, <1>14, <1>15 DEF Taken
    <2>2. Trusted' => Trusted
      BY <1>1, <1>2, <1>4, <1>15 DEF Trusted
    <2>3. ~ Growing
      BY <1>1 DEF Growing
    <2> QED BY <1>1, <1>2, <1>14, <2>1, <2>2, <2>3, TableKept
  <1> QED
    BY <1>4, <1>11, <1>12, <1>13, <1>15, <1>19, <1>20 DEF DbInv

\* The message written is current, in the space of the call; the others are as
\* they were.
LEMMA PublishStep ==
  ASSUME DbInv, Publish
  PROVE  /\ DbInv'
         /\ \A p \in Recent : \/ Ucnt(p)' = Ucnt(p) /\ Current(p)' = Current(p)
                             \/ Ucnt(p)' = Ucnt(p) + 1
  <1>1. /\ w.pc = "publish" /\ w \in CallType /\ DbType /\ Stored /\ TableInv /\ Storing /\ StoringInv
    BY DEF Publish, DbInv, Storing
  <1>2. UNCHANGED <<first, by_user, deleted, non_dec, sms_ok, total, free, size, unit, calls, clears, faults>>
    BY DEF Publish, table, bounds
  <1>3. w' = [w EXCEPT !.pc = "table"]
    BY DEF Publish, Goto
  <1>4. /\ w' \in CallType /\ w'.pc = "table"
        /\ w'.id = w.id /\ w'.len = w.len /\ w'.pt = w.pt /\ w'.kind = w.kind
        /\ w'.loc = w.loc /\ w'.k = w.k /\ w'.old = w.old /\ w'.val = w.val
    BY <1>1, <1>3, CallStep
  <1>5. ~ Storing' /\ Published' /\ ~ Published
    BY <1>1, <1>4 DEF Storing, Published
  <1>6. first \in Nat /\ next \in Nat /\ first <= next /\ next <= first + MaxMsgs
    BY <1>1, WindowType DEF DbType
  <1> DEFINE s == Slot(w.pt)
             info == Info(w.len, w.loc, w.val)
             u == dir[s].ucnt
  <1>7. s \in 0 .. NSlots - 1 /\ u \in Nat /\ dir[s] \in SlotInfos
    BY <1>1, CallFields, CurrentType, SlotType DEF SlotInfos
  <1>8. dir \in [0 .. NSlots - 1 -> SlotInfos]
    BY <1>1 DEF DbType, SlotInfos
  <1>9. info \in InfoType /\ info.len = w.len /\ info.loc = w.loc /\ info.val = w.val
    BY <1>1, CallFields DEF Info, InfoType
  <1> HIDE DEF info
  <1>9a. PICK m \in Nat : m = w.pt
    BY <1>1, CallFields
  \* The window, and what is current in it.
  <1>10. /\ dir' \in [0 .. NSlots - 1 -> SlotInfos]
         /\ next' \in Nat /\ first <= next' /\ next' <= first + MaxMsgs
         /\ Window' = Window \cup {m}
         /\ Current(m)' = info
         /\ \A p \in Window : p # m => Current(p)' = Current(p)
         /\ w.kind # "replace" => m \notin Window
         /\ \A p \in Recent : \/ Ucnt(p)' = Ucnt(p) /\ Current(p)' = Current(p)
                             \/ Ucnt(p)' = Ucnt(p) + 1
    <2>1. CASE w.kind = "replace"
      <3>1. next' = next /\ dir' = [dir EXCEPT ![s] = [dir[s] EXCEPT !.ucnt = u + 1]]
        BY <2>1 DEF Publish
      <3>2. m \in Window
        BY <1>1, <1>9a, <2>1 DEF StoringInv
      <3>3. Window' = Window
        BY <1>2, <3>1 DEF Window
      <3> DEFINE d == [dir[s] EXCEPT !.ucnt = u + 1]
      <3>4. d \in SlotInfos /\ d.ucnt = u + 1 /\ d.info = dir[s].info
        <4> HIDE DEF s
        <4> QED BY <1>7 DEF SlotInfos
      <3>5. dir[s].info[(u + 1) % 2] = info
        BY <1>1, <2>1 DEF StoringInv, info
      <3> HIDE DEF d, s
      <3>6. dir' \in [0 .. NSlots - 1 -> SlotInfos] /\ dir'[s] = d
        BY <1>7, <1>8, <3>1, <3>4 DEF d
      <3>7. Current(m)' = info
        <4>1. Current(m)' = dir'[s].info[dir'[s].ucnt % 2]
          BY <1>9a DEF Current, Slot, s
        <4> QED BY <3>4, <3>5, <3>6, <4>1
      <3>8. ASSUME NEW p \in Window, p # m PROVE Current(p)' = Current(p)
        <4>1. Slot(p) # s /\ Slot(p) \in 0 .. NSlots - 1
          <5>1. p \in Int /\ m \in Int /\ Header
            BY <1>1, <1>9a, <3>8, WindowType DEF DbType
          <5> QED BY <1>9a, <3>2, <3>8, <5>1, WindowType, SlotType DEF s
        <4>2. dir'[Slot(p)] = dir[Slot(p)]
          BY <1>8, <3>1, <4>1
        <4> QED BY <4>2 DEF Current, Slot
      <3>9. Window \cup {m} = Window
        BY <3>2
      <3>10. ASSUME NEW p \in Recent
             PROVE  \/ Ucnt(p)' = Ucnt(p) /\ Current(p)' = Current(p)
                    \/ Ucnt(p)' = Ucnt(p) + 1
        <4>1. Slot(p) \in 0 .. NSlots - 1
          BY SlotType DEF Recent
        <4>2. CASE Slot(p) = s
          BY <3>4, <3>6, <4>2 DEF Ucnt, Slot
        <4>3. CASE Slot(p) # s
          <5>1. dir'[Slot(p)] = dir[Slot(p)]
            BY <1>8, <3>1, <4>1, <4>3
          <5> QED BY <5>1 DEF Current, Slot, Ucnt
        <4> QED BY <4>2, <4>3
      <3> QED BY <1>6, <2>1, <3>1, <3>3, <3>6, <3>7, <3>8, <3>9, <3>10
    <2>2. CASE w.kind # "replace"
      <3>1. next' = next + 1 /\ dir' = dir
        BY <2>2 DEF Publish
      <3>2. m = next /\ next < first + MaxMsgs
        BY <1>1, <1>9a, <2>2 DEF StoringInv
      <3>3. Window' = Window \cup {next} /\ next \notin Window
        BY <1>2, <1>6, <3>1 DEF Window
      <3>4. dir[s].ucnt = 0 /\ dir[s].info[0] = info
        BY <1>1, <2>2 DEF StoringInv, info
      <3>5. Current(m)' = dir[s].info[dir[s].ucnt % 2]
        BY <1>9a, <3>1 DEF Current, Slot, s
      <3>6. 0 % 2 = 0
        OBVIOUS
      <3>7. Current(m)' = info
        <4> HIDE DEF s
        <4> QED BY <3>4, <3>5, <3>6
      <3>8. \A p \in Window : Current(p)' = Current(p)
        BY <3>1 DEF Current, Slot
      <3>9. \A p \in Recent : Ucnt(p)' = Ucnt(p) /\ Current(p)' = Current(p)
        BY <3>1 DEF Current, Slot, Ucnt
      <3> QED BY <1>6, <1>8, <2>2, <3>1, <3>2, <3>3, <3>7, <3>8, <3>9, Constants
    <2> QED BY <2>1, <2>2
  <1>11. DbType'
    <2>1. Header'
      BY <1>2, <1>6, <1>10 DEF Header
    <2> QED BY <1>1, <1>2, <1>4, <1>10, <2>1 DEF DbType, SlotInfos
  <1>12. Place(m)' = Mine /\ \A p \in Window : p # m => Place(p)' = Place(p)
    <2>1. Place(m)' = Span(info.loc, info.len)
      <3>1. Place(m)' = Span(Current(m)'.loc, Current(m)'.len)
        BY DEF Place, Span
      <3> QED BY <1>10, <3>1
    <2>2. Place(m)' = Mine
      BY <1>9, <2>1 DEF Mine
    <2>3. ASSUME NEW p \in Window, p # m PROVE Place(p)' = Place(p)
      <3>1. Current(p)' = Current(p)
        BY <1>10, <2>3
      <3> QED BY <3>1 DEF Place, Span
    <2> QED BY <2>2, <2>3
  <1>13. Old = IF w.kind = "replace" THEN Place(m) ELSE {}
    <2>1. CASE w.kind = "replace"
      BY <1>1, <1>9a, <2>1 DEF StoringInv, Old, Place
    <2>2. CASE w.kind # "replace"
      <3>1. w.old.len = -1 /\ w.old.loc \in Int
        BY <1>1, <2>2, CallFields DEF StoringInv
      <3> QED BY <2>2, <3>1 DEF Old, Span
    <2> QED BY <2>1, <2>2
  <1>14. Mine \cap Live = {} /\ \A p \in Window : Place(p) \subseteq Live
    BY <1>1, LiveIs DEF StoringInv
  <1>15. Live' = (Live \ Old) \cup Mine
    <2>1. Live' = UNION {Place(p)' : p \in Window \cup {m}}
      <3>1. Live' = UNION {Place(p)' : p \in Window'}
        BY DEF Live, Place
      <3> QED BY <1>10, <3>1
    <2>2. Live' = Mine \cup UNION {Place(p) : p \in Window \ {m}}
      BY <1>12, <2>1
    <2>3. Live = UNION {Place(p) : p \in Window}
      BY LiveIs
    <2>4. CASE w.kind = "replace"
      <3>1. \A p \in Window \ {m} : Place(p) \cap Place(m) = {} /\ m \in Window
        BY <1>1, <1>9a, <2>4 DEF Stored, StoringInv
      <3>2. UNION {Place(p) : p \in Window \ {m}} = Live \ Place(m)
        <4>1. m \in Window
          BY <1>1, <1>9a, <2>4 DEF StoringInv
        <4> QED BY <2>3, <3>1, <4>1
      <3> QED BY <1>13, <2>2, <2>4, <3>2
    <2>5. CASE w.kind # "replace"
      <3>1. Window \ {m} = Window
        BY <1>10, <2>5
      <3> QED BY <1>13, <2>2, <2>3, <2>5, <3>1
    <2> QED BY <2>4, <2>5
  <1>16. Stored'
    <2>1. ASSUME NEW p \in Window' PROVE Whole(p)'
      <3>1. CASE p = m
        <4>1. /\ info.len = info.val.len
              /\ \A k \in 0 .. info.len - 1 : unit[info.loc + k] = <<info.val.n, k>>
              /\ Span(info.loc, info.len) \subseteq 0 .. size - 1
          <5>1. w.len > 0 => w.k = w.len /\ w.loc + w.len <= size
            BY <1>1 DEF StoringInv
          <5>2. w.len \in Int /\ w.loc \in Nat /\ size \in Nat
            <6>1. size \in 0 .. Area
              BY <1>1 DEF DbType
            <6> QED BY <1>1, <6>1, CallFields, Constants
          <5>3. Span(w.loc, w.len) \subseteq 0 .. size - 1
            BY <5>1, <5>2 DEF Span
          <5>4. \A k \in 0 .. w.len - 1 : unit[w.loc + k] = <<w.val.n, k>>
            BY <1>1, <5>1, <5>2 DEF StoringInv
          <5> QED BY <1>1, <1>9, <5>3, <5>4 DEF StoringInv
        <4>2. Current(p)' = info /\ Place(p)' = Span(info.loc, info.len)
          BY <1>9, <1>10, <1>12, <3>1 DEF Mine
        <4> QED BY <1>2, <4>1, <4>2 DEF Whole
      <3>2. CASE p # m
        <4>1. p \in Window /\ Current(p)' = Current(p) /\ Place(p)' = Place(p)
          BY <1>10, <1>12, <2>1, <3>2
        <4> QED BY <1>1, <1>2, <4>1 DEF Stored, Whole
      <3> QED BY <3>1, <3>2
    <2>2. ASSUME NEW p \in Window', NEW q \in Window', p # q
          PROVE  Place(p)' \cap Place(q)' = {}
      <3>1. CASE p # m /\ q # m
        <4>1. p \in Window /\ q \in Window /\ Place(p)' = Place(p) /\ Place(q)' = Place(q)
          BY <1>10, <1>12, <2>2, <3>1
        <4> QED BY <1>1, <2>2, <4>1 DEF Stored
      <3>2. CASE p = m
        <4>1. q \in Window /\ Place(q)' = Place(q) /\ Place(p)' = Mine
          BY <1>10, <1>12, <2>2, <3>2
        <4> QED BY <1>14, <4>1
      <3>3. CASE q = m
        <4>1. p \in Window /\ Place(p)' = Place(p) /\ Place(q)' = Mine
          BY <1>10, <1>12, <2>2, <3>3
        <4> QED BY <1>14, <4>1
      <3> QED BY <3>1, <3>2, <3>3
    <2> QED BY <2>1, <2>2 DEF Stored
  <1>17. Old' = Old
    BY <1>4 DEF Old, Span
  <1>18. PublishedInv'
    <2>1. Old \subseteq Live
      BY <1>1, <1>9a, <1>13, <1>14 DEF StoringInv
    <2>2. Old \subseteq 0 .. size - 1
      BY <1>1, <2>1, LiveInside
    <2>3. Old \cap Live' = {}
      BY <1>14, <1>15, <2>1
    <2> QED BY <1>2, <1>17, <2>2, <2>3 DEF PublishedInv
  <1>19. TableInv'
    <2>1. Taken' = Taken
      <3>1. Taken = Live \cup Mine /\ Taken' = Live' \cup Old
        BY <1>1, <1>5, <1>17 DEF Taken
      <3>2. Old \subseteq Live
        BY <1>1, <1>9a, <1>13, <1>14 DEF StoringInv
      <3> QED BY <1>15, <3>1, <3>2
    <2>2. Trusted' => Trusted
      BY <1>1, <1>2, <1>4, <1>5 DEF Trusted
    <2>3. ~ Growing
      BY <1>1 DEF Growing
    <2>4. free' \subseteq 0 .. total' - 1
      BY <1>1, <1>2 DEF TableInv
    <2>5. ASSUME Trusted'
          PROVE  /\ free' \cap Taken' = {} /\ size' <= total'
                 /\ faults' = 0 => free' = (0 .. total' - 1) \ Taken' /\ (total' = size' \/ Growing')
      BY <1>1, <1>2, <2>1, <2>2, <2>3, <2>5 DEF TableInv
    <2> QED BY <1>5, <2>4, <2>5 DEF TableInv
  <1> QED
    BY <1>4, <1>5, <1>10, <1>11, <1>16, <1>18, <1>19 DEF DbInv

\* The steps that change the table, or end the call, leave the messages alone.
MessagesUntouched == UNCHANGED <<header, dir, size, unit, calls, clears>>

LEMMA Untouched ==
  ASSUME DbInv, MessagesUntouched, w' \in {Idle} \cup CallType, sms_ok' \in BOOLEAN,
         total' \in 0 .. Area, free' \subseteq 0 .. Area - 1, faults' \in 0 .. MaxFaults
  PROVE  DbType' /\ Stored' /\ Live' = Live /\ MessagesKept
  <1>1. UNCHANGED <<first, next, by_user, deleted, non_dec, dir, size, unit, calls, clears>>
    BY DEF MessagesUntouched, header
  <1>2. DbType'
    BY <1>1 DEF DbInv, DbType, Header
  <1>3. MessagesKept
    BY <1>1 DEF MessagesKept, Window, Current, Slot
  <1>4. Stored'
    BY <1>1, <1>3, StoredKept DEF DbInv, DbType
  <1> QED
    BY <1>2, <1>3, <1>4, LiveKept

LEMMA TableOkStep ==
  ASSUME DbInv, TableOk
  PROVE  DbInv'
  <1>1. /\ w.pc = "table" /\ w \in CallType /\ DbType /\ TableInv /\ PublishedInv
        /\ Published /\ ~ Storing /\ ~ Growing
    BY DEF TableOk, DbInv, Published, Storing, Growing
  <1>2. /\ sms_ok' = (sms_ok \/ w.len > 0) /\ UNCHANGED <<total, free, faults, size>>
        /\ MessagesUntouched
    BY DEF TableOk, bounds, MessagesUntouched
  <1>3. w' = IF w.old.len > 0 THEN [w EXCEPT !.pc = "free"] ELSE Idle
    BY DEF TableOk, Goto
  <1>4. w' \in {Idle} \cup CallType
    BY <1>1, <1>3, CallStep
  <1>5. DbType' /\ Stored' /\ Live' = Live
    <2>1. sms_ok' \in BOOLEAN
      BY <1>1, <1>2, CallFields DEF DbType
    <2> QED BY <1>1, <1>2, <1>4, <2>1, Untouched DEF DbType
  <1>6. Trusted <=> sms_ok'
    BY <1>1, <1>2 DEF Trusted, Storing
  <1>7. Taken = Live \cup Old
    BY <1>1 DEF Taken
  <1>8. ASSUME ~ Storing', Taken' = Taken, Trusted' => Trusted PROVE TableInv'
    <2>1. free' \subseteq 0 .. total' - 1
      BY <1>1, <1>2 DEF TableInv
    <2> QED BY <1>1, <1>2, <1>8, <2>1 DEF TableInv
  <1>9. CASE w.old.len > 0
    <2>1. w' \in CallType /\ w'.pc = "free" /\ w'.old = w.old
      BY <1>1, <1>3, <1>9, CallStep
    <2>2. ~ Storing' /\ Published' /\ Old' = Old
      BY <2>1 DEF Storing, Published, Old, Span
    <2>3. Taken' = Taken /\ (Trusted' => Trusted)
      BY <1>5, <1>6, <1>7, <2>1, <2>2 DEF Taken, Trusted
    <2>4. PublishedInv'
      BY <1>1, <1>2, <1>5, <2>2 DEF PublishedInv
    <2> QED BY <1>5, <1>8, <2>1, <2>2, <2>3, <2>4 DEF DbInv
  <1>10. CASE ~ (w.old.len > 0)
    <2>1. w' = Idle
      BY <1>3, <1>10
    <2>2. w'.pc = "idle" /\ ~ Storing' /\ ~ Published'
      BY <2>1 DEF Idle, Storing, Published
    <2>3. Old = {}
      <3>1. w.old.len \in Int /\ w.old.loc \in Int
        BY <1>1, CallFields
      <3> QED BY <1>10, <3>1 DEF Old, Span
    <2>4. Taken' = Taken /\ (Trusted' => Trusted)
      BY <1>5, <1>6, <1>7, <2>2, <2>3 DEF Taken, Trusted
    <2> QED BY <1>5, <1>8, <2>2, <2>4 DEF DbInv
  <1> QED
    BY <1>9, <1>10

\* A table made from the directory is right; the old space is free in it.
LEMMA FreeStep ==
  ASSUME DbInv, Free
  PROVE  DbInv'
  <1>1. /\ w.pc = "free" /\ w \in CallType /\ DbType /\ Stored /\ TableInv /\ PublishedInv
        /\ Published /\ ~ Storing /\ ~ Growing
    BY DEF Free, DbInv, Published, Storing, Growing
  <1>2. UNCHANGED <<faults, size>> /\ MessagesUntouched
    BY DEF Free, bounds, MessagesUntouched
  <1>3. Taken = Live \cup Old
    BY <1>1 DEF Taken
  <1>4. CASE sms_ok
    <2>1. sms_ok' = FALSE /\ UNCHANGED <<total, free>> /\ w' = [w EXCEPT !.pc = "freed"]
      BY <1>4 DEF Free, Goto
    <2>2. w' \in CallType /\ w'.pc = "freed" /\ w'.old = w.old
      BY <1>1, <2>1, CallStep
    <2>3. DbType' /\ Stored' /\ Live' = Live
      BY <1>1, <1>2, <2>1, <2>2, Untouched DEF DbType
    <2>4. ~ Storing' /\ Published' /\ Old' = Old
      BY <2>2 DEF Storing, Published, Old, Span
    <2>5. Taken' = Taken /\ Trusted
      BY <1>3, <1>4, <2>3, <2>4 DEF Taken, Trusted
    <2>6. PublishedInv'
      BY <1>1, <1>2, <2>3, <2>4 DEF PublishedInv
    <2>7. free' \subseteq 0 .. total' - 1
      BY <1>1, <2>1 DEF TableInv
    <2>8. TableInv'
      BY <1>1, <1>2, <2>1, <2>4, <2>5, <2>7 DEF TableInv
    <2> QED BY <2>2, <2>3, <2>4, <2>6, <2>8 DEF DbInv
  <1>5. CASE ~ sms_ok
    <2>1. sms_ok' = TRUE /\ total' = size /\ free' = (0 .. size - 1) \ Live /\ w' = Idle
      BY <1>5 DEF Free, Table
    <2>2. w'.pc = "idle" /\ ~ Storing' /\ ~ Published'
      BY <2>1 DEF Idle, Storing, Published
    <2>3. size \in 0 .. Area /\ free' \subseteq 0 .. Area - 1
      <3>1. size \in 0 .. Area
        BY <1>1 DEF DbType
      <3> QED BY <2>1, <3>1, Constants
    <2>4. DbType' /\ Stored' /\ Live' = Live
      BY <1>1, <1>2, <2>1, <2>3, Untouched DEF DbType
    <2>5. Taken' = Live
      BY <2>2, <2>4 DEF Taken
    <2>6. TableInv'
      BY <1>2, <2>1, <2>2, <2>3, <2>5 DEF TableInv
    <2> QED BY <2>2, <2>4, <2>6 DEF DbInv
  <1> QED
    BY <1>4, <1>5

\* The old space is in no message and in use by the table, which it is added to.
LEMMA FreedStep ==
  ASSUME DbInv, Freed
  PROVE  DbInv'
  <1>1. /\ w.pc = "freed" /\ w \in CallType /\ DbType /\ Stored /\ TableInv /\ PublishedInv
        /\ Published /\ ~ Storing /\ ~ Growing
    BY DEF Freed, DbInv, Published, Storing, Growing
  <1>2. UNCHANGED <<faults, size, total>> /\ MessagesUntouched /\ w' = Idle
    BY DEF Freed, bounds, MessagesUntouched
  <1>3. Taken = Live \cup Old
    BY <1>1 DEF Taken
  <1>4. /\ free \cap Taken = {} /\ size <= total
        /\ faults = 0 => free = (0 .. total - 1) \ Taken /\ (total = size \/ Growing)
    BY <1>1 DEF TableInv, Trusted
  <1>5. Old \subseteq 0 .. total - 1
    <2>1. size \in 0 .. Area /\ total \in 0 .. Area /\ Old \subseteq 0 .. size - 1
      BY <1>1 DEF DbType, PublishedInv
    <2> QED BY <1>4, <2>1, Constants
  <1>6. Old \subseteq (0 .. total - 1) \ free
    BY <1>3, <1>4, <1>5
  <1>7. sms_ok' = TRUE /\ free' = free \cup Old
    BY <1>6 DEF Freed, Old
  <1>8. w'.pc = "idle" /\ ~ Storing' /\ ~ Published'
    BY <1>2 DEF Idle, Storing, Published
  <1>9. free' \subseteq 0 .. total - 1 /\ free' \subseteq 0 .. Area - 1
    <2>1. free \subseteq 0 .. total - 1 /\ total \in 0 .. Area
      BY <1>1 DEF TableInv, DbType
    <2>2. free' \subseteq 0 .. total - 1
      BY <1>5, <1>7, <2>1
    <2>3. \A x \in 0 .. Area : 0 .. x - 1 \subseteq 0 .. Area - 1
      BY Constants
    <2> QED BY <2>1, <2>2, <2>3
  <1>10. DbType' /\ Stored' /\ Live' = Live
    BY <1>1, <1>2, <1>7, <1>9, Untouched DEF DbType
  <1>11. Taken' = Live
    BY <1>8, <1>10 DEF Taken
  <1>12. Old \cap Live = {}
    BY <1>1 DEF PublishedInv
  <1>13. free' \cap Live = {}
    BY <1>3, <1>4, <1>7, <1>12
  <1>14. faults = 0 => free' = (0 .. total - 1) \ Live /\ total = size
    BY <1>1, <1>3, <1>4, <1>5, <1>7, <1>12
  <1>15. TableInv'
    BY <1>2, <1>4, <1>8, <1>9, <1>11, <1>13, <1>14 DEF TableInv
  <1> QED
    BY <1>8, <1>10, <1>15 DEF DbInv

\* What a call that stops leaves behind is at worst space that is in no message.
LEMMA StopStep ==
  ASSUME DbInv, Stop
  PROVE  DbInv'
  <1>1. w \in CallType /\ DbType /\ Stored /\ TableInv
    BY DEF Stop, DbInv
  <1>2. UNCHANGED <<sms_ok, total, free, size>> /\ MessagesUntouched /\ w' = Idle
    BY DEF Stop, table, MessagesUntouched
  <1>3. faults' \in 0 .. MaxFaults /\ faults' # 0
    <2>1. faults' = faults + 1 /\ faults < MaxFaults /\ faults \in 0 .. MaxFaults
      BY <1>1 DEF Stop, DbType
    <2> QED BY <2>1, Constants
  <1>4. w'.pc = "idle" /\ ~ Storing' /\ ~ Published'
    BY <1>2 DEF Idle, Storing, Published
  <1>5. DbType' /\ Stored' /\ Live' = Live
    BY <1>1, <1>2, <1>3, Untouched DEF DbType
  <1>6. Taken' = Live /\ Live \subseteq Taken
    BY <1>4, <1>5 DEF Taken
  <1>7. Trusted' => sms_ok /\ Trusted
    BY <1>2, <1>4 DEF Trusted
  <1>8. free' \subseteq 0 .. total' - 1
    BY <1>1, <1>2 DEF TableInv
  <1>9. TableInv'
    BY <1>1, <1>2, <1>3, <1>4, <1>6, <1>7, <1>8 DEF TableInv
  <1> QED
    BY <1>4, <1>5, <1>9 DEF DbInv

LEMMA ClearStep ==
  ASSUME DbInv, NEW k \in 1 .. MaxMsgs, Clear(k)
  PROVE  DbInv'
  <1>1. w.pc = "idle" /\ DbType /\ Stored /\ TableInv
    BY DEF Clear, DbInv
  <1>2. /\ UNCHANGED <<next, by_user, deleted, dir, total, free, size, unit, w, calls, faults>>
        /\ first' = first + k /\ sms_ok' = FALSE /\ k <= next - first
    BY DEF Clear
  <1>3. first \in Nat /\ next \in Nat /\ first <= next /\ next <= first + MaxMsgs
    BY <1>1, WindowType DEF DbType
  <1>4. Header' /\ Window' \subseteq Window
    BY <1>2, <1>3, Constants DEF Header, Window
  <1>5. non_dec' \in BOOLEAN /\ clears' \in 0 .. MaxClears
    <2>1. clears' = clears + 1 /\ clears < MaxClears /\ clears \in 0 .. MaxClears
      BY <1>1 DEF Clear, DbType
    <2>2. non_dec' \in BOOLEAN
      BY <1>1 DEF Clear, DbType
    <2> QED BY <2>1, <2>2, Constants
  <1>6. DbType'
    BY <1>1, <1>2, <1>4, <1>5 DEF DbType
  <1>7. \A p \in Window : Current(p)' = Current(p) /\ Place(p)' = Place(p)
    BY <1>2 DEF Current, Slot, Place, Span
  <1>8. Stored'
    <2>1. ASSUME NEW p \in Window' PROVE Whole(p)'
      <3>1. Whole(p) /\ p \in Window
        BY <1>1, <1>4, <2>1 DEF Stored
      <3> QED BY <1>2, <1>7, <3>1 DEF Whole
    <2>2. ASSUME NEW p \in Window', NEW q \in Window', p # q PROVE Place(p)' \cap Place(q)' = {}
      BY <1>1, <1>4, <1>7, <2>2 DEF Stored
    <2> QED BY <2>1, <2>2 DEF Stored
  <1>9. ~ Storing' /\ ~ Published' /\ w'.pc = "idle"
    BY <1>1, <1>2 DEF Storing, Published
  <1>10. ~ Trusted'
    BY <1>1, <1>2, <1>9 DEF Trusted
  <1>11. TableInv'
    BY <1>1, <1>2, <1>10 DEF TableInv
  <1> QED
    BY <1>6, <1>8, <1>9, <1>11 DEF DbInv

--------------------------------------------------------------------------------
(* The writers' invariant *)

dbVars == <<header, dir, table, size, unit, w, bounds>>

LEMMA DbUnchanged ==
  ASSUME DbInv, UNCHANGED dbVars
  PROVE  DbInv'
  <1>1. UNCHANGED <<first, next, by_user, deleted, non_dec, sms_ok, total, free, dir, size, unit,
                    w, calls, clears, faults>>
    BY DEF dbVars, header, table, bounds
  <1>2. DbType'
    BY <1>1 DEF DbInv, DbType, Header
  <1>3. MessagesKept
    BY <1>1 DEF MessagesKept, Window, Current, Slot
  <1>4. Stored'
    BY <1>1, <1>3, StoredKept DEF DbInv, DbType
  <1>5. Live' = Live
    BY <1>3, LiveKept
  <1>6. (Storing' <=> Storing) /\ (Published' <=> Published) /\ (Growing' <=> Growing)
        /\ Mine' = Mine /\ Old' = Old
    BY <1>1 DEF Storing, Published, Growing, Mine, Old, Span
  <1>7. Taken' = Taken /\ (Trusted' <=> Trusted)
    BY <1>1, <1>5, <1>6 DEF Taken, Trusted
  <1>8. TableInv'
    <2>1. free' \subseteq 0 .. total' - 1
      BY <1>1 DEF DbInv, TableInv
    <2> QED BY <1>1, <1>6, <1>7, <2>1 DEF DbInv, TableInv
  <1>9. Storing' => StoringInv'
    BY <1>1, <1>5, <1>6 DEF DbInv, StoringInv, Window, Current, Slot
  <1>10. Published' => PublishedInv'
    BY <1>1, <1>5, <1>6 DEF DbInv, PublishedInv
  <1> QED
    BY <1>1, <1>2, <1>4, <1>8, <1>9, <1>10 DEF DbInv

LEMMA ReaderKeepsDb ==
  ASSUME NEW r \in Readers, Read(r)
  PROVE  UNCHANGED dbVars
  BY DEF Read, Find, LoadNum, LoadUcnt, LoadLoc, LoadLen, SameInfo, SameBody, NotExpired,
         LoadUnit, ReaderSteps, dbVars

LEMMA DbInit ==
  ASSUME Init
  PROVE  DbInv
  <1>1. /\ first = 0 /\ next \in Nat /\ next <= MaxMsgs /\ next <= Area
        /\ by_user = FALSE /\ deleted = FALSE /\ non_dec = TRUE
        /\ sms_ok = FALSE /\ total = 0 /\ free = {} /\ size \in {next, Area}
        /\ w = Idle /\ calls = 0 /\ clears = 0 /\ faults = 0
    BY Constants DEF Init
  <1> DEFINE D(s) == [id |-> IF s < next THEN s + 1 ELSE 0, ucnt |-> 0,
                      info |-> [i \in 0 .. 1 |->
                        IF s < next /\ i = 0 THEN Info(1, s, [n |-> -s, len |-> 1])
                                            ELSE Info(0, 0, None)]]
  <1>2. dir = [s \in 0 .. NSlots - 1 |-> D(s)]
    BY DEF Init
  <1>3. unit = [u \in 0 .. Area - 1 |-> IF u < next THEN <<-u, 0>> ELSE <<0, 0>>]
    BY DEF Init
  <1>4. size \in 0 .. Area /\ next <= size
    BY <1>1, Constants
  <1>5. ASSUME NEW s \in 0 .. NSlots - 1 PROVE D(s) \in SlotInfos
    <2>1. ASSUME NEW i \in 0 .. 1
          PROVE  (IF s < next /\ i = 0 THEN Info(1, s, [n |-> -s, len |-> 1]) ELSE Info(0, 0, None))
                   \in InfoType
      <3>1. CASE s < next /\ i = 0
        <4>1. 1 \in -1 .. Area /\ s \in 0 .. Area /\ -s \in Int
          BY <1>1, <3>1, Constants
        <4> QED BY <3>1, <4>1 DEF Info, InfoType, Value
      <3>2. CASE ~ (s < next /\ i = 0)
        BY <3>2, Constants DEF Info, InfoType, Value, None
      <3> QED BY <3>1, <3>2
    <2>2. (IF s < next THEN s + 1 ELSE 0) \in 0 .. MaxId
      <3> QED BY <1>1, Constants
    <2> QED BY <2>1, <2>2 DEF SlotInfos
  <1> HIDE DEF D
  <1>6. dir \in [0 .. NSlots - 1 -> SlotInfos]
    BY <1>2, <1>5
  <1>7. unit \in [0 .. Area - 1 -> Unit]
    <2>1. ASSUME NEW u \in 0 .. Area - 1
          PROVE  (IF u < next THEN <<-u, 0>> ELSE <<0, 0>>) \in Unit
      <3>1. u \in Int /\ -u \in Int
        BY Constants
      <3> QED BY <3>1 DEF Unit
    <2> QED BY <1>3, <2>1
  <1>8. DbType
    <2>1. Header
      BY <1>1, Constants DEF Header
    <2>2. {by_user, deleted, non_dec, sms_ok} \subseteq BOOLEAN
      BY <1>1
    <2>3. total \in 0 .. Area /\ free \subseteq 0 .. Area - 1 /\ w \in {Idle} \cup CallType
      BY <1>1, Constants
    <2>4. calls \in 0 .. MaxCalls /\ clears \in 0 .. MaxClears /\ faults \in 0 .. MaxFaults
      BY <1>1, Constants
    <2> QED BY <1>4, <1>6, <1>7, <2>1, <2>2, <2>3, <2>4 DEF DbType, SlotInfos
  <1>9. Window = 0 .. next - 1
    BY <1>1 DEF Window
  <1>10. ASSUME NEW p \in Window
         PROVE  Current(p) = Info(1, p, [n |-> -p, len |-> 1])
    <2>1. p \in 0 .. NSlots - 1 /\ p < next /\ p \in Nat
      BY <1>1, <1>9, Constants
    <2>2. Slot(p) = p
      BY <2>1, Constants DEF Slot
    <2>3. dir[Slot(p)].ucnt = 0 /\ dir[Slot(p)].info[0] = Info(1, p, [n |-> -p, len |-> 1])
      BY <1>2, <2>1, <2>2 DEF D
    <2>4. 0 % 2 = 0
      OBVIOUS
    <2> QED BY <2>3, <2>4 DEF Current
  <1>11. \A p \in Window : Place(p) = {p} /\ p \in 0 .. size - 1 /\ p \in 0 .. Area - 1
    <2>1. ASSUME NEW p \in Window PROVE Place(p) = {p} /\ p \in 0 .. size - 1 /\ p \in 0 .. Area - 1
      <3>1. Current(p).loc = p /\ Current(p).len = 1
        BY <1>10 DEF Info
      <3>2. p \in Int /\ p \in 0 .. size - 1 /\ p \in 0 .. Area - 1
        BY <1>1, <1>4, <1>9, Constants
      <3> QED BY <3>1, <3>2 DEF Place, Span
    <2> QED BY <2>1
  <1>12. Stored
    <2>1. ASSUME NEW p \in Window PROVE Whole(p)
      <3>1. /\ Current(p).len = 1 /\ Current(p).loc = p
            /\ Current(p).val.len = 1 /\ Current(p).val.n = -p
        BY <1>10 DEF Info
      <3>2. unit[p] = <<-p, 0>> /\ p \in Int
        <4>1. p \in 0 .. Area - 1 /\ p \in Int /\ p < next
          BY <1>1, <1>9, <1>11, Constants
        <4> QED BY <1>3, <4>1
      <3>3. \A k \in 0 .. 0 : k = 0
        OBVIOUS
      <3>4. p + 0 = p
        BY <3>2
      <3>5. \A k \in 0 .. 1 - 1 : unit[p + k] = <<-p, k>>
        BY <3>2, <3>3, <3>4
      <3>6. Place(p) \subseteq 0 .. size - 1
        BY <1>11
      <3> QED BY <3>1, <3>5, <3>6 DEF Whole
    <2> QED BY <1>11, <2>1 DEF Stored
  <1>13. w.pc = "idle" /\ ~ Storing /\ ~ Published
    BY <1>1 DEF Idle, Storing, Published
  <1>14. TableInv
    BY <1>1, <1>13 DEF TableInv, Trusted
  <1> QED
    BY <1>8, <1>12, <1>13, <1>14 DEF DbInv

LEMMA DbStep ==
  ASSUME DbInv, [Next]_vars
  PROVE  DbInv'
  <1>1. ASSUME NEW len \in Lengths, NEW id \in 1 .. MaxId, Replace(id, len) PROVE DbInv'
    BY <1>1, ReplaceStep, Constants
  <1>2. ASSUME NEW len \in Lengths, NEW id \in UserIds \cup {0}, Add(id, len) PROVE DbInv'
    BY <1>2, AddStep
  <1>3. ASSUME NEW len \in Lengths, Reuse(len) PROVE DbInv'
    BY <1>3, ReuseStep
  <1>4. ASSUME NEW id \in 1 .. MaxId, Replace(id, -1) PROVE DbInv'
    BY <1>4, ReplaceStep, Constants
  <1>5. ASSUME NEW k \in 1 .. MaxMsgs, Clear(k) PROVE DbInv'
    BY <1>5, ClearStep
  <1>6. ASSUME NEW r \in Readers, Read(r) PROVE DbInv'
    BY <1>6, ReaderKeepsDb, DbUnchanged
  <1>7. CASE UNCHANGED vars
    BY <1>7, DbUnchanged DEF vars, dbVars
  <1>8. CASE Write
    BY <1>1, <1>2, <1>3, <1>4, <1>8, StoreUnitStep, StoreInfoStep, PublishStep, TableOkStep,
       FreeStep, FreedStep, StopStep DEF Write
  <1> QED
    BY <1>5, <1>6, <1>7, <1>8 DEF Next

(***************************************************************************)
(* Whatever calls add, replace, delete, reuse, clear, fail or die at, each  *)
(* message is whole in space of its own, and the table of free space is     *)
(* right whenever LB_write takes it for right.                              *)
(***************************************************************************)
THEOREM DbCorrect == Spec => []DbInv
  <1>1. Init => DbInv
    BY DbInit
  <1>2. DbInv /\ [Next]_vars => DbInv'
    BY DbStep
  <1> QED
    BY <1>1, <1>2, PTL DEF Spec

\* Whatever calls fail or die, no space is given to two messages: bodies stay
\* whole, and the table of free space agrees with the directory.
THEOREM SpaceRightCorrect == Spec => []SpaceRight
  <1>1. ASSUME DbInv PROVE BodiesIntact
    BY <1>1 DEF DbInv, Stored, Whole, BodiesIntact
  <1>2. ASSUME DbInv PROVE TableTrue
    <2>1. sms_ok => free \cap Live = {}
      <3>1. sms_ok => free \cap Taken = {}
        BY <1>2 DEF DbInv, TableInv, Trusted
      <3> QED BY <3>1 DEF Taken
    <2>2. ASSUME w.pc = "idle", sms_ok, faults = 0
          PROVE  total = size /\ free = (0 .. total - 1) \ Live
      <3>1. Table.total = total /\ Table.free = free
        BY <2>2 DEF Table
      <3> QED BY <1>2, <2>2, <3>1, TableRight
    <2> QED BY <2>1, <2>2 DEF TableTrue
  <1> QED
    BY <1>1, <1>2, DbCorrect, PTL DEF SpaceRight

--------------------------------------------------------------------------------
(* The readers' inductive invariant *)

ReaderType ==
  [pc : {"idle", "num", "done"} \cup Reading, id : 0 .. MaxId, pt : Nat, num : Nat \X Nat,
   ucnt : Nat, want : Value, loc : 0 .. Area, len : -1 .. Area, got : Seq(Unit)]

\* The steps of a read after ucnt, loc, len were loaded, and with a body.
HasUcnt == Reading \ {"ucnt"}
HasLoc == HasUcnt \ {"loc"}
HasLen == HasLoc \ {"len"}
Copying == {"body", "still", "last"}

\* As many units as a message of this length has.
Units(len) == IF len > 0 THEN len ELSE 0

\* num_pt was loaded during the read, and the message was available then: its
\* slot is not used again until the read is over.
Began(d) ==
  /\ d.num[1] <= d.pt /\ d.pt < d.num[2] /\ d.num[2] <= d.num[1] + MaxMsgs
  /\ d.num[1] <= first /\ d.num[2] <= next /\ next <= d.num[2] + MaxLead

\* What was loaded so far is of the message as it is.
Right(d) ==
  /\ d.want = Current(d.pt).val
  /\ d.pc \in HasLoc => d.loc = Current(d.pt).loc
  /\ d.pc \in HasLen => d.len = Current(d.pt).len /\ d.len = d.want.len
  /\ \A i \in 1 .. Len(d.got) : d.got[i] = <<d.want.n, i - 1>>

(***************************************************************************)
(* While the message is available, ucnt tells whether what was loaded is    *)
(* right, for it never comes back. A read that found the message available  *)
(* after all of it was copied keeps this when the message expires.          *)
(***************************************************************************)
Holds(d) ==
  first <= d.pt \/ d.pc = "last" =>
    d.ucnt <= Ucnt(d.pt) /\ (d.ucnt = Ucnt(d.pt) => Right(d))

WholeRead(d) ==
  /\ d.len = d.want.len
  /\ d.got = [i \in 1 .. d.len |-> <<d.want.n, i - 1>>]

ReaderInv(d) ==
  /\ d.pc = "num" => d.pt < next
  /\ d.pc \in Reading => Began(d)
  /\ d.pc \in HasUcnt => Holds(d)
  /\ d.pc \notin Copying \cup {"done"} => d.got = <<>>
  /\ d.pc = "expired" /\ first <= d.pt => d.loc + d.len <= Area
  /\ d.pc = "body" => d.loc + d.len <= Area /\ Len(d.got) <= Units(d.len)
  /\ d.pc \in {"still", "last"} => Len(d.got) = Units(d.len)
  /\ d.pc = "done" => WholeRead(d)

ReadersInv ==
  /\ rd \in [Readers -> ReaderType]
  /\ \A r \in Readers : ReaderInv(rd[r])

--------------------------------------------------------------------------------
(* What the writers do to the reads under way *)

\* Messages are added one at a time, and expire; ucnt counts all changes of a
\* message whose slot is not used again.
Advances ==
  /\ first <= first' /\ next <= next'
  /\ next' # next => next' = next + 1 /\ NotOvertaken
  /\ \A p \in Recent : /\ Ucnt(p) <= Ucnt(p)'
                       /\ Ucnt(p)' = Ucnt(p) => Current(p)' = Current(p)

LEMMA UcntType ==
  ASSUME DbInv, NEW p \in Int
  PROVE  Ucnt(p) \in Nat
  BY CurrentType DEF DbInv, Ucnt

LEMMA KeptAdvances ==
  ASSUME DbInv, UNCHANGED <<first, next>>, InfosKept \/ RecentKept
  PROVE  Advances
  <1>1. first \in Nat /\ next \in Nat
    BY WindowType DEF DbInv, DbType
  <1>2. ASSUME NEW p \in Recent
        PROVE  Ucnt(p)' = Ucnt(p) /\ Current(p)' = Current(p)
    <2>1. p \in Int
      BY DEF Recent
    <2>2. CASE InfosKept
      <3>1. Current(p)' = Current(p)
        BY <2>1, <2>2, InfosMessages DEF DbInv
      <3>2. Slot(p) \in 0 .. NSlots - 1
        BY <2>1, SlotType
      <3> QED BY <2>2, <3>1, <3>2 DEF InfosKept, Ucnt, Slot
    <2> QED BY <2>2 DEF RecentKept
  <1>3. ASSUME NEW p \in Recent PROVE Ucnt(p) \in Nat
    BY UcntType DEF Recent
  <1> QED
    BY <1>1, <1>2, <1>3 DEF Advances

LEMMA DirAdvances ==
  ASSUME DbInv, UNCHANGED <<first, next, dir>>
  PROVE  Advances
  <1>1. InfosKept
    BY DEF InfosKept, DbInv, DbType
  <1> QED
    BY <1>1, KeptAdvances

LEMMA PublishAdvances ==
  ASSUME DbInv, Publish
  PROVE  Advances
  <1>1. first \in Nat /\ next \in Nat
    BY WindowType DEF DbInv, DbType
  <1>2. first' = first /\ (next' = next \/ (next' = next + 1 /\ NotOvertaken))
    BY DEF Publish
  <1>3. ASSUME NEW p \in Recent
        PROVE  Ucnt(p) <= Ucnt(p)' /\ (Ucnt(p)' = Ucnt(p) => Current(p)' = Current(p))
    <2>1. Ucnt(p) \in Nat
      BY UcntType DEF Recent
    <2>2. \/ Ucnt(p)' = Ucnt(p) /\ Current(p)' = Current(p)
          \/ Ucnt(p)' = Ucnt(p) + 1
      BY PublishStep
    <2> QED BY <2>1, <2>2
  <1> QED
    BY <1>1, <1>2, <1>3 DEF Advances

LEMMA ClearAdvances ==
  ASSUME DbInv, NEW k \in 1 .. MaxMsgs, Clear(k)
  PROVE  Advances
  <1>1. first \in Nat /\ next \in Nat
    BY WindowType DEF DbInv, DbType
  <1>2. first' = first + k /\ next' = next /\ dir' = dir
    BY DEF Clear
  <1>3. \A p \in Recent : Ucnt(p)' = Ucnt(p) /\ Current(p)' = Current(p) /\ Ucnt(p) \in Nat
    BY <1>2, UcntType DEF Ucnt, Current, Slot, Recent
  <1> QED
    BY <1>1, <1>2, <1>3, Constants DEF Advances

LEMMA WriterAdvances ==
  ASSUME DbInv, Write \/ \E k \in 1 .. MaxMsgs : Clear(k)
  PROVE  Advances /\ rd' = rd
  <1>1. ASSUME NEW len, NEW id, Replace(id, len) PROVE Advances /\ rd' = rd
    BY <1>1, DirAdvances DEF Replace, header
  <1>2. ASSUME NEW len \in Lengths, NEW id \in UserIds \cup {0}, Add(id, len) PROVE Advances /\ rd' = rd
    BY <1>2, DirAdvances DEF Add, header
  <1>3. ASSUME NEW len \in Lengths, Reuse(len) PROVE Advances /\ rd' = rd
    <2>1. InfosKept
      BY <1>3, ReuseStep
    <2> QED BY <1>3, <2>1, KeptAdvances DEF Reuse, header
  <1>4. CASE StoreUnit
    BY <1>4, DirAdvances DEF StoreUnit, header
  <1>5. CASE StoreInfo
    BY <1>5, StoreInfoStep, KeptAdvances DEF StoreInfo
  <1>6. CASE Publish
    BY <1>6, PublishAdvances DEF Publish
  <1>7. CASE TableOk
    BY <1>7, DirAdvances DEF TableOk, header
  <1>8. CASE Free
    BY <1>8, DirAdvances DEF Free, header
  <1>9. CASE Freed
    BY <1>9, DirAdvances DEF Freed, header
  <1>10. CASE Stop
    BY <1>10, DirAdvances DEF Stop, header
  <1>11. ASSUME NEW k \in 1 .. MaxMsgs, Clear(k) PROVE Advances /\ rd' = rd
    BY <1>11, ClearAdvances DEF Clear
  <1> QED
    BY <1>1, <1>2, <1>3, <1>4, <1>5, <1>6, <1>7, <1>8, <1>9, <1>10, <1>11 DEF Write

\* Until the read is over the slot of its message is not used again.
LEMMA BeganRecent ==
  ASSUME DbInv, NEW d \in ReaderType, Began(d)
  PROVE  d.pt \in Recent /\ d.pt \in Nat
  <1>1. d.pt \in Nat /\ d.num[1] \in Nat /\ d.num[2] \in Nat
    BY DEF ReaderType
  <1>2. first \in Nat /\ next \in Nat
    BY WindowType DEF DbInv, DbType
  <1>3. d.pt < next /\ next - d.pt < NSlots
    BY <1>1, <1>2, Constants DEF Began
  <1> QED
    BY <1>1, <1>3 DEF Recent

\* What a read knows survives whatever the writers do.
LEMMA ReaderKept ==
  ASSUME DbInv, DbInv', Advances, NEW d \in ReaderType, ReaderInv(d),
         NotOvertaken /\ d.pc \in Reading => next - d.num[2] < MaxLead
  PROVE  ReaderInv(d)'
  <1>1. d.pt \in Nat /\ d.num[1] \in Nat /\ d.num[2] \in Nat /\ d.ucnt \in Nat
    BY DEF ReaderType
  <1>2. first \in Nat /\ next \in Nat /\ first' \in Nat /\ next' \in Nat
    <2>1. Header /\ Header'
      BY DEF DbInv, DbType
    <2> QED BY <2>1, Constants DEF Header
  <1>3. first <= first' /\ next <= next' /\ (next' # next => next' = next + 1 /\ NotOvertaken)
    BY DEF Advances
  <1>4. d.pc = "num" => d.pt < next'
    BY <1>1, <1>2, <1>3 DEF ReaderInv
  <1>5. ASSUME d.pc \in Reading PROVE Began(d) /\ Began(d)'
    <2>1. Began(d)
      BY <1>5 DEF ReaderInv
    <2>2. next' <= d.num[2] + MaxLead
      BY <1>1, <1>2, <1>3, <1>5, <2>1, Constants DEF Began
    <2> QED BY <1>1, <1>2, <1>3, <2>1, <2>2 DEF Began
  <1>6. ASSUME d.pc \in HasUcnt PROVE Holds(d)'
    <2>1. Holds(d) /\ d.pt \in Recent /\ d.pt \in Nat
      BY <1>5, <1>6, BeganRecent DEF ReaderInv, HasUcnt
    <2>2. Ucnt(d.pt) \in Nat /\ Ucnt(d.pt)' \in Nat
      <3>1. Slot(d.pt) \in 0 .. NSlots - 1 /\ Slot(d.pt)' = Slot(d.pt)
        BY <2>1, SlotType DEF Slot
      <3>2. DbType /\ DbType'
        BY DEF DbInv
      <3>3. dir[Slot(d.pt)].ucnt \in Nat
        BY <3>1, <3>2 DEF DbType
      <3>4. dir'[Slot(d.pt)].ucnt \in Nat
        BY <3>1, <3>2 DEF DbType
      <3> QED BY <3>1, <3>3, <3>4 DEF Ucnt
    <2>3. Ucnt(d.pt) <= Ucnt(d.pt)' /\ (Ucnt(d.pt)' = Ucnt(d.pt) => Current(d.pt)' = Current(d.pt))
      BY <2>1 DEF Advances
    <2>4. ASSUME first' <= d.pt \/ d.pc = "last", d.ucnt = Ucnt(d.pt)' PROVE Right(d)'
      <3>1. first <= d.pt \/ d.pc = "last"
        BY <1>1, <1>2, <1>3, <2>4
      <3>2. d.ucnt <= Ucnt(d.pt) /\ (d.ucnt = Ucnt(d.pt) => Right(d))
        BY <2>1, <3>1 DEF Holds
      <3>3. d.ucnt = Ucnt(d.pt) /\ Ucnt(d.pt)' = Ucnt(d.pt)
        BY <1>1, <2>2, <2>3, <2>4, <3>2
      <3> QED BY <2>3, <3>2, <3>3 DEF Right
    <2>5. ASSUME first' <= d.pt \/ d.pc = "last" PROVE d.ucnt <= Ucnt(d.pt)'
      <3>1. first <= d.pt \/ d.pc = "last"
        BY <1>1, <1>2, <1>3, <2>5
      <3> QED BY <1>1, <2>1, <2>2, <2>3, <3>1 DEF Holds
    <2> QED BY <2>4, <2>5 DEF Holds
  <1>7. d.pc = "expired" /\ first' <= d.pt => d.loc + d.len <= Area
    BY <1>1, <1>2, <1>3 DEF ReaderInv
  <1> QED
    BY <1>4, <1>5, <1>6, <1>7 DEF ReaderInv, WholeRead

LEMMA WritersKeepReaders ==
  ASSUME DbInv, DbInv', ReadersInv, Advances, rd' = rd
  PROVE  ReadersInv'
  <1>1. ASSUME NEW r \in Readers PROVE ReaderInv(rd[r])'
    <2>1. PICK d \in ReaderType : d = rd[r]
      BY DEF ReadersInv
    <2>2. ReaderInv(d)
      BY <2>1 DEF ReadersInv
    <2>3. NotOvertaken /\ d.pc \in Reading => next - d.num[2] < MaxLead
      BY <2>1 DEF NotOvertaken
    <2>4. ReaderInv(d)'
      BY <2>2, <2>3, ReaderKept
    <2>5. rd'[r] = d
      BY <2>1
    <2> QED BY <2>4, <2>5 DEF ReaderInv, Began, Holds, Right, WholeRead
  <1>2. rd' \in [Readers -> ReaderType]
    BY DEF ReadersInv
  <1> QED
    BY <1>1, <1>2 DEF ReadersInv

--------------------------------------------------------------------------------
(* The steps of a read *)

\* A reader's step changes its own record only.
LEMMA ReaderStep ==
  ASSUME DbInv, ReadersInv, UNCHANGED dbVars, NEW r \in Readers, NEW d \in ReaderType,
         Reader(r, d), ReaderInv(d)
  PROVE  ReadersInv'
  <1>1. rd' = [rd EXCEPT ![r] = d] /\ rd \in [Readers -> ReaderType]
    BY DEF Reader, ReadersInv
  <1>2. UNCHANGED <<first, next, dir>>
    BY DEF dbVars, header
  <1>3. ASSUME NEW q \in Readers PROVE ReaderInv(rd[q])'
    <2>1. PICK e \in ReaderType : e = rd'[q]
      BY <1>1
    <2>2. ReaderInv(e)
      BY <1>1, <2>1 DEF ReadersInv
    <2>3. ReaderInv(e)'
      <3>1. (Began(e)' <=> Began(e)) /\ (Right(e)' <=> Right(e))
        BY <1>2 DEF Began, Right, Current, Slot
      <3>2. Holds(e)' <=> Holds(e)
        BY <1>2, <3>1 DEF Holds, Ucnt, Slot
      <3> QED BY <1>2, <2>2, <3>1, <3>2 DEF ReaderInv, WholeRead
    <2> QED BY <2>1, <2>3 DEF ReaderInv, Began, Holds, Right, WholeRead
  <1>4. rd' \in [Readers -> ReaderType]
    BY <1>1
  <1> QED
    BY <1>3, <1>4 DEF ReadersInv

LEMMA NoneType == None \in Value /\ None.n = 0 /\ None.len = -1
  BY DEF None, Value

LEMMA NoReadType ==
  NoRead \in ReaderType /\ NoRead.pc = "idle" /\ NoRead.got = <<>>
  BY NoneType, Constants DEF NoRead, ReaderType

LEMMA IdleInv ==
  ReaderInv(NoRead)
  BY NoReadType DEF ReaderInv, Reading, HasUcnt, Copying

LEMMA ReadersInit ==
  ASSUME Init
  PROVE  ReadersInv
  <1>1. rd = [r \in Readers |-> NoRead]
    BY DEF Init
  <1> QED
    BY <1>1, NoReadType, IdleInv DEF ReadersInv

LEMMA FindStep ==
  ASSUME DbInv, ReadersInv, NEW r \in Readers, NEW id \in 0 .. MaxId, Find(r, id)
  PROVE  ReadersInv'
  <1>1. first \in Nat /\ next \in Nat /\ Window \subseteq Nat /\ \A p \in Window : p < next
    BY WindowType DEF DbInv, DbType
  <1> DEFINE From == IF id = 0 THEN Window ELSE {Latest(S) : S \in {Found(id)} \ {{}}}
             Start(p) == [NoRead EXCEPT !.pc = "num", !.id = id, !.pt = p]
  <1>2. PICK pt \in From : Reader(r, Start(pt))
    <2>1. \E pt \in From : Reader(r, Start(pt))
      BY Zenon DEF Find
    <2> HIDE DEF From, Start
    <2> QED BY <2>1
  <1>3. pt \in Window
    <2>1. CASE id # 0
      <3>1. Found(id) # {} /\ pt = Latest(Found(id))
        BY <2>1
      <3> QED BY <1>1, <3>1, FoundInside, LatestIn
    <2> QED BY <2>1
  <1> DEFINE d == Start(pt)
  <1>4. d \in ReaderType /\ d.pc = "num" /\ d.pt = pt /\ d.got = <<>>
    <2>1. NoRead \in ReaderType
      BY NoReadType
    <2>2. NoRead.got = <<>> /\ pt \in Nat
      BY <1>1, <1>3, NoReadType
    <2>3. d = [NoRead EXCEPT !.pc = "num", !.id = id, !.pt = pt]
      OBVIOUS
    <2> HIDE DEF d
    <2> QED BY <2>1, <2>2, <2>3 DEF ReaderType
  <1>5. Reader(r, d)
    BY <1>2
  <1> HIDE DEF d
  <1>6. ReaderInv(d)
    BY <1>1, <1>3, <1>4 DEF ReaderInv, Reading, HasUcnt, Copying
  <1>7. UNCHANGED dbVars
    BY ReaderKeepsDb DEF Read
  <1> QED
    BY <1>4, <1>5, <1>6, <1>7, ReaderStep

\* The record of a reader, and what holds of it.
LEMMA ReaderHas ==
  ASSUME DbInv, ReadersInv, NEW r \in Readers
  PROVE  \E d \in ReaderType : d = rd[r] /\ ReaderInv(d)
  BY DEF ReadersInv

LEMMA ReaderFields ==
  ASSUME NEW d \in ReaderType
  PROVE  /\ d.id \in 0 .. MaxId /\ d.pt \in Nat /\ d.num \in Nat \X Nat /\ d.ucnt \in Nat
         /\ d.num[1] \in Nat /\ d.num[2] \in Nat
         /\ d.want \in Value /\ d.loc \in 0 .. Area /\ d.len \in -1 .. Area /\ d.got \in Seq(Unit)
         /\ d.pc \in {"idle", "num", "done"} \cup Reading
  BY DEF ReaderType

LEMMA LoadNumStep ==
  ASSUME DbInv, ReadersInv, NEW r \in Readers, LoadNum(r)
  PROVE  ReadersInv'
  <1>1. first \in Nat /\ next \in Nat /\ first <= next /\ next <= first + MaxMsgs
    BY WindowType DEF DbInv, DbType
  <1>2. PICK d \in ReaderType : d = rd[r] /\ ReaderInv(d)
    BY ReaderHas
  <1> DEFINE e == [d EXCEPT !.pc = "ucnt", !.num = <<first, next>>]
  <1>3. d.pc = "num" /\ Reader(r, IF d.pt < first THEN NoRead ELSE e) /\ UNCHANGED dbVars
    BY <1>2 DEF LoadNum, ReaderSteps, dbVars
  <1>4. CASE d.pt < first
    BY <1>3, <1>4, NoReadType, IdleInv, ReaderStep
  <1>5. CASE ~ d.pt < first
    <2>1. e \in ReaderType
      BY <1>1, <1>2 DEF ReaderType, Reading
    <2>2. e.pc = "ucnt" /\ e.pt = d.pt /\ e.num = <<first, next>> /\ e.got = d.got
      BY DEF ReaderType
    <2> HIDE DEF e
    <2>3. d.got = <<>> /\ d.pt < next /\ first <= d.pt
      BY <1>1, <1>2, <1>3, <1>5, ReaderFields DEF ReaderInv, Copying
    <2>4. e.num[1] = first /\ e.num[2] = next
      BY <2>2
    <2>5. Began(e)
      BY <1>1, <2>2, <2>3, <2>4, Constants DEF Began
    <2>6. ReaderInv(e)
      BY <2>2, <2>3, <2>5 DEF ReaderInv, HasUcnt, Copying
    <2> QED BY <1>3, <1>5, <2>1, <2>6, ReaderStep
  <1> QED
    BY <1>4, <1>5

LEMMA LoadUcntStep ==
  ASSUME DbInv, ReadersInv, NEW r \in Readers, LoadUcnt(r)
  PROVE  ReadersInv'
  <1>2. PICK d \in ReaderType : d = rd[r] /\ ReaderInv(d)
    BY ReaderHas
  <1> DEFINE u == Ucnt(d.pt)
             v == Current(d.pt).val
             e == [d EXCEPT !.pc = "loc", !.ucnt = u, !.want = v]
  <1>3. d.pc = "ucnt" /\ Reader(r, e) /\ UNCHANGED dbVars
    BY <1>2 DEF LoadUcnt, ReaderSteps, dbVars, Ucnt
  <1>4. u \in Nat /\ v \in Value
    <2>1. d.pt \in Int
      BY ReaderFields
    <2>2. Current(d.pt) \in InfoType /\ Ucnt(d.pt) \in Nat
      BY <2>1, CurrentType, UcntType DEF DbInv
    <2> QED BY <2>2 DEF InfoType
  <1>5. e \in ReaderType
    <2> HIDE DEF u, v
    <2> QED BY <1>4 DEF ReaderType, Reading
  <1>6. /\ e.pc = "loc" /\ e.pt = d.pt /\ e.num = d.num /\ e.got = d.got
        /\ e.ucnt = Ucnt(d.pt) /\ e.want = Current(d.pt).val
    BY DEF ReaderType
  <1> HIDE DEF e, u, v
  <1>7. Began(e) /\ e.got = <<>>
    BY <1>2, <1>3, <1>6 DEF ReaderInv, Reading, Began, Copying
  <1>8. Holds(e)
    <2>1. Len(e.got) = 0
      BY <1>7
    <2>2. Right(e)
      BY <1>6, <2>1 DEF Right, HasLoc, HasLen
    <2> QED BY <1>4, <1>6, <2>2 DEF Holds, u
  <1>9. ReaderInv(e)
    BY <1>6, <1>7, <1>8 DEF ReaderInv, Copying
  <1> QED
    BY <1>3, <1>5, <1>9, ReaderStep

\* What is in the info that a read takes for the current one.
LEMMA InfoLooked ==
  ASSUME DbInv, NEW d \in ReaderType
  PROVE  LET i == dir[Slot(d.pt)].info[d.ucnt % 2]
         IN  i \in InfoType /\ (d.ucnt = Ucnt(d.pt) => i = Current(d.pt))
  <1>1. d.pt \in Int /\ d.ucnt \in Nat
    BY ReaderFields
  <1>2. dir[Slot(d.pt)] \in [id : 0 .. MaxId, ucnt : Nat, info : [0 .. 1 -> InfoType]]
    BY <1>1, CurrentType DEF DbInv
  <1>3. dir[Slot(d.pt)].info \in [0 .. 1 -> InfoType]
    BY <1>2
  <1>4. d.ucnt % 2 \in 0 .. 1
    BY <1>1, Turns
  <1> QED
    BY <1>3, <1>4 DEF Current, Ucnt

LEMMA LoadLocStep ==
  ASSUME DbInv, ReadersInv, NEW r \in Readers, LoadLoc(r)
  PROVE  ReadersInv'
  <1>2. PICK d \in ReaderType : d = rd[r] /\ ReaderInv(d)
    BY ReaderHas
  <1> DEFINE i == dir[Slot(d.pt)].info[d.ucnt % 2]
             e == [d EXCEPT !.pc = "len", !.loc = i.loc]
  <1>3. d.pc = "loc" /\ Reader(r, e) /\ UNCHANGED dbVars
    BY <1>2 DEF LoadLoc, ReaderSteps, dbVars
  <1>4. i \in InfoType /\ (d.ucnt = Ucnt(d.pt) => i = Current(d.pt))
    BY InfoLooked
  <1> HIDE DEF i
  <1>5. e \in ReaderType
    BY <1>4 DEF ReaderType, Reading, InfoType
  <1>6. /\ e.pc = "len" /\ e.pt = d.pt /\ e.num = d.num /\ e.got = d.got
        /\ e.ucnt = d.ucnt /\ e.want = d.want /\ e.loc = i.loc
    BY DEF ReaderType
  <1> HIDE DEF e
  <1>7. Began(e) /\ e.got = <<>> /\ Holds(d)
    BY <1>2, <1>3, <1>6 DEF ReaderInv, Reading, HasUcnt, Began, Copying
  <1>8. Holds(e)
    <2>1. Right(d) /\ d.ucnt = Ucnt(d.pt) => Right(e)
      BY <1>3, <1>4, <1>6, <1>7 DEF Right, HasLoc, HasLen, HasUcnt, Reading
    <2> QED BY <1>3, <1>6, <1>7, <2>1 DEF Holds
  <1>9. ReaderInv(e)
    BY <1>6, <1>7, <1>8 DEF ReaderInv, Copying
  <1> QED
    BY <1>3, <1>5, <1>9, ReaderStep

LEMMA LoadLenStep ==
  ASSUME DbInv, ReadersInv, NEW r \in Readers, LoadLen(r)
  PROVE  ReadersInv'
  <1>2. PICK d \in ReaderType : d = rd[r] /\ ReaderInv(d)
    BY ReaderHas
  <1> DEFINE i == dir[Slot(d.pt)].info[d.ucnt % 2]
             e == [d EXCEPT !.pc = "same", !.len = i.len]
  <1>3. d.pc = "len" /\ Reader(r, e) /\ UNCHANGED dbVars
    BY <1>2 DEF LoadLen, ReaderSteps, dbVars
  <1>4. i \in InfoType /\ (d.ucnt = Ucnt(d.pt) => i = Current(d.pt))
    BY InfoLooked
  <1> HIDE DEF i
  <1>5. e \in ReaderType
    BY <1>4 DEF ReaderType, Reading, InfoType
  <1>6. /\ e.pc = "same" /\ e.pt = d.pt /\ e.num = d.num /\ e.got = d.got
        /\ e.ucnt = d.ucnt /\ e.want = d.want /\ e.loc = d.loc /\ e.len = i.len
    BY DEF ReaderType
  <1> HIDE DEF e
  <1>7. Began(e) /\ Began(d) /\ e.got = <<>> /\ Holds(d)
    BY <1>2, <1>3, <1>6 DEF ReaderInv, Reading, HasUcnt, Began, Copying
  <1>8. Holds(e)
    <2>1. ASSUME first <= d.pt, d.ucnt = Ucnt(d.pt), Right(d) PROVE Right(e)
      <3>1. d.pt \in Window
        <4>1. first \in Nat /\ next \in Nat /\ d.pt \in Nat /\ d.pt < next
          BY <1>7, WindowType, BeganRecent DEF DbInv, DbType, Recent
        <4> QED BY <2>1, <4>1 DEF Window
      <3>2. Current(d.pt).len = Current(d.pt).val.len
        BY <3>1 DEF DbInv, Stored, Whole
      <3> QED BY <1>3, <1>4, <1>6, <1>7, <2>1, <3>2 DEF Right, HasLoc, HasLen, HasUcnt, Reading
    <2> QED BY <1>3, <1>6, <1>7, <2>1 DEF Holds
  <1>9. ReaderInv(e)
    BY <1>6, <1>7, <1>8 DEF ReaderInv, Copying
  <1> QED
    BY <1>3, <1>5, <1>9, ReaderStep

\* The place of the message of a read, while it is available.
LEMMA ReadPlace ==
  ASSUME DbInv, NEW d \in ReaderType, Began(d), first <= d.pt, Right(d), d.pc \in HasLen
  PROVE  /\ d.loc + d.len <= Area
         /\ \A k \in 0 .. d.len - 1 : d.loc + k \in 0 .. Area - 1 /\ unit[d.loc + k] = <<d.want.n, k>>
  <1>1. /\ first \in Nat /\ next \in Nat /\ size \in 0 .. Area
    BY WindowType DEF DbInv, DbType
  <1>2. d.pt \in Nat /\ d.pt < next /\ d.loc \in 0 .. Area /\ d.len \in -1 .. Area
    BY BeganRecent, ReaderFields DEF Recent
  <1>3. Whole(d.pt)
    BY <1>1, <1>2 DEF Window, DbInv, Stored
  <1>4. d.loc = Current(d.pt).loc /\ d.len = Current(d.pt).len /\ d.want = Current(d.pt).val
    BY DEF Right, HasLen
  <1>5. Span(d.loc, d.len) \subseteq 0 .. size - 1
    BY <1>3, <1>4 DEF Whole, Place
  <1>6. \A k \in 0 .. d.len - 1 : d.loc + k \in 0 .. size - 1
    BY <1>2, <1>5 DEF Span
  <1>7. d.loc + d.len <= Area
    <2>1. CASE d.len > 0
      <3> DEFINE k == d.len - 1
      <3>1. k \in 0 .. d.len - 1
        BY <1>2, <2>1
      <3>2. d.loc + k \in 0 .. size - 1
        BY <1>6, <3>1
      <3>3. d.loc + d.len = (d.loc + k) + 1
        BY <1>2
      <3> HIDE DEF k
      <3>4. (d.loc + k) + 1 \in 1 .. size
        BY <1>1, <3>2
      <3>5. 1 .. size \subseteq 1 .. Area
        BY <1>1, Constants
      <3>6. d.loc + d.len \in 1 .. Area
        BY <3>3, <3>4, <3>5
      <3> QED BY <3>6
    <2>2. CASE ~ d.len > 0
      BY <1>2, <2>2, Constants
    <2> QED BY <2>1, <2>2
  <1>8. \A k \in 0 .. d.len - 1 : unit[d.loc + k] = <<d.want.n, k>>
    BY <1>3, <1>4 DEF Whole
  <1> QED
    BY <1>1, <1>6, <1>7, <1>8, Constants

LEMMA SameInfoStep ==
  ASSUME DbInv, ReadersInv, NEW r \in Readers, SameInfo(r)
  PROVE  ReadersInv'
  <1>2. PICK d \in ReaderType : d = rd[r] /\ ReaderInv(d)
    BY ReaderHas
  <1> DEFINE e == [d EXCEPT !.pc = "expired"]
             a == [NoRead EXCEPT !.pc = "ucnt", !.id = d.id, !.pt = d.pt, !.num = d.num]
  <1>3. d.pc = "same" /\ UNCHANGED dbVars
    BY <1>2 DEF SameInfo, ReaderSteps, dbVars
  <1>4. Began(d) /\ Holds(d) /\ d.got = <<>>
    BY <1>2, <1>3 DEF ReaderInv, Reading, HasUcnt, Copying
  <1>5. CASE d.ucnt = Ucnt(d.pt)
    <2>1. Reader(r, e)
      BY <1>2, <1>5 DEF SameInfo, Same, Ucnt
    <2>2. e \in ReaderType
      BY DEF ReaderType, Reading
    <2>3. /\ e.pc = "expired" /\ e.pt = d.pt /\ e.num = d.num /\ e.got = d.got
          /\ e.ucnt = d.ucnt /\ e.want = d.want /\ e.loc = d.loc /\ e.len = d.len
      BY DEF ReaderType
    <2> HIDE DEF e
    <2>4. Began(e)
      BY <1>4, <2>3 DEF Began
    <2>5. Right(d) => Right(e)
      BY <1>3, <2>3 DEF Right, HasLen, HasLoc, HasUcnt, Reading
    <2>6. Holds(e)
      BY <1>3, <1>4, <2>3, <2>5 DEF Holds
    <2>7. first <= d.pt => d.loc + d.len <= Area
      <3>1. first <= d.pt => Right(d) /\ d.pc \in HasLen
        BY <1>3, <1>4, <1>5 DEF Holds, HasLen, HasLoc, HasUcnt, Reading
      <3> QED BY <1>4, <3>1, ReadPlace
    <2>8. ReaderInv(e)
      BY <1>4, <2>3, <2>4, <2>6, <2>7 DEF ReaderInv, Copying
    <2> QED BY <1>3, <2>1, <2>2, <2>8, ReaderStep
  <1>6. CASE d.ucnt # Ucnt(d.pt)
    <2>1. Reader(r, a)
      BY <1>2, <1>6 DEF SameInfo, Same, Ucnt, AgainInfo, Again
    <2>2. a \in ReaderType /\ a.pc = "ucnt" /\ a.pt = d.pt /\ a.num = d.num /\ a.got = <<>>
      <3>1. NoRead \in ReaderType /\ NoRead.got = <<>>
        BY NoReadType
      <3> QED BY <3>1, ReaderFields DEF ReaderType, Reading
    <2> HIDE DEF a
    <2>3. ReaderInv(a)
      BY <1>4, <2>2 DEF ReaderInv, Began, HasUcnt, Copying
    <2> QED BY <1>3, <2>1, <2>2, <2>3, ReaderStep
  <1> QED
    BY <1>5, <1>6

LEMMA NotExpiredStep ==
  ASSUME DbInv, ReadersInv, NEW r \in Readers, NotExpired(r)
  PROVE  ReadersInv'
  <1>1. first \in Nat /\ next \in Nat
    BY WindowType DEF DbInv, DbType
  <1>2. PICK d \in ReaderType : d = rd[r] /\ ReaderInv(d)
    BY ReaderHas
  <1> DEFINE e == [d EXCEPT !.pc = IF d.pc = "expired" THEN "body" ELSE "last"]
  <1>3. /\ d.pc \in {"expired", "still"} /\ UNCHANGED dbVars
        /\ Reader(r, IF d.num # <<first, next>> /\ d.pt < first THEN NoRead ELSE e)
    BY <1>2 DEF NotExpired, ReaderSteps, dbVars
  <1>4. Began(d) /\ Holds(d)
    BY <1>2, <1>3 DEF ReaderInv, Reading, HasUcnt
  <1>5. CASE d.num # <<first, next>> /\ d.pt < first
    BY <1>3, <1>5, NoReadType, IdleInv, ReaderStep
  <1>6. CASE ~ (d.num # <<first, next>> /\ d.pt < first)
    <2>1. first <= d.pt
      <3>1. CASE d.num = <<first, next>>
        <4>1. d.num[1] = first
          BY <3>1
        <4> QED BY <1>4, <4>1 DEF Began
      <3> QED BY <1>1, <1>6, <3>1, ReaderFields
    <2>2. e \in ReaderType
      BY DEF ReaderType, Reading
    <2>3. /\ e.pc = IF d.pc = "expired" THEN "body" ELSE "last"
          /\ e.pt = d.pt /\ e.num = d.num /\ e.got = d.got
          /\ e.ucnt = d.ucnt /\ e.want = d.want /\ e.loc = d.loc /\ e.len = d.len
      BY DEF ReaderType
    <2>4. Reader(r, e)
      BY <1>3, <1>6
    <2> HIDE DEF e
    <2>5. Began(e)
      BY <1>4, <2>3 DEF Began
    <2>6. Right(d) => Right(e)
      BY <1>3, <2>3 DEF Right, HasLen, HasLoc, HasUcnt, Reading
    <2>7. Holds(e)
      BY <1>4, <2>1, <2>3, <2>6 DEF Holds
    <2>8. Units(d.len) \in Nat
      BY ReaderFields, Constants DEF Units
    <2>9. CASE d.pc = "expired"
      <3>1. e.pc = "body" /\ d.got = <<>> /\ d.loc + d.len <= Area
        BY <1>2, <2>1, <2>3, <2>9 DEF ReaderInv, Copying
      <3>2. Len(e.got) <= Units(e.len)
        BY <2>3, <2>8, <3>1
      <3> QED
        BY <1>3, <2>2, <2>3, <2>4, <2>5, <2>7, <3>1, <3>2, ReaderStep DEF ReaderInv, Copying
    <2>10. CASE d.pc = "still"
      <3>1. e.pc = "last" /\ Len(e.got) = Units(e.len)
        BY <1>2, <2>3, <2>10 DEF ReaderInv
      <3>2. ReaderInv(e)
        BY <2>5, <2>7, <3>1 DEF ReaderInv, Copying
      <3> QED BY <1>3, <2>2, <2>4, <3>2, ReaderStep
    <2> QED BY <1>3, <2>9, <2>10
  <1> QED
    BY <1>5, <1>6

LEMMA LoadUnitStep ==
  ASSUME DbInv, ReadersInv, NEW r \in Readers, LoadUnit(r)
  PROVE  ReadersInv'
  <1>2. PICK d \in ReaderType : d = rd[r] /\ ReaderInv(d)
    BY ReaderHas
  <1> DEFINE k == Len(d.got)
             x == unit[d.loc + k]
             e == [d EXCEPT !.pc = "still"]
             g == [d EXCEPT !.got = Append(d.got, x)]
  <1>3. /\ d.pc = "body" /\ UNCHANGED dbVars
        /\ Reader(r, IF k >= d.len THEN e ELSE g)
    BY <1>2 DEF LoadUnit, ReaderSteps, dbVars
  <1>4. Began(d) /\ Holds(d) /\ d.loc + d.len <= Area /\ Len(d.got) <= Units(d.len)
    BY <1>2, <1>3 DEF ReaderInv, Reading, HasUcnt
  <1>5. k \in Nat /\ d.len \in -1 .. Area /\ d.loc \in 0 .. Area /\ d.got \in Seq(Unit)
    BY ReaderFields
  <1>6. CASE k >= d.len
    <2>1. e \in ReaderType
      BY DEF ReaderType, Reading
    <2>2. /\ e.pc = "still" /\ e.pt = d.pt /\ e.num = d.num /\ e.got = d.got
          /\ e.ucnt = d.ucnt /\ e.want = d.want /\ e.loc = d.loc /\ e.len = d.len
      BY DEF ReaderType
    <2>3. Reader(r, e)
      BY <1>3, <1>6
    <2> HIDE DEF e
    <2>4. Began(e)
      BY <1>4, <2>2 DEF Began
    <2>5. Right(d) => Right(e)
      BY <1>3, <2>2 DEF Right, HasLen, HasLoc, HasUcnt, Reading
    <2>6. Holds(e)
      BY <1>3, <1>4, <2>2, <2>5 DEF Holds
    <2>7. Len(e.got) = Units(e.len)
      BY <1>4, <1>5, <1>6, <2>2, Constants DEF Units
    <2>8. ReaderInv(e)
      BY <2>2, <2>4, <2>6, <2>7 DEF ReaderInv, Copying
    <2> QED BY <1>3, <2>1, <2>3, <2>8, ReaderStep
  <1>7. CASE ~ k >= d.len
    <2>1. k < d.len /\ d.loc + k \in 0 .. Area - 1
      BY <1>4, <1>5, <1>7, Constants
    <2>2. x \in Unit
      BY <2>1 DEF DbInv, DbType
    <2>3. Reader(r, g)
      BY <1>3, <1>7
    <2> HIDE DEF x
    <2> DEFINE h == Append(d.got, x)
    <2>4. /\ h \in Seq(Unit) /\ Len(h) = k + 1 /\ h[k + 1] = x
          /\ \A i \in 1 .. k : h[i] = d.got[i]
      BY <1>5, <2>2
    <2>5. g = [d EXCEPT !.got = h]
      OBVIOUS
    <2> HIDE DEF g, h
    <2>6. g \in ReaderType
      BY <2>4, <2>5 DEF ReaderType
    <2>7. /\ g.pc = "body" /\ g.pt = d.pt /\ g.num = d.num /\ g.got = h
          /\ g.ucnt = d.ucnt /\ g.want = d.want /\ g.loc = d.loc /\ g.len = d.len
      BY <1>3, <2>5 DEF ReaderType
    <2>8. Began(g)
      BY <1>4, <2>7 DEF Began
    <2>9. ASSUME Right(d), first <= d.pt PROVE Right(g)
      <3>1. d.pc \in HasLen
        BY <1>3 DEF HasLen, HasLoc, HasUcnt, Reading
      <3>2. unit[d.loc + k] = <<d.want.n, k>>
        <4>1. \A j \in 0 .. d.len - 1 : unit[d.loc + j] = <<d.want.n, j>>
          BY <1>4, <2>9, <3>1, ReadPlace
        <4>2. k \in 0 .. d.len - 1
          BY <1>5, <2>1
        <4> QED BY <4>1, <4>2
      <3>3. \A i \in 1 .. k : d.got[i] = <<d.want.n, i - 1>>
        BY <2>9 DEF Right
      <3>4. \A i \in 1 .. Len(h) : h[i] = <<d.want.n, i - 1>>
        <4>1. ASSUME NEW i \in 1 .. k + 1 PROVE h[i] = <<d.want.n, i - 1>>
          <5>1. CASE i = k + 1
            <6>1. i - 1 = k
              BY <1>5, <5>1
            <6> QED BY <2>4, <3>2, <5>1, <6>1 DEF x
          <5>2. CASE i # k + 1
            <6>1. i \in 1 .. k
              BY <1>5, <4>1, <5>2
            <6> QED BY <2>4, <3>3, <6>1
          <5> QED BY <5>1, <5>2
        <4> QED BY <2>4, <4>1
      <3> QED BY <2>7, <2>9, <3>1, <3>4 DEF Right, HasLen, HasLoc, HasUcnt, Reading
    <2>10. Holds(g)
      BY <1>3, <1>4, <2>7, <2>9 DEF Holds
    <2>11. Len(g.got) <= Units(g.len)
      BY <1>5, <2>1, <2>4, <2>7 DEF Units
    <2>12. ReaderInv(g)
      BY <1>4, <2>7, <2>8, <2>10, <2>11 DEF ReaderInv, Copying
    <2> QED BY <1>3, <2>3, <2>6, <2>12, ReaderStep
  <1> QED
    BY <1>6, <1>7

LEMMA SameBodyStep ==
  ASSUME DbInv, ReadersInv, NEW r \in Readers, SameBody(r)
  PROVE  ReadersInv'
  <1>2. PICK d \in ReaderType : d = rd[r] /\ ReaderInv(d)
    BY ReaderHas
  <1> DEFINE e == [NoRead EXCEPT !.pc = "done", !.len = d.len, !.got = d.got, !.want = d.want]
             a == [NoRead EXCEPT !.pc = "num", !.id = d.id, !.pt = d.pt]
  <1>3. d.pc = "last" /\ UNCHANGED dbVars
    BY <1>2 DEF SameBody, ReaderSteps, dbVars
  <1>4. Began(d) /\ Holds(d) /\ Len(d.got) = Units(d.len)
    BY <1>2, <1>3 DEF ReaderInv, Reading, HasUcnt
  <1>5. CASE d.ucnt = Ucnt(d.pt)
    <2>1. Reader(r, e)
      BY <1>2, <1>5 DEF SameBody, Same, Ucnt, Done
    <2>2. e \in ReaderType /\ e.pc = "done" /\ e.len = d.len /\ e.got = d.got /\ e.want = d.want
      <3>1. NoRead \in ReaderType
        BY NoReadType
      <3> QED BY <3>1, ReaderFields DEF ReaderType
    <2> HIDE DEF e
    <2>3. Right(d) /\ d.pc \in HasLen
      BY <1>3, <1>4, <1>5 DEF Holds, HasLen, HasLoc, HasUcnt, Reading
    <2>4. d.len = d.want.len /\ \A i \in 1 .. Len(d.got) : d.got[i] = <<d.want.n, i - 1>>
      BY <2>3 DEF Right
    <2>5. d.got = [i \in 1 .. d.len |-> <<d.want.n, i - 1>>]
      <3>1. d.got \in Seq(Unit) /\ d.len \in -1 .. Area
        BY ReaderFields
      <3>2. 1 .. Len(d.got) = 1 .. d.len
        BY <1>4, <3>1 DEF Units
      <3>3. d.got = [i \in 1 .. Len(d.got) |-> d.got[i]]
        BY <3>1
      <3>4. [i \in 1 .. Len(d.got) |-> d.got[i]] = [i \in 1 .. Len(d.got) |-> <<d.want.n, i - 1>>]
        BY <2>4
      <3> QED BY <3>2, <3>3, <3>4
    <2>6. ReaderInv(e)
      BY <2>2, <2>4, <2>5 DEF ReaderInv, WholeRead, Reading, HasUcnt, Copying
    <2> QED BY <1>3, <2>1, <2>2, <2>6, ReaderStep
  <1>6. CASE d.ucnt # Ucnt(d.pt)
    <2>1. Reader(r, a)
      BY <1>2, <1>6 DEF SameBody, Same, Ucnt, Again
    <2>2. a \in ReaderType /\ a.pc = "num" /\ a.pt = d.pt /\ a.got = <<>>
      <3>1. NoRead \in ReaderType /\ NoRead.got = <<>>
        BY NoReadType
      <3> QED BY <3>1, ReaderFields DEF ReaderType
    <2> HIDE DEF a
    <2>3. d.pt < next
      BY <1>4, BeganRecent DEF Recent
    <2>4. ReaderInv(a)
      BY <2>2, <2>3 DEF ReaderInv, Reading, HasUcnt, Copying
    <2> QED BY <1>3, <2>1, <2>2, <2>4, ReaderStep
  <1> QED
    BY <1>5, <1>6

--------------------------------------------------------------------------------
(* The readers' invariant, and what it is for *)

LEMMA ReadersStep ==
  ASSUME DbInv, ReadersInv, [Next]_vars
  PROVE  ReadersInv'
  <1>1. DbInv'
    BY DbStep
  <1>2. CASE Write \/ \E k \in 1 .. MaxMsgs : Clear(k)
    BY <1>1, <1>2, WriterAdvances, WritersKeepReaders
  <1>3. CASE UNCHANGED vars
    <2>1. UNCHANGED <<first, next, dir, rd>>
      BY <1>3 DEF vars, header
    <2> QED BY <1>1, <2>1, DirAdvances, WritersKeepReaders
  <1>4. ASSUME NEW r \in Readers, Read(r) PROVE ReadersInv'
    <2>1. ASSUME NEW id \in 0 .. MaxId, Find(r, id) PROVE ReadersInv'
      BY <2>1, FindStep
    <2> QED
      BY <1>4, <2>1, LoadNumStep, LoadUcntStep, LoadLocStep, LoadLenStep, SameInfoStep,
         SameBodyStep, NotExpiredStep, LoadUnitStep DEF Read
  <1> QED
    BY <1>2, <1>3, <1>4 DEF Next

(***************************************************************************)
(* While its message is available, a reader whose ucnt is still that of the *)
(* directory has loaded nothing but the current version, in every state of  *)
(* every behaviour with any number of readers and calls.                    *)
(***************************************************************************)
THEOREM ReadersCorrect == Spec => []ReadersInv
  <1>1. Init => ReadersInv
    BY ReadersInit
  <1>2. DbInv /\ ReadersInv /\ [Next]_vars => ReadersInv'
    BY ReadersStep
  <1> QED
    BY <1>1, <1>2, DbCorrect, PTL DEF Spec

\* A read that ends well, without a lock, returns one whole message, the one
\* that was current when ucnt was loaded.
THEOREM ReadsWholeCorrect == Spec => []ReadsWhole
  <1>1. ReadersInv => ReadsWhole
    BY DEF ReadersInv, ReaderInv, WholeRead, ReadsWhole
  <1> QED
    BY <1>1, ReadersCorrect, PTL

\* Every variable has the values its comment names.
THEOREM TypeCorrect == Spec => []TypeOK
  <1>1. ASSUME DbInv, ReadersInv PROVE TypeOK
    <2>1. DbType
      BY <1>1 DEF DbInv
    <2>2. \A s \in DOMAIN dir : /\ dir[s].id \in 0 .. MaxId /\ dir[s].ucnt \in Nat
                                /\ \A i \in 0 .. 1 : /\ dir[s].info[i].loc \in 0 .. Area
                                                     /\ dir[s].info[i].len \in -1 .. Area
      BY <2>1 DEF DbType, InfoType
    <2>3. w.pc \in {"idle", "body", "info", "publish", "table", "free", "freed"}
      BY <2>1 DEF DbType, CallType, Idle
    <2>4. \A r \in Readers : rd[r].pc \in {"idle", "num", "done"} \cup Reading
      BY <1>1 DEF ReadersInv, ReaderType
    <2>5. DOMAIN unit = 0 .. Area - 1
      BY <2>1 DEF DbType
    <2> QED BY <2>1, <2>2, <2>3, <2>4, <2>5 DEF DbType, Header, TypeOK
  <1> QED
    BY <1>1, DbCorrect, ReadersCorrect, PTL

--------------------------------------------------------------------------------
(* Ids and the order of messages *)

\* A call that adds a message, before the message is published.
Adding == Storing /\ w.kind # "replace"

\* Messages with ids by LB_ANY: the masked ids grow with the messages, from 1
\* in an empty database; an id passes the mask when its message is reused.
Given ==
  \A p \in Window : /\ Id(p) % IdMask <= p + 1
                    /\ ~ deleted => Id(p) < IdMask
                    /\ \A q \in Window : p < q => Id(p) % IdMask < Id(q) % IdMask

\* Messages with ids of the callers', when they are searched by halves.
Increasing == \A p, q \in Window : p < q => Id(p) <= Id(q)

\* The id of the message that is added, and what it does to the order.
AddingInv ==
  /\ w.len >= 0
  /\ w.kind = "any" => w.id = NextId
  /\ w.kind = "byUser" => IF w.pc = "publish" THEN by_user ELSE ~ deleted
  /\ w.pc = "publish" => /\ Id(next) = w.id
                         /\ by_user /\ non_dec /\ first < next => Id(next - 1) <= w.id

\* Ids of the callers' and deletions exclude each other, which keeps the two
\* kinds of masked ids apart.
IdsInv ==
  /\ \E n \in Before : next <= n + calls /\ (Adding => next < n + calls)
  /\ ~ (by_user /\ deleted)
  /\ w.pc \in {"body", "info"} /\ w.len < 0 => ~ by_user
  /\ ~ by_user => Given
  /\ by_user /\ non_dec => Increasing
  /\ Adding => AddingInv

\* Remainders of numbers up to three times the divisor.
LEMMA Remainder ==
  ASSUME NEW x \in Nat, NEW m \in Nat \ {0}, x < 3 * m
  PROVE  x % m = IF x < m THEN x ELSE IF x < 2 * m THEN x - m ELSE x - 2 * m
  <1> DEFINE q == x \div m
             r == x % m
  <1>1. q \in Int /\ r \in 0 .. m - 1 /\ x = m * q + r
    BY DivMod
  <1> HIDE DEF q, r
  <1>2. ~ (q < 0)
    <2> SUFFICES ASSUME q < 0 PROVE FALSE
      OBVIOUS
    <2>1. m * q + m <= m * 0
      BY <1>1, MulLt
    <2> QED BY <1>1, <2>1
  <1>3. ~ (2 < q)
    <2> SUFFICES ASSUME 2 < q PROVE FALSE
      OBVIOUS
    <2>1. m * 2 + m <= m * q
      BY <1>1, MulLt
    <2> QED BY <1>1, <2>1
  <1>4. q \in {0, 1, 2}
    BY <1>1, <1>2, <1>3
  <1>5. r = IF x < m THEN x ELSE IF x < 2 * m THEN x - m ELSE x - 2 * m
    BY <1>1, <1>4
  <1> QED
    BY <1>5 DEF r

LEMMA IdType ==
  ASSUME DbType, NEW p \in Int
  PROVE  Id(p) \in 0 .. MaxId /\ Id(p) % IdMask \in 0 .. IdMask - 1
  <1>1. Id(p) \in 0 .. MaxId
    BY CurrentType DEF Id
  <1>2. Id(p) \in Int /\ IdMask \in Nat \ {0}
    BY <1>1, Constants
  <1> QED
    BY <1>1, <1>2, DivMod

\* The ids and what the order depends on are as before.
IdsKept == UNCHANGED header /\ \A p \in Int : Id(p)' = Id(p)

LEMMA IdsOrderKept ==
  ASSUME DbType, IdsKept
  PROVE  /\ UNCHANGED <<first, next, by_user, deleted, non_dec>>
         /\ Window' = Window
         /\ Given => Given'
         /\ Increasing => Increasing'
         /\ NextId' = NextId
  <1>1. UNCHANGED <<first, next, by_user, deleted, non_dec>>
    BY DEF IdsKept, header
  <1>2. Window' = Window /\ Window \subseteq Int
    BY <1>1, WindowType DEF Window, DbType
  <1>3. \A p \in Window : Id(p)' = Id(p)
    BY <1>2 DEF IdsKept
  <1>4. Given => Given'
    BY <1>1, <1>2, <1>3 DEF Given
  <1>5. Increasing => Increasing'
    BY <1>2, <1>3 DEF Increasing
  <1>6. NextId' = NextId
    <2>1. next \in Int /\ next - 1 \in Int
      BY WindowType DEF DbType
    <2>2. \A p \in Int : dir'[Slot(p)].id = dir[Slot(p)].id
      BY DEF IdsKept, Id, Slot
    <2>3. dir'[Slot(next - 1)].id = dir[Slot(next - 1)].id
      BY <2>1, <2>2
    <2> QED BY <1>1, <2>3 DEF NextId, Slot
  <1> QED
    BY <1>1, <1>2, <1>4, <1>5, <1>6

\* A call in progress, or none, that neither changes ids nor publishes.
LEMMA IdsCalm ==
  ASSUME DbType, IdsInv, IdsKept, calls' = calls,
         Storing' => /\ Storing /\ w'.id = w.id /\ w'.len = w.len /\ w'.kind = w.kind
                     /\ (w'.pc = "publish") <=> (w.pc = "publish")
  PROVE  IdsInv'
  <1>1. /\ UNCHANGED <<first, next, by_user, deleted, non_dec>>
        /\ (Given => Given') /\ (Increasing => Increasing') /\ NextId' = NextId
    BY IdsOrderKept
  <1>2. Adding' => Adding
    BY DEF Adding
  <1>3. w'.pc \in {"body", "info"} => w.pc \in {"body", "info"} /\ w'.len = w.len
    BY DEF Storing
  <1>4. ASSUME Adding' PROVE AddingInv'
    <2>1. /\ Adding /\ AddingInv /\ w'.id = w.id /\ w'.len = w.len /\ w'.kind = w.kind
          /\ (w'.pc = "publish") <=> (w.pc = "publish")
      BY <1>2, <1>4 DEF Adding, IdsInv
    <2>2. Id(next)' = Id(next) /\ Id(next - 1)' = Id(next - 1)
      <3>1. next \in Int /\ next - 1 \in Int
        BY WindowType DEF DbType
      <3>2. \A p \in Int : dir'[Slot(p)].id = dir[Slot(p)].id
        BY DEF IdsKept, Id, Slot
      <3>3. /\ dir'[Slot(next)].id = dir[Slot(next)].id
            /\ dir'[Slot(next - 1)].id = dir[Slot(next - 1)].id
        BY <3>1, <3>2
      <3> QED BY <1>1, <3>3 DEF Id, Slot
    <2>3. w.len >= 0 /\ (w.kind = "any" => w.id = NextId)
          /\ (w.kind = "byUser" => IF w.pc = "publish" THEN by_user ELSE ~ deleted)
          /\ (w.pc = "publish" => /\ Id(next) = w.id
                                  /\ by_user /\ non_dec /\ first < next => Id(next - 1) <= w.id)
      BY <2>1 DEF AddingInv
    <2>4. w'.len >= 0 /\ (w'.kind = "any" => w'.id = NextId')
      BY <1>1, <2>1, <2>3
    <2>5. w'.kind = "byUser" => IF w'.pc = "publish" THEN by_user' ELSE ~ deleted'
      BY <1>1, <2>1, <2>3
    <2>6. w'.pc = "publish" => Id(next)' = w'.id
      BY <2>1, <2>2, <2>3
    <2>7. w'.pc = "publish" => (by_user' /\ non_dec' /\ first' < next' => Id(next - 1)' <= w'.id)
      BY <1>1, <2>1, <2>2, <2>3
    <2> QED BY <2>4, <2>5, <2>6, <2>7 DEF AddingInv
  <1>5. \E n \in Before : next' <= n + calls' /\ (Adding' => next' < n + calls')
    BY <1>1, <1>2 DEF IdsInv
  <1>6. w'.pc \in {"body", "info"} /\ w'.len < 0 => ~ by_user'
    BY <1>1, <1>3 DEF IdsInv
  <1>7. ~ (by_user' /\ deleted') /\ (~ by_user' => Given') /\ (by_user' /\ non_dec' => Increasing')
    BY <1>1 DEF IdsInv
  <1> QED
    BY <1>4, <1>5, <1>6, <1>7 DEF IdsInv

\* The start of a call.
LEMMA IdsBegin ==
  ASSUME DbType, IdsInv, w.pc = "idle", UNCHANGED header, calls' = calls + 1,
         ~ by_user => Given', by_user /\ non_dec => Increasing',
         w'.pc = "idle" \/
           /\ w'.pc \in {"body", "info"} /\ (w'.len < 0 => ~ by_user)
           /\ w'.kind # "replace" => w'.len >= 0
           /\ w'.kind = "any" => w'.id = NextId'
           /\ w'.kind = "byUser" => ~ deleted
  PROVE  IdsInv'
  <1>1. UNCHANGED <<first, next, by_user, deleted, non_dec>>
    BY DEF header
  <1>2. PICK n \in Before : next <= n + calls
    BY DEF IdsInv
  <1>3. next' <= n + calls' /\ next' < n + calls'
    <2>1. next \in Nat /\ calls \in Nat /\ n \in Nat
      BY Constants, WindowType DEF DbType
    <2> QED BY <1>1, <1>2, <2>1
  <1>4. w'.pc \in {"body", "info"} /\ w'.len < 0 => ~ by_user'
    BY <1>1
  <1>5. ASSUME Adding' PROVE AddingInv'
    <2>1. w'.pc # "idle" /\ w'.kind # "replace" /\ w'.pc # "publish"
      BY <1>5 DEF Adding, Storing
    <2> QED BY <1>1, <2>1 DEF AddingInv
  <1> QED
    BY <1>1, <1>3, <1>4, <1>5 DEF IdsInv

\* What Allocate makes of the call.
LEMMA CallIds ==
  ASSUME NEW id, NEW len, NEW pt, NEW kind, Allocate(id, len, pt, kind)
  PROVE  w'.pc # "idle" => /\ w'.pc \in {"body", "info"} /\ w'.id = id /\ w'.len = len
                           /\ w'.kind = kind
  <1>1. ASSUME NEW loc, Call(id, len, pt, kind, loc)
        PROVE  /\ w'.pc \in {"body", "info"} /\ w'.id = id /\ w'.len = len /\ w'.kind = kind
    BY <1>1 DEF Call
  <1>2. w' = Idle => w'.pc = "idle"
    BY DEF Idle
  <1> QED
    BY <1>1, <1>2 DEF Allocate

LEMMA IdsReplace ==
  ASSUME DbInv, IdsInv, NEW id, NEW len \in -1 .. Area, Replace(id, len)
  PROVE  IdsInv'
  <1>1. w.pc = "idle" /\ calls' = calls + 1 /\ UNCHANGED header /\ UNCHANGED dir
        /\ (len < 0 => ~ by_user) /\ DbType
    BY DEF Replace, Begin, DbInv
  <1> DEFINE pt == Latest(Found(id))
  <1>2. Allocate(id, len, pt, "replace")
    BY DEF Replace
  <1> HIDE DEF pt
  <1>3. w'.pc # "idle" => w'.pc \in {"body", "info"} /\ w'.len = len /\ w'.kind = "replace"
    BY <1>2, CallIds
  <1>4. IdsKept
    BY <1>1 DEF IdsKept, Id, Slot
  <1>5. (Given => Given') /\ (Increasing => Increasing')
    BY <1>1, <1>4, IdsOrderKept
  <1> QED
    BY <1>1, <1>3, <1>5, IdsBegin DEF IdsInv

LEMMA IdsAdd ==
  ASSUME DbInv, IdsInv, NEW id, NEW len \in Lengths, Add(id, len)
  PROVE  IdsInv'
  <1>1. w.pc = "idle" /\ calls' = calls + 1 /\ UNCHANGED header /\ UNCHANGED dir
        /\ (id # 0 => ~ deleted) /\ DbType
    BY DEF Add, Begin, DbInv
  <1>2. IdsKept
    BY <1>1 DEF IdsKept, Id, Slot
  <1>3. (Given => Given') /\ (Increasing => Increasing') /\ NextId' = NextId
    BY <1>1, <1>2, IdsOrderKept
  <1>4. w'.pc = "idle" \/ /\ w'.pc \in {"body", "info"} /\ w'.len = len
                          /\ w'.kind = "any" => w'.id = NextId
                          /\ w'.kind = "byUser" => id # 0
    <2>1. CASE id = 0
      <3>1. Allocate(NextId, len, next, "any")
        BY <2>1 DEF Add
      <3> QED BY <3>1, CallIds
    <2>2. CASE id # 0
      <3>1. Allocate(id, len, next, "byUser")
        BY <2>2 DEF Add
      <3> QED BY <2>2, <3>1, CallIds
    <2> QED BY <2>1, <2>2
  <1>5. len >= 0 /\ ~ (len < 0)
    BY Constants
  <1> QED
    BY <1>1, <1>3, <1>4, <1>5, IdsBegin DEF IdsInv

\* A reused message keeps its masked id.
LEMMA IdsReuse ==
  ASSUME DbInv, IdsInv, NEW len \in Lengths, Reuse(len)
  PROVE  IdsInv'
  <1>1. w.pc = "idle" /\ calls' = calls + 1 /\ UNCHANGED header /\ deleted /\ DbType
    BY DEF Reuse, Begin, DbInv
  <1> DEFINE Up(p) == dir[Slot(p)].id + IdMask
             NewId(p) == IF Up(p) > MaxId THEN Up(p) % IdMask ELSE Up(p)
  <1>2. PICK pt \in Window : /\ dir' = [dir EXCEPT ![Slot(pt)].id = NewId(pt)]
                             /\ Allocate(NewId(pt), len, pt, "replace")
    BY DEF Reuse
  <1>3. NewId(pt) % IdMask = Id(pt) % IdMask
    <2>1. Up(pt) = Id(pt) + IdMask
      BY DEF Id
    <2>2. Id(pt) \in 0 .. MaxId /\ IdMask \in Nat \ {0} /\ MaxId = 2 * IdMask - 1
      <3>1. pt \in Int
        BY <1>1, WindowType DEF DbType
      <3> QED BY <1>1, <3>1, IdType, Constants
    <2> DEFINE a == Id(pt)
               m == IdMask
    <2>3. a \in Nat /\ m \in Nat \ {0} /\ a < 2 * m /\ a + m \in Nat /\ a + m < 3 * m
      BY <2>2
    <2> HIDE DEF a, m
    <2>4. /\ a % m = IF a < m THEN a ELSE a - m
          /\ (a + m) % m = IF a < m THEN a ELSE a - m
      <3>1. a < 3 * m
        BY <2>3
      <3>2. a % m = IF a < m THEN a ELSE IF a < 2 * m THEN a - m ELSE a - 2 * m
        BY <2>3, <3>1, Remainder
      <3> DEFINE b == a + m
      <3>3. b \in Nat /\ b < 3 * m
        BY <2>3
      <3> HIDE DEF b
      <3>4. b % m = IF b < m THEN b ELSE IF b < 2 * m THEN b - m ELSE b - 2 * m
        BY <2>3, <3>3, Remainder
      <3> QED BY <2>3, <3>2, <3>4 DEF b
    <2>5. NewId(pt) = IF a < m THEN a + m ELSE (a + m) % m
      BY <2>1, <2>2, <2>3 DEF a, m
    <2>6. CASE a < m
      BY <2>4, <2>5, <2>6 DEF a, m
    <2>7. CASE ~ (a < m)
      <3>1. (a + m) % m = a - m /\ a - m \in Nat /\ a - m < m
        BY <2>3, <2>4, <2>7
      <3> DEFINE b == a - m
      <3>3. b \in Nat /\ b < m /\ b < 3 * m
        BY <2>3, <3>1
      <3> HIDE DEF b
      <3>4. b % m = b
        BY <2>3, <3>3, Remainder
      <3>2. (a - m) % m = a - m
        BY <3>4 DEF b
      <3> QED BY <2>4, <2>5, <2>7, <3>1, <3>2 DEF a, m
    <2> QED BY <2>6, <2>7
  <1>4. w'.pc # "idle" => w'.pc \in {"body", "info"} /\ w'.len = len /\ w'.kind = "replace"
    BY <1>2, CallIds
  <1> HIDE DEF NewId
  <1>5. \A p \in Window : Id(p)' % IdMask = Id(p) % IdMask
    <2>1. ASSUME NEW p \in Window PROVE Id(p)' % IdMask = Id(p) % IdMask
      <3>1. p \in Int /\ Slot(p) \in 0 .. NSlots - 1 /\ Slot(pt) \in 0 .. NSlots - 1
        BY <1>1, WindowType, SlotType DEF DbType
      <3>2. CASE p = pt
        <4>1. Id(p)' = NewId(pt)
          BY <1>1, <1>2, <3>1, <3>2 DEF Id, Slot, DbType
        <4> QED BY <1>3, <3>2, <4>1
      <3>3. CASE p # pt
        <4>1. Slot(p) # Slot(pt)
          BY <1>1, <3>3, WindowType DEF DbType
        <4>2. Id(p)' = Id(p)
          BY <1>1, <1>2, <3>1, <4>1 DEF Id, Slot, DbType
        <4> QED BY <4>2
      <3> QED BY <3>2, <3>3
    <2> QED BY <2>1
  <1>6. UNCHANGED <<first, next, by_user, deleted, non_dec>> /\ Window' = Window
    BY <1>1 DEF header, Window
  <1>7. ~ by_user /\ Given'
    <2>1. ~ by_user /\ Given
      BY <1>1 DEF IdsInv
    <2> QED BY <1>1, <1>5, <1>6, <2>1 DEF Given
  <1>8. ~ (len < 0)
    BY Constants
  <1> QED
    BY <1>1, <1>4, <1>7, <1>8, IdsBegin

\* The other steps of a call but two, and the readers.
LEMMA IdsSteps ==
  ASSUME DbInv, IdsInv,
         StoreUnit \/ TableOk \/ Free \/ Freed \/ Stop \/ UNCHANGED dbVars
  PROVE  IdsInv'
  <1>1. IdsKept
    <2>1. UNCHANGED header /\ UNCHANGED dir
      BY DEF StoreUnit, TableOk, Free, Freed, Stop, dbVars
    <2> QED BY <2>1 DEF IdsKept, Id, Slot
  <1>2. calls' = calls
    BY DEF StoreUnit, TableOk, Free, Freed, Stop, dbVars, bounds
  <1>3. w.pc # "idle" => w \in CallType
    BY DEF DbInv
  <1>4. Storing' => /\ Storing /\ w'.id = w.id /\ w'.len = w.len /\ w'.kind = w.kind
                    /\ (w'.pc = "publish") <=> (w.pc = "publish")
    <2>1. CASE StoreUnit
      <3> DEFINE pc == IF w.k + 1 = w.len THEN "info" ELSE w.pc
      <3>1. w.pc = "body" /\ w \in CallType
        BY <1>3, <2>1 DEF StoreUnit
      <3>2. w' = [w EXCEPT !.k = w.k + 1, !.pc = pc]
        BY <2>1 DEF StoreUnit
      <3>3. pc \in {"body", "info"}
        BY <3>1
      <3> HIDE DEF pc
      <3>4. /\ w'.pc = pc /\ w'.id = w.id /\ w'.len = w.len /\ w'.kind = w.kind
        BY <3>1, <3>2 DEF CallType
      <3> QED BY <3>1, <3>3, <3>4 DEF Storing
    <2>2. CASE TableOk \/ Free \/ Freed \/ Stop
      <3>1. w' = Idle \/ (w.pc # "idle" /\ w' \in {[w EXCEPT !.pc = "free"], [w EXCEPT !.pc = "freed"]})
        BY <2>2 DEF TableOk, Free, Freed, Stop, Goto
      <3>2. ~ Storing'
        <4>1. w' = Idle => w'.pc = "idle"
          BY DEF Idle
        <4>2. w.pc # "idle" => /\ [w EXCEPT !.pc = "free"].pc = "free"
                               /\ [w EXCEPT !.pc = "freed"].pc = "freed"
          BY <1>3 DEF CallType
        <4> QED BY <3>1, <4>1, <4>2 DEF Storing
      <3> QED BY <3>2
    <2>3. CASE UNCHANGED dbVars
      BY <2>3 DEF dbVars, Storing
    <2> QED BY <2>1, <2>2, <2>3
  <1> QED
    BY <1>1, <1>2, <1>4, IdsCalm DEF DbInv

\* The slot of a message that is added, with its id.
LEMMA IdsStoreInfo ==
  ASSUME DbInv, IdsInv, StoreInfo
  PROVE  IdsInv'
  <1>1. /\ w.pc = "info" /\ w \in CallType /\ DbType /\ Storing /\ StoringInv
        /\ w.kind \in {"replace", "any", "byUser"}
    BY CallFields DEF StoreInfo, DbInv, Storing
  <1>2. /\ UNCHANGED <<first, next, calls>>
        /\ non_dec' = (non_dec /\ ~(/\ w.kind # "replace" /\ first < w.pt
                                    /\ w.id < dir[Slot(w.pt - 1)].id))
        /\ deleted' = (deleted \/ w.len < 0) /\ by_user' = (by_user \/ w.kind = "byUser")
    BY DEF StoreInfo, bounds
  <1>3. w' = [w EXCEPT !.pc = "publish"]
    BY DEF StoreInfo, Goto
  <1>4. /\ w' \in CallType /\ w'.pc = "publish" /\ Storing'
        /\ w'.id = w.id /\ w'.len = w.len /\ w'.pt = w.pt /\ w'.kind = w.kind
    BY <1>1, <1>3, CallStep DEF Storing
  <1>5. Adding' <=> Adding
    BY <1>1, <1>4 DEF Adding
  <1>6. /\ first \in Nat /\ next \in Nat /\ first <= next /\ Window' = Window
        /\ Window \subseteq Int /\ next - 1 \in Int
        /\ first < next => next - 1 \in Window
        /\ {by_user, deleted, non_dec} \subseteq BOOLEAN
    BY <1>1, <1>2, WindowType DEF DbType, Window
  <1>7. \A p \in Window : Id(p)' = Id(p)
    <2>1. ASSUME NEW p \in Window PROVE Id(p)' = Id(p)
      <3>1. Slot(p) \in 0 .. NSlots - 1 /\ Slot(w.pt) \in 0 .. NSlots - 1
            /\ dir \in [0 .. NSlots - 1 -> SlotInfos]
        <4>1. p \in Int /\ w.pt \in Int
          BY <1>1, <1>6, CallFields
        <4>2. Slot(p) \in 0 .. NSlots - 1 /\ Slot(w.pt) \in 0 .. NSlots - 1
          BY <4>1, SlotType
        <4> QED BY <1>1, <4>2 DEF DbType, SlotInfos
      <3>2. CASE w.kind = "replace"
        <4>1. PICK x : dir' = [dir EXCEPT ![Slot(w.pt)] = [@ EXCEPT !.info = x]]
          BY <3>1, <3>2 DEF StoreInfo, SlotInfos
        <4>2. dir'[Slot(p)].id = dir[Slot(p)].id
          BY <3>1, <4>1 DEF SlotInfos
        <4> QED BY <4>2 DEF Id, Slot
      <3>3. CASE w.kind # "replace"
        <4>1. Slot(p) # Slot(w.pt)
          BY <1>1, <3>3, WindowType DEF DbType, StoringInv
        <4>2. dir'[Slot(p)] = dir[Slot(p)]
          BY <3>1, <3>3, <4>1 DEF StoreInfo
        <4> QED BY <4>2 DEF Id, Slot
      <3> QED BY <3>2, <3>3
    <2> QED BY <2>1
  <1>8. ~ (by_user' /\ deleted')
    <2>1. ASSUME w.kind = "byUser" PROVE ~ deleted'
      <3>1. Adding /\ AddingInv
        BY <1>1, <2>1 DEF Adding, IdsInv
      <3>2. ~ deleted /\ w.len >= 0 /\ w.len \in Int
        BY <1>1, <2>1, <3>1, CallFields DEF AddingInv
      <3>3. ~ (w.len < 0)
        BY <3>2
      <3> QED BY <1>2, <3>2, <3>3
    <2>2. w.len < 0 => ~ by_user
      BY <1>1 DEF IdsInv
    <2>3. ~ (by_user /\ deleted)
      BY DEF IdsInv
    <2> QED BY <1>2, <2>1, <2>2, <2>3
  <1>9. ~ by_user' => Given'
    <2>1. ASSUME ~ by_user' PROVE Given'
      <3>1. Given /\ (~ deleted' => ~ deleted)
        BY <1>2, <2>1 DEF IdsInv
      <3> QED BY <1>6, <1>7, <3>1 DEF Given
    <2> QED BY <2>1
  <1>10. by_user' /\ non_dec' => Increasing'
    <2> SUFFICES ASSUME by_user', non_dec' PROVE Increasing'
      OBVIOUS
    <2>1. Increasing
      <3>1. CASE by_user
        BY <1>2, <1>6, <3>1 DEF IdsInv
      <3>2. CASE ~ by_user
        <4>1. w.kind = "byUser" /\ ~ deleted /\ Given
          <5>1. w.kind = "byUser"
            BY <1>2, <3>2
          <5>2. Adding /\ AddingInv
            BY <1>1, <5>1 DEF Adding, IdsInv
          <5> QED BY <1>1, <3>2, <5>1, <5>2 DEF AddingInv, IdsInv
        <4>2. ASSUME NEW p \in Window PROVE Id(p) \in Nat /\ Id(p) % IdMask = Id(p)
          <5>1. Id(p) \in Nat /\ Id(p) < IdMask
            BY <1>1, <1>6, <4>1, IdType, Constants DEF Given
          <5> DEFINE a == Id(p)
          <5>2. a \in Nat /\ a < IdMask /\ a < 3 * IdMask /\ IdMask \in Nat \ {0}
            BY <5>1, Constants
          <5> HIDE DEF a
          <5>3. a % IdMask = a
            BY <5>2, Remainder
          <5> QED BY <5>1, <5>3 DEF a
        <4>3. ASSUME NEW p \in Window, NEW q \in Window, p < q PROVE Id(p) <= Id(q)
          <5>1. Id(p) % IdMask < Id(q) % IdMask
            BY <4>1, <4>3 DEF Given
          <5> QED BY <4>2, <5>1
        <4> QED BY <4>3 DEF Increasing
      <3> QED BY <3>1, <3>2
    <2> QED BY <1>6, <1>7, <2>1 DEF Increasing
  <1>11. ASSUME Adding' PROVE AddingInv'
    <2>1. Adding /\ AddingInv /\ w.kind # "replace" /\ w.pt = next
      BY <1>1, <1>5, <1>11 DEF Adding, IdsInv, StoringInv
    <2>2. w'.len >= 0
      BY <1>4, <2>1 DEF AddingInv
    <2>3. w'.kind = "any" => w'.id = NextId'
      <3>1. NextId' = NextId
        <4>1. CASE next = first
          BY <1>2, <4>1 DEF NextId
        <4>2. CASE next # first
          <5>1. next - 1 \in Window
            BY <1>6, <4>2
          <5> DEFINE p == next - 1
          <5>2. p \in Window /\ p' = p
            BY <1>2, <5>1
          <5> HIDE DEF p
          <5>3. dir'[Slot(p)].id = dir[Slot(p)].id
            BY <1>7, <5>2 DEF Id, Slot
          <5> QED BY <1>2, <4>2, <5>3 DEF NextId, Slot, p
        <4> QED BY <4>1, <4>2
      <3> QED BY <1>1, <1>4, <2>1, <3>1 DEF AddingInv
    <2>4. w'.kind = "byUser" => IF w'.pc = "publish" THEN by_user' ELSE ~ deleted'
      BY <1>2, <1>4
    <2>5. Id(next)' = w'.id
      <3> DEFINE s == Slot(next)
                 info == Info(w.len, w.loc, w.val)
                 f1 == [dir EXCEPT ![s].id = w.id]
                 f2 == [f1 EXCEPT ![s].ucnt = 0]
      <3>1. s \in 0 .. NSlots - 1 /\ dir \in [0 .. NSlots - 1 -> SlotInfos] /\ w.id \in 0 .. MaxId
        <4>1. next \in Int
          BY <1>6
        <4> QED BY <1>1, <4>1, SlotType, CallFields DEF DbType, SlotInfos
      <3>2. dir'[s].id = w.id
        <4>1. dir' = [f2 EXCEPT ![s].info[0] = info]
          BY <2>1 DEF StoreInfo
        <4> HIDE DEF s, info
        <4>2. f1 \in [0 .. NSlots - 1 -> SlotInfos] /\ f1[s].id = w.id
          <5>1. [dir[s] EXCEPT !.id = w.id] \in SlotInfos /\ [dir[s] EXCEPT !.id = w.id].id = w.id
            BY <3>1 DEF SlotInfos
          <5> QED BY <3>1, <5>1
        <4>3. f2 \in [0 .. NSlots - 1 -> SlotInfos] /\ f2[s].id = w.id
          <5> HIDE DEF f1
          <5>1. [f1[s] EXCEPT !.ucnt = 0] \in SlotInfos /\ [f1[s] EXCEPT !.ucnt = 0].id = w.id
            BY <3>1, <4>2 DEF SlotInfos
          <5> QED BY <3>1, <4>2, <5>1
        <4> HIDE DEF f2
        <4>4. dir'[s] = [f2[s] EXCEPT !.info = [f2[s].info EXCEPT ![0] = info]]
          BY <3>1, <4>1, <4>3
        <4> QED BY <3>1, <4>3, <4>4 DEF SlotInfos
      <3> QED BY <1>2, <1>4, <3>2 DEF Id, Slot
    <2>6. ASSUME by_user', non_dec', first' < next' PROVE Id(next - 1)' <= w'.id
      <3>1. next - 1 \in Window
        BY <1>2, <1>6, <2>6
      <3>2. ~ (w.id < Id(next - 1))
        BY <1>2, <2>1, <2>6 DEF Id
      <3>3. Id(next - 1) \in Int /\ w.id \in Int
        BY <1>1, <1>6, IdType, CallFields, Constants
      <3> DEFINE p == next - 1
      <3>4. Id(p)' = Id(p)
        <4>1. p \in Window /\ p' = p
          BY <1>2, <3>1
        <4> HIDE DEF p
        <4>2. dir'[Slot(p)].id = dir[Slot(p)].id
          BY <1>7, <4>1 DEF Id, Slot
        <4> QED BY <4>1, <4>2 DEF Id, Slot
      <3>5. Id(p) <= w'.id
        BY <1>4, <3>2, <3>3
      <3> HIDE DEF p
      <3>6. Id(p)' <= w'.id
        BY <3>4, <3>5
      <3> QED BY <1>2, <3>6 DEF p
    <2> QED BY <1>4, <2>2, <2>3, <2>4, <2>5, <2>6 DEF AddingInv
  <1>12. \E n \in Before : next' <= n + calls' /\ (Adding' => next' < n + calls')
    BY <1>2, <1>5 DEF IdsInv
  <1> QED
    BY <1>4, <1>8, <1>9, <1>10, <1>11, <1>12 DEF IdsInv

\* As few messages are ever added as there are masked ids.
InMask == \A n \in Before : n + MaxCalls < IdMask

\* The id that LB_ANY gives grows by one, the mask off.
LEMMA NextMasked ==
  ASSUME NEW a \in 0 .. MaxId, (a % IdMask) + 1 < IdMask
  PROVE  LET b == (a + 1) % (MaxId + 1)
         IN  b % IdMask = (a % IdMask) + 1 /\ (a < IdMask => b < IdMask)
  <1> DEFINE m == IdMask
  <1>1. m \in Nat \ {0} /\ MaxId + 1 = 2 * m /\ a \in Nat /\ a < 2 * m /\ (a % m) + 1 < m
    BY Constants
  <1> HIDE DEF m
  <1>2. a % m = IF a < m THEN a ELSE a - m
    <2>1. a < 3 * m
      BY <1>1
    <2> QED BY <1>1, <2>1, Remainder
  <1> DEFINE c == a + 1
             d == 2 * m
  <1>3. c \in Nat /\ c < d /\ d \in Nat \ {0} /\ c < 3 * m /\ c < 3 * d
    BY <1>1, <1>2
  <1> HIDE DEF c, d
  <1>4. c % d = c
    BY <1>3, Remainder
  <1>5. c % m = IF c < m THEN c ELSE IF c < 2 * m THEN c - m ELSE c - 2 * m
    BY <1>1, <1>3, Remainder
  <1>6. c % m = (a % m) + 1 /\ (a < m => c < m)
    BY <1>1, <1>2, <1>5 DEF c
  <1>7. (a + 1) % (MaxId + 1) = c
    BY <1>1, <1>4 DEF c, d
  <1> QED
    BY <1>6, <1>7 DEF m

LEMMA IdsPublish ==
  ASSUME InMask, DbInv, IdsInv, Publish
  PROVE  IdsInv'
  <1>1. /\ w.pc = "publish" /\ w \in CallType /\ DbType /\ Storing /\ StoringInv
        /\ w.kind \in {"replace", "any", "byUser"}
    BY CallFields DEF Publish, DbInv, Storing
  <1>2. UNCHANGED <<first, by_user, deleted, non_dec, calls>>
    BY DEF Publish, bounds
  <1>3. w'.pc = "table" /\ ~ Storing' /\ ~ Adding'
    <2>1. w' = [w EXCEPT !.pc = "table"]
      BY DEF Publish, Goto
    <2>2. w'.pc = "table"
      BY <1>1, <2>1, CallStep
    <2> QED BY <2>2 DEF Storing, Adding
  <1>4. /\ first \in Nat /\ next \in Nat /\ first <= next /\ Window \subseteq Nat
        /\ \A p \in Window : p < next /\ first <= p
        /\ first < next => next - 1 \in Window
        /\ {by_user, deleted, non_dec} \subseteq BOOLEAN
    BY <1>1, WindowType DEF DbType, Window
  <1>5. CASE w.kind = "replace"
    <2>1. next' = next /\ dir' = [dir EXCEPT ![Slot(w.pt)].ucnt = @ + 1]
      BY <1>5 DEF Publish
    <2>2. \A p \in Int : Id(p)' = Id(p)
      <3>1. ASSUME NEW p \in Int PROVE dir'[Slot(p)].id = dir[Slot(p)].id
        <4>1. Slot(p) \in 0 .. NSlots - 1 /\ dir \in [0 .. NSlots - 1 -> SlotInfos]
          BY <1>1, SlotType DEF DbType, SlotInfos
        <4> QED BY <2>1, <4>1 DEF SlotInfos
      <3> QED BY <3>1 DEF Id, Slot
    <2>3. IdsKept
      BY <1>2, <2>1, <2>2 DEF IdsKept, header
    <2>4. (Given => Given') /\ (Increasing => Increasing')
      BY <1>1, <2>3, IdsOrderKept
    <2>5. \E n \in Before : next' <= n + calls' /\ (Adding' => next' < n + calls')
      BY <1>2, <1>3, <2>1 DEF IdsInv
    <2> QED
      BY <1>2, <1>3, <2>4, <2>5 DEF IdsInv
  <1>6. CASE w.kind # "replace"
    <2>1. next' = next + 1 /\ dir' = dir /\ w.pt = next
      BY <1>1, <1>6 DEF Publish, StoringInv
    <2>2. \A p \in Int : Id(p)' = Id(p)
      BY <2>1 DEF Id, Slot
    <2>3. Window' = Window \cup {next}
      BY <1>2, <1>4, <2>1 DEF Window
    <2>4. Adding /\ AddingInv /\ Id(next) = w.id
      BY <1>1, <1>6 DEF Adding, IdsInv, AddingInv
    <2>5. PICK n \in Before : next < n + calls
      BY <2>4 DEF IdsInv
    <2>6. next + 1 <= n + calls /\ next + 1 < IdMask
      <3>1. n \in Nat /\ calls \in Nat /\ calls <= MaxCalls /\ MaxCalls \in Nat /\ IdMask \in Nat
        BY <1>1, Constants DEF DbType
      <3>2. n + MaxCalls < IdMask
        BY DEF InMask
      <3> QED BY <1>4, <2>5, <3>1, <3>2
    <2>7. ~ by_user' => Given'
      <3> SUFFICES ASSUME ~ by_user PROVE Given'
        BY <1>2
      <3>1. Given /\ w.kind = "any" /\ Id(next) = NextId
        BY <1>1, <1>6, <2>4 DEF AddingInv, IdsInv
      <3>2. /\ Id(next) % IdMask <= next + 1
            /\ ~ deleted => Id(next) < IdMask
            /\ \A q \in Window : Id(q) % IdMask < Id(next) % IdMask
        <4>1. CASE next = first
          <5>1. Window = {}
            BY <1>4, <4>1
          <5>2. Id(next) = 1
            BY <3>1, <4>1 DEF NextId
          <5>3. 1 < IdMask /\ IdMask \in Nat
            BY <1>4, <2>6, Constants
          <5>4. 1 % IdMask = 1
            BY <5>3, Remainder
          <5> QED BY <1>4, <5>1, <5>2, <5>3, <5>4
        <4>2. CASE next # first
          <5>1. next - 1 \in Window
            BY <1>4, <4>2
          <5> DEFINE p == next - 1
                     a == Id(p)
          <5>2. a \in 0 .. MaxId /\ a % IdMask \in 0 .. IdMask - 1
            BY <1>1, <1>4, <5>1, IdType
          <5>3. a % IdMask <= p + 1 /\ (~ deleted => a < IdMask)
            BY <3>1, <5>1 DEF Given
          <5>4. (a % IdMask) + 1 < IdMask
            BY <1>4, <2>6, <5>2, <5>3, Constants
          <5>5. Id(next) = (a + 1) % (MaxId + 1)
            BY <3>1, <4>2 DEF NextId, Id
          <5> HIDE DEF a
          <5>6. Id(next) % IdMask = (a % IdMask) + 1 /\ (a < IdMask => Id(next) < IdMask)
            BY <5>2, <5>4, <5>5, NextMasked
          <5>7. ASSUME NEW q \in Window PROVE Id(q) % IdMask < Id(next) % IdMask
            <6>1. Id(q) % IdMask \in Int
              BY <1>1, <1>4, IdType, Constants
            <6>2. q = p \/ q < p
              BY <1>4
            <6>3. q < p => Id(q) % IdMask < a % IdMask
              <7> HIDE DEF p
              <7> QED BY <3>1, <5>1 DEF Given, a, p
            <6>4. q = p => Id(q) % IdMask = a % IdMask
              BY DEF a
            <6> HIDE DEF p
            <6> QED BY <5>2, <5>6, <6>1, <6>2, <6>3, <6>4
          <5> QED BY <1>4, <5>2, <5>3, <5>6, <5>7
        <4> QED BY <4>1, <4>2
      <3>3. Window \cup {next} \subseteq Int /\ ~ (next < next) /\ \A q \in Window : ~ (next < q)
        BY <1>4
      <3> QED
        BY <1>2, <2>2, <2>3, <3>1, <3>2, <3>3 DEF Given
    <2>8. by_user' /\ non_dec' => Increasing'
      <3> SUFFICES ASSUME by_user, non_dec PROVE Increasing'
        BY <1>2
      <3>1. Increasing
        BY DEF IdsInv
      <3>2. ASSUME NEW q \in Window PROVE Id(q) <= Id(next)
        <4>1. next - 1 \in Window
          BY <1>4, <3>2
        <4> DEFINE p == next - 1
        <4>2. Id(p) <= Id(next)
          BY <1>1, <1>4, <2>4, <3>2 DEF AddingInv
        <4>3. q = p \/ q < p
          BY <1>4
        <4>4. Id(q) \in Int /\ Id(p) \in Int /\ Id(next) \in Int
          BY <1>1, <1>4, <4>1, IdType, Constants
        <4> HIDE DEF p
        <4>5. q < p => Id(q) <= Id(p)
          BY <3>1, <4>1 DEF Increasing, p
        <4> QED BY <4>2, <4>3, <4>4, <4>5
      <3>3. Window \cup {next} \subseteq Int /\ ~ (next < next) /\ \A q \in Window : ~ (next < q)
        BY <1>4
      <3> QED
        BY <2>2, <2>3, <3>1, <3>2, <3>3 DEF Increasing
    <2>9. \E k \in Before : next' <= k + calls' /\ (Adding' => next' < k + calls')
      BY <1>2, <1>3, <2>1, <2>6
    <2> QED
      BY <1>2, <1>3, <2>7, <2>8, <2>9 DEF IdsInv
  <1> QED
    BY <1>5, <1>6

LEMMA IdsClear ==
  ASSUME DbInv, IdsInv, NEW k \in 1 .. MaxMsgs, Clear(k)
  PROVE  IdsInv'
  <1>1. /\ UNCHANGED <<next, by_user, deleted, dir, w, calls>>
        /\ first' = first + k /\ w.pc = "idle" /\ DbType
        /\ non_dec' = (non_dec \/ k + 1 >= next - first)
    BY DEF Clear, DbInv
  <1>2. first \in Nat /\ next \in Nat /\ k \in Nat /\ Window \subseteq Nat
    BY <1>1, WindowType DEF DbType
  <1>3. Window' \subseteq Window
    BY <1>1, <1>2 DEF Window
  <1>4. \A p \in Int : Id(p)' = Id(p)
    BY <1>1 DEF Id, Slot
  <1>5. ~ by_user' => Given'
    BY <1>1, <1>2, <1>3, <1>4 DEF IdsInv, Given
  <1>6. by_user' /\ non_dec' => Increasing'
    <2>1. CASE by_user /\ non_dec
      BY <1>2, <1>3, <1>4, <2>1 DEF IdsInv, Increasing
    <2>2. CASE k + 1 >= next - first
      <3>1. \A p, q \in Window' : ~ (p < q)
        BY <1>1, <1>2, <2>2 DEF Window
      <3> QED BY <3>1 DEF Increasing
    <2> QED BY <1>1, <2>1, <2>2
  <1>7. ~ Adding' /\ ~ Adding
    BY <1>1 DEF Adding, Storing
  <1>8. w'.pc = "idle"
    BY <1>1
  <1> QED
    BY <1>1, <1>5, <1>6, <1>7, <1>8 DEF IdsInv

LEMMA IdsInit ==
  ASSUME InMask, Init
  PROVE  IdsInv
  <1>1. /\ first = 0 /\ next \in Before /\ w = Idle /\ calls = 0
        /\ by_user = FALSE /\ deleted = FALSE
        /\ \A s \in 0 .. NSlots - 1 : dir[s].id = IF s < next THEN s + 1 ELSE 0
    BY DEF Init
  <1>2. next \in Nat /\ next <= MaxMsgs /\ next < IdMask
    <2>1. next + MaxCalls < IdMask
      BY <1>1 DEF InMask
    <2> QED BY <1>1, <2>1, Constants
  <1>3. ASSUME NEW p \in Window PROVE Id(p) = p + 1 /\ Id(p) % IdMask = p + 1 /\ p + 1 < IdMask
    <2>1. p \in Nat /\ p < next
      BY <1>1, <1>2, <1>3 DEF Window
    <2>2. p \in 0 .. NSlots - 1 /\ p < NSlots /\ NSlots \in Nat \ {0}
      BY <1>2, <2>1, Constants
    <2>3. Slot(p) = p
      <3>1. p < 3 * NSlots
        BY <2>1, <2>2
      <3> QED BY <2>1, <2>2, <3>1, Remainder DEF Slot
    <2>4. Id(p) = p + 1 /\ p + 1 < IdMask
      <3>1. Id(p) = p + 1
        BY <1>1, <2>1, <2>2, <2>3 DEF Id
      <3>2. p + 1 < IdMask
        BY <1>2, <2>1, Constants
      <3> QED BY <3>1, <3>2
    <2> DEFINE a == p + 1
    <2>5. a \in Nat /\ a < IdMask /\ IdMask \in Nat \ {0} /\ a < 3 * IdMask
      BY <2>1, <2>4, Constants
    <2> HIDE DEF a
    <2>6. a % IdMask = a
      BY <2>5, Remainder
    <2> QED BY <2>4, <2>6 DEF a
  <1>4. Given
    <2>1. Window \subseteq Nat
      BY <1>1, <1>2 DEF Window
    <2> QED BY <1>3, <2>1 DEF Given
  <1>5. w.pc = "idle" /\ ~ Adding
    BY <1>1 DEF Idle, Adding, Storing
  <1>6. \E n \in Before : next <= n + calls
    BY <1>1, <1>2
  <1> QED
    BY <1>1, <1>4, <1>5, <1>6 DEF IdsInv

LEMMA IdsStep ==
  ASSUME InMask, DbInv, IdsInv, [Next]_vars
  PROVE  IdsInv'
  <1>1. ASSUME NEW len \in Lengths, NEW id \in 1 .. MaxId, Replace(id, len) PROVE IdsInv'
    BY <1>1, IdsReplace, Constants
  <1>2. ASSUME NEW len \in Lengths, NEW id \in UserIds \cup {0}, Add(id, len) PROVE IdsInv'
    BY <1>2, IdsAdd
  <1>3. ASSUME NEW len \in Lengths, Reuse(len) PROVE IdsInv'
    BY <1>3, IdsReuse
  <1>4. ASSUME NEW id \in 1 .. MaxId, Replace(id, -1) PROVE IdsInv'
    BY <1>4, IdsReplace, Constants
  <1>5. ASSUME NEW k \in 1 .. MaxMsgs, Clear(k) PROVE IdsInv'
    BY <1>5, IdsClear
  <1>6. ASSUME NEW r \in Readers, Read(r) PROVE IdsInv'
    BY <1>6, ReaderKeepsDb, IdsSteps
  <1>7. CASE UNCHANGED vars
    BY <1>7, IdsSteps DEF vars, dbVars
  <1>8. CASE Write
    BY <1>1, <1>2, <1>3, <1>4, <1>8, IdsSteps, IdsStoreInfo, IdsPublish DEF Write
  <1> QED
    BY <1>5, <1>6, <1>7, <1>8 DEF Next

--------------------------------------------------------------------------------
(* What the search finds *)

\* In such a database the masked ids of the messages do not decrease, and
\* different messages with one masked id have one id.
LEMMA MaskedOrder ==
  ASSUME DbType, IdsInv, non_dec
  PROVE  \A p, q \in Window :
           p < q => /\ Masked(Id(p)) \in Int /\ Masked(Id(q)) \in Int
                    /\ Masked(Id(p)) <= Masked(Id(q))
                    /\ Masked(Id(p)) = Masked(Id(q)) => Id(p) = Id(q)
  <1> SUFFICES ASSUME NEW p \in Window, NEW q \in Window, p < q
               PROVE  /\ Masked(Id(p)) \in Int /\ Masked(Id(q)) \in Int
                      /\ Masked(Id(p)) <= Masked(Id(q))
                      /\ Masked(Id(p)) = Masked(Id(q)) => Id(p) = Id(q)
    OBVIOUS
  <1>1. /\ Id(p) \in Int /\ Id(p) % IdMask \in Int
        /\ Id(q) \in Int /\ Id(q) % IdMask \in Int
    <2>1. p \in Int /\ q \in Int
      BY WindowType DEF DbType
    <2> QED BY <2>1, IdType, Constants
  <1>2. CASE by_user
    BY <1>1, <1>2 DEF IdsInv, Increasing, Masked
  <1>3. CASE ~ by_user
    <2>1. Id(p) % IdMask < Id(q) % IdMask
      BY <1>3 DEF IdsInv, Given
    <2> QED BY <1>1, <1>3, <2>1 DEF Masked
  <1> QED
    BY <1>2, <1>3

\* The latest of a set of messages is its only one with none after it.
LEMMA LatestIs ==
  ASSUME DbType, NEW S \in SUBSET Window, NEW x \in S, \A o \in S : o <= x
  PROVE  Latest(S) = x
  <1>1. S \subseteq Nat
    BY WindowType DEF DbType
  <1>2. \A y \in S : (\A o \in S : o <= y) => y = x
    BY <1>1
  <1> QED
    BY <1>2 DEF Latest

\* The latest message with an id is among those the search compares.
LEMMA LatestCompared ==
  ASSUME DbType, IdsInv, NEW x \in Window,
         \A o \in Window : Id(o) = Id(x) => o <= x
  PROVE  x \in Candidates(Id(x)) /\ Candidates(Id(x)) \subseteq Window
  <1>1. /\ first \in Nat /\ next \in Nat /\ x \in Nat /\ first <= x /\ x < next
        /\ Window = first .. next - 1
    BY WindowType DEF DbType, Window
  <1>2. CASE ~ (next - first >= BinaryMin /\ non_dec)
    BY <1>2 DEF Candidates
  <1>3. CASE next - first >= BinaryMin /\ non_dec
    <2> DEFINE id == Id(x)
               e == Bisect(id, first, next - 1)
    <2>1. next - 1 \in Nat /\ first < next - 1
      BY <1>1, <1>3, Constants
    <2>2. Candidates(id) = {e - 1, e}
      BY <1>3 DEF Candidates
    <2>3. Ends(id, <<first, next - 1>>, e)
      BY <1>1, <2>1, BisectEnds
    <2> HIDE DEF id, e
    <2>4. /\ e \in first + 1 .. next - 1
          /\ e = next - 1 \/ ~ (Masked(id) >= Masked(Id(e)))
          /\ e - 1 = first \/ Masked(id) >= Masked(Id(e - 1))
      BY <2>3 DEF Ends
    <2>5. e \in Window /\ e - 1 \in Window /\ e \in Int
      BY <1>1, <2>4
    <2>6. ~ (e < x)
      <3> SUFFICES ASSUME e < x PROVE FALSE
        OBVIOUS
      <3>1. e # next - 1
        BY <1>1, <2>5
      <3>2. /\ Masked(Id(e)) \in Int /\ Masked(Id(x)) \in Int
            /\ Masked(Id(e)) <= Masked(Id(x))
        BY <1>3, <2>5, MaskedOrder
      <3> QED BY <2>4, <3>1, <3>2 DEF id
    <2>7. ~ (x < e - 1)
      <3> SUFFICES ASSUME x < e - 1 PROVE FALSE
        OBVIOUS
      <3> DEFINE y == e - 1
      <3>1. y \in Window /\ x < y /\ y # first /\ y \in Int
        BY <1>1, <2>5
      <3>2. Masked(id) >= Masked(Id(y))
        BY <2>4, <3>1
      <3> HIDE DEF y
      <3>3. /\ Masked(Id(x)) \in Int /\ Masked(Id(y)) \in Int
            /\ Masked(Id(x)) <= Masked(Id(y))
            /\ Masked(Id(x)) = Masked(Id(y)) => Id(x) = Id(y)
        BY <1>3, <3>1, MaskedOrder
      <3>4. Id(y) = Id(x)
        BY <3>2, <3>3 DEF id
      <3>5. y <= x
        BY <3>1, <3>4
      <3> QED BY <1>1, <3>1, <3>5
    <2>8. x = e \/ x = e - 1
      BY <1>1, <2>5, <2>6, <2>7
    <2> QED
      BY <2>2, <2>5, <2>8 DEF id
  <1> QED
    BY <1>2, <1>3

\* As long as fewer messages are added than there are masked ids, ids by LB_ANY
\* or the callers' own, deletions, reuses and clears leave every message to be
\* found by its id; and of several with one id, the latest is found.
THEOREM SearchFindsAll ==
  ASSUME InMask
  PROVE  Spec => []SearchFinds
  <1>1. Init => IdsInv
    BY IdsInit
  <1>2. DbInv /\ IdsInv /\ [Next]_vars => IdsInv'
    BY IdsStep
  <1>3. DbInv /\ IdsInv => SearchFinds
    <2> SUFFICES ASSUME DbInv, IdsInv, NEW pt \in Window
                 PROVE  LET same == {o \in Window : dir[Slot(o)].id = dir[Slot(pt)].id}
                            found == Found(dir[Slot(pt)].id)
                        IN found # {} /\ Latest(found) = Latest(same)
      BY DEF SearchFinds
    <2> DEFINE same == {o \in Window : dir[Slot(o)].id = dir[Slot(pt)].id}
               x == Latest(same)
               found == Found(dir[Slot(pt)].id)
    <2>1. DbType /\ first \in Nat /\ next \in Nat /\ Window \subseteq Nat
      BY WindowType DEF DbInv, DbType
    <2>2. same \in SUBSET Window /\ pt \in same
      OBVIOUS
    <2>3. x \in same /\ \A o \in same : o <= x
      <3>1. PICK y \in same : \A o \in same : o <= y
        <4> DEFINE T == {next - o : o \in same}
        <4>1. \A o \in same : o \in Nat /\ next - o \in Nat
          BY <2>1 DEF Window
        <4>2. T \in SUBSET Nat /\ T # {}
          BY <2>2, <4>1
        <4>3. PICK t \in T : \A u \in T : t <= u
          <5> HIDE DEF T
          <5> QED BY <4>2, Least
        <4>4. PICK y \in same : t = next - y
          OBVIOUS
        <4>5. \A o \in same : next - y <= next - o
          BY <4>3, <4>4
        <4> HIDE DEF same
        <4>6. \A o \in same : o <= y
          BY <2>1, <4>1, <4>4, <4>5
        <4> QED BY <4>4, <4>6
      <3> HIDE DEF same
      <3>2. x = y
        BY <2>1, <2>2, <3>1, LatestIs
      <3> QED BY <3>1, <3>2
    <2> HIDE DEF x
    <2>4. x \in Window /\ Id(x) = dir[Slot(pt)].id /\ \A o \in Window : Id(o) = Id(x) => o <= x
      BY <2>3 DEF Id
    <2>5. x \in Candidates(Id(x)) /\ Candidates(Id(x)) \subseteq Window
      BY <2>1, <2>4, LatestCompared
    <2>6. x \in found /\ found \subseteq same
      BY <2>4, <2>5 DEF Found, Id
    <2>7. Latest(found) = x
      <3> HIDE DEF found, same
      <3>1. found \in SUBSET Window /\ \A o \in found : o <= x
        BY <2>2, <2>3, <2>6
      <3> QED BY <2>1, <2>6, <3>1, LatestIs
    <2> QED
      BY <2>6, <2>7 DEF x
  <1> QED
    BY <1>1, <1>2, <1>3, DbCorrect, PTL DEF Spec

====
