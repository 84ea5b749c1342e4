----------------------------- MODULE LBStreamProofs ----------------------------
(***************************************************************************)
(* A sequential linear buffer (LBStream) for every size of the buffer, any  *)
(* lengths of messages and any number of lock-free readers: the messages    *)
(* available are whole in shared memory at every instant, readers return    *)
(* only messages that were published, and the whole implements LBQueue.     *)
(***************************************************************************)
EXTENDS LBStream, LBPointerProofs

AnswerType ==
  [kind : {"none", "expired", "toCome"}]
    \cup [kind : {"message", "cut"}, id : 0 .. MaxWrites, len : 0 .. MaSize, buf : Seq(Unit)]

ReaderType ==
  [pc : {"idle", "num1", "page1", "prev", "curr", "same2", "num2", "page2",
         "body", "same3", "num3", "page3", "seek"},
   rpt : 0 .. PtrRange - 1, rpage : Int, m : Int,
   answer : AnswerType,
   num0 : NumPt, cnum : NumPt, id : 0 .. MaxWrites, loc : 0 .. MaSize - 1,
   len : 0 .. MaSize, buf : Seq(Unit), published : Nat, expired : Int]

\* The types of what the writers change.
WriterType ==
  /\ num \in NumPt
  /\ page \in Nat
  /\ dir \in [0 .. NSlots - 1 -> [loc : 0 .. MaSize - 1, id : 0 .. MaxWrites]]
  /\ area \in [0 .. MaSize - 1 -> Unit]
  /\ wr \in [pc : {"idle", "body", "slot", "page", "num"}, len : 0 .. MaSize,
             loc : 0 .. MaSize - 1, k : 0 .. MaSize, rm : 0 .. 1]
  /\ log \in Seq([id : 1 .. MaxWrites, len : Lens])
  /\ writes \in 0 .. MaxWrites

LEMMA TypesTogether == WriterType /\ rd \in [Readers -> ReaderType] => TypeOK
  BY DEF WriterType, ReaderType, AnswerType, TypeOK

--------------------------------------------------------------------------------
(* The writer's inductive invariant *)

\* The header words name the next message; a page already stored by a writer
\* that died is that of the message after it.
HeaderInv ==
  /\ num.p = PtrOf(Written)
  /\ Start <= First
  /\ page \in {PageOf(Written), PageOf(Written + 1)}
  /\ wr.pc = "num" => page = PageOf(Written + 1)

\* Where message m ends, by the directory.
Loc(m) == dir[m % NSlots].loc

\* Message m, which ends at L[m] of an unfolded message area, is stored whole.
Whole(L, m) ==
  /\ L[m] - L[m - 1] = Published(m).len
  /\ dir[m % NSlots].id = Published(m).id
  /\ \A k \in 0 .. Published(m).len - 1 :
       area[(L[m - 1] + k) % MaSize] = <<Published(m).id, k>>

(***************************************************************************)
(* The message area unfolded: the available messages lie one behind the     *)
(* other and together are no longer than the area, so that no two of them   *)
(* share a unit.                                                            *)
(***************************************************************************)
Layout(L) ==
  /\ \A a, b \in First - 1 .. Written - 1 : a < b => L[a] < L[b]
  /\ L[Written - 1] - L[First - 1] <= MaSize
  /\ \A m \in First - 1 .. Written - 1 : Loc(m) = L[m] % MaSize
  /\ \A m \in First .. Written - 1 : Whole(L, m)

\* What the writer has stored so far of a message that fits behind them.
Storing(L) ==
  /\ wr.len \in Lens /\ writes >= 1
  /\ wr.loc = L[Written - 1] % MaSize
  /\ L[Written - 1] + wr.len - L[First - 1] <= MaSize
  /\ IF wr.pc = "body" THEN wr.k < wr.len ELSE wr.k = wr.len
  /\ \A k \in 0 .. wr.k - 1 : area[(L[Written - 1] + k) % MaSize] = <<writes, k>>
  /\ wr.pc \in {"page", "num"} =>
       dir[Written % NSlots] = [loc |-> (L[Written - 1] + wr.len) % MaSize, id |-> writes]

WriterInv ==
  /\ WriterType
  /\ HeaderInv
  /\ wr.pc = "idle" => wr = NoWrite
  /\ \E L \in [Int -> Int] : Layout(L) /\ (wr.pc # "idle" => Storing(L))

--------------------------------------------------------------------------------
(* Consequences used throughout *)

LEMMA Constants ==
  /\ MaSize \in Nat \ {0} /\ BufLen \in Nat \ {0} /\ Start \in Nat /\ MaxWrites \in Nat
  /\ MaxMsgs \in Nat \ {0} /\ NSlots \in Nat \ {0} /\ PageSize \in Nat \ {0}
  /\ NSlots = MaxMsgs + 4 /\ PtrRange = 4 * PageSize /\ NSlots <= PageSize
  /\ MaxLead \in 0 .. PageSize - 1
  /\ \A len \in Lens : len \in 1 .. MaSize
  BY StreamAssumption, Sizes DEF StreamAssumption

LEMMA Counts ==
  ASSUME WriterType, HeaderInv
  PROVE  /\ Written \in Nat /\ First \in Nat /\ num.n \in 0 .. MaxMsgs
         /\ num.n = Written - First /\ First \in Start .. Written
         /\ Len(log) \in Nat /\ Len(log) = Written - Start
         /\ num.p = PtrOf(Written) /\ num = [n |-> num.n, p |-> num.p]
  <1>1. Len(log) \in Nat
    BY DEF WriterType
  <1>2. num.n \in 0 .. MaxMsgs /\ num = [n |-> num.n, p |-> num.p]
    BY DEF WriterType, NumPt
  <1>3. num.p = PtrOf(Written) /\ Start <= First
    BY DEF HeaderInv
  <1>4. /\ Written = Start + Len(log) /\ First = Written - num.n
        /\ Start \in Nat
    BY Constants DEF Written, First
  <1>5. num.n \in Nat
    BY <1>2, Constants
  <1>6. /\ Written \in Nat /\ First \in Nat /\ num.n = Written - First
        /\ First \in Start .. Written /\ Len(log) = Written - Start
    BY <1>1, <1>3, <1>4, <1>5
  <1> QED
    BY <1>1, <1>2, <1>3, <1>6

\* A message that was published has an id and a length.
LEMMA PublishedType ==
  ASSUME WriterType, NEW m \in Start .. Written - 1
  PROVE  /\ Published(m) \in [id : 1 .. MaxWrites, len : Lens]
         /\ Published(m).len \in 1 .. MaSize /\ Published(m).len \in Lens
         /\ Published(m).id \in 1 .. MaxWrites
  <1>1. Len(log) \in Nat /\ m - Start + 1 \in 1 .. Len(log)
    <2>1. Len(log) \in Nat /\ Start \in Nat /\ Written = Start + Len(log)
      BY Constants DEF WriterType, Written
    <2> QED BY <2>1
  <1>2. Published(m) \in [id : 1 .. MaxWrites, len : Lens]
    <2> DEFINE S == [id : 1 .. MaxWrites, len : Lens]
               i == m - Start + 1
    <2>1. log \in Seq(S) /\ i \in 1 .. Len(log)
      BY <1>1 DEF WriterType
    <2>2. log[i] \in S
      <3> HIDE DEF S, i
      <3> QED BY <2>1
    <2> QED BY <2>2 DEF Published
  <1> QED
    BY <1>2, Constants

\* The slots a buffer in use needs are different ones.
LEMMA SlotsDiffer ==
  ASSUME NEW a \in Int, NEW b \in Int, a < b, b - a <= MaxMsgs + 3
  PROVE  a % NSlots # b % NSlots
  <1>1. NSlots \in Nat \ {0} /\ b - a < NSlots
    BY Constants
  <1> QED
    BY <1>1, ModDistinct

LEMMA SlotRange ==
  ASSUME NEW m \in Int
  PROVE  m % NSlots \in 0 .. NSlots - 1
  BY Constants, DivMod

\* Available message First + i - 1 is the i-th oldest, and the directory gives
\* its length.
LEMMA OldestIs ==
  ASSUME WriterType, HeaderInv, NEW i \in Int
  PROVE  /\ Oldest(i) = PtrOf(First + i - 1)
         /\ Slot(Oldest(i)) = (First + i - 1) % NSlots
         /\ Slot(PrevPtr(Oldest(i))) = (First + i - 2) % NSlots
  <1> DEFINE m == First + i - 1
             k == -num.n - 1 + i
  <1>1. /\ Written \in Int /\ k \in Int /\ m \in Int /\ m - 1 \in Int /\ m = Written + k
        /\ num.p = PtrOf(Written) /\ m - 1 = First + i - 2
        /\ num.p \in Int /\ PtrRange \in Int
        /\ num.p - num.n - 1 + i + PtrRange = PtrOf(Written) + k + PtrRange
    <2>1. /\ Written \in Nat /\ num.n \in Nat /\ First = Written - num.n
          /\ num.p = PtrOf(Written)
      BY Counts, Constants
    <2>2. PtrOf(Written) \in Int /\ PtrRange \in Int
      BY <2>1, Split, Constants
    <2> HIDE DEF Written, First
    <2> QED BY <2>1, <2>2
  <1>2. Oldest(i) = PtrOf(m)
    <2>1. (PtrOf(Written) + k + PtrRange) % PtrRange = PtrOf(Written + k)
      <3> HIDE DEF k
      <3> QED BY <1>1, PtrStep
    <2> QED BY <1>1, <2>1 DEF Oldest
  <1> HIDE DEF m
  <1>3. Slot(PtrOf(m)) = m % NSlots /\ Slot(PtrOf(m - 1)) = (m - 1) % NSlots
        /\ PrevPtr(PtrOf(m)) = PtrOf(m - 1)
    BY <1>1, SlotOf, Neighbours
  <1> QED
    BY <1>1, <1>2, <1>3 DEF m

\* The slots of the next message and of the newest.
LEMMA NextSlots ==
  ASSUME WriterType, HeaderInv
  PROVE  /\ Slot(num.p) = Written % NSlots
         /\ Slot(PrevPtr(num.p)) = (Written - 1) % NSlots
  <1>1. Written \in Int /\ Written - 1 \in Int /\ num.p = PtrOf(Written)
    BY Counts
  <1> QED
    BY <1>1, SlotOf, Neighbours

\* The length the directory gives to an available message.
LEMMA LengthIs ==
  ASSUME WriterType, HeaderInv, NEW L \in [Int -> Int], Layout(L),
         NEW m \in First .. Written - 1
  PROVE  /\ L[m] - L[m - 1] \in 1 .. MaSize
         /\ L[m] - L[m - 1] = LET d == Loc(m) - Loc(m - 1) IN IF d <= 0 THEN d + MaSize ELSE d
  <1>1. /\ m \in Int /\ m - 1 \in Int /\ m \in First - 1 .. Written - 1
        /\ m - 1 \in First - 1 .. Written - 1 /\ m \in Start .. Written - 1
    <2>1. Written \in Nat /\ First \in Nat /\ Start \in Nat /\ First >= Start
      BY Counts, Constants
    <2> QED BY <2>1
  <1>2. L[m] \in Int /\ L[m - 1] \in Int
    BY <1>1
  <1>3. L[m] - L[m - 1] \in 1 .. MaSize
    BY <1>1, PublishedType DEF Layout, Whole
  <1>4. Loc(m) = L[m] % MaSize /\ Loc(m - 1) = L[m - 1] % MaSize
    BY <1>1 DEF Layout
  <1> DEFINE a == L[m - 1]
             b == L[m]
  <1>5. b - a = LET e == (b % MaSize) - (a % MaSize) IN IF e <= 0 THEN e + MaSize ELSE e
    <2> HIDE DEF a, b
    <2>1. a \in Int /\ b \in Int /\ b - a \in 1 .. MaSize /\ MaSize \in Nat \ {0}
      BY <1>2, <1>3, Constants DEF a, b
    <2> QED BY ONLY <2>1, Around
  <1> QED
    BY <1>3, <1>4, <1>5

--------------------------------------------------------------------------------
(* The space Get_sequential_free_space finds *)

\* f[c] is s and the first c elements of d, added up as a loop does.
Summed(f, s, d, n) ==
  /\ f = [c \in 0 .. n |-> f[c]]
  /\ \A c \in 0 .. n : f[c] = IF c = 0 THEN s ELSE f[c - 1] + d[c]

LEMMA SumExists ==
  ASSUME NEW s, NEW d, NEW n \in Nat
  PROVE  \E f : Summed(f, s, d, n)
  <1> DEFINE Sum(f, k) == Summed(f, s, d, k)
             T == {k \in Nat : ~ \E f : Sum(f, k)}
  <1> USE DEF Summed
  <1>1. SUFFICES T = {}
    BY <1>1
  <1>2. SUFFICES ASSUME T # {} PROVE FALSE
    OBVIOUS
  <1>3. PICK k \in T : \A j \in T : k <= j
    <2>1. T \in SUBSET Nat
      OBVIOUS
    <2> HIDE DEF T
    <2> QED BY <1>2, <2>1, Least
  <1>4. CASE k = 0
    <2> DEFINE f == [c \in 0 .. 0 |-> s]
    <2>1. Sum(f, 0)
      OBVIOUS
    <2> QED BY <1>3, <1>4, <2>1
  <1>5. CASE k # 0
    <2>1. k \in Nat /\ k - 1 \in Nat /\ ~ (k - 1 \in T)
      BY <1>3, <1>5
    <2>2. PICK f : Sum(f, k - 1)
      BY <2>1
    <2> DEFINE g == [c \in 0 .. k |-> IF c = k THEN f[k - 1] + d[k] ELSE f[c]]
    <2>3. \A c \in 0 .. k : g[c] = IF c = 0 THEN s ELSE g[c - 1] + d[c]
      <3> SUFFICES ASSUME NEW c \in 0 .. k
                   PROVE  g[c] = IF c = 0 THEN s ELSE g[c - 1] + d[c]
        OBVIOUS
      <3>1. CASE c = k
        BY <1>5, <2>1, <3>1
      <3>2. CASE c # k
        <4>1. c \in 0 .. k - 1 /\ g[c] = f[c]
          BY <2>1, <3>2
        <4>2. f[c] = IF c = 0 THEN s ELSE f[c - 1] + d[c]
          BY <2>2, <4>1
        <4>3. c # 0 => c - 1 \in 0 .. k /\ g[c - 1] = f[c - 1]
          BY <2>1, <3>2
        <4> QED BY <4>1, <4>2, <4>3
      <3> QED BY <3>1, <3>2
    <2>4. g = [c \in 0 .. k |-> g[c]]
      OBVIOUS
    <2>5. \E h : Sum(h, k)
      <3> HIDE DEF g
      <3> QED BY <2>3, <2>4
    <2> QED BY <1>3, <2>5
  <1> QED
    BY <1>4, <1>5

LEMMA FreeAfterIs ==
  ASSUME NEW c \in 0 .. MaxMsgs
  PROVE  FreeAfter[c] = IF c = 0 THEN FreeSize ELSE FreeAfter[c - 1] + DirLen(Oldest(c))
  <1> DEFINE s == FreeSize
             d == [b \in 1 .. MaxMsgs |-> DirLen(Oldest(b))]
  <1>1. PICK f : Summed(f, s, d, MaxMsgs)
    <2>1. MaxMsgs \in Nat
      BY Constants
    <2> HIDE DEF d, s
    <2> QED BY <2>1, SumExists
  <1>2. \A b \in 0 .. MaxMsgs : b # 0 => b \in 1 .. MaxMsgs
    BY Constants
  <1>3. \A b \in 0 .. MaxMsgs :
          f[b] = IF b = 0 THEN FreeSize ELSE f[b - 1] + DirLen(Oldest(b))
    BY <1>1, <1>2 DEF Summed
  <1>4. f = [b \in 0 .. MaxMsgs |-> IF b = 0 THEN FreeSize ELSE f[b - 1] + DirLen(Oldest(b))]
    BY <1>1, <1>3 DEF Summed
  <1>5. FreeAfter = [b \in 0 .. MaxMsgs |->
                       IF b = 0 THEN FreeSize ELSE FreeAfter[b - 1] + DirLen(Oldest(b))]
    BY <1>4 DEF FreeAfter
  <1> QED
    BY <1>5

(***************************************************************************)
(* What Get_sequential_free_space computes is right: with the c oldest      *)
(* messages expired, the area has room for all but the messages left.       *)
(***************************************************************************)
LEMMA FreeAfterRight ==
  ASSUME WriterType, HeaderInv, NEW L \in [Int -> Int], Layout(L), num.n > 0,
         NEW c \in 0 .. num.n
  PROVE  FreeAfter[c] = MaSize - (L[Written - 1] - L[First - 1 + c])
  <1> DEFINE Right(b) == FreeAfter[b] = MaSize - (L[Written - 1] - L[First - 1 + b])
             T == {b \in 0 .. num.n : ~ Right(b)}
  <1>1. SUFFICES T = {}
    BY <1>1
  <1>2. SUFFICES ASSUME T # {} PROVE FALSE
    OBVIOUS
  <1>3. /\ Written \in Nat /\ First \in Nat /\ num.n \in Nat /\ num.n <= MaxMsgs
        /\ num.n = Written - First /\ MaSize \in Nat \ {0} /\ MaxMsgs \in Nat
    BY Counts, Constants
  <1>4. PICK b \in T : \A j \in T : b <= j
    <2>1. T \in SUBSET Nat
      BY <1>3
    <2> HIDE DEF T
    <2> QED BY <1>2, <2>1, Least
  <1>5. b \in 0 .. num.n /\ b \in 0 .. MaxMsgs /\ ~ Right(b)
    BY <1>3, <1>4
  <1>6. CASE b = 0
    <2> DEFINE used == L[Written - 1] - L[First - 1]
    <2>1. L[First - 1] \in Int /\ L[Written - 1] \in Int /\ First - 1 < Written - 1
          /\ First - 1 \in First - 1 .. Written - 1 /\ Written - 1 \in First - 1 .. Written - 1
      BY <1>3
    <2>2. used \in 1 .. MaSize
      <3>1. L[First - 1] < L[Written - 1] /\ L[Written - 1] - L[First - 1] <= MaSize
        BY <2>1 DEF Layout
      <3> QED BY <1>3, <2>1, <3>1
    <2>3. dir[Slot(PrevPtr(Oldest(1)))].loc = L[First - 1] % MaSize
      <3>1. Slot(PrevPtr(Oldest(1))) = (First + 1 - 2) % NSlots
        BY OldestIs
      <3>2. First + 1 - 2 = First - 1
        BY <1>3
      <3> QED BY <2>1, <3>1, <3>2 DEF Layout, Loc
    <2>4. FreeLoc = L[Written - 1] % MaSize
      BY <1>3, <2>1, NextSlots DEF Layout, Loc, FreeLoc
    <2>5. FreeSize = ((L[First - 1] % MaSize) - (L[Written - 1] % MaSize)) % MaSize
      BY <1>3, <2>3, <2>4 DEF FreeSize
    <2>6. ((L[First - 1] % MaSize) - (L[Written - 1] % MaSize)) % MaSize = (-used) % MaSize
      <3> DEFINE x == L[First - 1]
                 y == L[Written - 1]
      <3> SUFFICES ((x % MaSize) - (y % MaSize)) % MaSize = (-(y - x)) % MaSize
        OBVIOUS
      <3>1. x \in Int /\ y \in Int
        BY <2>1
      <3> HIDE DEF x, y
      <3> QED BY <1>3, <3>1, ModMinus
    <2>7. (-used) % MaSize = MaSize - used
      <3> HIDE DEF used
      <3> QED BY <1>3, <2>2, ModLeft
    <2>8. FreeAfter[0] = FreeSize
      BY <1>5, <1>6, FreeAfterIs
    <2>9. First - 1 + b = First - 1
      BY <1>3, <1>6
    <2> QED BY <1>5, <1>6, <2>5, <2>6, <2>7, <2>8, <2>9
  <1>7. CASE b # 0
    <2> DEFINE m == First - 1 + b
    <2>1. /\ b - 1 \in 0 .. num.n /\ b - 1 < b /\ m \in First .. Written - 1 /\ m \in Int
          /\ m - 1 = First - 1 + (b - 1) /\ m = First + b - 1 /\ m - 1 = First + b - 2
          /\ Written - 1 \in Int
      BY <1>3, <1>5, <1>7
    <2>2. Right(b - 1)
      BY <1>4, <2>1
    <2>3. FreeAfter[b] = FreeAfter[b - 1] + DirLen(Oldest(b))
      BY <1>5, <1>7, FreeAfterIs
    <2>4. DirLen(Oldest(b)) = L[m] - L[m - 1]
      <3>1. b \in Int
        BY <1>5
      <3>2. Slot(Oldest(b)) = m % NSlots /\ Slot(PrevPtr(Oldest(b))) = (m - 1) % NSlots
        BY <2>1, <3>1, OldestIs
      <3>3. L[m] - L[m - 1] = LET d == Loc(m) - Loc(m - 1) IN IF d <= 0 THEN d + MaSize ELSE d
        <4> HIDE DEF m
        <4> QED BY <2>1, LengthIs
      <3> QED BY <3>2, <3>3 DEF DirLen, Loc
    <2>5. L[m] \in Int /\ L[m - 1] \in Int /\ L[Written - 1] \in Int
      BY <2>1
    <2>6. FreeAfter[b - 1] = MaSize - (L[Written - 1] - L[m - 1])
      BY <2>1, <2>2
    <2>7. FreeAfter[b] = MaSize - (L[Written - 1] - L[m])
      <3> HIDE DEF m
      <3> QED BY <1>3, <2>3, <2>4, <2>5, <2>6
    <2> QED BY <1>5, <2>7
  <1> QED
    BY <1>6, <1>7

\* With no message available the whole area is free, from its beginning on.
LEMMA FreeWhenEmpty ==
  ASSUME num.n = 0
  PROVE  FreeAfter[0] = MaSize /\ FreeLoc = 0
  <1>1. 0 \in 0 .. MaxMsgs
    BY Constants
  <1> QED
    BY <1>1, FreeAfterIs DEF FreeSize, FreeLoc

--------------------------------------------------------------------------------
(* What LB_Update_pointer stores *)

\* Removing k messages lowers the count, and First moves on by k.
LEMMA RemovedIs ==
  ASSUME WriterType, HeaderInv, NEW k \in 0 .. num.n
  PROVE  UpdatedNum(num, 0, k) = [n |-> num.n - k, p |-> num.p]
  <1>1. num.n \in 0 .. MaxMsgs /\ MaxMsgs \in Nat
    BY Counts, Constants
  <1> QED
    BY <1>1 DEF UpdatedNum

\* A full buffer has one message to remove.
LEMMA SurplusIs ==
  ASSUME WriterType, HeaderInv
  PROVE  Surplus(num) \in 0 .. 1
  <1>1. num.n \in 0 .. MaxMsgs /\ MaxMsgs \in Nat
    BY Counts, Constants
  <1> QED
    BY <1>1 DEF Surplus

\* Whether the message being published pushes one out.
Pushes == wr.rm = 1 \/ num.n = MaxMsgs

\* A message more; the oldest expires when the buffer was full, even if it is
\* full no longer.
LEMMA AddedIs ==
  ASSUME WriterType, HeaderInv
  PROVE  UpdatedNum(num, 1, wr.rm)
           = [n |-> IF Pushes THEN num.n ELSE num.n + 1, p |-> PtrOf(Written + 1)]
  <1>1. NextPtr(num) = PtrOf(Written + 1)
    <2>1. Written \in Int /\ num.p = PtrOf(Written)
      BY Counts
    <2> QED BY <2>1, Neighbours DEF NextPtr
  <1>2. num.n \in 0 .. MaxMsgs /\ MaxMsgs \in Nat /\ wr.rm \in 0 .. 1
    BY Counts, Constants DEF WriterType
  <1> QED
    BY <1>1, <1>2 DEF UpdatedNum, Pushes

\* The page stored before the packed word, whatever a dead writer left.
LEMMA PageIs ==
  ASSUME WriterType, HeaderInv
  PROVE  /\ UpdatedPage(num, page) = PageOf(Written + 1)
         /\ PageOf(Written + 1) \in Nat
         /\ page - PageOf(Written) \in 0 .. 1
  <1> DEFINE w == Written
             v == w + 1
  <1>1. w \in Nat /\ w \in Int /\ v \in Int /\ v - w \in 0 .. PageSize /\ num.p = PtrOf(w)
        /\ v \in Nat
    <2>1. w \in Nat /\ num.p = PtrOf(w) /\ PageSize \in Nat \ {0}
      BY Counts, Constants
    <2> HIDE DEF w
    <2> QED BY <2>1
  <1>2. /\ PageOf(w) \in Int /\ PageOf(v) \in Int /\ PageOf(v) - PageOf(w) \in 0 .. 1
    <2> HIDE DEF w, v
    <2> QED BY <1>1, Split, NearPages
  <1>3. page \in Int /\ page - PageOf(w) \in 0 .. 1
    BY <1>2 DEF WriterType, HeaderInv
  <1>4. CorrectedPage(num.p, page) = PageOf(w)
    <2> HIDE DEF w
    <2> QED BY <1>1, <1>2, <1>3, Corrected
  <1>5. NextPtr(num) = PtrOf(v)
    BY <1>1, Neighbours DEF NextPtr
  <1>6. PageOf(w + 1) = IF PtrOf(w + 1) % PageSize = 0 THEN PageOf(w) + 1 ELSE PageOf(w)
    <2> HIDE DEF w
    <2> QED BY <1>1, Successor
  <1>7. UpdatedPage(num, page) = PageOf(v)
    BY <1>4, <1>5, <1>6 DEF UpdatedPage
  <1>8. PageOf(v) \in Nat
    <2> HIDE DEF v
    <2>1. v \div PageSize \in Nat
      BY <1>1, Constants
    <2> QED BY <2>1 DEF PageOf
  <1> QED
    BY <1>3, <1>7, <1>8

--------------------------------------------------------------------------------
(* Every step of a writer keeps WriterInv *)

LEMMA WriterInit == Init => WriterInv
  <1> SUFFICES ASSUME Init PROVE WriterInv
    OBVIOUS
  <1>1. /\ num = [n |-> 0, p |-> PtrOf(Start)] /\ page = PageOf(Start) /\ wr = NoWrite
        /\ log = <<>> /\ writes = 0
        /\ dir = [s \in 0 .. NSlots - 1 |-> [loc |-> 0, id |-> 0]]
        /\ area = [u \in 0 .. MaSize - 1 |-> <<0, u>>]
    BY DEF Init, PtrOf, PageOf
  <1>2. Len(log) = 0 /\ Written = Start /\ First = Start
    <2>1. Len(log) = 0
      BY <1>1
    <2> QED BY <1>1, <2>1, Constants DEF Written, First
  <1>3. Start \in Int /\ PtrOf(Start) \in 0 .. PtrRange - 1
    BY Constants, Split
  <1>4. page \in Nat
    <2>1. Start \div PageSize \in Nat
      BY Constants
    <2> QED BY <1>1, <2>1 DEF PageOf
  <1>5. WriterType
    <2>1. num \in NumPt
      BY <1>1, <1>3, Constants DEF NumPt
    <2>2. dir \in [0 .. NSlots - 1 -> [loc : 0 .. MaSize - 1, id : 0 .. MaxWrites]]
      BY <1>1, Constants
    <2>3. area \in [0 .. MaSize - 1 -> Unit]
      BY <1>1, Constants DEF Unit
    <2>4. wr \in [pc : {"idle", "body", "slot", "page", "num"}, len : 0 .. MaSize,
                  loc : 0 .. MaSize - 1, k : 0 .. MaSize, rm : 0 .. 1]
      BY <1>1, Constants DEF NoWrite
    <2>5. log \in Seq([id : 1 .. MaxWrites, len : Lens])
      BY <1>1
    <2>6. writes \in 0 .. MaxWrites
      BY <1>1, Constants
    <2> QED BY <1>4, <2>1, <2>2, <2>3, <2>4, <2>5, <2>6 DEF WriterType
  <1>6. HeaderInv
    BY <1>1, <1>2, Constants DEF HeaderInv, NoWrite
  <1>7. Layout([x \in Int |-> 0])
    <2> DEFINE L == [x \in Int |-> 0]
    <2>1. \A m \in First - 1 .. Written - 1 : m = Start - 1 /\ m \in Int /\ L[m] = 0
      BY <1>2, <1>3
    <2>2. First .. Written - 1 = {}
      BY <1>2, <1>3
    <2>3. 0 % MaSize = 0
      BY Constants
    <2>4. (Start - 1) % NSlots \in 0 .. NSlots - 1
      BY <1>3, SlotRange
    <2>5. Loc(Start - 1) = 0
      BY <1>1, <2>4 DEF Loc
    <2>6. Written - 1 \in First - 1 .. Written - 1 /\ First - 1 \in First - 1 .. Written - 1
      BY <1>2, <1>3
    <2> HIDE DEF L
    <2>7. L[Written - 1] - L[First - 1] <= MaSize
      BY <2>1, <2>6, Constants
    <2>8. \A a, b \in First - 1 .. Written - 1 : a < b => L[a] < L[b]
      BY <2>1
    <2>9. \A m \in First - 1 .. Written - 1 : Loc(m) = L[m] % MaSize
      BY <2>1, <2>3, <2>5
    <2> QED BY <2>2, <2>7, <2>8, <2>9 DEF Layout, L
  <1>8. [x \in Int |-> 0] \in [Int -> Int]
    OBVIOUS
  <1>9. wr.pc = "idle"
    BY <1>1 DEF NoWrite
  <1> QED
    BY <1>1, <1>5, <1>6, <1>7, <1>8, <1>9 DEF WriterInv

\* The layout of what is left when k of the oldest messages expire.
LEMMA Shrink ==
  ASSUME WriterType, HeaderInv, NEW L \in [Int -> Int], Layout(L), NEW k \in 0 .. num.n,
         num' = [n |-> num.n - k, p |-> num.p], UNCHANGED <<dir, area, log>>
  PROVE  Layout(L)' /\ First' = First + k /\ Written' = Written
  <1>1. /\ Written \in Nat /\ First \in Nat /\ num.n \in Nat /\ num.n = Written - First
        /\ MaSize \in Nat \ {0}
    BY Counts, Constants
  <1>2. Written' = Written
    BY DEF Written
  <1>3. First' = First + k
    BY <1>1, <1>2 DEF First
  <1>4. First + k - 1 \in First - 1 .. Written - 1 /\ First - 1 \in First - 1 .. Written - 1
        /\ Written - 1 \in First - 1 .. Written - 1
    BY <1>1
  <1>5. L[First - 1] <= L[First + k - 1] /\ L[First + k - 1] \in Int /\ L[First - 1] \in Int
        /\ L[Written - 1] \in Int
    <2>1. L[First + k - 1] \in Int /\ L[First - 1] \in Int /\ L[Written - 1] \in Int
      BY <1>4
    <2>2. CASE k = 0
      <3>1. First + k - 1 = First - 1
        BY <1>1, <2>2
      <3> QED BY <2>1, <3>1
    <2>3. CASE k # 0
      <3>1. First - 1 < First + k - 1
        BY <1>1, <2>3
      <3> QED BY <1>4, <2>1, <3>1 DEF Layout
    <2> QED BY <2>1, <2>2, <2>3
  <1>6. L[Written - 1] - L[First + k - 1] <= MaSize
    BY <1>1, <1>5 DEF Layout
  <1>7. \A m \in First + k - 1 .. Written - 1 : m \in First - 1 .. Written - 1
    BY <1>1
  <1>8. \A m \in First + k .. Written - 1 : m \in First .. Written - 1 /\ Whole(L, m)'
    <2> SUFFICES ASSUME NEW m \in First + k .. Written - 1
                 PROVE  m \in First .. Written - 1 /\ Whole(L, m)'
      OBVIOUS
    <2>1. m \in First .. Written - 1
      BY <1>1
    <2>2. Whole(L, m)
      BY <2>1 DEF Layout
    <2> QED BY <2>1, <2>2 DEF Whole, Published
  <1>9. \A m \in First - 1 .. Written - 1 : Loc(m)' = Loc(m)
    BY DEF Loc
  <1>10. \A a, b \in First + k - 1 .. Written - 1 : a < b => L[a] < L[b]
    BY <1>7 DEF Layout
  <1>11. \A m \in First + k - 1 .. Written - 1 : Loc(m)' = L[m] % MaSize
    BY <1>7, <1>9 DEF Layout
  <1>12. First' - 1 = First + k - 1 /\ L[First' - 1] = L[First + k - 1]
    BY <1>1, <1>3
  <1> QED
    BY <1>2, <1>3, <1>6, <1>8, <1>10, <1>11, <1>12 DEF Layout

\* Expiring messages keeps the header words right.
LEMMA ShrinkHeader ==
  ASSUME WriterType, HeaderInv, NEW k \in 0 .. num.n,
         num' = [n |-> num.n - k, p |-> num.p], UNCHANGED <<page, log>>,
         wr'.pc # "num" \/ wr' = wr
  PROVE  HeaderInv' /\ num' \in NumPt
  <1>1. /\ Written \in Nat /\ First \in Nat /\ num.n \in 0 .. MaxMsgs /\ num.n = Written - First
        /\ Start <= First /\ MaxMsgs \in Nat /\ Start \in Nat /\ num.p = PtrOf(Written)
        /\ num.p \in 0 .. PtrRange - 1
    BY Counts, Constants DEF HeaderInv, WriterType, NumPt
  <1>2. Written' = Written
    BY DEF Written
  <1>3. First' = First + k
    BY <1>1, <1>2 DEF First
  <1>4. Start <= First'
    BY <1>1, <1>3
  <1>5. num' \in NumPt
    <2>1. num.n - k \in 0 .. MaxMsgs
      BY <1>1
    <2> QED BY <1>1, <2>1 DEF NumPt
  <1>6. num'.p = PtrOf(Written)
    BY <1>1
  <1> QED
    BY <1>2, <1>4, <1>5, <1>6 DEF HeaderInv

LEMMA BeginWriteKeeps ==
  ASSUME WriterInv, NEW len \in Lens, BeginWrite(len)
  PROVE  WriterInv'
  <1>1. /\ WriterType /\ HeaderInv /\ wr = NoWrite /\ wr.pc = "idle"
        /\ len \in 1 .. MaSize /\ len \in 0 .. MaSize
        /\ writes' = writes + 1 /\ UNCHANGED <<page, area, rd, log>>
        /\ wr' = [pc |-> "body", len |-> len, loc |-> FreeLoc, k |-> 0,
                   rm |-> Surplus(num)]
        /\ writes \in 0 .. MaxWrites /\ writes < MaxWrites /\ MaxWrites \in Nat
        /\ MaSize \in Nat \ {0}
    <2>1. /\ wr = NoWrite /\ writes' = writes + 1 /\ UNCHANGED <<page, area, rd, log>>
          /\ wr' = [pc |-> "body", len |-> len, loc |-> FreeLoc, k |-> 0,
                     rm |-> Surplus(num)]
          /\ writes < MaxWrites
      BY DEF BeginWrite
    <2>2. WriterType /\ HeaderInv /\ writes \in 0 .. MaxWrites
      BY DEF WriterInv, WriterType
    <2>3. wr.pc = "idle"
      BY <2>1 DEF NoWrite
    <2>4. len \in 1 .. MaSize /\ MaSize \in Nat \ {0} /\ MaxWrites \in Nat
      BY Constants
    <2>5. len \in 0 .. MaSize
      BY <2>4
    <2> QED BY <2>1, <2>2, <2>3, <2>4, <2>5
  <1>2. PICK L \in [Int -> Int] : Layout(L)
    BY DEF WriterInv
  <1>3. PICK c \in 0 .. num.n :
          /\ FreeAfter[c] >= len
          /\ num' = IF c > 0 THEN UpdatedNum(num, 0, c) ELSE num
    BY DEF BeginWrite
  <1>4. num' = [n |-> num.n - c, p |-> num.p]
    <2>1. num.n \in 0 .. MaxMsgs /\ num = [n |-> num.n, p |-> num.p] /\ MaxMsgs \in Nat
      BY <1>1, Counts, Constants
    <2>2. CASE c > 0
      BY <1>1, <1>3, <2>2, RemovedIs
    <2>3. CASE c = 0
      <3>1. num.n - c = num.n
        BY <2>1, <2>3
      <3> QED BY <1>3, <2>1, <2>3, <3>1
    <2> QED BY <2>1, <2>2, <2>3
  <1>5. writes' \in 0 .. MaxWrites /\ writes' >= 1
    BY <1>1
  <1>6. HeaderInv' /\ num' \in NumPt
    BY <1>1, <1>4, ShrinkHeader
  <1>7. /\ Written \in Nat /\ First \in Nat /\ num.n \in 0 .. MaxMsgs /\ num.n = Written - First
        /\ MaxMsgs \in Nat
    BY <1>1, Counts, Constants
  <1>8. wr'.pc = "body" /\ wr'.len = len /\ wr'.loc = FreeLoc /\ wr'.k = 0
    BY <1>1
  <1>9. CASE num.n > 0
    <2>1. dir' = dir
      BY <1>1, <1>9 DEF BeginWrite
    <2>2. Layout(L)' /\ First' = First + c /\ Written' = Written
      BY <1>1, <1>2, <1>4, <2>1, Shrink
    <2>3. FreeAfter[c] = MaSize - (L[Written - 1] - L[First - 1 + c])
      BY <1>1, <1>2, <1>9, FreeAfterRight
    <2>4. Written - 1 \in First - 1 .. Written - 1
      BY <1>7
    <2>5. FreeLoc = L[Written - 1] % MaSize
      BY <1>1, <1>2, <1>7, <1>9, <2>4, NextSlots DEF FreeLoc, Layout, Loc
    <2>6. L[Written - 1] \in Int /\ L[First - 1 + c] \in Int
      BY <1>7, <2>4
    <2>7. FreeLoc \in 0 .. MaSize - 1
      BY <1>1, <2>5, <2>6, DivMod
    <2>8. L[Written' - 1] + len - L[First' - 1] <= MaSize
      <3>1. First' - 1 = First - 1 + c
        BY <1>7, <2>2
      <3>2. L[Written - 1] + len - L[First - 1 + c] <= MaSize
        BY <1>1, <1>3, <2>3, <2>6
      <3> QED BY <2>2, <3>1, <3>2
    <2>9. Storing(L)'
      <3>1. \A k \in 0 .. wr'.k - 1 : FALSE
        BY <1>8
      <3>2. wr'.loc = L[Written' - 1] % MaSize
        BY <1>8, <2>2, <2>5
      <3> QED BY <1>1, <1>5, <1>8, <2>8, <3>1, <3>2 DEF Storing
    <2>10. WriterType'
      <3>1. wr' \in [pc : {"idle", "body", "slot", "page", "num"}, len : 0 .. MaSize,
                     loc : 0 .. MaSize - 1, k : 0 .. MaSize, rm : 0 .. 1]
        BY <1>1, <2>7, SurplusIs
      <3> QED BY <1>1, <1>5, <1>6, <2>1, <3>1 DEF WriterType
    <2> QED BY <1>2, <1>6, <1>8, <2>2, <2>9, <2>10 DEF WriterInv
  <1>10. CASE num.n = 0
    <2> DEFINE K == [x \in Int |-> 0]
               s == (Written - 1) % NSlots
    <2>1. c = 0 /\ num' = num
      BY <1>3, <1>7, <1>10
    <2>2. dir' = [dir EXCEPT ![s].loc = 0]
      BY <1>1, <1>10, NextSlots DEF BeginWrite
    <2>3. Written - 1 \in Int /\ s \in 0 .. NSlots - 1
      BY <1>7, SlotRange
    <2>4. /\ dir' \in [0 .. NSlots - 1 -> [loc : 0 .. MaSize - 1, id : 0 .. MaxWrites]]
          /\ dir'[s].loc = 0
      <3> HIDE DEF s
      <3>1. dir \in [0 .. NSlots - 1 -> [loc : 0 .. MaSize - 1, id : 0 .. MaxWrites]]
        BY <1>1 DEF WriterType
      <3>2. 0 \in 0 .. MaSize - 1
        BY <1>1
      <3> QED BY <2>2, <2>3, <3>1, <3>2
    <2>5. Written' = Written /\ First' = Written /\ First = Written
      BY <1>1, <1>7, <1>10, <2>1 DEF Written, First
    <2>6. FreeLoc = 0 /\ FreeAfter[0] = MaSize
      BY <1>10, FreeWhenEmpty
    <2>7. 0 % MaSize = 0 /\ 0 \in 0 .. MaSize - 1
      BY <1>1
    <2>8. \A m \in Int : K[m] = 0
      OBVIOUS
    <2>9. Layout(K)'
      <3>1. \A m \in First' - 1 .. Written' - 1 : m = Written - 1
        BY <1>7, <2>5
      <3>2. First' .. Written' - 1 = {}
        BY <1>7, <2>5
      <3>3. First' - 1 \in Int /\ Written' - 1 \in Int
        BY <1>7, <2>5
      <3>4. dir'[(Written - 1) % NSlots].loc = 0
        BY <2>4
      <3> HIDE DEF K, s
      <3>5. \A m \in First' - 1 .. Written' - 1 : Loc(m)' = K[m] % MaSize
        <4> SUFFICES ASSUME NEW m \in First' - 1 .. Written' - 1 PROVE Loc(m)' = K[m] % MaSize
          OBVIOUS
        <4>1. m = Written - 1 /\ K[m] = 0
          BY <2>3, <2>8, <3>1
        <4> QED BY <2>7, <3>4, <4>1 DEF Loc
      <3>6. K[Written' - 1] - K[First' - 1] <= MaSize
        BY <1>1, <2>8, <3>3
      <3>7. \A a, b \in First' - 1 .. Written' - 1 : a < b => K[a] < K[b]
        BY <1>7, <2>5
      <3> QED BY <3>2, <3>5, <3>6, <3>7 DEF Layout
    <2>10. Storing(K)'
      <3>1. \A k \in 0 .. wr'.k - 1 : FALSE
        BY <1>8
      <3>2. K[Written' - 1] = 0 /\ K[First' - 1] = 0
        BY <1>7, <2>5, <2>8
      <3> HIDE DEF K
      <3>3. K[Written' - 1] + len - K[First' - 1] <= MaSize
        BY <1>1, <3>2
      <3>4. wr'.loc = K[Written' - 1] % MaSize
        BY <1>8, <2>6, <2>7, <3>2
      <3> QED BY <1>1, <1>5, <1>8, <3>1, <3>3, <3>4 DEF Storing
    <2>11. K \in [Int -> Int]
      OBVIOUS
    <2>12. WriterType'
      <3>1. wr' \in [pc : {"idle", "body", "slot", "page", "num"}, len : 0 .. MaSize,
                     loc : 0 .. MaSize - 1, k : 0 .. MaSize, rm : 0 .. 1]
        BY <1>1, <2>6, <2>7, SurplusIs
      <3> QED BY <1>1, <1>5, <1>6, <2>4, <3>1 DEF WriterType
    <2> HIDE DEF K
    <2> QED BY <1>6, <1>8, <2>9, <2>10, <2>11, <2>12 DEF WriterInv
  <1> QED
    BY <1>7, <1>9, <1>10

\* The layout depends on the slots and the units of available messages only.
LEMMA LayoutStays ==
  ASSUME NEW L \in [Int -> Int], Layout(L), UNCHANGED <<num, log>>,
         \A m \in First - 1 .. Written - 1 : dir'[m % NSlots] = dir[m % NSlots],
         \A m \in First .. Written - 1 : \A k \in 0 .. Published(m).len - 1 :
           area'[(L[m - 1] + k) % MaSize] = area[(L[m - 1] + k) % MaSize],
         WriterType, HeaderInv
  PROVE  Layout(L)' /\ Written' = Written /\ First' = First
  <1>1. Written' = Written /\ First' = First
    BY DEF Written, First
  <1>2. Written \in Nat /\ First \in Nat
    BY Counts
  <1>3. ASSUME NEW m \in First .. Written - 1 PROVE Whole(L, m)'
    <2>1. m \in First - 1 .. Written - 1
      BY <1>2
    <2>2. Whole(L, m)
      BY DEF Layout
    <2>3. Published(m)' = Published(m)
      BY DEF Published
    <2>4. dir'[m % NSlots] = dir[m % NSlots]
      BY <2>1
    <2>5. \A k \in 0 .. Published(m).len - 1 :
            area'[(L[m - 1] + k) % MaSize] = <<Published(m).id, k>>
      BY <2>2 DEF Whole
    <2> QED BY <2>2, <2>3, <2>4, <2>5 DEF Whole
  <1>4. ASSUME NEW m \in First - 1 .. Written - 1 PROVE Loc(m)' = L[m] % MaSize
    BY DEF Layout, Loc
  <1> QED
    BY <1>1, <1>3, <1>4 DEF Layout

\* The unit a writer stores next is in no available message.
LEMMA UnitsDiffer ==
  ASSUME WriterType, HeaderInv, NEW L \in [Int -> Int], Layout(L), Storing(L),
         wr.pc = "body",
         NEW m \in First .. Written - 1, NEW j \in 0 .. Published(m).len - 1
  PROVE  (L[m - 1] + j) % MaSize # (L[Written - 1] + wr.k) % MaSize
  <1> DEFINE x == L[m - 1] + j
             y == L[Written - 1] + wr.k
  <1>1. /\ Written \in Nat /\ First \in Nat /\ MaSize \in Nat \ {0}
        /\ m \in First - 1 .. Written - 1 /\ m - 1 \in First - 1 .. Written - 1
        /\ Written - 1 \in First - 1 .. Written - 1 /\ First - 1 \in First - 1 .. Written - 1
        /\ m \in Int
    <2>1. Written \in Nat /\ First \in Nat /\ MaSize \in Nat \ {0}
      BY Counts, Constants
    <2> QED BY <2>1
  <1>2. L[m - 1] \in Int /\ L[m] \in Int /\ L[Written - 1] \in Int /\ L[First - 1] \in Int
    BY <1>1
  <1>3. L[m] - L[m - 1] = Published(m).len /\ L[m] - L[m - 1] \in 1 .. MaSize
    BY <1>1, LengthIs DEF Layout, Whole
  <1>4. j \in Int /\ L[m - 1] <= x /\ x < L[m]
    BY <1>2, <1>3
  <1>5. L[m] <= L[Written - 1]
    <2>1. CASE m = Written - 1
      BY <1>2, <2>1
    <2>2. CASE m # Written - 1
      <3>1. m < Written - 1
        BY <1>1, <2>2
      <3> QED BY <1>1, <1>2, <3>1 DEF Layout
    <2> QED BY <2>1, <2>2
  <1>6. L[First - 1] <= L[m - 1]
    <2>1. CASE m = First
      BY <1>2, <2>1
    <2>2. CASE m # First
      <3>1. First - 1 < m - 1
        BY <1>1, <2>2
      <3> QED BY <1>1, <1>2, <3>1 DEF Layout
    <2> QED BY <2>1, <2>2
  <1>7. wr.k \in Nat /\ wr.len \in Nat /\ wr.k < wr.len
        /\ L[Written - 1] + wr.len - L[First - 1] <= MaSize
    BY Constants DEF Storing, WriterType
  <1>8. x \in Int /\ y \in Int
    BY <1>2, <1>4, <1>7
  <1>9. x < y
    BY <1>2, <1>4, <1>5, <1>7, <1>8
  <1>10. y - x < MaSize
    BY <1>1, <1>2, <1>4, <1>6, <1>7, <1>8
  <1> HIDE DEF x, y
  <1>11. x % MaSize # y % MaSize
    BY <1>1, <1>8, <1>9, <1>10, ModDistinct
  <1> QED
    BY <1>11 DEF x, y

LEMMA StoreUnitKeeps ==
  ASSUME WriterInv, StoreUnit
  PROVE  WriterInv'
  <1>1. /\ WriterType /\ HeaderInv /\ wr.pc = "body"
        /\ UNCHANGED <<num, page, dir, rd, log, writes>>
        /\ wr' = [wr EXCEPT !.k = @ + 1, !.pc = IF wr.k + 1 = wr.len THEN "slot" ELSE "body"]
        /\ MaSize \in Nat \ {0}
    BY Constants DEF StoreUnit, WriterInv
  <1>2. PICK L \in [Int -> Int] : Layout(L) /\ Storing(L)
    BY <1>1 DEF WriterInv
  <1> DEFINE top == L[Written - 1]
             u == (top + wr.k) % MaSize
  <1>3. /\ wr.len \in Lens /\ wr.len \in 1 .. MaSize /\ wr.k \in Nat /\ wr.k < wr.len
        /\ writes \in 1 .. MaxWrites /\ wr.loc = top % MaSize /\ MaxWrites \in Nat
        /\ top + wr.len - L[First - 1] <= MaSize
    BY <1>1, <1>2, Constants DEF Storing, WriterType
  <1>4. Written \in Nat /\ First \in Nat /\ top \in Int
    <2>1. Written \in Nat /\ First \in Nat
      BY <1>1, Counts
    <2> QED BY <2>1
  <1>5. area' = [area EXCEPT ![u] = <<writes, wr.k>>]
    <2>1. (wr.loc + wr.k) % MaSize = u
      <3> DEFINE k == wr.k
      <3> HIDE DEF top, k
      <3>1. top \in Int /\ k \in Int /\ MaSize \in Nat \ {0}
        BY <1>1, <1>3, <1>4 DEF k
      <3>2. ((top % MaSize) + k) % MaSize = (top + k) % MaSize
        BY ONLY <3>1, ModAdd
      <3> QED BY <1>3, <3>2 DEF k
    <2> QED BY <2>1 DEF StoreUnit
  <1>6. u \in 0 .. MaSize - 1
    <2> HIDE DEF top
    <2>1. top + wr.k \in Int
      BY <1>3, <1>4
    <2> QED BY <1>1, <2>1, DivMod
  <1>7. wr' \in [pc : {"idle", "body", "slot", "page", "num"}, len : 0 .. MaSize,
                 loc : 0 .. MaSize - 1, k : 0 .. MaSize, rm : 0 .. 1]
        /\ wr'.k = wr.k + 1 /\ wr'.len = wr.len /\ wr'.loc = wr.loc
        /\ wr'.pc = IF wr.k + 1 = wr.len THEN "slot" ELSE "body"
    <2>1. wr \in [pc : {"idle", "body", "slot", "page", "num"}, len : 0 .. MaSize,
                  loc : 0 .. MaSize - 1, k : 0 .. MaSize, rm : 0 .. 1]
      BY <1>1 DEF WriterType
    <2>2. wr.k + 1 \in 0 .. MaSize
      BY <1>1, <1>3
    <2> QED BY <1>1, <2>1, <2>2
  <1>8. area' \in [0 .. MaSize - 1 -> Unit] /\ area \in [0 .. MaSize - 1 -> Unit]
    <2>1. writes \in 0 .. MaxWrites /\ wr.k \in 0 .. MaSize - 1
      BY <1>1, <1>3
    <2>3. <<writes, wr.k>> \in Unit
      BY <2>1 DEF Unit
    <2>2. area \in [0 .. MaSize - 1 -> Unit]
      BY <1>1 DEF WriterType
    <2> HIDE DEF u
    <2> QED BY <1>5, <1>6, <2>2, <2>3
  <1>9. WriterType'
    BY <1>1, <1>7, <1>8 DEF WriterType
  <1>10. Layout(L)' /\ Written' = Written /\ First' = First
    <2>1. ASSUME NEW m \in First .. Written - 1, NEW k \in 0 .. Published(m).len - 1
          PROVE  area'[(L[m - 1] + k) % MaSize] = area[(L[m - 1] + k) % MaSize]
      <3>1. (L[m - 1] + k) % MaSize # u
        BY <1>1, <1>2, <2>1, UnitsDiffer
      <3>2. L[m - 1] + k \in Int
        <4>1. m - 1 \in Int /\ k \in Int
          <5>1. m \in Start .. Written - 1
            BY <1>1, <1>4, Counts, Constants
          <5>2. Published(m).len \in Int
            BY <1>1, <5>1, PublishedType, Constants
          <5> QED BY <1>4, <5>1, <5>2
        <4> QED BY <4>1
      <3>3. (L[m - 1] + k) % MaSize \in 0 .. MaSize - 1
        BY <1>1, <3>2, DivMod
      <3> HIDE DEF u
      <3> QED BY <1>5, <1>8, <3>1, <3>3
    <2> QED BY <1>1, <1>2, <2>1, LayoutStays
  <1>11. HeaderInv'
    <2>1. wr'.pc # "num"
      BY <1>7
    <2> QED BY <1>1, <1>10, <2>1 DEF HeaderInv
  <1>12. \A k \in 0 .. wr'.k - 1 : area'[(top + k) % MaSize] = <<writes, k>>
    <2> SUFFICES ASSUME NEW k \in 0 .. wr'.k - 1
                 PROVE  area'[(top + k) % MaSize] = <<writes, k>>
      OBVIOUS
    <2>1. k \in Int /\ k >= 0 /\ k <= wr.k
      BY <1>3, <1>7
    <2>2. CASE k = wr.k
      <3> HIDE DEF top
      <3> QED BY <1>5, <1>6, <1>8, <2>2
    <2>3. CASE k # wr.k
      <3>1. k \in 0 .. wr.k - 1 /\ area[(top + k) % MaSize] = <<writes, k>>
        <4>1. k \in 0 .. wr.k - 1
          BY <1>3, <2>1, <2>3
        <4> QED BY <1>2, <4>1 DEF Storing
      <3>2. (top + k) % MaSize # u
        <4> DEFINE x == top + k
                   y == top + wr.k
        <4>1. x \in Int /\ y \in Int /\ x < y /\ y - x < MaSize
          <5>1. k < wr.k /\ wr.k - k < MaSize /\ wr.k \in Int /\ MaSize \in Int
            <6>1. wr.k \in 0 .. MaSize - 1 /\ MaSize \in Nat
              BY <1>1, <1>3
            <6> QED BY ONLY <2>1, <2>3, <6>1
          <5> HIDE DEF top
          <5> QED BY <1>4, <2>1, <5>1
        <4>2. x % MaSize # y % MaSize
          <5> HIDE DEF x, y
          <5> QED BY <1>1, <4>1, ModDistinct
        <4> QED BY <4>2
      <3>3. (top + k) % MaSize \in 0 .. MaSize - 1
        <4> HIDE DEF top
        <4>1. top + k \in Int
          BY <1>4, <2>1
        <4> QED BY <1>1, <4>1, DivMod
      <3> HIDE DEF u, top
      <3> QED BY <1>5, <1>8, <3>1, <3>2, <3>3
    <2> QED BY <2>2, <2>3
  <1>13. Storing(L)'
    <2>1. IF wr'.pc = "body" THEN wr'.k < wr'.len ELSE wr'.k = wr'.len
      BY <1>3, <1>7
    <2>2. wr'.pc \notin {"page", "num"}
      BY <1>7
    <2>3. wr'.len \in Lens /\ writes' >= 1
      BY <1>1, <1>3, <1>7
    <2> QED BY <1>1, <1>3, <1>7, <1>10, <1>12, <2>1, <2>2, <2>3 DEF Storing
  <1>14. wr'.pc # "idle"
    BY <1>7
  <1> QED
    BY <1>2, <1>9, <1>10, <1>11, <1>13, <1>14 DEF WriterInv

LEMMA StoreSlotKeeps ==
  ASSUME WriterInv, StoreSlot
  PROVE  WriterInv'
  <1> DEFINE s == Written % NSlots
             new == [loc |-> (wr.loc + wr.len) % MaSize, id |-> writes]
  <1>1. /\ WriterType /\ HeaderInv /\ wr.pc = "slot"
        /\ UNCHANGED <<num, page, area, rd, log, writes>>
        /\ wr' = [wr EXCEPT !.pc = "page"]
        /\ MaSize \in Nat \ {0}
    BY Constants DEF StoreSlot, WriterInv
  <1>2. PICK L \in [Int -> Int] : Layout(L) /\ Storing(L)
    BY <1>1 DEF WriterInv
  <1>3. dir' = [dir EXCEPT ![s] = new]
    BY <1>1, NextSlots DEF StoreSlot
  <1>4. /\ Written \in Nat /\ First \in Nat /\ L[Written - 1] \in Int /\ s \in 0 .. NSlots - 1
        /\ Written - First <= MaxMsgs /\ MaxMsgs \in Nat
    <2>1. /\ Written \in Nat /\ First \in Nat /\ num.n \in 0 .. MaxMsgs /\ MaxMsgs \in Nat
          /\ num.n = Written - First
      BY <1>1, Counts, Constants
    <2>2. s \in 0 .. NSlots - 1
      BY <2>1, SlotRange
    <2>3. L[Written - 1] \in Int
      BY <2>1
    <2> QED BY <2>1, <2>2, <2>3
  <1>5. new = [loc |-> (L[Written - 1] + wr.len) % MaSize, id |-> writes]
        /\ new \in [loc : 0 .. MaSize - 1, id : 0 .. MaxWrites]
    <2> DEFINE t == L[Written - 1]
               l == wr.len
    <2>1. t \in Int /\ l \in Int /\ wr.loc = t % MaSize /\ writes \in 0 .. MaxWrites
      BY <1>1, <1>2, <1>4, Constants DEF Storing, WriterType
    <2> HIDE DEF t, l
    <2>2. ((t % MaSize) + l) % MaSize = (t + l) % MaSize /\ (t + l) % MaSize \in 0 .. MaSize - 1
      <3>1. t + l \in Int
        BY <2>1
      <3> QED BY <1>1, <2>1, <3>1, ModAdd, DivMod
    <2> QED BY <2>1, <2>2 DEF t, l
  <1>6. dir' \in [0 .. NSlots - 1 -> [loc : 0 .. MaSize - 1, id : 0 .. MaxWrites]] /\ dir'[s] = new
    <2>1. dir \in [0 .. NSlots - 1 -> [loc : 0 .. MaSize - 1, id : 0 .. MaxWrites]]
      BY <1>1 DEF WriterType
    <2> HIDE DEF s, new
    <2> QED BY <1>3, <1>4, <1>5, <2>1
  <1>7. wr' \in [pc : {"idle", "body", "slot", "page", "num"}, len : 0 .. MaSize,
                 loc : 0 .. MaSize - 1, k : 0 .. MaSize, rm : 0 .. 1]
        /\ wr'.k = wr.k /\ wr'.len = wr.len /\ wr'.loc = wr.loc /\ wr'.pc = "page"
    BY <1>1 DEF WriterType
  <1>8. WriterType'
    BY <1>1, <1>6, <1>7 DEF WriterType
  <1>9. Layout(L)' /\ Written' = Written /\ First' = First
    <2>1. ASSUME NEW m \in First - 1 .. Written - 1
          PROVE  dir'[m % NSlots] = dir[m % NSlots]
      <3>1. m \in Int /\ m < Written /\ Written - m <= MaxMsgs + 3 /\ Written \in Int
        BY <1>4
      <3>2. m % NSlots # s
        BY <3>1, SlotsDiffer
      <3>3. m % NSlots \in 0 .. NSlots - 1
        BY <3>1, SlotRange
      <3>4. dir \in [0 .. NSlots - 1 -> [loc : 0 .. MaSize - 1, id : 0 .. MaxWrites]]
        BY <1>1 DEF WriterType
      <3> HIDE DEF s, new
      <3> QED BY <1>3, <3>2, <3>3, <3>4
    <2> QED BY <1>1, <1>2, <2>1, LayoutStays
  <1>10. HeaderInv'
    BY <1>1, <1>7, <1>9 DEF HeaderInv
  <1>11. Storing(L)'
    <2>1. dir'[Written' % NSlots] = [loc |-> (L[Written' - 1] + wr'.len) % MaSize, id |-> writes]
      <3> HIDE DEF new
      <3> QED BY <1>5, <1>6, <1>7, <1>9
    <2> QED BY <1>1, <1>2, <1>7, <1>9, <2>1 DEF Storing
  <1> QED
    BY <1>2, <1>7, <1>8, <1>9, <1>10, <1>11 DEF WriterInv

LEMMA StorePageKeeps ==
  ASSUME WriterInv, StorePage
  PROVE  WriterInv'
  <1>1. /\ WriterType /\ HeaderInv /\ wr.pc = "page"
        /\ UNCHANGED <<num, dir, area, rd, log, writes>>
        /\ wr' = [wr EXCEPT !.pc = "num"] /\ page' = UpdatedPage(num, page)
    BY DEF StorePage, WriterInv
  <1>2. PICK L \in [Int -> Int] : Layout(L) /\ Storing(L)
    BY <1>1 DEF WriterInv
  <1>3. page' = PageOf(Written + 1) /\ page' \in Nat
    BY <1>1, PageIs
  <1>4. wr' \in [pc : {"idle", "body", "slot", "page", "num"}, len : 0 .. MaSize,
                 loc : 0 .. MaSize - 1, k : 0 .. MaSize, rm : 0 .. 1]
        /\ wr'.k = wr.k /\ wr'.len = wr.len /\ wr'.loc = wr.loc /\ wr'.pc = "num"
    BY <1>1 DEF WriterType
  <1>5. WriterType'
    BY <1>1, <1>3, <1>4 DEF WriterType
  <1>6. Layout(L)' /\ Written' = Written /\ First' = First
    BY <1>1, <1>2, LayoutStays
  <1>7. HeaderInv'
    BY <1>1, <1>3, <1>4, <1>6 DEF HeaderInv
  <1>8. Storing(L)'
    BY <1>1, <1>2, <1>4, <1>6 DEF Storing
  <1> QED
    BY <1>2, <1>4, <1>5, <1>6, <1>7, <1>8 DEF WriterInv

LEMMA ClearKeeps ==
  ASSUME WriterInv, NEW k \in 1 .. MaxMsgs, Clear(k)
  PROVE  WriterInv'
  <1>1. /\ WriterType /\ HeaderInv /\ wr = NoWrite /\ wr.pc = "idle"
        /\ UNCHANGED <<page, dir, area, wr, rd, log, writes>> /\ k \in 1 .. num.n
        /\ num' = UpdatedNum(num, 0, k)
    BY DEF Clear, WriterInv, NoWrite
  <1>2. PICK L \in [Int -> Int] : Layout(L)
    BY DEF WriterInv
  <1>3. k \in 0 .. num.n /\ num' = [n |-> num.n - k, p |-> num.p]
    <2>1. k \in 0 .. num.n
      BY <1>1
    <2> QED BY <1>1, <2>1, RemovedIs
  <1>4. HeaderInv' /\ num' \in NumPt
    BY <1>1, <1>3, ShrinkHeader
  <1>5. Layout(L)'
    BY <1>1, <1>2, <1>3, Shrink
  <1>6. WriterType'
    BY <1>1, <1>4 DEF WriterType
  <1> QED
    BY <1>1, <1>2, <1>4, <1>5, <1>6 DEF WriterInv

LEMMA CrashKeeps ==
  ASSUME WriterInv, Crash
  PROVE  WriterInv'
  <1>1. /\ WriterType /\ HeaderInv /\ wr' = NoWrite
        /\ UNCHANGED <<num, page, dir, area, rd, log, writes>>
    BY DEF Crash, WriterInv
  <1>2. PICK L \in [Int -> Int] : Layout(L)
    BY DEF WriterInv
  <1>3. wr'.pc = "idle"
    BY <1>1 DEF NoWrite
  <1>4. Layout(L)' /\ Written' = Written /\ First' = First
    BY <1>1, <1>2, LayoutStays
  <1>5. WriterType'
    <2>1. wr' \in [pc : {"idle", "body", "slot", "page", "num"}, len : 0 .. MaSize,
                   loc : 0 .. MaSize - 1, k : 0 .. MaSize, rm : 0 .. 1]
      BY <1>1, Constants DEF NoWrite
    <2> QED BY <1>1, <2>1 DEF WriterType
  <1>6. HeaderInv'
    BY <1>1, <1>3, <1>4 DEF HeaderInv
  <1> QED
    BY <1>1, <1>2, <1>3, <1>4, <1>5, <1>6 DEF WriterInv

\* The log after a message is published.
LEMMA LogGrows ==
  ASSUME WriterType, HeaderInv, StoreNum
  PROVE  /\ Written' = Written + 1
         /\ First' = (IF Pushes THEN First + 1 ELSE First)
         /\ num' = [n |-> IF Pushes THEN num.n ELSE num.n + 1, p |-> PtrOf(Written + 1)]
         /\ \A m \in Start .. Written - 1 : Published(m)' = Published(m)
         /\ log'[Written - Start + 1] = [id |-> writes, len |-> wr.len]
  <1> DEFINE x == [id |-> writes, len |-> wr.len]
  <1>1. /\ Written \in Nat /\ First \in Nat /\ num.n \in 0 .. MaxMsgs /\ num.n = Written - First
        /\ MaxMsgs \in Nat /\ Start \in Nat /\ Written = Start + Len(log) /\ Len(log) \in Nat
    BY Counts, Constants DEF Written
  <1>2. num' = [n |-> IF Pushes THEN num.n ELSE num.n + 1, p |-> PtrOf(Written + 1)]
    BY AddedIs DEF StoreNum
  <1>3. log' = Append(log, x)
    BY DEF StoreNum
  <1>4. /\ Len(log') = Len(log) + 1 /\ log'[Len(log) + 1] = x
        /\ \A i \in 1 .. Len(log) : log'[i] = log[i]
    <2>1. log \in Seq([id : 1 .. MaxWrites, len : Lens])
      BY DEF WriterType
    <2> HIDE DEF x
    <2> QED BY <1>3, <2>1
  <1>5. Written' = Written + 1
    <2>1. Written' = Start + Len(log')
      BY <1>1 DEF Written
    <2> HIDE DEF Written
    <2> QED BY <1>1, <1>4, <2>1
  <1>6. First' = IF Pushes THEN First + 1 ELSE First
    <2>1. First' = Written' - num'.n
      BY DEF First
    <2>2. CASE Pushes
      BY <1>1, <1>2, <1>5, <2>1, <2>2
    <2>3. CASE ~ Pushes
      BY <1>1, <1>2, <1>5, <2>1, <2>3
    <2> QED BY <2>2, <2>3
  <1>7. \A m \in Start .. Written - 1 : m - Start + 1 \in 1 .. Len(log)
    BY <1>1
  <1>8. Written - Start + 1 = Len(log) + 1
    BY <1>1
  <1>9. \A m \in Start .. Written - 1 : Published(m)' = Published(m)
    BY <1>4, <1>7 DEF Published
  <1>10. log'[Written - Start + 1] = x
    BY <1>4, <1>8
  <1> QED
    BY <1>2, <1>4, <1>5, <1>6, <1>9, <1>10

LEMMA StoreNumKeeps ==
  ASSUME WriterInv, StoreNum
  PROVE  WriterInv'
  <1>1. /\ WriterType /\ HeaderInv /\ wr.pc = "num" /\ wr' = NoWrite
        /\ UNCHANGED <<page, dir, area, rd, writes>>
        /\ log' = Append(log, [id |-> writes, len |-> wr.len])
    BY DEF StoreNum, WriterInv
  <1>2. PICK L \in [Int -> Int] : Layout(L) /\ Storing(L)
    BY <1>1 DEF WriterInv
  <1> DEFINE top == L[Written - 1]
             new == [id |-> writes, len |-> wr.len]
             f == First'
  <1>3. /\ Written \in Nat /\ First \in Nat /\ num.n \in 0 .. MaxMsgs /\ num.n = Written - First
        /\ MaxMsgs \in Nat \ {0} /\ Start \in Nat /\ Start <= First /\ MaSize \in Nat \ {0}
        /\ MaxWrites \in Nat
    BY <1>1, Counts, Constants DEF HeaderInv
  <1>4. /\ Written' = Written + 1
        /\ First' = (IF Pushes THEN First + 1 ELSE First)
        /\ num' = [n |-> IF Pushes THEN num.n ELSE num.n + 1, p |-> PtrOf(Written + 1)]
        /\ \A m \in Start .. Written - 1 : Published(m)' = Published(m)
        /\ log'[Written - Start + 1] = new
    BY <1>1, LogGrows
  <1>5. /\ wr.len \in Lens /\ wr.len \in 1 .. MaSize /\ writes \in 1 .. MaxWrites
        /\ wr.k = wr.len /\ top + wr.len - L[First - 1] <= MaSize
    <2>1. wr.len \in Lens /\ writes >= 1 /\ writes \in 0 .. MaxWrites
          /\ wr.k = wr.len /\ top + wr.len - L[First - 1] <= MaSize
      BY <1>1, <1>2 DEF Storing, WriterType
    <2>2. writes \in 1 .. MaxWrites
      BY <1>3, <2>1
    <2> QED BY <2>1, <2>2, Constants
  <1>6. top \in Int /\ L[First - 1] \in Int /\ top + wr.len \in Int
    <2>1. Written - 1 \in Int /\ First - 1 \in Int
      BY <1>3
    <2> QED BY <1>5, <2>1
  <1>7. PICK K \in [Int -> Int] :
          K[Written] = top + wr.len /\ \A m \in Int : m # Written => K[m] = L[m]
    <2> DEFINE M == [L EXCEPT ![Written] = top + wr.len]
    <2>1. Written \in Int
      BY <1>3
    <2>2. M \in [Int -> Int] /\ M[Written] = top + wr.len /\ \A m \in Int : m # Written => M[m] = L[m]
      <3> HIDE DEF top
      <3> QED BY <1>6, <2>1
    <2> HIDE DEF M
    <2> QED BY <2>2
  <1>8. /\ f \in Nat /\ f \in First .. First + 1 /\ f - 1 \in First - 1 .. Written
    BY <1>3, <1>4
  <1> HIDE DEF f
  <1>9. \A m \in f - 1 .. Written - 1 :
          /\ m \in First - 1 .. Written - 1 /\ m \in Int /\ K[m] = L[m] /\ L[m] \in Int
    BY <1>3, <1>7, <1>8
  <1>10. Written' - 1 = Written
    BY <1>3, <1>4
  <1>11. \A a \in First - 1 .. Written - 1 : L[a] <= top /\ L[First - 1] <= L[a]
    <2> SUFFICES ASSUME NEW a \in First - 1 .. Written - 1
                 PROVE  L[a] <= top /\ L[First - 1] <= L[a]
      OBVIOUS
    <2>1. a \in Int /\ L[a] \in Int /\ Written - 1 \in First - 1 .. Written - 1
          /\ First - 1 \in First - 1 .. Written - 1
      BY <1>3
    <2>2. a < Written - 1 => L[a] < top
      BY <1>2, <2>1 DEF Layout
    <2>3. First - 1 < a => L[First - 1] < L[a]
      BY <1>2, <2>1 DEF Layout
    <2>4. a < Written - 1 \/ a = Written - 1
      BY <1>3
    <2>5. First - 1 < a \/ a = First - 1
      BY <1>3
    <2> HIDE DEF top
    <2>6. L[a] <= top
      BY <1>6, <2>1, <2>2, <2>4 DEF top
    <2>7. L[First - 1] <= L[a]
      BY <1>6, <2>1, <2>3, <2>5
    <2> QED BY <2>6, <2>7
  <1> HIDE DEF top
  <1>12. \A a, b \in f - 1 .. Written : a < b => K[a] < K[b]
    <2> SUFFICES ASSUME NEW a \in f - 1 .. Written, NEW b \in f - 1 .. Written, a < b
                 PROVE  K[a] < K[b]
      OBVIOUS
    <2>1. a \in f - 1 .. Written - 1
      BY <1>3, <1>8
    <2>2. CASE b = Written
      <3>1. K[a] <= top
        BY <1>9, <1>11, <2>1
      <3>2. K[a] \in Int
        BY <1>9, <2>1
      <3> QED BY <1>5, <1>6, <1>7, <2>2, <3>1, <3>2
    <2>3. CASE b # Written
      <3>1. b \in f - 1 .. Written - 1
        BY <1>3, <1>8, <2>3
      <3>2. L[a] < L[b]
        BY <1>2, <1>9, <2>1, <3>1 DEF Layout
      <3> QED BY <1>9, <2>1, <3>1, <3>2
    <2> QED BY <2>2, <2>3
  <1>13. K[Written] - K[f - 1] <= MaSize
    <2>1. CASE f - 1 = Written
      BY <1>3, <1>5, <1>6, <1>7, <2>1
    <2>2. CASE f - 1 # Written
      <3>1. f - 1 \in f - 1 .. Written - 1
        BY <1>3, <1>8, <2>2
      <3>2. K[f - 1] = L[f - 1] /\ L[f - 1] \in Int /\ L[First - 1] <= L[f - 1]
        BY <1>8, <1>9, <1>11, <3>1
      <3> QED BY <1>3, <1>5, <1>6, <1>7, <3>2
    <2> QED BY <2>1, <2>2
  <1>14. dir[Written % NSlots] = [loc |-> (top + wr.len) % MaSize, id |-> writes]
    BY <1>1, <1>2 DEF Storing, top
  <1>15. \A m \in f - 1 .. Written : Loc(m)' = K[m] % MaSize
    <2> SUFFICES ASSUME NEW m \in f - 1 .. Written PROVE dir[m % NSlots].loc = K[m] % MaSize
      BY <1>1 DEF Loc
    <2>1. CASE m = Written
      BY <1>7, <1>14, <2>1
    <2>2. CASE m # Written
      <3>1. m \in f - 1 .. Written - 1
        BY <1>3, <1>8, <2>2
      <3> QED BY <1>2, <1>9, <3>1 DEF Layout, Loc
    <2> QED BY <2>1, <2>2
  <1>16. ASSUME NEW m \in f .. Written PROVE Whole(K, m)'
    <2>1. m \in Int /\ m - 1 \in f - 1 .. Written - 1
      BY <1>3, <1>8
    <2>2. K[m - 1] = L[m - 1] /\ L[m - 1] \in Int
      BY <1>9, <2>1
    <2>3. CASE m = Written
      <3>1. Published(m)' = new
        BY <1>4, <2>3 DEF Published
      <3>2. K[m - 1] = top
        BY <2>2, <2>3 DEF top
      <3>3. K[m] - K[m - 1] = wr.len
        BY <1>5, <1>6, <1>7, <2>3, <3>2
      <3>4. \A k \in 0 .. wr.len - 1 : area[(top + k) % MaSize] = <<writes, k>>
        BY <1>2, <1>5 DEF Storing, top
      <3>5. dir[m % NSlots].id = writes
        BY <1>14, <2>3
      <3>6. Published(m)'.len = wr.len /\ Published(m)'.id = writes
        BY <3>1
      <3> QED BY <1>1, <3>2, <3>3, <3>4, <3>5, <3>6 DEF Whole
    <2>4. CASE m # Written
      <3>1. m \in First .. Written - 1 /\ m \in Start .. Written - 1
            /\ m \in f - 1 .. Written - 1
        BY <1>3, <1>8, <2>4
      <3>2. Whole(L, m) /\ Published(m)' = Published(m)
        BY <1>2, <1>4, <3>1 DEF Layout
      <3>3. K[m] = L[m]
        BY <1>9, <3>1
      <3> QED BY <1>1, <2>2, <3>2, <3>3 DEF Whole
    <2> QED BY <2>3, <2>4
  <1>17. Layout(K)'
    BY <1>10, <1>12, <1>13, <1>15, <1>16 DEF Layout, f
  <1>18. wr'.pc = "idle"
    BY <1>1 DEF NoWrite
  <1>19. HeaderInv'
    <2>1. num'.p = PtrOf(Written')
      BY <1>4
    <2>2. Start <= First'
      BY <1>3, <1>8 DEF f
    <2>3. page' = PageOf(Written')
      BY <1>1, <1>4 DEF HeaderInv
    <2> QED BY <1>18, <2>1, <2>2, <2>3 DEF HeaderInv
  <1>20. WriterType'
    <2>1. num' \in NumPt
      <3>1. PtrOf(Written + 1) \in 0 .. PtrRange - 1
        <4>1. Written + 1 \in Int
          BY <1>3
        <4> QED BY <4>1, Split
      <3>2. (IF Pushes THEN num.n ELSE num.n + 1) \in 0 .. MaxMsgs
        BY <1>3 DEF Pushes
      <3> QED BY <1>4, <3>1, <3>2 DEF NumPt
    <2>2. wr' \in [pc : {"idle", "body", "slot", "page", "num"}, len : 0 .. MaSize,
                   loc : 0 .. MaSize - 1, k : 0 .. MaSize, rm : 0 .. 1]
      BY <1>1, <1>3 DEF NoWrite
    <2>3. log' \in Seq([id : 1 .. MaxWrites, len : Lens])
      <3> DEFINE S == [id : 1 .. MaxWrites, len : Lens]
      <3>1. log \in Seq(S) /\ new \in S /\ log' = Append(log, new)
        BY <1>1, <1>5 DEF WriterType
      <3> HIDE DEF S, new
      <3>2. log' \in Seq(S)
        BY <3>1
      <3> QED BY <3>2 DEF S
    <2> QED BY <1>1, <2>1, <2>2, <2>3 DEF WriterType
  <1> QED
    BY <1>1, <1>7, <1>17, <1>18, <1>19, <1>20 DEF WriterInv

LEMMA StutterKeeps ==
  ASSUME WriterInv, UNCHANGED wvars
  PROVE  WriterInv'
  <1>1. /\ WriterType /\ HeaderInv /\ (wr.pc = "idle" => wr = NoWrite)
        /\ UNCHANGED <<num, page, dir, area, wr, log, writes>>
    BY DEF WriterInv, wvars
  <1>2. PICK L \in [Int -> Int] : Layout(L) /\ (wr.pc # "idle" => Storing(L))
    BY DEF WriterInv
  <1>3. Layout(L)' /\ Written' = Written /\ First' = First
    BY <1>1, <1>2, LayoutStays
  <1>4. wr'.pc # "idle" => Storing(L)'
    BY <1>1, <1>2, <1>3 DEF Storing
  <1>5. WriterType'
    BY <1>1 DEF WriterType
  <1>6. HeaderInv'
    BY <1>1, <1>3 DEF HeaderInv
  <1> QED
    BY <1>1, <1>2, <1>3, <1>4, <1>5, <1>6 DEF WriterInv

\* Readers change no shared memory, and only their own descriptor.
LEMMA ReadersOnlyRead ==
  ASSUME NEW r \in Readers, Read(r) \/ SeekCall(r)
  PROVE  UNCHANGED wvars
  BY DEF Read, SeekCall, BeginRead, LoadNum, LoadPage, LoadPrev, LoadCurr, CheckAgain,
         LoadUnit, BeginSeek, EndSeek, EndRead, Set

LEMMA WriterStep == WriterInv /\ [Next]_vars => WriterInv'
  <1> SUFFICES ASSUME WriterInv, [Next]_vars PROVE WriterInv'
    OBVIOUS
  <1>1. CASE Write
    BY <1>1, BeginWriteKeeps, StoreUnitKeeps, StoreSlotKeeps, StorePageKeeps, StoreNumKeeps
       DEF Write
  <1>2. CASE \E k \in 1 .. MaxMsgs : Clear(k)
    BY <1>2, ClearKeeps
  <1>3. CASE Crash
    BY <1>3, CrashKeeps
  <1>4. CASE \E r \in Readers : Read(r) \/ SeekCall(r)
    BY <1>4, ReadersOnlyRead, StutterKeeps
  <1>5. CASE UNCHANGED vars
    BY <1>5, StutterKeeps DEF vars, wvars
  <1> QED
    BY <1>1, <1>2, <1>3, <1>4, <1>5 DEF Next

(***************************************************************************)
(* Whatever writers do, die of, or clear, the directory and the message     *)
(* area describe whole messages laid one behind the other.                  *)
(***************************************************************************)
THEOREM WriterCorrect == Spec => []WriterInv
  BY WriterInit, WriterStep, PTL DEF Spec

LEMMA WholeIsIntact ==
  ASSUME WriterInv
  PROVE  StoredIntact
  <1>1. WriterType /\ HeaderInv
    BY DEF WriterInv
  <1>2. PICK L \in [Int -> Int] : Layout(L)
    BY DEF WriterInv
  <1> SUFFICES ASSUME NEW i \in 1 .. num.n
               PROVE  LET pt  == Oldest(i)
                          msg == Published(First + i - 1)
                      IN  /\ dir[Slot(pt)].id = msg.id
                          /\ DirLen(pt) = msg.len
                          /\ [k \in 1 .. msg.len |->
                                area[(dir[Slot(PrevPtr(pt))].loc + k - 1) % MaSize]]
                               = Content(msg, msg.len)
    BY DEF StoredIntact
  <1> DEFINE m == First + i - 1
             msg == Published(m)
             pt == Oldest(i)
  <1>3. /\ m \in First .. Written - 1 /\ m \in Int /\ i \in Int /\ m - 1 = First + i - 2
        /\ m - 1 \in First - 1 .. Written - 1 /\ m \in Start .. Written - 1
        /\ MaSize \in Nat \ {0}
    <2>1. /\ Written \in Nat /\ First \in Nat /\ num.n \in Nat /\ num.n = Written - First
          /\ Start \in Nat /\ Start <= First /\ MaSize \in Nat \ {0}
      BY <1>1, Counts, Constants DEF HeaderInv
    <2> QED BY <2>1
  <1>4. Slot(pt) = m % NSlots /\ Slot(PrevPtr(pt)) = (m - 1) % NSlots
    BY <1>1, <1>3, OldestIs
  <1> HIDE DEF m, pt
  <1>5. Whole(L, m)
    BY <1>2, <1>3 DEF Layout
  <1>6. dir[Slot(pt)].id = msg.id
    BY <1>4, <1>5 DEF Whole
  <1>7. DirLen(pt) = msg.len
    <2>1. L[m] - L[m - 1] = LET d == Loc(m) - Loc(m - 1) IN IF d <= 0 THEN d + MaSize ELSE d
      BY <1>1, <1>2, <1>3, LengthIs
    <2> QED BY <1>4, <1>5, <2>1 DEF DirLen, Loc, Whole
  <1>8. dir[Slot(PrevPtr(pt))].loc = L[m - 1] % MaSize
    BY <1>2, <1>3, <1>4 DEF Layout, Loc
  <1>9. msg.len \in Nat
    BY <1>1, <1>3, PublishedType, Constants
  <1>10. ASSUME NEW k \in 1 .. msg.len
         PROVE  area[(dir[Slot(PrevPtr(pt))].loc + k - 1) % MaSize] = <<msg.id, k - 1>>
    <2> DEFINE a == L[m - 1]
               j == k - 1
    <2>1. a \in Int /\ j \in Int /\ j \in 0 .. msg.len - 1 /\ k \in Int
      BY <1>3, <1>9
    <2>2. ((a % MaSize) + j) % MaSize = (a + j) % MaSize
      <3> HIDE DEF a, j
      <3> QED BY <1>3, <2>1, ModAdd
    <2>3. (a % MaSize) + j = (a % MaSize) + k - 1
      <3>1. a % MaSize \in Int
        BY <1>3, <2>1, DivMod
      <3> HIDE DEF a
      <3> QED BY <2>1, <3>1
    <2>4. area[(a + j) % MaSize] = <<msg.id, j>>
      BY <1>5, <2>1 DEF Whole
    <2> QED BY <1>8, <2>2, <2>3, <2>4
  <1> QED
    BY <1>6, <1>7, <1>10 DEF Content, m, pt

(***************************************************************************)
(* Every available message is whole in the buffer at any instant, for every *)
(* size of the directory, of the message area and of the messages, and      *)
(* whatever step of LB_write a writer died in.                              *)
(***************************************************************************)
THEOREM StoredIntactCorrect == Spec => []StoredIntact
  BY WriterCorrect, WholeIsIntact, PTL

--------------------------------------------------------------------------------
(* The readers' inductive invariant *)

\* Units of a message that a caller's buffer takes.
Fit(len) == IF len > BufLen THEN BufLen ELSE len

\* An answer with data, given when the read pointer moved on to m.
AnswerRight(m, a) ==
  a.kind \in {"message", "cut"} =>
    LET msg == Published(m - 1)
    IN  /\ m - 1 \in Start .. Written - 1
        /\ a.id = msg.id /\ a.len = msg.len
        /\ a.buf = Content(msg, Fit(msg.len))

\* The steps of a read after the first check, before and after the second, and
\* those that look at the page.
Located == {"prev", "curr", "same2", "num2", "page2"}
Copying == {"body", "same3", "num3", "page3"}
Deciding == {"page1", "page2", "page3", "seek"}

\* What was loaded so far is of the message the reader stands for.
Right(d) ==
  LET msg == Published(d.m)
  IN  /\ d.pc # "prev" => d.id = msg.id
      /\ d.pc \notin {"prev", "curr"} => d.len = msg.len
      /\ d.buf = Content(msg, Len(d.buf))
      /\ d.pc = "body" => Len(d.buf) < Fit(msg.len)
      /\ d.pc \in {"same3", "num3", "page3"} => Len(d.buf) = Fit(msg.len)

(***************************************************************************)
(* The packed word loaded last is that of an instant within the call, when  *)
(* w messages were published. A repeated check finds "available" only what  *)
(* was available when the packed word was loaded, after the data.           *)
(***************************************************************************)
Seen(d, w) ==
  /\ d.cnum.p = PtrOf(w)
  /\ d.expired <= w - d.cnum.n /\ w - d.cnum.n <= First
  /\ d.pc = "seek" => w = d.published /\ w - d.cnum.n = d.expired
  /\ d.pc \in {"page2", "page3"} => d.m < w /\ (d.m >= w - d.cnum.n => Right(d))

\* What a call remembers of its beginning.
Began(d) ==
  /\ d.answer = NoAnswer
  /\ d.published \in Start .. Written /\ Written - d.published <= MaxLead
  /\ d.expired \in Start .. d.published /\ d.expired <= First
  /\ d.pc # "seek" => d.num0 = [n |-> d.published - d.expired, p |-> PtrOf(d.published)]

\* While the message has not expired, what was loaded of it is right.
Holds(d) ==
  /\ d.expired <= d.m /\ d.m < Written
  /\ d.m >= First => Right(d) /\ (d.pc # "prev" => d.loc = Loc(d.m - 1))

ReaderInv(d) ==
  /\ d.m \in Start .. Written /\ d.rpt = PtrOf(d.m) /\ d.rpage = PageOf(d.m)
  /\ AnswerRight(d.m, d.answer)
  /\ d.pc # "idle" => Began(d)
  /\ d.pc \in Deciding => \E w \in d.published .. Written : Seen(d, w)
  /\ d.pc \in Located \cup Copying => Holds(d)
  /\ d.pc \notin Copying => d.buf = <<>>

ReadersInv ==
  /\ rd \in [Readers -> ReaderType]
  /\ \A r \in Readers : ReaderInv(rd[r])

--------------------------------------------------------------------------------
(* Steps of writers *)

\* A writer's step neither takes back what was published nor touches what a
\* reader of an available message looks at.
Grows ==
  /\ Written' >= Written /\ First' >= First
  /\ \A m \in Start .. Written - 1 : Published(m)' = Published(m)
  /\ \A m \in First' .. Written - 1 : Loc(m - 1)' = Loc(m - 1)

LEMMA WriterGrows ==
  ASSUME WriterInv, Write \/ (\E k \in 1 .. MaxMsgs : Clear(k)) \/ Crash \/ UNCHANGED wvars
  PROVE  Grows
  <1>1. WriterType /\ HeaderInv
    BY DEF WriterInv
  <1>2. /\ Written \in Nat /\ First \in Nat /\ num.n \in 0 .. MaxMsgs /\ num.n = Written - First
        /\ MaxMsgs \in Nat /\ Start \in Nat /\ Start <= First
        /\ dir \in [0 .. NSlots - 1 -> [loc : 0 .. MaSize - 1, id : 0 .. MaxWrites]]
    BY <1>1, Counts, Constants DEF WriterType, HeaderInv
  <1>3. ASSUME log' = log
        PROVE  Written' = Written /\ \A m \in Start .. Written - 1 : Published(m)' = Published(m)
    BY <1>3 DEF Written, Published
  <1>4. ASSUME UNCHANGED <<num, log>>
        PROVE  First' = First
    BY <1>4 DEF First, Written
  <1>5. ASSUME UNCHANGED <<num, log, dir>>
        PROVE  Grows
    BY <1>2, <1>3, <1>4, <1>5 DEF Grows, Loc
  <1>6. ASSUME NEW k \in 0 .. num.n, num' = [n |-> num.n - k, p |-> num.p], log' = log
        PROVE  First' = First + k
    <2>1. Written' = Written
      BY <1>3, <1>6
    <2>2. num'.n = num.n - k
      BY <1>6
    <2> QED BY <1>2, <2>1, <2>2 DEF First
  <1>7. ASSUME NEW len \in Lens, BeginWrite(len)
        PROVE  Grows
    <2>1. log' = log
      BY <1>7 DEF BeginWrite
    <2>2. PICK c \in 0 .. num.n : num' = IF c > 0 THEN UpdatedNum(num, 0, c) ELSE num
      BY <1>7 DEF BeginWrite
    <2>3. First' >= First /\ First' \in Nat /\ First' <= Written
      <3>1. CASE c > 0
        <4>1. num' = [n |-> num.n - c, p |-> num.p]
          BY <1>1, <2>2, <3>1, RemovedIs
        <4>2. First' = First + c
          BY <1>6, <2>1, <4>1
        <4> QED BY <1>2, <4>2
      <3>2. CASE ~ (c > 0)
        <4>1. First' = First
          BY <1>4, <2>1, <2>2, <3>2
        <4> QED BY <1>2, <4>1
      <3> QED BY <3>1, <3>2
    <2>4. CASE num.n = 0
      <3>1. First' .. Written - 1 = {}
        <4> DEFINE f == First'
        <4>1. f \in Nat /\ f >= Written
          BY <1>2, <2>3, <2>4
        <4> HIDE DEF f
        <4>2. f .. Written - 1 = {}
          BY <1>2, <4>1
        <4> QED BY <4>2 DEF f
      <3> QED BY <1>2, <1>3, <2>1, <2>3, <3>1 DEF Grows
    <2>5. CASE num.n # 0
      <3>1. dir' = dir
        BY <1>7, <2>5 DEF BeginWrite
      <3> QED BY <1>2, <1>3, <2>1, <2>3, <3>1 DEF Grows, Loc
    <2> QED BY <2>4, <2>5
  <1>8. CASE StoreUnit
    BY <1>5, <1>8 DEF StoreUnit
  <1>9. CASE StoreSlot
    <2> DEFINE s == Written % NSlots
    <2>1. UNCHANGED <<num, log>> /\ \A t \in 0 .. NSlots - 1 : t # s => dir'[t] = dir[t]
      <3>1. UNCHANGED <<num, log>>
            /\ dir' = [dir EXCEPT ![s] = [loc |-> (wr.loc + wr.len) % MaSize, id |-> writes]]
        BY <1>1, <1>9, NextSlots DEF StoreSlot
      <3> HIDE DEF s
      <3> QED BY <1>2, <3>1
    <2>2. First' = First /\ Written' = Written
      BY <1>3, <1>4, <2>1
    <2>3. ASSUME NEW m \in First .. Written - 1 PROVE Loc(m - 1)' = Loc(m - 1)
      <3>1. m - 1 \in Int /\ m - 1 < Written /\ Written - (m - 1) <= MaxMsgs + 3 /\ Written \in Int
        BY <1>2
      <3>2. (m - 1) % NSlots # s
        <4> DEFINE l == m - 1
        <4>1. l % NSlots # Written % NSlots
          <5> HIDE DEF l
          <5> QED BY <3>1, SlotsDiffer DEF l
        <4> QED BY <4>1
      <3>3. (m - 1) % NSlots \in 0 .. NSlots - 1
        BY <3>1, SlotRange
      <3> QED BY <2>1, <3>2, <3>3 DEF Loc
    <2> QED BY <1>2, <1>3, <2>1, <2>2, <2>3 DEF Grows
  <1>10. CASE StorePage
    BY <1>5, <1>10 DEF StorePage
  <1>11. CASE StoreNum
    <2>1. dir' = dir
      BY <1>11 DEF StoreNum
    <2>2. /\ Written' = Written + 1
          /\ First' = (IF Pushes THEN First + 1 ELSE First)
          /\ \A m \in Start .. Written - 1 : Published(m)' = Published(m)
      BY <1>1, <1>11, LogGrows
    <2>3. Written' >= Written /\ First' >= First
      BY <1>2, <2>2
    <2> QED BY <2>1, <2>2, <2>3 DEF Grows, Loc
  <1>12. ASSUME NEW k \in 1 .. MaxMsgs, Clear(k)
         PROVE  Grows
    <2>1. k \in 0 .. num.n /\ UNCHANGED <<dir, log>> /\ num' = UpdatedNum(num, 0, k)
      BY <1>2, <1>12 DEF Clear
    <2>2. num' = [n |-> num.n - k, p |-> num.p]
      BY <1>1, <2>1, RemovedIs
    <2>3. First' = First + k
      BY <1>6, <2>1, <2>2
    <2>4. First' >= First
      BY <1>2, <2>3
    <2> QED BY <1>2, <1>3, <2>1, <2>4 DEF Grows, Loc
  <1>13. CASE Crash
    BY <1>5, <1>13 DEF Crash
  <1>14. CASE UNCHANGED wvars
    BY <1>5, <1>14 DEF wvars
  <1> QED
    BY <1>7, <1>8, <1>9, <1>10, <1>11, <1>12, <1>13, <1>14 DEF Write

\* A reader's part of the invariant outlives such a step, unless it is overtaken.
LEMMA ReaderStays ==
  ASSUME WriterInv, NEW d \in ReaderType, ReaderInv(d), Grows, Written' \in Nat, First' \in Nat,
         d.pc # "idle" => Written' - d.published <= MaxLead
  PROVE  ReaderInv(d)'
  <1>1. /\ Written \in Nat /\ First \in Nat /\ Start \in Nat /\ Start <= First
    BY Counts, Constants DEF WriterInv, HeaderInv
  <1>2. /\ Written' >= Written /\ First' >= First
        /\ \A m \in Start .. Written - 1 : Published(m)' = Published(m)
        /\ \A m \in First' .. Written - 1 : Loc(m - 1)' = Loc(m - 1)
    BY DEF Grows
  <1>3. /\ d.m \in Start .. Written /\ d.rpt = PtrOf(d.m) /\ d.rpage = PageOf(d.m)
        /\ AnswerRight(d.m, d.answer)
        /\ (d.pc # "idle" => Began(d))
        /\ (d.pc \in Deciding => \E w \in d.published .. Written : Seen(d, w))
        /\ (d.pc \in Located \cup Copying => Holds(d))
        /\ (d.pc \notin Copying => d.buf = <<>>)
    BY DEF ReaderInv
  <1>4. d.m \in Start .. Written'
    BY <1>1, <1>2, <1>3
  <1>5. AnswerRight(d.m, d.answer)'
    <2> SUFFICES ASSUME d.answer.kind \in {"message", "cut"}
                 PROVE  AnswerRight(d.m, d.answer)'
      BY DEF AnswerRight
    <2>1. d.m - 1 \in Start .. Written - 1 /\ Published(d.m - 1)' = Published(d.m - 1)
      BY <1>2, <1>3 DEF AnswerRight
    <2>2. d.m - 1 \in Start .. Written' - 1
      BY <1>1, <1>2, <2>1
    <2> QED BY <1>3, <2>1, <2>2 DEF AnswerRight
  <1>6. d.pc # "idle" => Began(d)'
    <2> SUFFICES ASSUME d.pc # "idle" PROVE Began(d)'
      OBVIOUS
    <2>1. Began(d)
      BY <1>3
    <2>2. d.published \in Start .. Written' /\ d.expired <= First'
      BY <1>1, <1>2, <2>1 DEF Began
    <2> QED BY <2>1, <2>2 DEF Began
  <1>7. ASSUME d.m \in Start .. Written - 1, Right(d) PROVE Right(d)'
    <2>1. Published(d.m)' = Published(d.m)
      BY <1>2, <1>7
    <2> QED BY <1>7, <2>1 DEF Right
  <1>8. d.pc \in Deciding => \E w \in d.published .. Written' : Seen(d, w)'
    <2> SUFFICES ASSUME d.pc \in Deciding PROVE \E w \in d.published .. Written' : Seen(d, w)'
      OBVIOUS
    <2>1. PICK w \in d.published .. Written : Seen(d, w)
      BY <1>3
    <2>2. d.published \in Int /\ d.cnum.n \in Int
      BY Constants DEF ReaderType, NumPt
    <2>3. w \in d.published .. Written' /\ w \in Int
      BY <1>1, <1>2, <2>2
    <2>4. w - d.cnum.n <= First'
      BY <1>1, <1>2, <2>1, <2>2, <2>3 DEF Seen
    <2>5. d.pc \in {"page2", "page3"} => d.m < w /\ (d.m >= w - d.cnum.n => Right(d)')
      <3> SUFFICES ASSUME d.pc \in {"page2", "page3"}
                   PROVE  d.m < w /\ (d.m >= w - d.cnum.n => Right(d)')
        OBVIOUS
      <3>1. d.m < w /\ (d.m >= w - d.cnum.n => Right(d))
        BY <2>1 DEF Seen
      <3>2. d.m \in Start .. Written - 1
        BY <1>1, <1>3, <2>3, <3>1
      <3> QED BY <1>7, <3>1, <3>2
    <2>6. Seen(d, w)'
      BY <2>1, <2>4, <2>5 DEF Seen
    <2> QED BY <2>3, <2>6
  <1>9. d.pc \in Located \cup Copying => Holds(d)'
    <2> SUFFICES ASSUME d.pc \in Located \cup Copying PROVE Holds(d)'
      OBVIOUS
    <2>1. /\ d.expired <= d.m /\ d.m < Written
          /\ (d.m >= First => Right(d) /\ (d.pc # "prev" => d.loc = Loc(d.m - 1)))
      BY <1>3 DEF Holds
    <2>2. d.m < Written'
      BY <1>1, <1>2, <1>3, <2>1
    <2>3. ASSUME d.m >= First'
          PROVE  Right(d)' /\ (d.pc # "prev" => d.loc = Loc(d.m - 1)')
      <3>1. d.m >= First /\ d.m \in First' .. Written - 1 /\ d.m \in Start .. Written - 1
        <4> DEFINE f == First'
        <4>1. f \in Nat /\ f >= First /\ d.m >= f
          BY <1>2, <2>3
        <4> HIDE DEF f
        <4>2. d.m >= First /\ d.m \in f .. Written - 1 /\ d.m \in Start .. Written - 1
          BY <1>1, <1>3, <2>1, <4>1
        <4> QED BY <4>2 DEF f
      <3> QED BY <1>2, <1>7, <2>1, <3>1
    <2>4. d.m >= First' => Right(d)' /\ (d.pc # "prev" => d.loc = Loc(d.m - 1)')
      BY <2>3
    <2> QED BY <2>1, <2>2, <2>4 DEF Holds, Loc
  <1> QED
    BY <1>3, <1>4, <1>5, <1>6, <1>8, <1>9 DEF ReaderInv

\* Writers keep the readers' invariant.
LEMMA WritersKeepReaders ==
  ASSUME WriterInv, WriterInv', ReadersInv,
         Write \/ (\E k \in 1 .. MaxMsgs : Clear(k)) \/ Crash \/ UNCHANGED vars
  PROVE  ReadersInv'
  <1>1. Grows
    BY WriterGrows DEF vars, wvars
  <1>2. rd' = rd
    BY DEF Write, BeginWrite, StoreUnit, StoreSlot, StorePage, StoreNum, Clear, Crash, vars
  <1>3. /\ Written \in Nat /\ MaxLead \in Nat
        /\ WriterType /\ HeaderInv
    BY Counts, Constants DEF WriterInv
  <1>4. Written' \in Nat /\ First' \in Nat
    <2>1. WriterType' /\ HeaderInv'
      BY DEF WriterInv
    <2>2. Len(log') \in Nat /\ num'.n \in Nat /\ Start <= First'
      BY <2>1, Constants DEF WriterType, NumPt, HeaderInv
    <2>3. Written' \in Nat
      BY <2>2, Constants DEF Written
    <2>4. First' \in Int
      BY <2>2, <2>3 DEF First
    <2> QED BY <2>2, <2>3, <2>4, Constants
  <1>5. ASSUME NEW r \in Readers, rd[r].pc # "idle"
        PROVE  Written' - rd[r].published <= MaxLead
    <2>1. Began(rd[r])
      BY <1>5 DEF ReadersInv, ReaderInv
    <2>2. rd[r].published \in Int /\ Written - rd[r].published <= MaxLead
      BY <1>3, <2>1, Constants DEF Began
    <2>3. CASE StoreNum
      <3>1. Written' = Written + 1
        BY <1>3, <2>3, LogGrows
      <3>2. Written - rd[r].published < MaxLead
        BY <1>5, <2>3 DEF StoreNum, NotOvertaken
      <3> QED BY <1>3, <2>2, <3>1, <3>2
    <2>4. CASE ~ StoreNum
      <3>1. log' = log
        BY <2>4 DEF Write, BeginWrite, StoreUnit, StoreSlot, StorePage, Clear, Crash, vars
      <3> QED BY <2>2, <3>1 DEF Written
    <2> QED BY <2>3, <2>4
  <1>6. ASSUME NEW r \in Readers PROVE ReaderInv(rd[r])'
    <2> DEFINE d == rd[r]
    <2>1. d \in ReaderType /\ ReaderInv(d) /\ d' = d
      BY <1>2 DEF ReadersInv
    <2>2. d.pc # "idle" => Written' - d.published <= MaxLead
      BY <1>5
    <2>3. \A e \in ReaderType : ReaderInv(e) /\ (e.pc # "idle" => Written' - e.published <= MaxLead)
                                  => ReaderInv(e)'
      BY <1>1, <1>4, ReaderStays
    <2> QED BY <2>1, <2>2, <2>3
  <1> QED
    BY <1>2, <1>6 DEF ReadersInv

--------------------------------------------------------------------------------
(* Steps of readers *)

\* A reader's step changes its own descriptor only.
LEMMA SetKeeps ==
  ASSUME WriterInv, ReadersInv, NEW r \in Readers, NEW rec \in ReaderType, Set(r, rec),
         ReaderInv(rec)
  PROVE  ReadersInv'
  <1>1. rd' = [rd EXCEPT ![r] = rec] /\ UNCHANGED wvars /\ rd \in [Readers -> ReaderType]
    BY DEF Set, ReadersInv
  <1>2. rd' \in [Readers -> ReaderType]
    BY <1>1
  <1>3. Grows /\ Written' = Written /\ First' = First
    <2>1. UNCHANGED <<num, page, dir, area, wr, log, writes>>
      BY <1>1 DEF wvars
    <2>2. Written' = Written /\ First' = First
      BY <2>1 DEF Written, First
    <2> QED BY <1>1, <2>2, WriterGrows
  <1>4. Written \in Nat /\ First \in Nat
    BY Counts DEF WriterInv
  <1>5. ASSUME NEW d \in ReaderType, ReaderInv(d) PROVE ReaderInv(d)'
    <2>1. d.pc # "idle" => Written - d.published <= MaxLead
      BY <1>5 DEF ReaderInv, Began
    <2> QED BY <1>3, <1>4, <1>5, <2>1, ReaderStays
  <1>6. ASSUME NEW q \in Readers PROVE ReaderInv(rd[q])'
    <2>1. rd'[q] \in ReaderType
      BY <1>2
    <2>2. ReaderInv(rd'[q])
      BY <1>1 DEF ReadersInv
    <2> DEFINE e == rd'[q]
    <2>3. \A d \in ReaderType : ReaderInv(d) => ReaderInv(d)'
      BY <1>5
    <2>4. e \in ReaderType /\ ReaderInv(e)
      BY <2>1, <2>2
    <2> QED BY <2>3, <2>4
  <1> QED
    BY <1>2, <1>6 DEF ReadersInv

\* The end of a call leaves the reader at a message with a right answer.
LEMMA AtRestRight ==
  ASSUME WriterInv, NEW m \in Start .. Written, NEW a \in AnswerType, AnswerRight(m, a)
  PROVE  /\ AtRest(PtrOf(m), PageOf(m), m, a) \in ReaderType
         /\ ReaderInv(AtRest(PtrOf(m), PageOf(m), m, a))
  <1> DEFINE d == AtRest(PtrOf(m), PageOf(m), m, a)
  <1>1. m \in Int /\ PtrOf(m) \in 0 .. PtrRange - 1 /\ PageOf(m) \in Int
    <2>1. m \in Int
      BY Constants
    <2> QED BY <2>1, Split
  <1>2. [n |-> 0, p |-> 0] \in NumPt /\ 0 \in 0 .. MaxWrites /\ 0 \in 0 .. MaSize
        /\ 0 \in 0 .. MaSize - 1 /\ 0 \in Nat /\ 0 \in Int /\ <<>> \in Seq(Unit)
    BY Constants DEF NumPt
  <1>3. d \in ReaderType
    BY <1>1, <1>2 DEF AtRest, ReaderType
  <1>4. d.m = m /\ d.rpt = PtrOf(m) /\ d.rpage = PageOf(m) /\ d.answer = a /\ d.pc = "idle"
        /\ d.buf = <<>>
    BY DEF AtRest
  <1> HIDE DEF d
  <1>5. ReaderInv(d)
    BY <1>4 DEF ReaderInv, Deciding, Located, Copying
  <1> QED
    BY <1>3, <1>5 DEF d

\* The pointer and the page of the message after the reader's.
LEMMA MovedOn ==
  ASSUME NEW m \in Int
  PROVE  /\ (PtrOf(m) + 1) % PtrRange = PtrOf(m + 1)
         /\ CorrectedPage((PtrOf(m) + 1) % PtrRange, PageOf(m)) = PageOf(m + 1)
  <1> DEFINE v == m + 1
  <1>1. (PtrOf(m) + 1) % PtrRange = PtrOf(v)
    BY Neighbours
  <1>2. v \in Int /\ v - m \in 0 .. PageSize
    BY Constants
  <1>3. PageOf(v) - PageOf(m) \in 0 .. 1 /\ PageOf(m) \in Int /\ PageOf(v) \in Int
    <2> HIDE DEF v
    <2> QED BY <1>2, NearPages, Split
  <1>4. PageOf(m) - PageOf(v) \in -2 .. 1
    BY <1>3
  <1>5. CorrectedPage(PtrOf(v), PageOf(m)) = PageOf(v)
    <2> DEFINE ref == PageOf(m)
    <2> HIDE DEF v, ref
    <2>1. ref \in Int /\ ref - PageOf(v) \in -2 .. 1
      BY <1>3, <1>4 DEF ref
    <2> QED BY <1>2, <2>1, Corrected DEF ref
  <1> QED
    BY <1>1, <1>5

\* The end of a read: the answer moves the read pointer on, unless "to come".
LEMMA EndReadKeeps ==
  ASSUME WriterInv, ReadersInv, NEW r \in Readers, NEW a \in AnswerType, EndRead(r, a),
         a.kind # "toCome" => rd[r].m < Written /\ AnswerRight(rd[r].m + 1, a)
  PROVE  ReadersInv'
  <1> DEFINE m == rd[r].m
  <1>1. /\ rd[r] \in ReaderType /\ ReaderInv(rd[r]) /\ m \in Start .. Written /\ m \in Int
        /\ rd[r].rpt = PtrOf(m) /\ rd[r].rpage = PageOf(m) /\ Written \in Nat
    <2>1. rd[r] \in ReaderType /\ ReaderInv(rd[r])
      BY DEF ReadersInv
    <2>2. Written \in Nat /\ Start \in Nat
      BY Counts, Constants DEF WriterInv
    <2>3. m \in Start .. Written /\ rd[r].rpt = PtrOf(m) /\ rd[r].rpage = PageOf(m)
      BY <2>1 DEF ReaderInv
    <2> QED BY <2>1, <2>2, <2>3
  <1>2. CASE a.kind = "toCome"
    <2>1. Set(r, AtRest(PtrOf(m), PageOf(m), m, a))
      BY <1>1, <1>2 DEF EndRead
    <2>2. AnswerRight(m, a)
      BY <1>2 DEF AnswerRight
    <2> DEFINE rec == AtRest(PtrOf(m), PageOf(m), m, a)
    <2>3. rec \in ReaderType /\ ReaderInv(rec) /\ Set(r, rec)
      <3> HIDE DEF m
      <3> QED BY <1>1, <2>1, <2>2, AtRestRight
    <2> HIDE DEF rec
    <2> QED BY <2>3, SetKeeps
  <1>3. CASE a.kind # "toCome"
    <2> DEFINE v == m + 1
               rec == AtRest(PtrOf(v), PageOf(v), v, a)
    <2>1. Set(r, AtRest(PtrOf(v), PageOf(v), v, a))
      BY <1>1, <1>3, MovedOn DEF EndRead
    <2>2. v \in Start .. Written /\ AnswerRight(v, a)
      BY <1>1, <1>3, Constants
    <2>3. rec \in ReaderType /\ ReaderInv(rec) /\ Set(r, rec)
      <3> HIDE DEF v
      <3> QED BY <2>1, <2>2, AtRestRight
    <2> HIDE DEF rec
    <2> QED BY <2>3, SetKeeps
  <1> QED
    BY <1>2, <1>3

\* LB_Check_pointer, with a page loaded after the packed word of an earlier
\* instant of the call, is right about that instant.
LEMMA Verdict ==
  ASSUME WriterInv, NEW d \in ReaderType, ReaderInv(d), d.pc # "idle",
         NEW w \in d.published .. Written, Seen(d, w)
  PROVE  /\ CheckPointer(d.cnum, page, d.rpt, d.rpage)
              = IF d.m >= w THEN "toCome" ELSE IF d.m >= w - d.cnum.n THEN "ok" ELSE "expired"
         /\ CorrectedPage(d.cnum.p, page) = PageOf(w)
  <1>1. /\ d.m \in Nat /\ d.rpt = PtrOf(d.m) /\ d.rpage = PageOf(d.m) /\ Written \in Nat
        /\ Start \in Nat
        /\ d.published \in Nat /\ Written - d.published <= MaxLead /\ w \in Nat /\ w <= Written
        /\ MaxLead \in Nat /\ MaxLead < PageSize /\ PageSize \in Nat \ {0}
    <2>1. Written \in Nat /\ Start \in Nat /\ MaxLead \in Nat /\ MaxLead < PageSize
          /\ PageSize \in Nat \ {0}
      BY Counts, Constants DEF WriterInv
    <2>2. d.m \in Start .. Written /\ d.rpt = PtrOf(d.m) /\ d.rpage = PageOf(d.m)
          /\ d.published \in Start .. Written /\ Written - d.published <= MaxLead
      BY DEF ReaderInv, Began
    <2> QED BY <2>1, <2>2
  <1>2. d.cnum = [n |-> d.cnum.n, p |-> PtrOf(w)] /\ d.cnum.n \in 0 .. MaxMsgs
    BY DEF ReaderType, NumPt, Seen
  <1>3. page \in Int /\ page - PageOf(w) \in -2 .. 1
    <2> DEFINE x == Written
               y == Written + 1
    <2>1. x \in Int /\ y \in Int /\ w \in Int /\ x - w \in 0 .. PageSize /\ y - w \in 0 .. PageSize
      BY <1>1
    <2>2. PageOf(x) - PageOf(w) \in 0 .. 1 /\ PageOf(y) - PageOf(w) \in 0 .. 1
          /\ PageOf(x) \in Int /\ PageOf(y) \in Int /\ PageOf(w) \in Int
      <3> HIDE DEF x, y
      <3> QED BY <2>1, NearPages, Split
    <2>3. page = PageOf(x) \/ page = PageOf(y)
      BY DEF WriterInv, HeaderInv
    <2> HIDE DEF x, y
    <2> QED BY <2>2, <2>3
  <1> DEFINE n == d.cnum.n
             m == d.m
  <1>4. CheckPointer([n |-> n, p |-> PtrOf(w)], page, PtrOf(m), PageOf(m))
          = IF m >= w THEN "toCome" ELSE IF m >= w - n THEN "ok" ELSE "expired"
    <2> HIDE DEF n, m
    <2>1. w \in Nat /\ n \in 0 .. MaxMsgs /\ m \in Nat
      BY <1>1, <1>2 DEF n, m
    <2> QED BY <1>3, <2>1, CheckRight
  <1>5. CorrectedPage(PtrOf(w), page) = PageOf(w)
    <2>1. w \in Int
      BY <1>1
    <2> QED BY <1>3, <2>1, Corrected
  <1>6. d.cnum.p = PtrOf(w)
    BY DEF Seen
  <1> QED
    BY <1>1, <1>2, <1>4, <1>5, <1>6

\* Facts about the reader that takes a step.
LEMMA ReaderFacts ==
  ASSUME WriterInv, ReadersInv, NEW r \in Readers
  PROVE  /\ rd[r] \in ReaderType /\ ReaderInv(rd[r])
         /\ Written \in Nat /\ First \in Nat /\ Start \in Nat /\ MaxLead \in Nat
         /\ Start <= First /\ First <= Written /\ num.n = Written - First
         /\ num = [n |-> num.n, p |-> PtrOf(Written)] /\ num \in NumPt /\ num.n \in Nat
         /\ rd[r].m \in Start .. Written /\ rd[r].m \in Int
         /\ rd[r].rpt = PtrOf(rd[r].m) /\ rd[r].rpage = PageOf(rd[r].m)
  <1>1. rd[r] \in ReaderType /\ ReaderInv(rd[r])
    BY DEF ReadersInv
  <1>2. WriterType /\ HeaderInv /\ num \in NumPt
    BY DEF WriterInv, WriterType
  <1>3. /\ Written \in Nat /\ First \in Nat /\ Start \in Nat /\ MaxLead \in Nat
        /\ Start <= First /\ First <= Written /\ num.n = Written - First
        /\ num = [n |-> num.n, p |-> PtrOf(Written)] /\ num.n \in Nat
    BY <1>2, Counts, Constants
  <1>4. /\ rd[r].m \in Start .. Written
        /\ rd[r].rpt = PtrOf(rd[r].m) /\ rd[r].rpage = PageOf(rd[r].m)
    BY <1>1 DEF ReaderInv
  <1> QED
    BY <1>1, <1>2, <1>3, <1>4

LEMMA BeginReadKeeps ==
  ASSUME WriterInv, ReadersInv, NEW r \in Readers, BeginRead(r)
  PROVE  ReadersInv'
  <1> DEFINE d == rd[r]
             rec == [d EXCEPT !.pc = "num1", !.num0 = num, !.answer = NoAnswer,
                              !.published = Written, !.expired = First]
  <1>1. d.pc = "idle" /\ Set(r, rec)
    BY DEF BeginRead
  <1>2. d \in ReaderType /\ ReaderInv(d)
    BY ReaderFacts
  <1>3. /\ Written \in Nat /\ First \in Nat /\ Start \in Nat /\ MaxLead \in Nat
        /\ Start <= First /\ First <= Written /\ num.n = Written - First
        /\ num = [n |-> num.n, p |-> PtrOf(Written)] /\ num \in NumPt
    BY ReaderFacts
  <1> HIDE DEF d
  <1>4. /\ rec \in ReaderType
        /\ rec.pc = "num1" /\ rec.num0 = num /\ rec.answer = NoAnswer /\ rec.published = Written
        /\ rec.expired = First /\ rec.m = d.m /\ rec.rpt = d.rpt /\ rec.rpage = d.rpage
        /\ rec.buf = d.buf
    <2>1. NoAnswer \in AnswerType
      BY DEF NoAnswer, AnswerType
    <2>2. First \in Int /\ Written \in Nat /\ num \in NumPt /\ d \in ReaderType
      BY <1>2, <1>3
    <2>3. rec \in ReaderType
      BY ONLY <2>1, <2>2 DEF ReaderType
    <2>4. /\ rec.pc = "num1" /\ rec.num0 = num /\ rec.answer = NoAnswer /\ rec.published = Written
          /\ rec.expired = First /\ rec.m = d.m /\ rec.rpt = d.rpt /\ rec.rpage = d.rpage
          /\ rec.buf = d.buf
      BY ONLY <2>2 DEF ReaderType
    <2> QED BY <2>3, <2>4
  <1> HIDE DEF rec
  <1>5. Began(rec)
    <2>1. rec.num0 = [n |-> rec.published - rec.expired, p |-> PtrOf(rec.published)]
      BY <1>3, <1>4
    <2>2. rec.published \in Start .. Written /\ rec.expired \in Start .. rec.published
          /\ Written - rec.published <= MaxLead /\ rec.expired <= First
      BY <1>3, <1>4
    <2> QED BY <1>4, <2>1, <2>2 DEF Began
  <1>6. AnswerRight(rec.m, rec.answer)
    BY <1>4 DEF AnswerRight, NoAnswer
  <1>7. ReaderInv(rec)
    BY <1>1, <1>2, <1>4, <1>5, <1>6 DEF ReaderInv, Deciding, Located, Copying
  <1> QED
    BY <1>1, <1>4, <1>7, SetKeeps

LEMMA LoadNumKeeps ==
  ASSUME WriterInv, ReadersInv, NEW r \in Readers, LoadNum(r)
  PROVE  ReadersInv'
  <1> DEFINE d == rd[r]
             pc == CASE d.pc = "num1" -> "page1" [] d.pc = "num2" -> "page2" [] OTHER -> "page3"
             rec == [d EXCEPT !.cnum = num, !.pc = pc]
  <1>1. d.pc \in {"num1", "num2", "num3"} /\ Set(r, rec)
    BY DEF LoadNum
  <1>2. d \in ReaderType /\ ReaderInv(d)
    BY ReaderFacts
  <1>3. /\ Written \in Nat /\ First \in Nat /\ First <= Written /\ num.n = Written - First
        /\ num.p = PtrOf(Written) /\ num \in NumPt /\ num.n \in Nat
        /\ d.m \in Int
    BY ReaderFacts
  <1>4. /\ d.pc = "num1" => pc = "page1"
        /\ d.pc = "num2" => pc = "page2"
        /\ d.pc = "num3" => pc = "page3"
    OBVIOUS
  <1> HIDE DEF d, pc
  <1>5. /\ rec \in ReaderType
        /\ rec.pc = pc /\ rec.cnum = num /\ rec.num0 = d.num0 /\ rec.answer = d.answer
        /\ rec.published = d.published /\ rec.expired = d.expired /\ rec.m = d.m
        /\ rec.rpt = d.rpt /\ rec.rpage = d.rpage /\ rec.buf = d.buf /\ rec.id = d.id
        /\ rec.loc = d.loc /\ rec.len = d.len
    BY <1>1, <1>2, <1>3, <1>4 DEF ReaderType
  <1> HIDE DEF rec
  <1>6. Began(d)
    BY <1>1, <1>2 DEF ReaderInv
  <1>7. Began(rec)
    BY <1>1, <1>4, <1>5, <1>6 DEF Began
  <1>8. d.pc \in {"num2", "num3"} => Holds(d)
    BY <1>2 DEF ReaderInv, Located, Copying
  <1>9. Right(d) /\ d.pc \in {"num2", "num3"} => Right(rec)
    BY <1>4, <1>5 DEF Right
  <1>10. d.pc \in {"num2", "num3"} => Holds(rec)
    BY <1>4, <1>5, <1>8, <1>9 DEF Holds
  <1>11. Written \in d.published .. Written /\ d.expired <= First
    <2>1. d.published \in Nat /\ d.published <= Written
      BY <1>2, <1>3, <1>6, Constants DEF Began, ReaderType
    <2> QED BY <1>3, <1>6, <2>1 DEF Began
  <1>12. Seen(rec, Written)
    <2>1. Written - num.n = First
      BY <1>3
    <2>2. rec.pc \in {"page2", "page3"}
            => d.m < Written /\ (d.m >= First => Right(rec))
      BY <1>1, <1>4, <1>5, <1>8, <1>9 DEF Holds
    <2>3. rec.expired <= First /\ rec.pc # "seek"
      BY <1>1, <1>4, <1>5, <1>11
    <2>4. First <= First
      BY <1>3
    <2> QED BY <1>3, <1>5, <2>1, <2>2, <2>3, <2>4 DEF Seen
  <1>13. \E w \in rec.published .. Written : Seen(rec, w)
    BY <1>5, <1>11, <1>12
  <1>14. ReaderInv(rec)
    BY <1>1, <1>2, <1>4, <1>5, <1>7, <1>10, <1>13 DEF ReaderInv, Deciding, Located, Copying
  <1> QED
    BY <1>1, <1>5, <1>14, SetKeeps

\* A step within a read that leaves alone what the call is about.
LEMMA SameCall ==
  ASSUME NEW d \in ReaderType, ReaderInv(d), d.pc \notin {"idle", "seek"},
         NEW rec, rec.pc \notin {"idle", "seek"} \cup Deciding,
         rec.m = d.m, rec.rpt = d.rpt, rec.rpage = d.rpage, rec.answer = d.answer,
         rec.num0 = d.num0, rec.published = d.published, rec.expired = d.expired,
         rec.pc \in Located \cup Copying => Holds(rec),
         rec.pc \notin Copying => rec.buf = <<>>
  PROVE  ReaderInv(rec)
  <1>1. Began(d)
    BY DEF ReaderInv
  <1>2. Began(rec)
    BY <1>1 DEF Began
  <1> QED
    BY <1>2 DEF ReaderInv

\* No unit has been copied yet.
LEMMA EmptyContent ==
  ASSUME NEW msg
  PROVE  Content(msg, 0) = <<>> /\ Len(<<>>) = 0
  <1>1. 1 .. 0 = {} /\ Len(<<>>) = 0
    OBVIOUS
  <1> QED
    BY <1>1 DEF Content

\* The lengths a message's copy can have.
LEMMA FitType ==
  ASSUME NEW len \in 1 .. MaSize
  PROVE  Fit(len) \in 1 .. MaSize /\ Fit(len) <= BufLen /\ Fit(len) <= len
  BY Constants DEF Fit

\* A copy that passed its last check is the message.
LEMMA MessageRight ==
  ASSUME WriterInv, ReadersInv, NEW r \in Readers, rd[r].pc \in {"same3", "page3"},
         Right(rd[r]), rd[r].m < Written
  PROVE  /\ Message(r) \in AnswerType /\ Message(r).kind # "toCome"
         /\ AnswerRight(rd[r].m + 1, Message(r))
  <1> DEFINE d == rd[r]
             a == Message(r)
             msg == Published(d.m)
  <1>1. d \in ReaderType /\ d.m \in Start .. Written - 1 /\ (d.m + 1) - 1 = d.m
    <2>1. d \in ReaderType
      BY ReaderFacts
    <2>2. d.m \in Start .. Written /\ Written \in Nat /\ Start \in Nat
      BY ReaderFacts
    <2> QED BY <2>1, <2>2
  <1>2. /\ a.kind = (IF d.len > BufLen THEN "cut" ELSE "message")
        /\ a.id = d.id /\ a.len = d.len /\ a.buf = d.buf
        /\ a = [kind |-> a.kind, id |-> d.id, len |-> d.len, buf |-> d.buf]
    BY DEF Message
  <1>3. d.id \in 0 .. MaxWrites /\ d.len \in 0 .. MaSize /\ d.buf \in Seq(Unit)
    BY <1>1 DEF ReaderType
  <1>4. a.kind \in {"message", "cut"}
    BY <1>2
  <1>5. a \in AnswerType
    <2> HIDE DEF a, d
    <2> QED BY <1>2, <1>3, <1>4 DEF AnswerType
  <1>6. d.id = msg.id /\ d.len = msg.len /\ d.buf = Content(msg, Fit(msg.len))
    BY DEF Right
  <1>7. AnswerRight(d.m + 1, a)
    <2> HIDE DEF a, d
    <2> QED BY <1>1, <1>2, <1>6 DEF AnswerRight
  <1> QED
    BY <1>4, <1>5, <1>7

\* The answers without data.
LEMMA PlainAnswers ==
  \A kind \in {"expired", "toCome"} :
    [kind |-> kind] \in AnswerType /\ \A m : AnswerRight(m, [kind |-> kind])
  BY DEF AnswerType, AnswerRight

\* What a check of the pointer tells the reader that made it.
LEMMA CheckedPage ==
  ASSUME WriterInv, ReadersInv, NEW r \in Readers, rd[r].pc \in {"page1", "page2", "page3"}
  PROVE  LET d == rd[r]
             v == CheckPointer(d.cnum, page, d.rpt, d.rpage)
         IN  /\ v \in {"ok", "toCome", "expired"}
             /\ v = "ok" => /\ d.expired <= d.m /\ d.m < Written
                            /\ d.pc \in {"page2", "page3"} => Right(d)
             /\ v = "toCome" => d.m >= d.published /\ d.pc = "page1"
             /\ v = "expired" => d.m < First
  <1> DEFINE d == rd[r]
             v == CheckPointer(d.cnum, page, d.rpt, d.rpage)
  <1>1. d \in ReaderType /\ ReaderInv(d)
    BY ReaderFacts
  <1>2. Written \in Nat /\ First \in Nat /\ d.m \in Int
    BY ReaderFacts
  <1>3. PICK w \in d.published .. Written : Seen(d, w)
    BY <1>1 DEF ReaderInv, Deciding
  <1>4. v = IF d.m >= w THEN "toCome" ELSE IF d.m >= w - d.cnum.n THEN "ok" ELSE "expired"
    <2>1. \A e \in ReaderType : ReaderInv(e) /\ e.pc # "idle"
            => \A x \in e.published .. Written : Seen(e, x) =>
                 CheckPointer(e.cnum, page, e.rpt, e.rpage)
                   = IF e.m >= x THEN "toCome" ELSE IF e.m >= x - e.cnum.n THEN "ok" ELSE "expired"
      BY Verdict
    <2>2. d.pc # "idle"
      OBVIOUS
    <2> HIDE DEF d
    <2> QED BY <1>1, <1>3, <2>1, <2>2
  <1>5. d.published \in Nat /\ d.cnum.n \in Nat /\ d.expired \in Int
    <2> HIDE DEF d
    <2>1. MaxMsgs \in Nat
      BY Constants
    <2> QED BY ONLY <1>1, <2>1 DEF ReaderType, NumPt
  <1>6. /\ w \in Int /\ w <= Written /\ w >= d.published
        /\ d.expired <= w - d.cnum.n /\ w - d.cnum.n <= First
        /\ d.pc \in {"page2", "page3"} => d.m < w /\ (d.m >= w - d.cnum.n => Right(d))
    <2>1. w \in Int /\ w <= Written /\ w >= d.published
      BY <1>2, <1>5
    <2> QED BY <1>3, <2>1 DEF Seen
  <1>7. d.pc \in {"page1", "page2", "page3"}
    OBVIOUS
  <1> HIDE DEF d, v
  <1>8. CASE d.m >= w
    BY <1>2, <1>4, <1>5, <1>6, <1>7, <1>8 DEF d, v
  <1>9. CASE ~ (d.m >= w) /\ d.m >= w - d.cnum.n
    BY <1>2, <1>4, <1>5, <1>6, <1>9 DEF d, v
  <1>10. CASE ~ (d.m >= w) /\ ~ (d.m >= w - d.cnum.n)
    BY <1>2, <1>4, <1>5, <1>6, <1>10 DEF d, v
  <1> QED
    BY <1>8, <1>9, <1>10

LEMMA LoadPageKeeps ==
  ASSUME WriterInv, ReadersInv, NEW r \in Readers, LoadPage(r)
  PROVE  ReadersInv'
  <1> DEFINE d == rd[r]
             v == CheckPointer(d.cnum, page, d.rpt, d.rpage)
             msg == Published(d.m)
  <1>1. d \in ReaderType /\ ReaderInv(d)
    BY ReaderFacts
  <1>2. Written \in Nat /\ First \in Nat /\ Start \in Nat /\ d.m \in Int
        /\ d.m \in Start .. Written /\ First <= Written
    BY ReaderFacts
  <1>3. d.pc \in {"page1", "page2", "page3"}
    BY DEF LoadPage
  <1>4. /\ v \in {"ok", "toCome", "expired"}
        /\ v = "ok" => /\ d.expired <= d.m /\ d.m < Written
                       /\ d.pc \in {"page2", "page3"} => Right(d)
        /\ v = "expired" => d.m < First
    BY <1>3, CheckedPage
  <1>5. ASSUME v = "ok"
        PROVE  d.expired <= d.m /\ d.m < Written /\ d.m \in Start .. Written - 1
    <2>1. d.expired <= d.m /\ d.m < Written
      BY <1>4, <1>5
    <2> HIDE DEF v, d
    <2> QED BY <1>2, <2>1
  <1>6. ASSUME EndRead(r, [kind |-> "expired"]), d.m < Written
        PROVE  ReadersInv'
    <2> DEFINE a == [kind |-> "expired"]
    <2>1. a \in AnswerType /\ AnswerRight(d.m + 1, a)
      BY PlainAnswers
    <2>2. EndRead(r, a) /\ (a.kind # "toCome" => rd[r].m < Written /\ AnswerRight(rd[r].m + 1, a))
      BY <1>6, <2>1
    <2> HIDE DEF a
    <2> QED BY <2>1, <2>2, EndReadKeeps
  <1>7. CASE d.pc = "page1"
    <2>1. IF v = "ok" THEN Set(r, [rd[r] EXCEPT !.pc = "prev"]) ELSE EndRead(r, [kind |-> v])
      BY <1>7 DEF LoadPage
    <2>2. CASE v = "ok"
      <3> DEFINE rec == [d EXCEPT !.pc = "prev"]
      <3>1. Set(r, rec)
        BY <2>1, <2>2
      <3> HIDE DEF d
      <3>2. /\ rec \in ReaderType
            /\ rec.pc = "prev" /\ rec.m = d.m /\ rec.rpt = d.rpt /\ rec.rpage = d.rpage
            /\ rec.answer = d.answer /\ rec.num0 = d.num0 /\ rec.published = d.published
            /\ rec.expired = d.expired /\ rec.buf = d.buf
        BY ONLY <1>1 DEF ReaderType
      <3> HIDE DEF rec
      <3>3. d.buf = <<>>
        BY <1>1, <1>7 DEF ReaderInv, Copying
      <3>4. Right(rec)
        BY <3>2, <3>3, EmptyContent DEF Right
      <3>5. Holds(rec)
        BY <1>5, <2>2, <3>2, <3>4 DEF Holds
      <3>6. ReaderInv(rec)
        BY <1>1, <1>7, <3>2, <3>3, <3>5, SameCall DEF Deciding
      <3> QED BY <3>1, <3>2, <3>6, SetKeeps
    <2>3. CASE v = "toCome"
      <3> DEFINE a == [kind |-> "toCome"]
      <3>1. a \in AnswerType /\ EndRead(r, a) /\ a.kind = "toCome"
        BY <2>1, <2>3, PlainAnswers
      <3> HIDE DEF a
      <3> QED BY <3>1, EndReadKeeps
    <2>4. CASE v # "ok" /\ v # "toCome"
      <3>1. v = "expired"
        BY <1>4, <2>4
      <3>2. EndRead(r, [kind |-> "expired"])
        BY <2>1, <3>1
      <3>3. d.m < Written
        <4>1. d.m < First
          BY <1>4, <3>1
        <4> HIDE DEF d
        <4> QED BY <1>2, <4>1
      <3> QED BY <1>6, <3>2, <3>3
    <2> QED BY <2>2, <2>3, <2>4
  <1>8. CASE d.pc = "page2"
    <2>1. IF v = "ok" THEN Set(r, [rd[r] EXCEPT !.pc = "body"])
          ELSE EndRead(r, [kind |-> "expired"])
      BY <1>8 DEF LoadPage
    <2>2. Holds(d)
      BY <1>1, <1>8 DEF ReaderInv, Located
    <2>3. CASE v = "ok"
      <3> DEFINE rec == [d EXCEPT !.pc = "body"]
      <3>1. Set(r, rec)
        BY <2>1, <2>3
      <3>2. Right(d)
        BY <1>4, <1>8, <2>3
      <3> HIDE DEF d
      <3>3. /\ rec \in ReaderType
            /\ rec.pc = "body" /\ rec.m = d.m /\ rec.rpt = d.rpt /\ rec.rpage = d.rpage
            /\ rec.answer = d.answer /\ rec.num0 = d.num0 /\ rec.published = d.published
            /\ rec.expired = d.expired /\ rec.buf = d.buf /\ rec.id = d.id /\ rec.len = d.len
            /\ rec.loc = d.loc
        BY ONLY <1>1 DEF ReaderType
      <3> HIDE DEF rec
      <3>4. d.buf = <<>> /\ Len(d.buf) = 0
        BY <1>1, <1>8, EmptyContent DEF ReaderInv, Copying
      <3>5. 0 < Fit(msg.len)
        <4>1. msg.len \in 1 .. MaSize
          <5>1. WriterType
            BY DEF WriterInv
          <5> QED BY <1>5, <2>3, <5>1, PublishedType
        <4> DEFINE l == Fit(msg.len)
        <4>2. l \in 1 .. MaSize
          BY <4>1, FitType
        <4> HIDE DEF l
        <4>3. 0 < l
          BY <4>2, Constants
        <4> QED BY <4>3 DEF l
      <3>6. Right(rec)
        BY <1>8, <3>2, <3>3, <3>4, <3>5 DEF Right
      <3>7. Holds(rec)
        BY <1>8, <2>2, <3>3, <3>6 DEF Holds
      <3>8. ReaderInv(rec)
        BY <1>1, <1>8, <3>3, <3>7, SameCall DEF Deciding, Copying
      <3> QED BY <3>1, <3>3, <3>8, SetKeeps
    <2>4. CASE v # "ok"
      BY <1>6, <2>1, <2>2, <2>4 DEF Holds
    <2> QED BY <2>3, <2>4
  <1>9. CASE d.pc = "page3"
    <2>1. EndRead(r, IF v = "ok" THEN Message(r) ELSE [kind |-> "expired"])
      BY <1>9 DEF LoadPage
    <2>2. Holds(d)
      BY <1>1, <1>9 DEF ReaderInv, Copying
    <2>3. CASE v = "ok"
      <3>1. Right(d)
        BY <1>4, <1>9, <2>3
      <3> DEFINE a == Message(r)
      <3>2. a \in AnswerType /\ a.kind # "toCome" /\ AnswerRight(rd[r].m + 1, a)
        BY <1>5, <1>9, <2>3, <3>1, MessageRight
      <3>3. EndRead(r, a) /\ rd[r].m < Written
        BY <1>5, <2>1, <2>3
      <3> HIDE DEF a
      <3> QED BY <3>2, <3>3, EndReadKeeps
    <2>4. CASE v # "ok"
      BY <1>6, <2>1, <2>2, <2>4 DEF Holds
    <2> QED BY <2>3, <2>4
  <1> QED
    BY <1>3, <1>7, <1>8, <1>9

\* What the reader's pointer says of the directory.
LEMMA ReaderSlots ==
  ASSUME WriterInv, ReadersInv, NEW r \in Readers
  PROVE  LET m == rd[r].m
         IN  /\ Slot(rd[r].rpt) = m % NSlots
             /\ dir[Slot(rd[r].rpt)].id \in 0 .. MaxWrites
             /\ dir[Slot(rd[r].rpt)].loc = Loc(m) /\ Loc(m) \in 0 .. MaSize - 1
             /\ dir[Slot(PrevPtr(rd[r].rpt))].loc = Loc(m - 1) /\ Loc(m - 1) \in 0 .. MaSize - 1
  <1> DEFINE m == rd[r].m
  <1>1. m \in Int /\ m - 1 \in Int /\ rd[r].rpt = PtrOf(m)
    BY ReaderFacts
  <1>2. dir \in [0 .. NSlots - 1 -> [loc : 0 .. MaSize - 1, id : 0 .. MaxWrites]]
    BY DEF WriterInv, WriterType
  <1> HIDE DEF m
  <1>3. Slot(PtrOf(m)) = m % NSlots /\ Slot(PrevPtr(PtrOf(m))) = (m - 1) % NSlots
    BY <1>1, SlotOf, Neighbours
  <1>4. dir[m % NSlots] \in [loc : 0 .. MaSize - 1, id : 0 .. MaxWrites]
        /\ dir[(m - 1) % NSlots] \in [loc : 0 .. MaSize - 1, id : 0 .. MaxWrites]
    BY <1>1, <1>2, SlotRange
  <1> QED
    BY <1>1, <1>3, <1>4 DEF m, Loc

LEMMA LoadPrevKeeps ==
  ASSUME WriterInv, ReadersInv, NEW r \in Readers, LoadPrev(r)
  PROVE  ReadersInv'
  <1> DEFINE d == rd[r]
             m == d.m
             i == dir[Slot(d.rpt)].id
             l == dir[Slot(PrevPtr(d.rpt))].loc
             rec == [d EXCEPT !.pc = "curr", !.id = i, !.loc = l]
  <1>1. d.pc = "prev" /\ Set(r, rec) /\ d \in ReaderType /\ ReaderInv(d)
    BY ReaderFacts DEF LoadPrev
  <1>2. Written \in Nat /\ First \in Nat /\ m \in Int
    BY ReaderFacts
  <1>3. /\ i = dir[m % NSlots].id /\ i \in 0 .. MaxWrites
        /\ l = Loc(m - 1) /\ l \in 0 .. MaSize - 1
    BY ReaderSlots
  <1>4. Holds(d) /\ d.buf = <<>>
    BY <1>1 DEF ReaderInv, Located, Copying
  <1>5. ASSUME m >= First PROVE i = Published(m).id
    <2>1. PICK L \in [Int -> Int] : Layout(L)
      BY DEF WriterInv
    <2>2. m \in First .. Written - 1
      BY <1>2, <1>4, <1>5 DEF Holds
    <2> QED BY <1>3, <2>1, <2>2 DEF Layout, Whole
  <1> HIDE DEF d, i, l
  <1>6. /\ rec \in ReaderType
        /\ rec.pc = "curr" /\ rec.m = d.m /\ rec.rpt = d.rpt /\ rec.rpage = d.rpage
        /\ rec.answer = d.answer /\ rec.num0 = d.num0 /\ rec.published = d.published
        /\ rec.expired = d.expired /\ rec.buf = d.buf /\ rec.id = i /\ rec.loc = l
    BY ONLY <1>1, <1>3 DEF ReaderType
  <1> HIDE DEF rec
  <1>7. ASSUME m >= First PROVE Right(rec) /\ rec.loc = Loc(rec.m - 1)
    BY <1>3, <1>4, <1>5, <1>6, <1>7, EmptyContent DEF Right
  <1>8. Holds(rec)
    BY <1>4, <1>6, <1>7 DEF Holds
  <1>9. ReaderInv(rec)
    BY <1>1, <1>4, <1>6, <1>8, SameCall DEF Deciding
  <1> QED BY <1>1, <1>6, <1>9, SetKeeps

LEMMA LoadCurrKeeps ==
  ASSUME WriterInv, ReadersInv, NEW r \in Readers, LoadCurr(r)
  PROVE  ReadersInv'
  <1> DEFINE d == rd[r]
             m == d.m
             e == dir[Slot(d.rpt)].loc - d.loc
             l == IF e <= 0 THEN e + MaSize ELSE e
             rec == [d EXCEPT !.pc = "same2", !.len = l]
  <1>1. d.pc = "curr" /\ Set(r, rec) /\ d \in ReaderType /\ ReaderInv(d)
    BY ReaderFacts DEF LoadCurr
  <1>2. Written \in Nat /\ First \in Nat /\ m \in Int
    BY ReaderFacts
  <1>3. e = Loc(m) - d.loc /\ Loc(m) \in 0 .. MaSize - 1
    BY ReaderSlots
  <1>4. Holds(d) /\ d.buf = <<>>
    BY <1>1 DEF ReaderInv, Located, Copying
  <1>5. ASSUME m >= First PROVE l = Published(m).len
    <2>1. PICK L \in [Int -> Int] : Layout(L)
      BY DEF WriterInv
    <2>2. m \in First .. Written - 1 /\ e = Loc(m) - Loc(m - 1)
      <3> HIDE DEF d, e
      <3>1. m < Written /\ d.loc = Loc(m - 1)
        BY <1>1, <1>4, <1>5 DEF Holds
      <3> QED BY <1>2, <1>3, <1>5, <3>1
    <2>3. L[m] - L[m - 1] = Published(m).len
      BY <2>1, <2>2 DEF Layout, Whole
    <2>4. WriterType /\ HeaderInv
      BY DEF WriterInv
    <2>5. L[m] - L[m - 1] = LET f == Loc(m) - Loc(m - 1) IN IF f <= 0 THEN f + MaSize ELSE f
      BY <2>1, <2>2, <2>4, LengthIs
    <2> QED BY <2>2, <2>3, <2>5
  <1>6. l \in 0 .. MaSize
    <2>1. d.loc \in 0 .. MaSize - 1 /\ MaSize \in Nat
      <3> HIDE DEF d
      <3> QED BY <1>1, Constants DEF ReaderType
    <2> HIDE DEF d
    <2>2. e \in Int /\ -MaSize < e /\ e < MaSize
      BY <1>3, <2>1
    <2> HIDE DEF e
    <2> QED BY <2>1, <2>2
  <1> HIDE DEF d, e, l
  <1>7. /\ rec \in ReaderType
        /\ rec.pc = "same2" /\ rec.m = d.m /\ rec.rpt = d.rpt /\ rec.rpage = d.rpage
        /\ rec.answer = d.answer /\ rec.num0 = d.num0 /\ rec.published = d.published
        /\ rec.expired = d.expired /\ rec.buf = d.buf /\ rec.id = d.id /\ rec.loc = d.loc
        /\ rec.len = l
    BY ONLY <1>1, <1>6 DEF ReaderType
  <1> HIDE DEF rec
  <1>8. ASSUME m >= First PROVE Right(rec) /\ rec.loc = Loc(rec.m - 1)
    <2>1. Right(d) /\ d.loc = Loc(d.m - 1)
      BY <1>1, <1>4, <1>8 DEF Holds
    <2> QED BY <1>1, <1>5, <1>7, <1>8, <2>1 DEF Right
  <1>9. Holds(rec)
    BY <1>4, <1>7, <1>8 DEF Holds
  <1>10. ReaderInv(rec)
    BY <1>1, <1>4, <1>7, <1>9, SameCall DEF Deciding
  <1> QED BY <1>1, <1>7, <1>10, SetKeeps

(***************************************************************************)
(* "check again": as long as no reader is overtaken by a page of messages,  *)
(* a packed word that has not changed since the call began proves that      *)
(* nothing was published and nothing expired since.                         *)
(***************************************************************************)
LEMMA SameWord ==
  ASSUME WriterInv, NEW d \in ReaderType, Began(d), d.pc # "seek", num = d.num0
  PROVE  Written = d.published /\ First = d.expired
  <1>1. /\ Written \in Nat /\ First \in Nat /\ num.p = PtrOf(Written) /\ num.n = Written - First
        /\ Start \in Nat /\ MaxLead \in Nat /\ MaxLead < PageSize /\ PtrRange = 4 * PageSize
        /\ PageSize \in Nat \ {0} /\ PtrRange \in Nat \ {0}
    <2>1. /\ Start \in Nat /\ MaxLead \in Nat /\ MaxLead < PageSize /\ PtrRange = 4 * PageSize
          /\ PageSize \in Nat \ {0} /\ PtrRange \in Nat \ {0}
      BY ONLY Constants
    <2>2. Written \in Nat /\ First \in Nat /\ num.p = PtrOf(Written) /\ num.n = Written - First
      BY Counts DEF WriterInv
    <2> QED BY <2>1, <2>2
  <1>2. /\ d.published \in Nat /\ d.published <= Written
        /\ Written - d.published <= MaxLead /\ d.expired \in Int
    <2>1. d.published \in Start .. Written /\ Written - d.published <= MaxLead
          /\ d.expired \in Start .. d.published
      BY DEF Began
    <2> QED BY <1>1, <2>1
  <1>3. PtrOf(Written) = PtrOf(d.published) /\ num.n = d.published - d.expired
    <2>1. d.num0 = [n |-> d.published - d.expired, p |-> PtrOf(d.published)]
      BY DEF Began
    <2>2. num.n = d.published - d.expired /\ num.p = PtrOf(d.published)
      BY <2>1
    <2> QED BY <1>1, <2>2
  <1> DEFINE x == d.published
             y == Written
  <1>4. ~ (x < y)
    <2> SUFFICES ASSUME x < y PROVE FALSE
      OBVIOUS
    <2>1. x \in Int /\ y \in Int /\ y - x < PtrRange /\ PtrOf(x) = PtrOf(y)
      BY <1>1, <1>2, <1>3
    <2> HIDE DEF x, y
    <2>2. x % PtrRange # y % PtrRange
      BY <1>1, <2>1, ModDistinct
    <2> QED BY <2>1, <2>2 DEF PtrOf
  <1>5. x = y
    BY <1>1, <1>2, <1>4
  <1> QED
    BY <1>1, <1>2, <1>3, <1>5

LEMMA CheckAgainKeeps ==
  ASSUME WriterInv, ReadersInv, NEW r \in Readers, CheckAgain(r)
  PROVE  ReadersInv'
  <1> DEFINE d == rd[r]
             m == d.m
             msg == Published(m)
  <1>1. d.pc \in {"same2", "same3"}
    BY DEF CheckAgain
  <1>2. d \in ReaderType /\ ReaderInv(d)
    BY ReaderFacts
  <1>3. Written \in Nat /\ First \in Nat /\ m \in Int /\ m \in Start .. Written
    BY ReaderFacts
  <1>4. Began(d) /\ Holds(d) /\ (d.pc = "same2" => d.buf = <<>>)
    BY <1>1, <1>2 DEF ReaderInv, Located, Copying
  <1>5. ASSUME num = d.num0 PROVE m >= First /\ Right(d)
    <2>1. \A e \in ReaderType : Began(e) /\ e.pc # "seek" /\ num = e.num0 => First = e.expired
      BY SameWord
    <2>2. First = d.expired
      <3> HIDE DEF d
      <3> QED BY <1>1, <1>2, <1>4, <1>5, <2>1
    <2>3. m >= First
      <3>1. d.expired <= m
        BY <1>4 DEF Holds
      <3> QED BY <2>2, <3>1
    <2> QED BY <1>4, <2>3 DEF Holds
  <1>6. CASE d.pc = "same2"
    <2> DEFINE pc == IF num = d.num0 THEN "body" ELSE "num2"
               rec == [d EXCEPT !.pc = pc]
    <2>1. Set(r, rec)
      BY <1>6 DEF CheckAgain
    <2>2. pc \in {"body", "num2"} /\ (pc = "body" => num = d.num0)
      OBVIOUS
    <2> HIDE DEF d, pc
    <2>3. /\ rec \in ReaderType
          /\ rec.pc = pc /\ rec.m = d.m /\ rec.rpt = d.rpt /\ rec.rpage = d.rpage
          /\ rec.answer = d.answer /\ rec.num0 = d.num0 /\ rec.published = d.published
          /\ rec.expired = d.expired /\ rec.buf = d.buf /\ rec.id = d.id /\ rec.len = d.len
          /\ rec.loc = d.loc
      BY ONLY <1>2, <2>2 DEF ReaderType
    <2> HIDE DEF rec
    <2>4. d.m >= First => Right(rec) /\ rec.loc = Loc(rec.m - 1)
      <3> SUFFICES ASSUME m >= First PROVE Right(rec) /\ rec.loc = Loc(rec.m - 1)
        OBVIOUS
      <3>1. Right(d) /\ d.loc = Loc(d.m - 1) /\ m < Written
        BY <1>4, <1>6 DEF Holds
      <3>2. 0 < Fit(msg.len)
        <4>1. msg.len \in 1 .. MaSize
          <5>1. WriterType /\ m \in Start .. Written - 1
            BY <1>3, <3>1 DEF WriterInv
          <5> QED BY <5>1, PublishedType
        <4> DEFINE l == Fit(msg.len)
        <4>2. l \in 1 .. MaSize
          BY <4>1, FitType
        <4> HIDE DEF l
        <4>3. 0 < l
          BY <4>2, Constants
        <4> QED BY <4>3 DEF l
      <3> QED BY <1>4, <1>6, <2>2, <2>3, <3>1, <3>2, EmptyContent DEF Right
    <2>5. Holds(rec)
      BY <1>4, <2>3, <2>4 DEF Holds
    <2>6. ReaderInv(rec)
      BY <1>2, <1>4, <1>6, <2>2, <2>3, <2>5, SameCall DEF Deciding
    <2> QED BY <2>1, <2>3, <2>6, SetKeeps
  <1>7. CASE d.pc = "same3"
    <2>1. IF num = d.num0 THEN EndRead(r, Message(r)) ELSE Set(r, [d EXCEPT !.pc = "num3"])
      BY <1>7 DEF CheckAgain
    <2>2. CASE num = d.num0
      <3> DEFINE a == Message(r)
      <3>1. rd[r].m < Written
        BY <1>4 DEF Holds
      <3>2. a \in AnswerType /\ a.kind # "toCome" /\ AnswerRight(rd[r].m + 1, a)
        BY <1>5, <1>7, <2>2, <3>1, MessageRight
      <3>3. EndRead(r, a)
        BY <2>1, <2>2
      <3> HIDE DEF a
      <3> QED BY <3>1, <3>2, <3>3, EndReadKeeps
    <2>3. CASE num # d.num0
      <3> DEFINE rec == [d EXCEPT !.pc = "num3"]
      <3>1. Set(r, rec)
        BY <2>1, <2>3
      <3> HIDE DEF d
      <3>2. /\ rec \in ReaderType
            /\ rec.pc = "num3" /\ rec.m = d.m /\ rec.rpt = d.rpt /\ rec.rpage = d.rpage
            /\ rec.answer = d.answer /\ rec.num0 = d.num0 /\ rec.published = d.published
            /\ rec.expired = d.expired /\ rec.buf = d.buf /\ rec.id = d.id /\ rec.len = d.len
            /\ rec.loc = d.loc
        BY ONLY <1>2 DEF ReaderType
      <3> HIDE DEF rec
      <3>3. Right(d) => Right(rec)
        BY <1>7, <3>2 DEF Right
      <3>4. Holds(rec)
        BY <1>4, <1>7, <3>2, <3>3 DEF Holds
      <3>5. ReaderInv(rec)
        BY <1>2, <1>7, <3>2, <3>4, SameCall DEF Deciding, Copying
      <3> QED BY <3>1, <3>2, <3>5, SetKeeps
    <2> QED BY <2>2, <2>3
  <1> QED
    BY <1>1, <1>6, <1>7

\* A unit of an available message, where the directory says it is.
LEMMA UnitAt ==
  ASSUME WriterInv, NEW m \in First .. Written - 1, NEW k \in 0 .. Published(m).len - 1
  PROVE  area[(Loc(m - 1) + k) % MaSize] = <<Published(m).id, k>>
  <1>1. PICK L \in [Int -> Int] : Layout(L)
    BY DEF WriterInv
  <1>2. /\ First \in Nat /\ Written \in Nat /\ m \in Int /\ m - 1 \in Int
        /\ m - 1 \in First - 1 .. Written - 1 /\ m \in Start .. Written - 1
    <2>1. First \in Nat /\ Written \in Nat /\ First \in Start .. Written /\ Start \in Nat
      BY Counts, Constants DEF WriterInv
    <2> QED BY <2>1
  <1>3. Loc(m - 1) = L[m - 1] % MaSize /\ L[m - 1] \in Int
    BY <1>1, <1>2 DEF Layout
  <1>4. area[(L[m - 1] + k) % MaSize] = <<Published(m).id, k>>
    BY <1>1 DEF Layout, Whole
  <1>5. k \in Int
    <2>1. WriterType
      BY DEF WriterInv
    <2>2. Published(m).len \in 1 .. MaSize
      BY <1>2, <2>1, PublishedType
    <2> QED BY <2>2, Constants
  <1> DEFINE x == L[m - 1]
  <1>6. ((x % MaSize) + k) % MaSize = (x + k) % MaSize
    <2> HIDE DEF x
    <2>1. x \in Int /\ MaSize \in Nat \ {0}
      BY <1>3, Constants DEF x
    <2> QED BY <1>5, <2>1, ModAdd
  <1> QED
    BY <1>3, <1>4, <1>6

\* One more unit copied.
LEMMA ContentGrows ==
  ASSUME NEW msg, NEW k \in Nat
  PROVE  Append(Content(msg, k), <<msg.id, k>>) = Content(msg, k + 1)
  <1> DEFINE S == {msg.id} \X Nat
             s == Content(msg, k)
             t == Content(msg, k + 1)
             e == <<msg.id, k>>
             u == Append(s, e)
  <1>1. ASSUME NEW n \in Nat
        PROVE  /\ Content(msg, n) \in Seq(S) /\ Len(Content(msg, n)) = n
               /\ \A i \in 1 .. n : Content(msg, n)[i] = <<msg.id, i - 1>>
    <2>1. \A i \in 1 .. n : <<msg.id, i - 1>> \in S
      OBVIOUS
    <2> HIDE DEF S
    <2> QED BY <2>1 DEF Content
  <1>2. s \in Seq(S) /\ Len(s) = k /\ \A i \in 1 .. k : s[i] = <<msg.id, i - 1>>
    BY <1>1
  <1>3. t \in Seq(S) /\ Len(t) = k + 1 /\ \A i \in 1 .. k + 1 : t[i] = <<msg.id, i - 1>>
    <2> DEFINE n == k + 1
    <2>1. n \in Nat
      OBVIOUS
    <2> HIDE DEF n, S
    <2>2. /\ Content(msg, n) \in Seq(S) /\ Len(Content(msg, n)) = n
          /\ \A i \in 1 .. n : Content(msg, n)[i] = <<msg.id, i - 1>>
      BY <1>1, <2>1
    <2> QED BY <2>2 DEF n
  <1>4. e \in S
    OBVIOUS
  <1>5. u \in Seq(S) /\ Len(u) = k + 1 /\ u[k + 1] = e /\ \A i \in 1 .. k : u[i] = s[i]
    <2> HIDE DEF S, s, e
    <2> QED BY <1>2, <1>4
  <1>6. u[k + 1] = t[k + 1] /\ \A i \in 1 .. k : u[i] = t[i]
    <2>1. (k + 1) - 1 = k /\ k + 1 \in 1 .. k + 1 /\ \A i \in 1 .. k : i \in 1 .. k + 1
      OBVIOUS
    <2> HIDE DEF s, t, u
    <2> QED BY <1>2, <1>3, <1>5, <2>1
  <1> HIDE DEF S, s, t, u
  <1>7. u = t
    <2>1. \A i \in 1 .. k + 1 : u[i] = t[i]
      <3>1. \A i \in 1 .. k + 1 : i \in 1 .. k \/ i = k + 1
        OBVIOUS
      <3> QED BY <1>6, <3>1
    <2> QED BY <1>3, <1>5, <2>1
  <1> QED
    BY <1>7 DEF s, t, u, e

LEMMA LoadUnitKeeps ==
  ASSUME WriterInv, ReadersInv, NEW r \in Readers, LoadUnit(r)
  PROVE  ReadersInv'
  <1> DEFINE d == rd[r]
             m == d.m
             msg == Published(m)
             k == Len(d.buf)
             last == k + 1 = d.len \/ k + 1 = BufLen
             u == area[(d.loc + k) % MaSize]
             buf == Append(d.buf, u)
             pc == IF last THEN "same3" ELSE "body"
             rec == [d EXCEPT !.buf = buf, !.pc = pc]
  <1>1. d.pc = "body" /\ Set(r, rec) /\ d \in ReaderType /\ ReaderInv(d)
    BY ReaderFacts DEF LoadUnit
  <1>2. Written \in Nat /\ First \in Nat /\ m \in Int /\ m \in Start .. Written
    BY ReaderFacts
  <1>3. Holds(d)
    BY <1>1 DEF ReaderInv, Copying
  <1> HIDE DEF d
  <1>4. d.buf \in Seq(Unit) /\ k \in Nat /\ d.loc \in 0 .. MaSize - 1
        /\ MaSize \in Nat \ {0} /\ BufLen \in Nat \ {0}
    <2>1. d.buf \in Seq(Unit) /\ d.loc \in 0 .. MaSize - 1
      BY ONLY <1>1 DEF ReaderType
    <2> QED BY <2>1, Constants
  <1>5. u \in Unit
    <2>1. area \in [0 .. MaSize - 1 -> Unit]
      BY DEF WriterInv, WriterType
    <2> HIDE DEF k
    <2>2. d.loc + k \in Int
      BY <1>4
    <2>3. (d.loc + k) % MaSize \in 0 .. MaSize - 1
      BY <1>4, <2>2, DivMod
    <2> QED BY <2>1, <2>3
  <1>6. buf \in Seq(Unit) /\ Len(buf) = k + 1
    <2> HIDE DEF u
    <2> QED BY <1>4, <1>5
  <1>7. pc \in {"same3", "body"}
    OBVIOUS
  <1>8. ASSUME m >= First
        PROVE  /\ d.loc = Loc(m - 1) /\ d.id = msg.id /\ d.len = msg.len
               /\ buf = Content(msg, k + 1)
               /\ pc = "body" => k + 1 < Fit(msg.len)
               /\ pc = "same3" => k + 1 = Fit(msg.len)
    <2>1. d.loc = Loc(m - 1) /\ d.id = msg.id /\ d.len = msg.len /\ d.buf = Content(msg, k)
          /\ k < Fit(msg.len) /\ m < Written
      BY <1>1, <1>3, <1>8 DEF Holds, Right
    <2>2. m \in First .. Written - 1 /\ m \in Start .. Written - 1
      BY <1>2, <1>8, <2>1
    <2>3. msg.len \in 1 .. MaSize
      <3>1. WriterType
        BY DEF WriterInv
      <3> QED BY <2>2, <3>1, PublishedType
    <2> HIDE DEF k, m
    <2>4. Fit(msg.len) \in Nat /\ Fit(msg.len) <= msg.len
      <3> DEFINE l == msg.len
      <3>1. Fit(l) \in 1 .. MaSize /\ Fit(l) <= l
        <4> HIDE DEF l
        <4> QED BY <2>3, FitType DEF l
      <3> DEFINE f == Fit(l)
      <3>2. f \in Nat
        <4> HIDE DEF f
        <4> QED BY <1>4, <3>1 DEF f
      <3> QED BY <3>1, <3>2
    <2>5. k \in 0 .. msg.len - 1
      <3> DEFINE l == msg.len
                 f == Fit(l)
      <3>1. f \in Nat /\ f <= l /\ k < f /\ l \in Nat
        <4>1. l \in Nat
          <5> HIDE DEF l
          <5> QED BY <1>4, <2>3 DEF l
        <4> QED BY <2>1, <2>4, <4>1
      <3> HIDE DEF f, l
      <3>2. k \in 0 .. l - 1
        BY <1>4, <3>1
      <3> QED BY <3>2 DEF l
    <2>6. u = <<msg.id, k>>
      BY <2>1, <2>2, <2>5, UnitAt
    <2>7. buf = Content(msg, k + 1)
      <3>1. Append(Content(msg, k), <<msg.id, k>>) = Content(msg, k + 1)
        BY <1>4, ContentGrows
      <3> QED BY <2>1, <2>6, <3>1
    <2>8. (pc = "body" => k + 1 < Fit(msg.len)) /\ (pc = "same3" => k + 1 = Fit(msg.len))
      <3> DEFINE l == msg.len
      <3>1. l \in Nat /\ k < (IF l > BufLen THEN BufLen ELSE l) /\ d.len = l
        <4>1. l \in Nat
          <5> HIDE DEF l
          <5> QED BY <1>4, <2>3 DEF l
        <4> QED BY <2>1, <4>1 DEF Fit
      <3> HIDE DEF l
      <3>2. last <=> k + 1 = l \/ k + 1 = BufLen
        BY <3>1
      <3>3. (last => k + 1 = IF l > BufLen THEN BufLen ELSE l)
            /\ (~ last => k + 1 < IF l > BufLen THEN BufLen ELSE l)
        <4> HIDE DEF last
        <4> QED BY <1>4, <3>1, <3>2
      <3>4. (pc = "body" => ~ last) /\ (pc = "same3" => last)
        OBVIOUS
      <3> HIDE DEF pc, last
      <3> QED BY <3>3, <3>4 DEF Fit, l
    <2> QED BY <2>1, <2>7, <2>8
  <1> HIDE DEF u, buf, pc, k
  <1>9. /\ rec \in ReaderType
        /\ rec.pc = pc /\ rec.m = d.m /\ rec.rpt = d.rpt /\ rec.rpage = d.rpage
        /\ rec.answer = d.answer /\ rec.num0 = d.num0 /\ rec.published = d.published
        /\ rec.expired = d.expired /\ rec.buf = buf /\ rec.id = d.id /\ rec.len = d.len
        /\ rec.loc = d.loc
    BY ONLY <1>1, <1>6, <1>7 DEF ReaderType
  <1> HIDE DEF rec
  <1>10. ASSUME m >= First PROVE Right(rec) /\ rec.loc = Loc(rec.m - 1)
    BY <1>6, <1>7, <1>8, <1>9, <1>10 DEF Right
  <1>11. Holds(rec)
    BY <1>3, <1>9, <1>10 DEF Holds
  <1>12. ReaderInv(rec)
    BY <1>1, <1>7, <1>9, <1>11, SameCall DEF Deciding, Copying
  <1> QED BY <1>1, <1>9, <1>12, SetKeeps

LEMMA BeginSeekKeeps ==
  ASSUME WriterInv, ReadersInv, NEW r \in Readers, BeginSeek(r)
  PROVE  ReadersInv'
  <1> DEFINE d == rd[r]
             rec == [d EXCEPT !.pc = "seek", !.cnum = num, !.answer = NoAnswer,
                              !.published = Written, !.expired = First]
  <1>1. d.pc = "idle" /\ Set(r, rec)
    BY DEF BeginSeek
  <1>2. d \in ReaderType /\ ReaderInv(d)
    BY ReaderFacts
  <1>3. /\ Written \in Nat /\ First \in Nat /\ Start \in Nat /\ MaxLead \in Nat
        /\ Start <= First /\ First <= Written /\ num.n = Written - First
        /\ num.p = PtrOf(Written) /\ num \in NumPt
    BY ReaderFacts
  <1> HIDE DEF d
  <1>4. /\ rec \in ReaderType
        /\ rec.pc = "seek" /\ rec.cnum = num /\ rec.answer = NoAnswer /\ rec.published = Written
        /\ rec.expired = First /\ rec.m = d.m /\ rec.rpt = d.rpt /\ rec.rpage = d.rpage
        /\ rec.buf = d.buf
    <2>1. NoAnswer \in AnswerType
      BY DEF NoAnswer, AnswerType
    <2>2. First \in Int /\ Written \in Nat /\ num \in NumPt /\ d \in ReaderType
      BY <1>2, <1>3
    <2>3. rec \in ReaderType
      BY ONLY <2>1, <2>2 DEF ReaderType
    <2>4. /\ rec.pc = "seek" /\ rec.cnum = num /\ rec.answer = NoAnswer /\ rec.published = Written
          /\ rec.expired = First /\ rec.m = d.m /\ rec.rpt = d.rpt /\ rec.rpage = d.rpage
          /\ rec.buf = d.buf
      BY ONLY <2>2 DEF ReaderType
    <2> QED BY <2>3, <2>4
  <1> HIDE DEF rec
  <1>5. Began(rec)
    <2>1. rec.published \in Start .. Written /\ rec.expired \in Start .. rec.published
          /\ Written - rec.published <= MaxLead /\ rec.expired <= First
      BY <1>3, <1>4
    <2> QED BY <1>4, <2>1 DEF Began
  <1>6. Seen(rec, Written) /\ Written \in rec.published .. Written
    <2>1. Written - num.n = First /\ First <= First /\ Written \in Written .. Written
      BY <1>3
    <2> QED BY <1>3, <1>4, <2>1 DEF Seen
  <1>7. AnswerRight(rec.m, rec.answer)
    BY <1>4 DEF AnswerRight, NoAnswer
  <1>8. ReaderInv(rec)
    BY <1>1, <1>2, <1>4, <1>5, <1>6, <1>7 DEF ReaderInv, Located, Copying
  <1> QED
    BY <1>1, <1>4, <1>8, SetKeeps

\* Where LB_seek goes: a message that was available when the call began, or
\* the next one to come.
LEMMA SeekTarget ==
  ASSUME WriterInv, ReadersInv, NEW r \in Readers, rd[r].pc = "seek",
         NEW id \in {"LB_FIRST", "LB_LATEST"}
  PROVE  LET d == rd[r]
             inc == IF d.cnum.n = 0 THEN 0 ELSE IF id = "LB_FIRST" THEN -d.cnum.n ELSE -1
             new == ComputePointer(d.cnum.p, CorrectedPage(d.cnum.p, page), inc)
         IN  /\ d.published + inc \in d.expired .. d.published
             /\ d.published + inc \in Start .. Written
             /\ new.pt = PtrOf(d.published + inc) /\ new.page = PageOf(d.published + inc)
  <1> DEFINE d == rd[r]
             n == d.cnum.n
             inc == IF n = 0 THEN 0 ELSE IF id = "LB_FIRST" THEN -n ELSE -1
             p == d.published
  <1>1. d \in ReaderType /\ ReaderInv(d) /\ Written \in Nat /\ Start \in Nat
    BY ReaderFacts
  <1>2. PICK w \in d.published .. Written : Seen(d, w)
    BY <1>1 DEF ReaderInv, Deciding
  <1>3. w = d.published /\ w - n = d.expired /\ d.cnum.p = PtrOf(p)
    BY <1>2 DEF Seen
  <1>4. Began(d)
    BY <1>1 DEF ReaderInv
  <1>5. CorrectedPage(d.cnum.p, page) = PageOf(w)
    <2>1. \A e \in ReaderType : ReaderInv(e) /\ e.pc # "idle"
            => \A x \in e.published .. Written : Seen(e, x) =>
                 CorrectedPage(e.cnum.p, page) = PageOf(x)
      BY Verdict
    <2> HIDE DEF d
    <2> QED BY <1>1, <1>2, <2>1 DEF d
  <1>6. p \in Nat /\ n \in Nat /\ d.expired = p - n /\ d.expired >= Start /\ p <= Written
    <2> HIDE DEF d
    <2>1. p \in Nat /\ n \in Nat
      <3>1. MaxMsgs \in Nat
        BY Constants
      <3> QED BY ONLY <1>1, <3>1 DEF ReaderType, NumPt
    <2>2. d.expired \in Start .. p /\ p \in Start .. Written /\ d.expired = p - n
      BY <1>3, <1>4 DEF Began
    <2> QED BY <1>1, <2>1, <2>2
  <1> DEFINE x == d.expired
  <1> HIDE DEF d
  <1>7. inc \in Int /\ p + inc \in x .. p /\ p + inc \in Start .. Written
    <2> HIDE DEF n, p, x
    <2>1. x \in Int /\ x = p - n
      BY <1>6 DEF x
    <2>2. CASE n = 0
      BY <1>1, <1>6, <2>1, <2>2 DEF x
    <2>3. CASE n # 0 /\ id = "LB_FIRST"
      BY <1>1, <1>6, <2>1, <2>3 DEF x
    <2>4. CASE n # 0 /\ id # "LB_FIRST"
      BY <1>1, <1>6, <2>1, <2>4 DEF x
    <2> QED BY <2>2, <2>3, <2>4
  <1>8. ComputePointer(PtrOf(p), PageOf(p), inc) = [pt |-> PtrOf(p + inc), page |-> PageOf(p + inc)]
    <2> HIDE DEF inc, p
    <2>1. p \in Int /\ inc \in Int
      BY <1>6, <1>7
    <2> QED BY ONLY <2>1, ComputeRight
  <1> HIDE DEF inc, p
  <1> QED
    BY <1>3, <1>5, <1>7, <1>8 DEF inc, p, n, d, x

LEMMA EndSeekKeeps ==
  ASSUME WriterInv, ReadersInv, NEW r \in Readers,
         NEW id \in {"LB_FIRST", "LB_LATEST"}, EndSeek(r, id)
  PROVE  ReadersInv'
  <1> DEFINE d == rd[r]
             inc == IF d.cnum.n = 0 THEN 0 ELSE IF id = "LB_FIRST" THEN -d.cnum.n ELSE -1
             v == d.published + inc
             rec == AtRest(PtrOf(v), PageOf(v), v, NoAnswer)
  <1>1. d.pc = "seek"
    BY DEF EndSeek
  <1>2. v \in Start .. Written
    BY <1>1, SeekTarget
  <1>3. Set(r, rec)
    BY <1>1, SeekTarget DEF EndSeek
  <1>4. NoAnswer \in AnswerType /\ AnswerRight(v, NoAnswer)
    BY DEF NoAnswer, AnswerType, AnswerRight
  <1>5. rec \in ReaderType /\ ReaderInv(rec)
    <2> HIDE DEF v
    <2> QED BY <1>2, <1>4, AtRestRight
  <1> HIDE DEF rec
  <1> QED
    BY <1>3, <1>5, SetKeeps

--------------------------------------------------------------------------------
(* The readers' theorems *)

LEMMA ReadersInit == Init => ReadersInv
  <1> SUFFICES ASSUME Init PROVE ReadersInv
    OBVIOUS
  <1>1. WriterInv
    BY WriterInit
  <1>2. Written = Start /\ Start \in Nat
    <2>1. Len(log) = 0
      BY DEF Init
    <2> QED BY <2>1, Constants DEF Written
  <1> DEFINE rec == AtRest(PtrOf(Start), PageOf(Start), Start, NoAnswer)
  <1>3. rd = [r \in Readers |-> rec]
    BY DEF Init, PtrOf, PageOf
  <1>4. NoAnswer \in AnswerType /\ AnswerRight(Start, NoAnswer)
    BY DEF NoAnswer, AnswerType, AnswerRight
  <1>5. Start \in Start .. Written
    BY <1>2
  <1>6. rec \in ReaderType /\ ReaderInv(rec)
    BY <1>1, <1>4, <1>5, AtRestRight
  <1> HIDE DEF rec
  <1> QED
    BY <1>3, <1>6 DEF ReadersInv

LEMMA ReaderStep == WriterInv /\ ReadersInv /\ [Next]_vars => ReadersInv'
  <1> SUFFICES ASSUME WriterInv, ReadersInv, [Next]_vars PROVE ReadersInv'
    OBVIOUS
  <1>1. CASE Write \/ (\E k \in 1 .. MaxMsgs : Clear(k)) \/ Crash \/ UNCHANGED vars
    <2>1. WriterInv'
      BY WriterStep
    <2> QED BY <1>1, <2>1, WritersKeepReaders
  <1>2. ASSUME NEW r \in Readers, Read(r)
        PROVE  ReadersInv'
    BY <1>2, BeginReadKeeps, LoadNumKeeps, LoadPageKeeps, LoadPrevKeeps, LoadCurrKeeps,
       CheckAgainKeeps, LoadUnitKeeps DEF Read
  <1>3. ASSUME NEW r \in Readers, SeekCall(r)
        PROVE  ReadersInv'
    BY <1>3, BeginSeekKeeps, EndSeekKeeps DEF SeekCall
  <1> QED
    BY <1>1, <1>2, <1>3 DEF Next

(***************************************************************************)
(* Both invariants hold of every behaviour, whatever writers and readers do *)
(* in whatever order.                                                       *)
(***************************************************************************)
THEOREM StreamCorrect == Spec => [](WriterInv /\ ReadersInv)
  <1>1. Init => WriterInv /\ ReadersInv
    BY WriterInit, ReadersInit
  <1>2. WriterInv /\ ReadersInv /\ [Next]_vars => WriterInv' /\ ReadersInv'
    BY WriterStep, ReaderStep
  <1> QED
    BY <1>1, <1>2, PTL DEF Spec

(***************************************************************************)
(* The type invariant: among others, no index a writer or a reader computes *)
(* leaves the directory or the message area.                                *)
(***************************************************************************)
THEOREM TypeCorrect == Spec => []TypeOK
  <1>1. WriterInv /\ ReadersInv => TypeOK
    BY TypesTogether DEF WriterInv, ReadersInv
  <1> QED
    BY <1>1, StreamCorrect, PTL

(***************************************************************************)
(* "No corrupted messages are ever read": for every size of the buffer, any *)
(* number of readers, any lengths and whatever writers overwrite, clear or  *)
(* leave behind when they die, data returned without a lock is the message  *)
(* the read pointer stood for.                                              *)
(***************************************************************************)
THEOREM ReadsFaithfulCorrect == Spec => []ReadsFaithful
  <1>1. WriterInv /\ ReadersInv => ReadsFaithful
    <2> SUFFICES ASSUME ReadersInv PROVE ReadsFaithful
      OBVIOUS
    <2>1. \A r \in Readers : AnswerRight(rd[r].m, rd[r].answer)
      BY DEF ReadersInv, ReaderInv
    <2> QED BY <2>1 DEF AnswerRight, ReadsFaithful, Fit
  <1> QED
    BY <1>1, StreamCorrect, PTL

--------------------------------------------------------------------------------
(* The refinement of LBQueue *)

\* What LBQueue sees of a reader's call and of its answer.
AskedOf(d) ==
  IF d.pc = "idle" THEN [reading |-> FALSE, published |-> 0, expired |-> 0]
  ELSE [reading |-> TRUE, published |-> d.published - Start, expired |-> d.expired - Start]

AnswerOf(a) ==
  IF a.kind \in {"message", "cut"} THEN [kind |-> a.kind, msg |-> [id |-> a.id, len |-> a.len]]
  ELSE [kind |-> a.kind]

Cursor == [r \in Readers |-> rd[r].m - Start]
Asked == [r \in Readers |-> AskedOf(rd[r])]
Answers == [r \in Readers |-> AnswerOf(rd[r].answer)]

\* A reader's step, seen by LBQueue.
LEMMA ViewOfSet ==
  ASSUME ReadersInv, NEW r \in Readers, NEW rec, Set(r, rec)
  PROVE  /\ log' = log /\ (First - Start)' = First - Start
         /\ Cursor' = [Cursor EXCEPT ![r] = rec.m - Start]
         /\ Asked' = [Asked EXCEPT ![r] = AskedOf(rec)]
         /\ Answers' = [Answers EXCEPT ![r] = AnswerOf(rec.answer)]
  <1>1. rd' = [rd EXCEPT ![r] = rec] /\ UNCHANGED wvars /\ rd \in [Readers -> ReaderType]
    BY DEF Set, ReadersInv
  <1>2. \A q \in Readers : rd'[q] = IF q = r THEN rec ELSE rd[q]
    BY <1>1
  <1>3. log' = log /\ num' = num
    BY <1>1 DEF wvars
  <1>4. (First - Start)' = First - Start
    BY <1>3 DEF First, Written
  <1>5. Cursor' = [Cursor EXCEPT ![r] = rec.m - Start]
    BY <1>2 DEF Cursor
  <1>6. Asked' = [Asked EXCEPT ![r] = AskedOf(rec)]
    <2>1. ASSUME NEW q \in Readers
          PROVE  AskedOf(rd[q])' = IF q = r THEN AskedOf(rec) ELSE AskedOf(rd[q])
      <3>1. AskedOf(rd[q])' = AskedOf(rd'[q])
        BY DEF AskedOf
      <3>2. CASE q = r
        BY <1>2, <3>1, <3>2
      <3>3. CASE q # r
        BY <1>2, <3>1, <3>3
      <3> QED BY <3>2, <3>3
    <2> QED BY <2>1 DEF Asked
  <1>7. Answers' = [Answers EXCEPT ![r] = AnswerOf(rec.answer)]
    <2>1. \A q \in Readers :
            AnswerOf(rd[q].answer)' = IF q = r THEN AnswerOf(rec.answer) ELSE AnswerOf(rd[q].answer)
      BY <1>2 DEF AnswerOf
    <2> QED BY <2>1 DEF Answers
  <1> QED
    BY <1>3, <1>4, <1>5, <1>6, <1>7

\* Loads within a call change nothing that LBQueue sees.
LEMMA WithinCall ==
  ASSUME ReadersInv, NEW r \in Readers, NEW rec, Set(r, rec),
         rd[r].pc # "idle", rec.pc # "idle", rec.m = rd[r].m, rec.answer = rd[r].answer,
         rec.published = rd[r].published, rec.expired = rd[r].expired
  PROVE  UNCHANGED Queue!vars
  <1>1. /\ log' = log /\ (First - Start)' = First - Start
        /\ Cursor' = [Cursor EXCEPT ![r] = rec.m - Start]
        /\ Asked' = [Asked EXCEPT ![r] = AskedOf(rec)]
        /\ Answers' = [Answers EXCEPT ![r] = AnswerOf(rec.answer)]
    BY ViewOfSet
  <1>2. Cursor[r] = rec.m - Start /\ Asked[r] = AskedOf(rec) /\ Answers[r] = AnswerOf(rec.answer)
    BY DEF Cursor, Asked, Answers, AskedOf
  <1>3. Cursor' = Cursor
    BY <1>1, <1>2 DEF Cursor
  <1>4. Asked' = Asked
    BY <1>1, <1>2 DEF Asked
  <1>5. Answers' = Answers
    BY <1>1, <1>2 DEF Answers
  <1> QED
    BY <1>1, <1>3, <1>4, <1>5 DEF Queue!vars, Cursor, Asked, Answers, AskedOf, AnswerOf

\* The begin of a read or of a seek.
LEMMA BeginMaps ==
  ASSUME WriterInv, ReadersInv, NEW r \in Readers, BeginRead(r) \/ BeginSeek(r)
  PROVE  Queue!Next
  <1>1. PICK rec : /\ Set(r, rec) /\ rec.pc # "idle" /\ rec.m = rd[r].m
                   /\ rec.answer = NoAnswer /\ rec.published = Written /\ rec.expired = First
    <2>1. CASE BeginRead(r)
      <3> DEFINE d == rd[r]
                 rec == [d EXCEPT !.pc = "num1", !.num0 = num, !.answer = NoAnswer,
                                  !.published = Written, !.expired = First]
      <3>1. Set(r, rec)
        BY <2>1 DEF BeginRead
      <3>2. d \in ReaderType
        BY ReaderFacts
      <3> HIDE DEF d
      <3>3. rec.pc = "num1" /\ rec.m = d.m
            /\ rec.answer = NoAnswer /\ rec.published = Written /\ rec.expired = First
        BY ONLY <3>2 DEF ReaderType
      <3> HIDE DEF rec
      <3> QED BY <3>1, <3>3 DEF d
    <2>2. CASE BeginSeek(r)
      <3> DEFINE d == rd[r]
                 rec == [d EXCEPT !.pc = "seek", !.cnum = num, !.answer = NoAnswer,
                                  !.published = Written, !.expired = First]
      <3>1. Set(r, rec)
        BY <2>2 DEF BeginSeek
      <3>2. d \in ReaderType
        BY ReaderFacts
      <3> HIDE DEF d
      <3>3. rec.pc = "seek" /\ rec.m = d.m
            /\ rec.answer = NoAnswer /\ rec.published = Written /\ rec.expired = First
        BY ONLY <3>2 DEF ReaderType
      <3> HIDE DEF rec
      <3> QED BY <3>1, <3>3 DEF d
    <2> QED BY <2>1, <2>2
  <1>2. rd[r].pc = "idle"
    BY DEF BeginRead, BeginSeek
  <1>3. /\ log' = log /\ (First - Start)' = First - Start
        /\ Cursor' = [Cursor EXCEPT ![r] = rec.m - Start]
        /\ Asked' = [Asked EXCEPT ![r] = AskedOf(rec)]
        /\ Answers' = [Answers EXCEPT ![r] = AnswerOf(rec.answer)]
    BY <1>1, ViewOfSet
  <1>4. Len(log) = Written - Start
    BY Counts DEF WriterInv
  <1>5. Asked[r] = Queue!NotReading
    BY <1>2 DEF Asked, AskedOf, Queue!NotReading
  <1>6. AskedOf(rec) = [reading |-> TRUE, published |-> Len(log), expired |-> First - Start]
    BY <1>1, <1>4 DEF AskedOf
  <1>7. AnswerOf(rec.answer) = Queue!NoAnswer
    BY <1>1 DEF AnswerOf, NoAnswer, Queue!NoAnswer
  <1>8. Cursor' = Cursor
    BY <1>1, <1>3 DEF Cursor
  <1>9. /\ Asked[r] = Queue!NotReading
        /\ Asked' = [Asked EXCEPT ![r] =
             [reading |-> TRUE, published |-> Len(log), expired |-> First - Start]]
        /\ Answers' = [Answers EXCEPT ![r] = Queue!NoAnswer]
        /\ UNCHANGED <<log, First - Start, Cursor>>
    BY <1>3, <1>5, <1>6, <1>7, <1>8
  <1>10. Queue!BeginRead(r)
    BY <1>9 DEF Queue!BeginRead, Asked, Answers, Cursor, AskedOf, AnswerOf
  <1> QED
    BY <1>10 DEF Queue!Next

\* The answer is right about the message the reader stood for.
AnswerTrue(d, a) ==
  /\ a.kind \in {"message", "cut"} =>
       d.expired <= d.m /\ d.m < Written /\ AnswerRight(d.m + 1, a)
  /\ a.kind = "expired" => d.m < First
  /\ a.kind = "toCome" => d.m >= d.published

\* The end of a read is one of the three ends LBQueue allows.
LEMMA EndReadMaps ==
  ASSUME WriterInv, ReadersInv, NEW r \in Readers, rd[r].pc # "idle",
         NEW a \in AnswerType, EndRead(r, a),
         a.kind \in {"message", "cut", "expired", "toCome"}, AnswerTrue(rd[r], a)
  PROVE  Queue!Next
  <1> DEFINE d == rd[r]
             step == IF a.kind = "toCome" THEN 0 ELSE 1
  <1>1. /\ d \in ReaderType /\ d.m \in Int /\ d.m \in Start .. Written /\ Start \in Nat
        /\ Written \in Nat /\ First \in Nat
    BY ReaderFacts
  <1>2. d.published \in Nat /\ d.expired \in Int
    <2> HIDE DEF d
    <2> QED BY ONLY <1>1 DEF ReaderType
  <1>3. PICK rec : Set(r, rec) /\ rec.pc = "idle" /\ rec.m = d.m + step /\ rec.answer = a
    <2>1. CASE a.kind = "toCome"
      <3> DEFINE rec == AtRest(d.rpt, d.rpage, d.m, a)
      <3>1. Set(r, rec)
        BY <2>1 DEF EndRead
      <3>2. rec.pc = "idle" /\ rec.m = d.m /\ rec.answer = a
        BY DEF AtRest
      <3>3. d.m = d.m + step
        BY <1>1, <2>1
      <3> HIDE DEF rec
      <3> QED BY <3>1, <3>2, <3>3
    <2>2. CASE a.kind # "toCome"
      <3> DEFINE rpt == (d.rpt + 1) % PtrRange
                 rec == AtRest(rpt, CorrectedPage(rpt, d.rpage), d.m + 1, a)
      <3>1. Set(r, rec)
        BY <2>2 DEF EndRead
      <3>2. rec.pc = "idle" /\ rec.m = d.m + 1 /\ rec.answer = a
        BY DEF AtRest
      <3>3. step = 1
        BY <2>2
      <3> HIDE DEF rec
      <3> QED BY <3>1, <3>2, <3>3
    <2> QED BY <2>1, <2>2
  <1>4. /\ log' = log /\ (First - Start)' = First - Start
        /\ Cursor' = [Cursor EXCEPT ![r] = rec.m - Start]
        /\ Asked' = [Asked EXCEPT ![r] = AskedOf(rec)]
        /\ Answers' = [Answers EXCEPT ![r] = AnswerOf(rec.answer)]
    BY <1>3, ViewOfSet
  <1>5. Len(log) = Written - Start
    BY Counts DEF WriterInv
  <1>6. /\ Cursor[r] = d.m - Start
        /\ Asked[r] = [reading |-> TRUE, published |-> d.published - Start,
                       expired |-> d.expired - Start]
    BY DEF Asked, AskedOf, Cursor
  <1>7. AskedOf(rec) = Queue!NotReading /\ Asked[r] # Queue!NotReading
        /\ AnswerOf(rec.answer) = AnswerOf(a)
    BY <1>3, <1>6 DEF AskedOf, Queue!NotReading
  <1>8. Cursor' = [Cursor EXCEPT ![r] = @ + step]
    <2>1. rec.m - Start = (d.m - Start) + step
      <3> HIDE DEF d
      <3> QED BY <1>1, <1>3
    <2>2. rec.m - Start = Cursor[r] + step
      BY <1>6, <2>1
    <2> QED BY <1>4, <2>2
  <1>9. Queue!EndRead(r, AnswerOf(a), step)
    <2>1. /\ Asked[r] # Queue!NotReading
          /\ Asked' = [Asked EXCEPT ![r] = Queue!NotReading]
          /\ Answers' = [Answers EXCEPT ![r] = AnswerOf(a)]
          /\ Cursor' = [Cursor EXCEPT ![r] = @ + step]
          /\ UNCHANGED <<log, First - Start>>
      BY <1>4, <1>7, <1>8
    <2> HIDE DEF step
    <2> QED BY <2>1 DEF Queue!EndRead, Asked, Answers, Cursor, AskedOf, AnswerOf
  <1>10. CASE a.kind \in {"message", "cut"}
    <2> DEFINE msg == Published(d.m)
    <2>1. d.expired <= d.m /\ d.m < Written /\ AnswerRight(d.m + 1, a)
      BY <1>10 DEF AnswerTrue
    <2>2. Cursor[r] < Len(log) /\ Cursor[r] >= Asked[r].expired /\ Cursor[r] + 1 = d.m - Start + 1
      <3>1. Asked[r].expired = d.expired - Start
        BY <1>6
      <3> HIDE DEF d
      <3> QED BY <1>1, <1>2, <1>5, <1>6, <2>1, <3>1
    <2>3. msg = [id |-> a.id, len |-> a.len]
      <3>1. (d.m + 1) - 1 = d.m /\ d.m \in Start .. Written - 1
        BY <1>1, <2>1
      <3>2. a.id = msg.id /\ a.len = msg.len
        BY <1>10, <2>1, <3>1 DEF AnswerRight
      <3>3. WriterType
        BY DEF WriterInv
      <3>4. msg \in [id : 1 .. MaxWrites, len : Lens]
        BY <3>1, <3>3, PublishedType
      <3> HIDE DEF msg
      <3> QED BY <3>2, <3>4
    <2>4. log[Cursor[r] + 1] = [id |-> a.id, len |-> a.len]
      BY <2>2, <2>3 DEF Published
    <2> DEFINE whole == a.kind = "message"
    <2>5. AnswerOf(a) = [kind |-> IF whole THEN "message" ELSE "cut", msg |-> log[Cursor[r] + 1]]
      BY <1>10, <2>4 DEF AnswerOf
    <2>6. step = 1
      BY <1>10
    <2>7. Queue!EndRead(r, [kind |-> IF whole THEN "message" ELSE "cut",
                            msg |-> log[Cursor[r] + 1]], 1)
      BY <1>9, <2>5, <2>6
    <2> HIDE DEF whole
    <2>8. Queue!ReturnMessage(r, whole)
      BY <2>2, <2>7 DEF Queue!ReturnMessage, Asked, Cursor, AskedOf
    <2>9. whole \in BOOLEAN
      BY DEF whole
    <2> QED BY <2>8, <2>9 DEF Queue!Next
  <1>11. CASE a.kind = "expired"
    <2>1. Cursor[r] < First - Start
      <3>1. d.m < First
        BY <1>11 DEF AnswerTrue
      <3> HIDE DEF d
      <3> QED BY <1>1, <1>6, <3>1
    <2>2. AnswerOf(a) = [kind |-> "expired"] /\ step = 1
      BY <1>11 DEF AnswerOf
    <2>3. Queue!EndRead(r, [kind |-> "expired"], 1)
      BY <1>9, <2>2
    <2>4. Queue!ReturnExpired(r)
      BY <2>1, <2>3 DEF Queue!ReturnExpired, Cursor
    <2> QED BY <2>4 DEF Queue!Next
  <1>12. CASE a.kind = "toCome"
    <2>1. Cursor[r] >= Asked[r].published
      <3>1. d.m >= d.published
        BY <1>12 DEF AnswerTrue
      <3>2. Asked[r].published = d.published - Start
        BY <1>6
      <3> HIDE DEF d
      <3> QED BY <1>1, <1>2, <1>6, <3>1, <3>2
    <2>2. AnswerOf(a) = [kind |-> "toCome"] /\ step = 0
      BY <1>12 DEF AnswerOf
    <2>3. Queue!EndRead(r, [kind |-> "toCome"], 0)
      BY <1>9, <2>2
    <2>4. Queue!ReturnToCome(r)
      BY <2>1, <2>3 DEF Queue!ReturnToCome, Cursor, Asked, AskedOf
    <2> QED BY <2>4 DEF Queue!Next
  <1> QED
    BY <1>10, <1>11, <1>12

\* A move within the call, by way of WithinCall.
LEMMA MovesTo ==
  ASSUME WriterInv, ReadersInv, NEW r \in Readers, rd[r].pc # "idle",
         NEW pc, pc # "idle", Set(r, [rd[r] EXCEPT !.pc = pc])
  PROVE  UNCHANGED Queue!vars
  <1> DEFINE d == rd[r]
             rec == [d EXCEPT !.pc = pc]
  <1>1. d \in ReaderType /\ d.pc # "idle" /\ Set(r, rec)
    BY ReaderFacts
  <1>2. /\ rec.pc # "idle" /\ rec.m = rd[r].m /\ rec.answer = rd[r].answer
        /\ rec.published = rd[r].published /\ rec.expired = rd[r].expired
    <2>1. rec.pc = pc /\ rec.m = d.m /\ rec.answer = d.answer /\ rec.published = d.published
          /\ rec.expired = d.expired
      <3> HIDE DEF d
      <3> QED BY ONLY <1>1 DEF ReaderType
    <2> HIDE DEF rec
    <2> QED BY <2>1 DEF d
  <1> HIDE DEF rec
  <1> QED
    BY <1>1, <1>2, WithinCall DEF d

LEMMA LoadPageMaps ==
  ASSUME WriterInv, ReadersInv, NEW r \in Readers, LoadPage(r)
  PROVE  Queue!Next \/ UNCHANGED Queue!vars
  <1> DEFINE d == rd[r]
             v == CheckPointer(d.cnum, page, d.rpt, d.rpage)
  <1>1. d.pc \in {"page1", "page2", "page3"} /\ d.pc # "idle"
    BY DEF LoadPage
  <1>2. /\ v \in {"ok", "toCome", "expired"}
        /\ v = "ok" => /\ d.expired <= d.m /\ d.m < Written
                       /\ d.pc \in {"page2", "page3"} => Right(d)
        /\ v = "toCome" => d.m >= d.published /\ d.pc = "page1"
        /\ v = "expired" => d.m < First
    BY <1>1, CheckedPage
  <1>3. CASE v = "ok" /\ d.pc \in {"page1", "page2"}
    <2>1. Set(r, [rd[r] EXCEPT !.pc = "prev"]) \/ Set(r, [rd[r] EXCEPT !.pc = "body"])
      BY <1>3 DEF LoadPage
    <2>2. "prev" # "idle" /\ "body" # "idle"
      OBVIOUS
    <2> QED BY <1>1, <2>1, <2>2, MovesTo
  <1>4. CASE v = "ok" /\ d.pc = "page3"
    <2> DEFINE a == Message(r)
    <2>1. EndRead(r, a)
      BY <1>4 DEF LoadPage
    <2>2. d.expired <= d.m /\ d.m < Written /\ Right(d)
      BY <1>2, <1>4
    <2>3. a \in AnswerType /\ AnswerRight(d.m + 1, a)
      BY <1>4, <2>2, MessageRight
    <2>4. a.kind \in {"message", "cut"}
      BY DEF Message
    <2>5. AnswerTrue(rd[r], a)
      <3> HIDE DEF a
      <3> QED BY <2>2, <2>3, <2>4 DEF AnswerTrue
    <2> HIDE DEF a
    <2> QED BY <1>1, <2>1, <2>3, <2>4, <2>5, EndReadMaps
  <1>5. CASE v = "toCome"
    <2> DEFINE a == [kind |-> "toCome"]
    <2>1. EndRead(r, a) /\ a \in AnswerType /\ a.kind = "toCome"
      BY <1>2, <1>5, PlainAnswers DEF LoadPage
    <2> HIDE DEF a
    <2>2. AnswerTrue(rd[r], a)
      BY <1>2, <1>5, <2>1 DEF AnswerTrue
    <2> QED BY <1>1, <2>1, <2>2, EndReadMaps
  <1>6. CASE v = "expired"
    <2> DEFINE a == [kind |-> "expired"]
    <2>1. EndRead(r, a) /\ a \in AnswerType /\ a.kind = "expired"
      BY <1>6, PlainAnswers DEF LoadPage
    <2> HIDE DEF a
    <2>2. AnswerTrue(rd[r], a)
      BY <1>2, <1>6, <2>1 DEF AnswerTrue
    <2> QED BY <1>1, <2>1, <2>2, EndReadMaps
  <1> QED
    BY <1>1, <1>2, <1>3, <1>4, <1>5, <1>6

LEMMA CheckAgainMaps ==
  ASSUME WriterInv, ReadersInv, NEW r \in Readers, CheckAgain(r)
  PROVE  Queue!Next \/ UNCHANGED Queue!vars
  <1> DEFINE d == rd[r]
  <1>1. d.pc \in {"same2", "same3"} /\ d.pc # "idle"
    BY DEF CheckAgain
  <1>2. d \in ReaderType /\ ReaderInv(d)
    BY ReaderFacts
  <1>3. CASE ~ (d.pc = "same3" /\ num = d.num0)
    <2>1. PICK pc \in {"body", "num2", "num3"} : Set(r, [rd[r] EXCEPT !.pc = pc])
      BY <1>3 DEF CheckAgain
    <2>2. pc # "idle"
      BY <2>1
    <2> QED BY <1>1, <2>1, <2>2, MovesTo
  <1>4. CASE d.pc = "same3" /\ num = d.num0
    <2> DEFINE a == Message(r)
    <2>1. EndRead(r, a)
      BY <1>4 DEF CheckAgain
    <2>2. Began(d) /\ Holds(d)
      BY <1>2, <1>4 DEF ReaderInv, Copying
    <2>3. First = d.expired
      <3>1. \A e \in ReaderType : Began(e) /\ e.pc # "seek" /\ num = e.num0 => First = e.expired
        BY SameWord
      <3>2. d.pc # "seek"
        BY <1>4
      <3> HIDE DEF d
      <3> QED BY <1>2, <1>4, <2>2, <3>1, <3>2
    <2>4. d.expired <= d.m /\ d.m < Written /\ Right(d)
      BY <2>2, <2>3 DEF Holds
    <2>5. a \in AnswerType /\ AnswerRight(d.m + 1, a)
      BY <1>4, <2>4, MessageRight
    <2>6. a.kind \in {"message", "cut"}
      BY DEF Message
    <2>7. AnswerTrue(rd[r], a)
      <3> HIDE DEF a
      <3> QED BY <2>4, <2>5, <2>6 DEF AnswerTrue
    <2> HIDE DEF a
    <2> QED BY <1>1, <2>1, <2>5, <2>6, <2>7, EndReadMaps
  <1> QED
    BY <1>3, <1>4

\* The other loads of a read.
LEMMA LoadsMap ==
  ASSUME WriterInv, ReadersInv, NEW r \in Readers,
         LoadNum(r) \/ LoadPrev(r) \/ LoadCurr(r) \/ LoadUnit(r)
  PROVE  UNCHANGED Queue!vars
  <1> DEFINE d == rd[r]
  <1>1. d \in ReaderType /\ d = rd[r]
    BY ReaderFacts
  <1>2. SUFFICES d.pc # "idle" /\ \E rec : /\ Set(r, rec) /\ rec.pc # "idle" /\ rec.m = d.m
                   /\ rec.answer = d.answer /\ rec.published = d.published
                   /\ rec.expired = d.expired
    BY <1>2, WithinCall
  <1>3. CASE LoadNum(r)
    <2> DEFINE pc == CASE d.pc = "num1" -> "page1" [] d.pc = "num2" -> "page2" [] OTHER -> "page3"
               rec == [d EXCEPT !.cnum = num, !.pc = pc]
    <2>1. d.pc # "idle" /\ Set(r, rec)
      BY <1>3 DEF LoadNum
    <2>2. pc # "idle"
      <3>1. pc \in {"page1", "page2", "page3"}
        BY <1>3 DEF LoadNum
      <3> QED BY <3>1
    <2> HIDE DEF d, pc
    <2>3. rec.pc = pc /\ rec.m = d.m /\ rec.answer = d.answer /\ rec.published = d.published
          /\ rec.expired = d.expired
      BY ONLY <1>1 DEF ReaderType
    <2> HIDE DEF rec
    <2> QED BY <2>1, <2>2, <2>3
  <1>4. CASE LoadPrev(r)
    <2> DEFINE rec == [d EXCEPT !.pc = "curr", !.id = dir[Slot(d.rpt)].id,
                                !.loc = dir[Slot(PrevPtr(d.rpt))].loc]
    <2>1. d.pc # "idle" /\ Set(r, rec)
      BY <1>4 DEF LoadPrev
    <2> HIDE DEF d
    <2>2. rec.pc = "curr" /\ rec.m = d.m /\ rec.answer = d.answer /\ rec.published = d.published
          /\ rec.expired = d.expired
      BY ONLY <1>1 DEF ReaderType
    <2> HIDE DEF rec
    <2> QED BY <2>1, <2>2
  <1>5. CASE LoadCurr(r)
    <2> DEFINE e == dir[Slot(d.rpt)].loc - d.loc
               l == IF e <= 0 THEN e + MaSize ELSE e
               rec == [d EXCEPT !.pc = "same2", !.len = l]
    <2>1. d.pc # "idle" /\ Set(r, rec)
      BY <1>5 DEF LoadCurr
    <2> HIDE DEF d, l
    <2>2. rec.pc = "same2" /\ rec.m = d.m /\ rec.answer = d.answer /\ rec.published = d.published
          /\ rec.expired = d.expired
      BY ONLY <1>1 DEF ReaderType
    <2> HIDE DEF rec
    <2> QED BY <2>1, <2>2
  <1>6. CASE LoadUnit(r)
    <2> DEFINE k == Len(d.buf)
               last == k + 1 = d.len \/ k + 1 = BufLen
               buf == Append(d.buf, area[(d.loc + k) % MaSize])
               pc == IF last THEN "same3" ELSE "body"
               rec == [d EXCEPT !.buf = buf, !.pc = pc]
    <2>1. d.pc # "idle" /\ Set(r, rec)
      BY <1>6 DEF LoadUnit
    <2>2. pc # "idle"
      OBVIOUS
    <2> HIDE DEF d, buf, pc
    <2>3. rec.pc = pc /\ rec.m = d.m /\ rec.answer = d.answer /\ rec.published = d.published
          /\ rec.expired = d.expired
      BY ONLY <1>1 DEF ReaderType
    <2> HIDE DEF rec
    <2> QED BY <2>1, <2>2, <2>3
  <1> QED
    BY <1>3, <1>4, <1>5, <1>6

LEMMA EndSeekMaps ==
  ASSUME WriterInv, ReadersInv, NEW r \in Readers,
         NEW id \in {"LB_FIRST", "LB_LATEST"}, EndSeek(r, id)
  PROVE  Queue!Next
  <1> DEFINE d == rd[r]
             inc == IF d.cnum.n = 0 THEN 0 ELSE IF id = "LB_FIRST" THEN -d.cnum.n ELSE -1
             v == d.published + inc
             target == v - Start
             rec == AtRest(PtrOf(v), PageOf(v), v, NoAnswer)
  <1>1. d.pc = "seek" /\ d \in ReaderType /\ Start \in Nat /\ Written \in Nat
    BY ReaderFacts DEF EndSeek
  <1>2. v \in d.expired .. d.published /\ v \in Start .. Written
    BY <1>1, SeekTarget
  <1>3. Set(r, rec)
    BY <1>1, SeekTarget DEF EndSeek
  <1>4. rec.pc = "idle" /\ rec.m = v /\ rec.answer = NoAnswer
    BY DEF AtRest
  <1> HIDE DEF rec, v
  <1>5. /\ log' = log /\ (First - Start)' = First - Start
        /\ Cursor' = [Cursor EXCEPT ![r] = v - Start]
        /\ Asked' = [Asked EXCEPT ![r] = AskedOf(rec)]
        /\ Answers' = [Answers EXCEPT ![r] = AnswerOf(NoAnswer)]
    BY <1>3, <1>4, ViewOfSet
  <1>6. Asked[r] = [reading |-> TRUE, published |-> d.published - Start,
                    expired |-> d.expired - Start]
    BY <1>1 DEF Asked, AskedOf
  <1>7. AskedOf(rec) = Queue!NotReading /\ Asked[r] # Queue!NotReading
    BY <1>4, <1>6 DEF AskedOf, Queue!NotReading
  <1>8. Answers[r] = AnswerOf(NoAnswer)
    <2>1. d.answer = NoAnswer
      <3>1. ReaderInv(d)
        BY ReaderFacts
      <3> QED BY <1>1, <3>1 DEF ReaderInv, Began
    <2> QED BY <2>1 DEF Answers
  <1>9. Answers' = Answers
    BY <1>5, <1>8 DEF Answers
  <1>10. target \in Asked[r].expired .. Len(log)
    <2>1. Len(log) = Written - Start
      BY Counts DEF WriterInv
    <2>2. Asked[r].expired = d.expired - Start
      BY <1>6
    <2>3. d.expired \in Int
      <3> HIDE DEF d
      <3> QED BY ONLY <1>1 DEF ReaderType
    <2>4. d.published \in Nat
      <3> HIDE DEF d
      <3> QED BY ONLY <1>1 DEF ReaderType
    <2> HIDE DEF d
    <2> QED BY <1>1, <1>2, <2>1, <2>2, <2>3, <2>4
  <1>11. PICK x \in Asked[r].expired .. Len(log) : x = target
    BY <1>10
  <1>12. Queue!Seek(r, x)
    <2>1. Cursor' = [Cursor EXCEPT ![r] = x]
      BY <1>5, <1>11
    <2> HIDE DEF target
    <2> QED BY <1>5, <1>7, <1>9, <1>11, <2>1
            DEF Queue!Seek, Asked, Answers, Cursor, AskedOf, AnswerOf
  <1> QED
    BY <1>11, <1>12 DEF Queue!Next, Asked, AskedOf

\* Steps of writers leave the readers' part of the mapping alone.
LEMMA WriterMaps ==
  ASSUME WriterInv, WriterInv',
         Write \/ (\E k \in 1 .. MaxMsgs : Clear(k)) \/ Crash \/ UNCHANGED vars
  PROVE  Queue!Next \/ UNCHANGED Queue!vars
  <1>1. WriterType /\ HeaderInv /\ WriterType' /\ HeaderInv'
    BY DEF WriterInv
  <1>2. rd' = rd
    BY DEF Write, BeginWrite, StoreUnit, StoreSlot, StorePage, StoreNum, Clear, Crash, vars
  <1>3. Cursor' = Cursor /\ Asked' = Asked /\ Answers' = Answers
    BY <1>2 DEF Cursor, Asked, Answers, AskedOf
  <1>4. /\ Written \in Nat /\ First \in Nat /\ Start \in Nat /\ num.n = Written - First
        /\ num.n \in Nat /\ Len(log) = Written - Start
    BY <1>1, Counts, Constants
  <1>5. ASSUME log' = log PROVE Written' = Written
    BY <1>5 DEF Written
  <1>6. ASSUME UNCHANGED <<num, log>> PROVE UNCHANGED Queue!vars
    <2>1. (First - Start)' = First - Start
      BY <1>5, <1>6 DEF First
    <2> QED BY <1>3, <1>6, <2>1 DEF Queue!vars, Cursor, Asked, Answers, AskedOf, AnswerOf
  <1>7. ASSUME NEW c \in 1 .. num.n, num' = UpdatedNum(num, 0, c), log' = log
        PROVE  Queue!Next
    <2>1. num' = [n |-> num.n - c, p |-> num.p]
      BY <1>1, <1>4, <1>7, RemovedIs
    <2>2. num'.n = num.n - c
      BY <2>1
    <2>3. First' = First + c
      <3>1. First' = Written - num'.n
        BY <1>5, <1>7 DEF First
      <3>2. c \in Nat
        BY <1>4
      <3> QED BY <1>4, <2>2, <3>1, <3>2
    <2>4. (First - Start)' \in (First - Start) + 1 .. Len(log)
      <3> DEFINE f == First'
      <3>1. (First - Start)' = f - Start /\ f = First + c
        BY <2>3
      <3> HIDE DEF f
      <3>2. f - Start \in (First - Start) + 1 .. Len(log)
        BY <1>4, <3>1
      <3> QED BY <3>1, <3>2
    <2>5. Queue!Expire
      BY <1>3, <1>7, <2>4 DEF Queue!Expire, Cursor, Asked, Answers, AskedOf, AnswerOf
    <2> QED BY <2>5 DEF Queue!Next
  <1>8. ASSUME NEW len \in Lens, BeginWrite(len)
        PROVE  Queue!Next \/ UNCHANGED Queue!vars
    <2>1. PICK c \in 0 .. num.n : num' = IF c > 0 THEN UpdatedNum(num, 0, c) ELSE num
      BY <1>8 DEF BeginWrite
    <2>2. log' = log
      BY <1>8 DEF BeginWrite
    <2>3. CASE c > 0
      <3>1. c \in 1 .. num.n /\ num' = UpdatedNum(num, 0, c)
        BY <1>4, <2>1, <2>3
      <3> QED BY <1>7, <2>2, <3>1
    <2>4. CASE ~ (c > 0)
      BY <1>6, <2>1, <2>2, <2>4
    <2> QED BY <2>3, <2>4
  <1>9. CASE StoreUnit \/ StoreSlot \/ StorePage \/ Crash \/ UNCHANGED vars
    <2>1. UNCHANGED <<num, log>>
      BY <1>9 DEF StoreUnit, StoreSlot, StorePage, Crash, vars
    <2> QED BY <1>6, <2>1
  <1>10. CASE StoreNum
    <2> DEFINE msg == [id |-> writes, len |-> wr.len]
    <2>1. log' = Append(log, msg)
      BY <1>10 DEF StoreNum
    <2>2. First' = (IF Pushes THEN First + 1 ELSE First)
      BY <1>1, <1>10, LogGrows
    <2>3. (First - Start)' \in {First - Start, (First - Start) + 1}
      <3> DEFINE f == First'
      <3>1. (First - Start)' = f - Start /\ (f = First \/ f = First + 1)
        BY <2>2
      <3> HIDE DEF f
      <3>2. f - Start \in {First - Start, (First - Start) + 1}
        BY <1>4, <3>1
      <3> QED BY <3>1, <3>2
    <2>4. msg \in [id : 1 .. MaxWrites, len : Lens]
      <3>1. wr.pc = "num"
        BY <1>10 DEF StoreNum
      <3>2. wr.len \in Lens /\ writes >= 1
        BY <3>1 DEF WriterInv, Storing
      <3>3. writes \in 0 .. MaxWrites /\ MaxWrites \in Nat
        BY <1>1, Constants DEF WriterType
      <3>4. writes \in 1 .. MaxWrites
        BY <3>2, <3>3
      <3> QED BY <3>2, <3>4
    <2> HIDE DEF msg
    <2>5. Queue!Publish(msg)
      BY <1>3, <2>1, <2>3 DEF Queue!Publish, Cursor, Asked, Answers, AskedOf, AnswerOf
    <2> QED BY <2>4, <2>5 DEF Queue!Next
  <1>11. ASSUME NEW k \in 1 .. MaxMsgs, Clear(k)
         PROVE  Queue!Next
    BY <1>7, <1>11 DEF Clear
  <1> QED
    BY <1>8, <1>9, <1>10, <1>11 DEF Write

LEMMA QueueInit == Init => Queue!Init
  <1> SUFFICES ASSUME Init PROVE Queue!Init
    OBVIOUS
  <1>1. log = <<>> /\ num.n = 0 /\ Len(log) = 0
    BY DEF Init
  <1>2. First - Start = 0 /\ Start - Start = 0
    BY <1>1, Constants DEF First, Written
  <1> DEFINE rec == AtRest(Start % PtrRange, Start \div PageSize, Start, NoAnswer)
  <1>3. \A r \in Readers : rd[r] = rec
    BY DEF Init
  <1>4. rec.m = Start /\ rec.pc = "idle" /\ rec.answer = NoAnswer
    BY DEF AtRest
  <1> HIDE DEF rec
  <1>5. Cursor = [r \in Readers |-> 0]
    BY <1>2, <1>3, <1>4 DEF Cursor
  <1>6. Asked = [r \in Readers |-> Queue!NotReading]
    BY <1>3, <1>4 DEF Asked, AskedOf, Queue!NotReading
  <1>7. Answers = [r \in Readers |-> Queue!NoAnswer]
    BY <1>3, <1>4 DEF Answers, AnswerOf, NoAnswer, Queue!NoAnswer
  <1> QED
    BY <1>1, <1>2, <1>5, <1>6, <1>7 DEF Queue!Init, Cursor, Asked, Answers, AskedOf, AnswerOf

LEMMA QueueStep ==
  WriterInv /\ ReadersInv /\ [Next]_vars => [Queue!Next]_(Queue!vars)
  <1> SUFFICES ASSUME WriterInv, ReadersInv, [Next]_vars
               PROVE  Queue!Next \/ UNCHANGED Queue!vars
    OBVIOUS
  <1>1. CASE Write \/ (\E k \in 1 .. MaxMsgs : Clear(k)) \/ Crash \/ UNCHANGED vars
    <2>1. WriterInv'
      BY WriterStep
    <2> QED BY <1>1, <2>1, WriterMaps
  <1>2. ASSUME NEW r \in Readers, Read(r) \/ SeekCall(r)
        PROVE  Queue!Next \/ UNCHANGED Queue!vars
    BY <1>2, BeginMaps, LoadPageMaps, CheckAgainMaps, LoadsMap, EndSeekMaps DEF Read, SeekCall
  <1> QED
    BY <1>1, <1>2 DEF Next

(***************************************************************************)
(* A buffer in shared memory, read without locks, implements LBQueue: no    *)
(* reader can tell it from a log whose steps are atomic. Messages are given *)
(* in order and once, each unless it expired first; "expired" and "to come" *)
(* are said only of messages that are.                                      *)
(***************************************************************************)
THEOREM QueueImplemented == Spec => ImplementsQueue
  BY QueueInit, QueueStep, StreamCorrect, PTL DEF Spec, ImplementsQueue, Queue!Spec
================================================================================
