------------------------------ MODULE LBShareProofs ----------------------------
(***************************************************************************)
(* Shared streams (LBShare) for every size of the buffer, any number of     *)
(* readers, and any writes, clears, discards and restarts: each message is  *)
(* delivered once and in order as long as no reader was told wrongly that a *)
(* message expired; the first time that happens, to a reader that is at     *)
(* most two pages behind, it is of the message that comes next.             *)
(***************************************************************************)
EXTENDS LBShare, LBPointerProofs

--------------------------------------------------------------------------------
(* The inductive invariant *)

StreamType ==
  /\ HeaderTypeOK
  /\ rpage \in [Readers -> Int]
  /\ delivered \in Seq(Start .. Start + MaxWritten - 1)
  /\ skipped \subseteq Int /\ overrun \subseteq Start .. Start + MaxWritten
  /\ dropped \in Start .. written

\* The header words are those of the next message.
HeaderRight ==
  /\ num.p = PtrOf(written) /\ page = PageOf(written)
  /\ num.n <= written - Start

(***************************************************************************)
(* The stream stands at message m, which ptr_read names. It is no further   *)
(* behind than LB_write lets it be: LB_Ptr_compare tells m from every       *)
(* message that is available or to be written. A must-read stream loses,    *)
(* from m on, only what was dropped and what a full LB does not look at.    *)
(***************************************************************************)
StandsAt(m) ==
  /\ m \in Start .. written /\ written - m <= MaxMsgs + 1
  /\ ptr_read = PtrOf(m)
  /\ MustRead => \A k \in m .. First - 1 : k < dropped \/ k \in overrun

\* What was delivered when the stream stands at message m.
DeliveredTo(m) ==
  /\ \A i \in 1 .. Len(delivered) : delivered[i] < m
  /\ \A i \in 1 .. Len(delivered) - 1 : delivered[i] < delivered[i + 1]
  /\ \A k \in Start .. m - 1 : k >= dropped =>
       \/ \E i \in 1 .. Len(delivered) : delivered[i] = k
       \/ k < First /\ (~MustRead \/ k \in overrun)

StreamInv ==
  /\ StreamType /\ HeaderRight
  /\ skipped = {} => \E m \in Start .. written : StandsAt(m) /\ DeliveredTo(m)

--------------------------------------------------------------------------------
(* Consequences *)

LEMMA Constants ==
  /\ MaxMsgs \in Nat \ {0} /\ PageSize \in Nat \ {0} /\ PtrRange \in Nat \ {0}
  /\ PtrRange = 4 * PageSize /\ MaxMsgs + 4 <= PageSize
  /\ Start \in Nat /\ MaxWritten \in Nat /\ ShareStream /\ MustRead \in BOOLEAN
  BY Sizes, UnreadAssumption, ShareAssumption DEF UnreadAssumption, ShareAssumption

LEMMA Numbers ==
  ASSUME StreamType, HeaderRight
  PROVE  /\ written \in Nat /\ written \in Start .. Start + MaxWritten
         /\ num.n \in 0 .. MaxMsgs /\ num = [n |-> num.n, p |-> num.p]
         /\ First \in Start .. written /\ First = written - num.n
         /\ num.p = PtrOf(written) /\ num.p \in 0 .. PtrRange - 1
         /\ ptr_read \in 0 .. PtrRange - 1 /\ dropped \in Start .. written
         /\ First >= written - MaxMsgs
  <1>1. num \in NumPt /\ written \in Start .. Start + MaxWritten /\ ptr_read \in 0 .. PtrRange - 1
    BY DEF StreamType, HeaderTypeOK
  <1>2. num.n \in 0 .. MaxMsgs /\ num = [n |-> num.n, p |-> num.p] /\ num.p \in 0 .. PtrRange - 1
    BY <1>1 DEF NumPt
  <1>3. First = written - num.n /\ num.n <= written - Start /\ num.p = PtrOf(written)
    BY DEF First, HeaderRight
  <1>4. First \in Start .. written /\ First >= written - MaxMsgs
    BY <1>1, <1>2, <1>3, Constants
  <1> QED
    BY <1>1, <1>2, <1>3, <1>4, Constants DEF StreamType

\* ptr_read is taken for the message it is of, up to half a range back.
LEMMA ReadAt ==
  ASSUME StreamType, HeaderRight, NEW m \in Int, ptr_read = PtrOf(m),
         written - m \in 0 .. MaxMsgs + 1
  PROVE  ReadNumber = m
  <1> DEFINE d == written - m
             p == PtrOf(m)
             q == PtrOf(written)
  <1>1. /\ MaxMsgs \in Nat /\ PtrRange \in Nat \ {0} /\ PtrRange > 2 * (MaxMsgs + 1)
        /\ written \in Int /\ num.p = q /\ PtrRange \div 2 \in Nat /\ 2 * (PtrRange \div 2) = PtrRange
    BY Constants, Numbers
  <1>2. m + d = written /\ d \in 0 .. MaxMsgs + 1 /\ d \in 0 .. PtrRange - 1
    BY <1>1
  <1>3. p \in 0 .. PtrRange - 1
    BY Split
  <1>4. q = IF p + d < PtrRange THEN p + d ELSE p + d - PtrRange
    <2> HIDE DEF d
    <2> QED BY <1>2, Ahead
  <1> DEFINE ahead == (p - q + PtrRange) % PtrRange
  <1>5. ahead = IF d = 0 THEN 0 ELSE PtrRange - d
    <2> HIDE DEF d, p, q
    <2>1. p - q + PtrRange = IF p + d < PtrRange THEN PtrRange - d ELSE 2 * PtrRange - d
      BY <1>1, <1>2, <1>3, <1>4
    <2>2. p - q + PtrRange \in 0 .. 2 * PtrRange - 1
      BY <1>1, <1>2, <1>3, <2>1
    <2>3. ahead = IF p - q + PtrRange < PtrRange THEN p - q + PtrRange ELSE p - q
      <3> DEFINE x == p - q + PtrRange
      <3>1. x \in 0 .. 2 * PtrRange - 1 /\ x - PtrRange = p - q
        BY <1>1, <1>2, <1>3, <1>4, <2>2
      <3> HIDE DEF x
      <3>2. x % PtrRange = IF x < PtrRange THEN x ELSE x - PtrRange
        BY <1>1, <3>1, ModSmall
      <3> QED BY <3>1, <3>2 DEF x
    <2> QED BY <1>1, <1>2, <1>3, <1>4, <2>3
  <1>6. ReadNumber = IF ahead < PtrRange \div 2 THEN written + ahead ELSE written + ahead - PtrRange
    BY <1>1 DEF ReadNumber
  <1> HIDE DEF ahead, p, q
  <1> QED
    BY <1>1, <1>2, <1>5, <1>6

\* The pointers in the window are those of available messages.
LEMMA InWindowAt ==
  ASSUME StreamType, HeaderRight, InWindow(num, ptr_read)
  PROVE  ReadNumber \in First .. written - 1 /\ ptr_read = PtrOf(ReadNumber)
  <1>1. /\ written \in Int /\ num.n \in 0 .. MaxMsgs /\ First = written - num.n
        /\ num = [n |-> num.n, p |-> PtrOf(written)] /\ ptr_read \in 0 .. PtrRange - 1
        /\ MaxMsgs \in Nat
    BY Numbers, Constants
  <1>2. PICK n \in 0 .. MaxMsgs : n = num.n
    BY <1>1
  <1>3. PICK d \in 1 .. n : ptr_read = PtrOf(written - d)
    <2>1. InWindow([n |-> n, p |-> PtrOf(written)], ptr_read)
      BY <1>1, <1>2
    <2> QED BY <1>1, <2>1, WindowPointers
  <1>4. written - d \in Int /\ written - (written - d) \in 0 .. MaxMsgs + 1
    BY <1>1, <1>2, <1>3
  <1>5. ReadNumber = written - d
    BY <1>3, <1>4, ReadAt
  <1> QED
    BY <1>1, <1>2, <1>3, <1>5

\* The readers' verdict needs no page to be right when it says "ok".
LEMMA OkAt ==
  ASSUME StreamType, HeaderRight, NEW pg, CheckPointer(num, page, ptr_read, pg) = "ok"
  PROVE  ReadNumber \in First .. written - 1 /\ ptr_read = PtrOf(ReadNumber)
  <1>1. InWindow(num, ptr_read)
    BY DEF CheckPointer
  <1> QED
    BY <1>1, InWindowAt

LEMMA VerdictType ==
  ASSUME NEW pg
  PROVE  CheckPointer(num, page, ptr_read, pg) \in {"ok", "expired", "toCome"}
  BY DEF CheckPointer

LEMMA PageType ==
  ASSUME NEW p \in 0 .. PtrRange - 1, NEW pg \in Int
  PROVE  CorrectedPage(p, pg) \in Int
  <1> DEFINE nc == ((p \div PageSize) - (pg % NPages) + NPages) % NPages
  <1>1. p \div PageSize \in Int /\ pg % NPages \in Int /\ NPages = 4
    BY Constants, DivMod DEF NPages
  <1>2. nc \in Int
    BY <1>1
  <1>3. CorrectedPage(p, pg) = IF nc = 3 THEN pg - 1 ELSE pg + nc
    BY DEF CorrectedPage
  <1> HIDE DEF nc
  <1> QED
    BY <1>2, <1>3

--------------------------------------------------------------------------------
(* The invariant is kept *)

LEMMA StreamInit ==
  ASSUME Init
  PROVE  StreamInv
  <1>1. /\ num = [n |-> 0, p |-> PtrOf(Start)] /\ page = PageOf(Start)
        /\ ptr_read = PtrOf(Start) /\ written = Start
        /\ rpage = [r \in Readers |-> OpenPage] /\ delivered = <<>>
        /\ skipped = {} /\ overrun = {} /\ dropped = Start
    BY DEF Init, HeaderInit, PtrOf, PageOf
  <1>2. /\ Start \in Int /\ PtrOf(Start) \in 0 .. PtrRange - 1
        /\ num.n = 0 /\ num.p = PtrOf(Start)
    BY <1>1, Constants, Split
  <1>3. PageOf(Start) \in Nat
    BY Constants DEF PageOf
  <1>4. OpenPage \in Int
    BY <1>1, <1>2, <1>3, PageType DEF OpenPage
  <1>5. StreamType
    <2>1. num \in NumPt
      BY <1>1, <1>2, Constants DEF NumPt
    <2>2. written \in Start .. Start + MaxWritten /\ dropped \in Start .. written
      BY <1>1, Constants
    <2>3. delivered \in Seq(Start .. Start + MaxWritten - 1)
      BY <1>1
    <2> QED BY <1>1, <1>2, <1>3, <1>4, <2>1, <2>2, <2>3 DEF StreamType, HeaderTypeOK
  <1>6. HeaderRight
    BY <1>1, <1>2, Constants DEF HeaderRight
  <1>7. First = Start
    BY <1>1, <1>2, Constants DEF First
  <1>8. StandsAt(Start) /\ DeliveredTo(Start)
    <2>1. Len(delivered) = 0
      BY <1>1
    <2> QED BY <1>1, <1>2, <1>7, <2>1, Constants DEF StandsAt, DeliveredTo
  <1> QED
    BY <1>1, <1>5, <1>6, <1>8, Constants DEF StreamInv

\* The i-th oldest message.
LEMMA OldestAt ==
  ASSUME StreamType, HeaderRight, NEW i \in Int
  PROVE  Oldest(i) = PtrOf(First + i - 1)
  <1> DEFINE k == -num.n - 1 + i
  <1>1. /\ written \in Int /\ num.n \in Int /\ First = written - num.n /\ num.p = PtrOf(written)
        /\ PtrRange \in Nat
    BY Numbers, Constants
  <1>2. k \in Int /\ written + k = First + i - 1
    BY <1>1
  <1>3. num.p - num.n - 1 + i + PtrRange = PtrOf(written) + k + PtrRange
    <2>1. PtrOf(written) \in Int
      BY <1>1, Split
    <2> QED BY <1>1, <2>1
  <1> HIDE DEF k
  <1>4. (PtrOf(written) + k + PtrRange) % PtrRange = PtrOf(written + k)
    BY <1>1, <1>2, PtrStep
  <1> QED BY <1>2, <1>3, <1>4 DEF Oldest

\* What a write of a message does to the header.
LEMMA WrittenHeader ==
  ASSUME StreamType, HeaderRight, NEW c \in 0 .. MaxMsgs, WriteMessage(c)
  PROVE  /\ written' = written + 1 /\ written' \in Start .. Start + MaxWritten
         /\ num' \in NumPt /\ HeaderRight' /\ page' \in Nat
         /\ First' \in First .. written + 1 /\ written' - First' <= MaxMsgs
         /\ MustRead => \A m \in First .. First' - 1 :
              (m < written /\ PtrCompare(PtrOf(m), ptr_read) < 0) \/ Overrun(m)
  <1>1. /\ written \in Start .. Start + MaxWritten /\ num.n \in 0 .. MaxMsgs /\ First = written - num.n
        /\ num.p = PtrOf(written) /\ page = PageOf(written) /\ First \in Start .. written
        /\ written \in Nat
    BY Numbers DEF HeaderRight
  <1>2. /\ written < Start + MaxWritten /\ c \in 0 .. num.n /\ Room(c)
        /\ num' = UpdatedNum(UpdatedNum(num, 0, c), 1, Surplus(num))
        /\ page' = UpdatedPage(num, page) /\ written' = written + 1
    BY DEF WriteMessage
  <1>3. written' \in Start .. Start + MaxWritten
    BY <1>1, <1>2, Constants
  <1>4. NextPtr(num) = PtrOf(written + 1)
    BY <1>1, Neighbours DEF NextPtr
  <1>5. PICK x \in Nat : /\ x = c + (IF num.n = MaxMsgs THEN 1 ELSE 0)
                         /\ num.n + 1 - x \in 0 .. MaxMsgs
                         /\ num' = [n |-> num.n + 1 - x, p |-> PtrOf(written + 1)]
    <2>1. num.n \in 0 .. MaxMsgs /\ c \in 0 .. num.n /\ MaxMsgs \in Nat \ {0}
      BY <1>1, <1>2, Constants
    <2>2. PICK s \in 0 .. 1 : s = Surplus(num) /\ s = IF num.n = MaxMsgs THEN 1 ELSE 0
      BY <2>1 DEF Surplus
    <2>3. UpdatedNum(num, 0, c) = [n |-> num.n - c, p |-> num.p]
      BY <2>1 DEF UpdatedNum
    <2>4. UpdatedNum([n |-> num.n - c, p |-> num.p], 1, s)
            = [n |-> num.n - c + 1 - s, p |-> NextPtr(num)]
      <3>1. num.n - c + 1 - s \in 0 .. MaxMsgs
        BY <2>1, <2>2
      <3> QED BY <2>1, <3>1 DEF UpdatedNum, NextPtr
    <2>5. num.n - c + 1 - s = num.n + 1 - (c + s) /\ num.n + 1 - (c + s) \in 0 .. MaxMsgs
      BY <2>1, <2>2
    <2>6. PICK x \in Nat : x = c + s
      BY <2>1
    <2> QED BY <1>2, <1>4, <2>2, <2>3, <2>4, <2>5, <2>6
  <1>7. page' = PageOf(written + 1)
    <2>1. CorrectedPage(num.p, page) = PageOf(written)
      <3>1. PageOf(written) - PageOf(written) \in -2 .. 1 /\ PageOf(written) \in Int
        BY <1>1, Split
      <3> QED BY <1>1, <3>1, Corrected
    <2>2. PageOf(written + 1) = IF PtrOf(written + 1) % PageSize = 0 THEN PageOf(written) + 1 ELSE PageOf(written)
      BY <1>1, Successor
    <2> QED BY <1>2, <1>4, <2>1, <2>2 DEF UpdatedPage
  <1>8. PICK y \in 0 .. MaxMsgs : y = num.n + 1 - x /\ num'.n = y /\ num'.p = PtrOf(written + 1)
    BY <1>5
  <1>9. num' \in NumPt
    <2>1. PtrOf(written + 1) \in 0 .. PtrRange - 1
      BY <1>1, Split
    <2> QED BY <1>5, <1>8, <2>1 DEF NumPt
  <1>10. HeaderRight'
    <2>1. y <= written + 1 - Start
      BY <1>1, <1>5, <1>8, Constants
    <2>2. num'.p = PtrOf(written') /\ page' = PageOf(written')
      BY <1>2, <1>7, <1>8 DEF PtrOf, PageOf
    <2>3. num'.n <= written' - Start
      BY <1>1, <1>2, <1>8, <2>1, Constants
    <2> QED BY <2>2, <2>3 DEF HeaderRight
  <1>11. page' \in Nat
    <2>1. written + 1 \in Nat
      BY <1>1
    <2> QED BY <1>7, <2>1, Constants DEF PageOf
  <1>12. PICK f \in Int : f = First' /\ f = First + x /\ f = written + 1 - y
    <2>1. First' = written' - num'.n
      BY DEF First
    <2> QED BY <1>1, <1>2, <1>8, <2>1
  <1>13. f \in First .. written + 1
    BY <1>1, <1>8, <1>12
  <1>14. ASSUME MustRead, NEW m \in First .. f - 1
         PROVE  (m < written /\ PtrCompare(PtrOf(m), ptr_read) < 0) \/ Overrun(m)
    <2>1. PICK i \in Int : i = m - First + 1
      BY <1>1
    <2>2. i \in 1 .. x /\ m \in Int
      BY <1>1, <1>5, <1>12, <2>1
    <2>3. CASE i \in 1 .. (IF num.n - c = MaxMsgs THEN c + 1 ELSE c)
      <3>1. MayExpire(Oldest(i))
        BY <1>2, <2>3 DEF Room
      <3>2. Oldest(i) = PtrOf(m)
        <4>1. First + i - 1 = m
          BY <1>1, <2>1, <2>2
        <4> QED BY <2>2, <4>1, OldestAt
      <3>3. m < written
        <4>1. i <= num.n
          BY <1>1, <1>2, <2>2, <2>3, Constants
        <4> QED BY <1>1, <2>1, <2>2, <4>1
      <3> QED BY <1>14, <3>1, <3>2, <3>3 DEF MayExpire
    <2>4. CASE i \notin 1 .. (IF num.n - c = MaxMsgs THEN c + 1 ELSE c)
      <3>1. num.n = MaxMsgs /\ i = c + 1 /\ c >= 1 /\ x = c + 1
        BY <1>1, <1>2, <1>5, <2>2, <2>4, Constants
      <3>2. f > First + 1 /\ m = f - 1
        BY <1>1, <1>12, <2>1, <2>2, <3>1
      <3> QED BY <1>12, <3>1, <3>2 DEF Overrun
    <2> QED BY <2>3, <2>4
  <1>15. written' - f <= MaxMsgs
    BY <1>1, <1>2, <1>8, <1>12, Constants
  <1> QED
    BY <1>2, <1>3, <1>9, <1>10, <1>11, <1>12, <1>13, <1>14, <1>15

\* LB_write pulls the stream up by one message at most.
LEMMA PulledUpTo ==
  ASSUME StreamType, HeaderRight, NEW m \in Start .. written, StandsAt(m)
  PROVE  /\ PulledUp(NextPtr(num)) = PtrOf(IF written - MaxMsgs > m THEN m + 1 ELSE m)
         /\ written - MaxMsgs > m => written - MaxMsgs = m + 1
  <1>1. /\ written \in Nat /\ num.p = PtrOf(written) /\ m \in Int /\ written - m \in 0 .. MaxMsgs + 1
        /\ MaxMsgs \in Nat \ {0} /\ PtrRange \in Nat \ {0} /\ ptr_read = PtrOf(m) /\ ShareStream
    BY Numbers, Constants DEF StandsAt
  <1>2. NextPtr(num) = PtrOf(written + 1)
    BY <1>1, Neighbours DEF NextPtr
  <1> DEFINE e == written - MaxMsgs
             exp == (NextPtr(num) + PtrRange - (MaxMsgs + 1)) % PtrRange
  <1>3. exp = PtrOf(e)
    <2> DEFINE k == -(MaxMsgs + 1)
               w == written + 1
    <2>1. w \in Int /\ k \in Int /\ w + k = e
      BY <1>1
    <2>2. NextPtr(num) + PtrRange - (MaxMsgs + 1) = PtrOf(w) + k + PtrRange
      <3>1. PtrOf(w) \in Int /\ NextPtr(num) = PtrOf(w)
        BY <1>2, <2>1, Split
      <3> HIDE DEF w
      <3> QED BY <1>1, <3>1
    <2> HIDE DEF k, w
    <2>3. (PtrOf(w) + k + PtrRange) % PtrRange = PtrOf(w + k)
      BY <2>1, PtrStep
    <2> QED BY <2>1, <2>2, <2>3
  <1>4. PtrCompare(PtrOf(e), PtrOf(m)) = IF e = m THEN 0 ELSE IF e > m THEN 1 ELSE -1
    <2>1. e \in Int /\ e - m < 2 * MaxMsgs /\ m - e < 2 * MaxMsgs
      BY <1>1
    <2> HIDE DEF e
    <2> QED BY <1>1, <2>1, CompareRight
  <1>5. e \in Int /\ (e > m => e = m + 1)
    BY <1>1
  <1>6. PulledUp(NextPtr(num)) = IF PtrCompare(exp, ptr_read) > 0 THEN exp ELSE ptr_read
    BY <1>1 DEF PulledUp
  <1>7. PtrCompare(PtrOf(e), PtrOf(m)) > 0 <=> e > m
    <2> HIDE DEF e
    <2> QED BY <1>1, <1>4, <1>5
  <1> HIDE DEF exp, e
  <1>8. PulledUp(NextPtr(num)) = IF e > m THEN PtrOf(m + 1) ELSE PtrOf(m)
    BY <1>1, <1>3, <1>5, <1>6, <1>7
  <1> QED
    BY <1>5, <1>8 DEF e

LEMMA WriteStep ==
  ASSUME StreamInv, NEW c \in 0 .. MaxMsgs, Write(c)
  PROVE  StreamInv'
  <1>1. StreamType /\ HeaderRight
    BY DEF StreamInv
  <1>2. WriteMessage(c) /\ overrun' = overrun \cup {m \in First .. First' - 1 : MustRead /\ Overrun(m)}
        /\ UNCHANGED <<rpage, delivered, skipped, dropped>>
    BY DEF Write, history
  <1>3. /\ written' = written + 1 /\ written' \in Start .. Start + MaxWritten
        /\ num' \in NumPt /\ HeaderRight' /\ page' \in Nat
        /\ First' \in First .. written + 1 /\ written' - First' <= MaxMsgs
        /\ MustRead => \A m \in First .. First' - 1 :
             (m < written /\ PtrCompare(PtrOf(m), ptr_read) < 0) \/ Overrun(m)
    BY <1>1, <1>2, WrittenHeader
  <1>4. /\ written \in Nat /\ First \in Start .. written /\ ptr_read \in 0 .. PtrRange - 1
        /\ dropped \in Start .. written /\ Start \in Nat /\ MaxMsgs \in Nat \ {0}
        /\ First >= written - MaxMsgs
    BY <1>1, Numbers, Constants
  <1>5. ptr_read' = PulledUp(NextPtr(num))
    BY <1>2 DEF WriteMessage
  <1>6. ptr_read' \in 0 .. PtrRange - 1
    <2>1. \A x \in Int : x % PtrRange \in 0 .. PtrRange - 1
      BY DivMod, Constants
    <2>2. NextPtr(num) \in Int
      <3>1. num.p + 1 \in Int
        BY <1>1, Numbers, Constants
      <3> QED BY <2>1, <3>1, Constants DEF NextPtr
    <2>3. NextPtr(num) + PtrRange - (MaxMsgs + 1) \in Int
      BY <2>2, Constants
    <2>4. (NextPtr(num) + PtrRange - (MaxMsgs + 1)) % PtrRange \in 0 .. PtrRange - 1
      BY <2>1, <2>3
    <2> QED BY <1>4, <1>5, <2>4 DEF PulledUp
  <1>7. StreamType'
    <2>1. dropped' \in Start .. written'
      BY <1>2, <1>3, <1>4
    <2>2. overrun' \subseteq Start .. Start + MaxWritten
      <3>1. overrun \subseteq Start .. Start + MaxWritten
        BY <1>1 DEF StreamType
      <3>2. ASSUME NEW k \in First .. First' - 1 PROVE k \in Start .. Start + MaxWritten
        <4>1. PICK f : f = First'
          OBVIOUS
        <4>2. PICK w \in Start .. Start + MaxWritten : w = written'
          BY <1>3
        <4>3. f \in First .. written + 1 /\ w = written + 1 /\ k \in First .. f - 1
          BY <1>3, <3>2, <4>1, <4>2
        <4> QED BY <1>4, <4>3, Constants
      <3> QED BY <1>2, <3>1, <3>2
    <2> QED BY <1>1, <1>2, <1>3, <1>6, <2>1, <2>2 DEF StreamType, HeaderTypeOK
  <1>12. /\ First' \in Int /\ written' \in Int /\ First \in Int /\ First <= First' /\ First' <= written + 1
         /\ written + 1 - First' <= MaxMsgs
    <2>1. PICK f : f = First'
      OBVIOUS
    <2>2. PICK w : w = written'
      OBVIOUS
    <2>3. f \in First .. written + 1 /\ w - f <= MaxMsgs /\ w = written + 1
      BY <1>3, <2>1, <2>2
    <2>4. f \in Int /\ w \in Int /\ First \in Int /\ First <= f /\ f <= written + 1 /\ written + 1 - f <= MaxMsgs
      BY <1>4, <2>3
    <2> QED BY <2>1, <2>2, <2>4
  <1>13. PICK g \in Int : g = First'
    BY <1>12
  <1>14. First <= g /\ g <= written + 1 /\ written + 1 - g <= MaxMsgs
    BY <1>12, <1>13
  <1>8. ASSUME skipped' = {} PROVE \E m \in Start .. written' : StandsAt(m)' /\ DeliveredTo(m)'
    <2>1. PICK m \in Start .. written : StandsAt(m) /\ DeliveredTo(m)
      BY <1>2, <1>8 DEF StreamInv
    <2> DEFINE n == IF written - MaxMsgs > m THEN m + 1 ELSE m
    <2>2. /\ ptr_read' = PtrOf(n) /\ n \in {m, m + 1} /\ (n # m => written - MaxMsgs = m + 1)
          /\ (written - MaxMsgs > m => written - MaxMsgs = m + 1)
      BY <1>1, <1>5, <2>1, PulledUpTo
    <2>3. /\ m \in Int /\ written - m <= MaxMsgs + 1 /\ ptr_read = PtrOf(m)
          /\ MustRead => \A k \in m .. First - 1 : k < dropped \/ k \in overrun
      BY <2>1 DEF StandsAt
    <2>4. n \in Start .. written' /\ written' - n <= MaxMsgs + 1 /\ m <= n /\ n <= m + 1
      BY <1>3, <1>4, <2>2, <2>3
    <2>5. n # m => n = m + 1 /\ m < First' /\ First' >= m + 1
      <3> SUFFICES ASSUME n # m PROVE n = m + 1 /\ First' >= m + 1
        BY <1>12, <1>13, <2>3
      <3>1. n = m + 1 /\ written - MaxMsgs = m + 1
        BY <2>2
      <3> HIDE DEF n
      <3>2. g >= m + 1
        BY <1>4, <1>12, <1>13, <2>3, <3>1
      <3> QED BY <1>13, <3>1, <3>2
    <2>6. ASSUME MustRead, NEW k \in n .. g - 1
          PROVE  k < dropped \/ k \in overrun'
      <3>1. k \in Int /\ k >= m /\ k < g /\ n \in Int
        <4>1. n \in Int
          BY <2>2, <2>3
        <4>2. m <= n
          BY <2>4
        <4> HIDE DEF n
        <4>3. k \in n .. g - 1 /\ g \in Int
          BY <2>6
        <4>4. k \in Int /\ k >= n /\ k < g
          BY ONLY <4>1, <4>3
        <4> QED BY <2>3, <4>1, <4>2, <4>4
      <3> HIDE DEF n
      <3>2. CASE k < First
        <4>1. k \in m .. First - 1
          BY <1>12, <2>3, <3>1, <3>2
        <4> QED BY <1>2, <2>3, <2>6, <4>1
      <3>3. CASE ~ k < First
        <4>1. k \in First .. g - 1 /\ k \in First .. First' - 1
          <5>1. k \in First .. g - 1
            <6>1. First \in Int /\ g \in Int
              BY <1>12, <1>13
            <6> QED BY ONLY <3>1, <3>3, <6>1
          <5> QED BY <1>13, <5>1
        <4>2. CASE Overrun(k)
          BY <1>2, <2>6, <4>1, <4>2
        <4>3. CASE ~ Overrun(k)
          <5>1. k < written /\ PtrCompare(PtrOf(k), PtrOf(m)) < 0
            BY <1>3, <2>3, <2>6, <4>1, <4>3
          <5>2. k - m < 2 * MaxMsgs /\ m - k < 2 * MaxMsgs
            <6>1. First \in Int /\ First >= written - MaxMsgs /\ written \in Int /\ MaxMsgs \in Nat \ {0}
              BY <1>4
            <6>2. k < written /\ k >= First
              BY ONLY <3>1, <3>3, <5>1, <6>1
            <6>3. m \in Int /\ written - m <= MaxMsgs + 1 /\ m <= written
              BY <1>4, <2>1, <2>3
            <6> QED BY ONLY <3>1, <6>1, <6>2, <6>3
          <5>3. PtrCompare(PtrOf(k), PtrOf(m)) = IF k = m THEN 0 ELSE IF k > m THEN 1 ELSE -1
            BY <2>3, <3>1, <5>2, CompareRight
          <5> QED BY <2>3, <3>1, <5>1, <5>3
        <4> QED BY <4>2, <4>3
      <3> QED BY <3>2, <3>3
    <2> HIDE DEF n
    <2>8. ptr_read' = PtrOf(n) /\ n \in Int
      BY <1>3, <1>4, <2>2, <2>4
    <2>9. PICK q \in Start .. written' : q = n
      BY <2>4
    <2>10. StandsAt(q)'
      <3>1. MustRead => \A k \in q .. First' - 1 : k < dropped' \/ k \in overrun'
        BY <1>2, <1>13, <2>6, <2>9
      <3>2. q \in Start .. written' /\ written' - q <= MaxMsgs + 1 /\ ptr_read' = PtrOf(q)
        BY <2>4, <2>8, <2>9
      <3> QED BY <3>1, <3>2 DEF StandsAt, PtrOf
    <2>11. DeliveredTo(q)'
      <3>1. delivered' = delivered /\ dropped' = dropped
        BY <1>2
      <3>2. /\ \A i \in 1 .. Len(delivered) : delivered[i] < m
            /\ \A i \in 1 .. Len(delivered) - 1 : delivered[i] < delivered[i + 1]
            /\ \A k \in Start .. m - 1 : k >= dropped =>
                 \/ \E i \in 1 .. Len(delivered) : delivered[i] = k
                 \/ k < First /\ (~MustRead \/ k \in overrun)
        BY <2>1 DEF DeliveredTo
      <3>3. \A i \in 1 .. Len(delivered) : delivered[i] < q
        <4>1. \A i \in 1 .. Len(delivered) : delivered[i] \in Int
          BY <1>1, Constants DEF StreamType
        <4> QED BY <2>3, <2>4, <2>8, <2>9, <3>2, <4>1
      <3>4. ASSUME NEW k \in Start .. q - 1, k >= dropped
            PROVE  \/ \E i \in 1 .. Len(delivered) : delivered[i] = k
                   \/ k < First' /\ (~MustRead \/ k \in overrun')
        <4>1. CASE k < m
          <5>1. k \in Start .. m - 1
            BY <1>4, <2>3, <3>4, <4>1
          <5>2. First <= First' /\ First \in Int /\ First' \in Int
            BY <1>3, <1>4
          <5>3. k \in Int
            BY <1>4, <3>4
          <5>4. overrun \subseteq overrun'
            BY <1>2
          <5>5. \/ \E i \in 1 .. Len(delivered) : delivered[i] = k
                \/ k < First /\ (~MustRead \/ k \in overrun)
            BY <3>2, <3>4, <5>1
          <5>6. k < First => k < First'
            BY <5>2, <5>3
          <5> QED BY <5>4, <5>5, <5>6
        <4>2. CASE ~ k < m
          <5>1. k = m /\ n # m
            BY <1>4, <2>3, <2>4, <2>8, <2>9, <3>4, <4>2
          <5>2. k < First'
            BY <2>5, <5>1
          <5>3. MustRead => k \in overrun
            <6>1. First >= m + 1
              <7>1. First >= written - MaxMsgs /\ written - MaxMsgs = m + 1
                BY <1>1, <2>2, <5>1, Numbers
              <7> QED BY <1>4, <2>3, <7>1
            <6>2. k \in m .. First - 1 /\ ~ k < dropped
              BY <1>4, <1>12, <2>3, <3>4, <5>1, <6>1
            <6> QED BY <2>3, <6>2
          <5>4. overrun \subseteq overrun'
            BY <1>2
          <5> QED BY <5>2, <5>3, <5>4
        <4> QED BY <4>1, <4>2
      <3> QED BY <3>1, <3>2, <3>3, <3>4 DEF DeliveredTo
    <2> QED BY <2>10, <2>11
  <1> QED
    BY <1>3, <1>7, <1>8 DEF StreamInv

\* LB_clear: what it removes counts as dropped, and the stream stays.
LEMMA ClearStep ==
  ASSUME StreamInv, NEW k \in 1 .. MaxMsgs, Clear(k)
  PROVE  StreamInv'
  <1>1. StreamType /\ HeaderRight
    BY DEF StreamInv
  <1>2. /\ k \in 1 .. num.n /\ num' = UpdatedNum(num, 0, k)
        /\ UNCHANGED <<page, ptr_read, written, rpage, delivered, skipped, overrun>>
        /\ dropped' = IF First + k > dropped THEN First + k ELSE dropped
    BY DEF Clear, ClearMessages
  <1>3. /\ written \in Nat /\ written \in Start .. Start + MaxWritten
        /\ num.n \in 0 .. MaxMsgs /\ First \in Start .. written /\ First = written - num.n
        /\ num.p \in 0 .. PtrRange - 1 /\ num.p = PtrOf(written) /\ dropped \in Start .. written
        /\ Start \in Nat /\ MaxMsgs \in Nat \ {0}
    BY <1>1, Numbers, Constants
  <1>4. num' = [n |-> num.n - k, p |-> num.p]
    BY <1>2, <1>3, Constants DEF UpdatedNum
  <1>5. num'.n = num.n - k /\ num'.p = num.p /\ num.n - k \in 0 .. MaxMsgs
    BY <1>2, <1>3, <1>4
  <1>6. First' = First + k
    <2>1. First' = written' - num'.n
      BY DEF First
    <2> QED BY <1>2, <1>3, <1>5, <2>1
  <1>7. StreamType'
    <2>1. num' \in NumPt
      BY <1>3, <1>4, <1>5 DEF NumPt
    <2>2. dropped' \in Start .. written
      BY <1>2, <1>3
    <2> QED BY <1>1, <1>2, <2>1, <2>2 DEF StreamType, HeaderTypeOK
  <1>8. HeaderRight'
    <2>1. num.n - k <= written - Start
      BY <1>2, <1>3
    <2>2. page = PageOf(written)
      BY <1>1 DEF HeaderRight
    <2> QED BY <1>2, <1>3, <1>5, <2>1, <2>2 DEF HeaderRight, PtrOf, PageOf
  <1>9. First <= First' /\ First' <= dropped' /\ dropped <= dropped'
    BY <1>2, <1>3, <1>6
  <1>10. ASSUME skipped' = {} PROVE \E m \in Start .. written' : StandsAt(m)' /\ DeliveredTo(m)'
    <2>1. PICK m \in Start .. written : StandsAt(m) /\ DeliveredTo(m)
      BY <1>2, <1>10 DEF StreamInv
    <2>2. StandsAt(m)'
      <3>1. PICK f \in Int : f = First' /\ f <= dropped' /\ dropped' \in Int
        BY <1>2, <1>3, <1>6, <1>9
      <3>2. ASSUME NEW j \in m .. f - 1 PROVE j < dropped'
        <4>1. m \in Int
          BY <1>3, <2>1
        <4>2. j \in m .. f - 1 /\ f \in Int
          OBVIOUS
        <4>3. j \in Int /\ j < f
          BY ONLY <4>1, <4>2
        <4> QED BY ONLY <3>1, <4>2, <4>3
      <3> QED BY <1>2, <2>1, <3>1, <3>2 DEF StandsAt, PtrOf
    <2>3. DeliveredTo(m)'
      <3>1. ASSUME NEW j \in Start .. m - 1, j >= dropped'
            PROVE  \/ \E i \in 1 .. Len(delivered) : delivered[i] = j
                   \/ j < First' /\ (~MustRead \/ j \in overrun')
        <4>1. j \in Int /\ m \in Int /\ dropped' \in Int
          BY <1>2, <1>3, <2>1
        <4>2. j >= dropped /\ (j < First => j < First')
          BY <1>2, <1>3, <1>6, <3>1, <4>1
        <4> QED BY <1>2, <2>1, <4>2 DEF DeliveredTo
      <3> QED BY <1>2, <2>1, <3>1 DEF DeliveredTo
    <2> QED BY <1>2, <2>2, <2>3
  <1> QED
    BY <1>7, <1>8, <1>10 DEF StreamInv

\* A discard moves the stream to the next message: all that is left is dropped.
LEMMA DiscardStep ==
  ASSUME StreamInv, Discard
  PROVE  StreamInv'
  <1>1. StreamType /\ HeaderRight
    BY DEF StreamInv
  <1>2. /\ ptr_read' = num.p /\ dropped' = written
        /\ UNCHANGED <<num, page, written, rpage, delivered, skipped, overrun>>
    BY DEF Discard
  <1>3. /\ written \in Nat /\ First \in Start .. written /\ num.p \in 0 .. PtrRange - 1
        /\ num.p = PtrOf(written) /\ Start \in Nat /\ MaxMsgs \in Nat \ {0}
        /\ written \in Start .. Start + MaxWritten
    BY <1>1, Numbers, Constants
  <1>4. First' = First /\ HeaderRight'
    BY <1>1, <1>2 DEF First, HeaderRight, PtrOf, PageOf
  <1>5. StreamType'
    BY <1>1, <1>2, <1>3 DEF StreamType, HeaderTypeOK
  <1>6. ASSUME skipped' = {} PROVE \E m \in Start .. written' : StandsAt(m)' /\ DeliveredTo(m)'
    <2>1. PICK m \in Start .. written : StandsAt(m) /\ DeliveredTo(m)
      BY <1>2, <1>6 DEF StreamInv
    <2>2. PICK w \in Start .. written : w = written
      BY <1>3
    <2>3. StandsAt(w)'
      BY <1>2, <1>3, <1>4, <2>2 DEF StandsAt, PtrOf
    <2>4. DeliveredTo(w)'
      <3>1. \A i \in 1 .. Len(delivered) : delivered[i] < w
        <4>1. \A i \in 1 .. Len(delivered) : delivered[i] \in Int
          BY <1>1, Constants DEF StreamType
        <4>2. \A i \in 1 .. Len(delivered) : delivered[i] < m
          BY <2>1 DEF DeliveredTo
        <4> QED BY <1>3, <2>2, <4>1, <4>2
      <3>2. \A k \in Start .. w - 1 : ~ k >= written
        BY <1>3, <2>2
      <3> QED BY <1>2, <2>1, <3>1, <3>2 DEF DeliveredTo
    <2> QED BY <1>2, <2>2, <2>3, <2>4
  <1> QED
    BY <1>4, <1>5, <1>6 DEF StreamInv

\* A reader that opens the LB again changes its own page only.
LEMMA RestartStep ==
  ASSUME StreamInv, NEW r \in Readers, Restart(r)
  PROVE  StreamInv'
  <1>1. StreamType /\ HeaderRight
    BY DEF StreamInv
  <1>2. /\ rpage' = [rpage EXCEPT ![r] = OpenPage]
        /\ UNCHANGED <<num, page, ptr_read, written, delivered, skipped, overrun, dropped>>
    BY DEF Restart, hdvars, history
  <1>3. OpenPage \in Int
    <2>1. num.p \in 0 .. PtrRange - 1 /\ page \in Int
      BY <1>1, Numbers DEF StreamType, HeaderTypeOK
    <2> QED BY <2>1, PageType DEF OpenPage
  <1>4. StreamType'
    BY <1>1, <1>2, <1>3 DEF StreamType, HeaderTypeOK
  <1>5. First' = First /\ HeaderRight'
    BY <1>1, <1>2 DEF First, HeaderRight, PtrOf, PageOf
  <1>6. ASSUME skipped' = {} PROVE \E m \in Start .. written' : StandsAt(m)' /\ DeliveredTo(m)'
    <2>1. PICK m \in Start .. written : StandsAt(m) /\ DeliveredTo(m)
      BY <1>2, <1>6 DEF StreamInv
    <2>2. StandsAt(m)'
      BY <1>2, <1>5, <2>1 DEF StandsAt, PtrOf
    <2>3. DeliveredTo(m)'
      BY <1>2, <1>5, <2>1 DEF DeliveredTo
    <2> QED BY <1>2, <2>2, <2>3
  <1> QED
    BY <1>4, <1>5, <1>6 DEF StreamInv

LEMMA StutterStep ==
  ASSUME StreamInv, UNCHANGED vars
  PROVE  StreamInv'
  <1>1. UNCHANGED <<num, page, ptr_read, written, rpage, delivered, skipped, overrun, dropped>>
    BY DEF vars
  <1>2. First' = First
    BY <1>1 DEF First
  <1>3. StreamType' /\ HeaderRight'
    BY <1>1 DEF StreamInv, StreamType, HeaderTypeOK, HeaderRight, PtrOf, PageOf
  <1>4. ASSUME skipped' = {} PROVE \E m \in Start .. written' : StandsAt(m)' /\ DeliveredTo(m)'
    <2>1. PICK m \in Start .. written : StandsAt(m) /\ DeliveredTo(m)
      BY <1>1, <1>4 DEF StreamInv
    <2>2. StandsAt(m)'
      BY <1>1, <1>2, <2>1 DEF StandsAt, PtrOf
    <2>3. DeliveredTo(m)'
      BY <1>1, <1>2, <2>1 DEF DeliveredTo
    <2> QED BY <1>1, <2>2, <2>3
  <1> QED
    BY <1>3, <1>4 DEF StreamInv

\* A read delivers the message the stream stands at, or passes one that expired.
LEMMA ReadStep ==
  ASSUME StreamInv, NEW r \in Readers, SharedRead(r)
  PROVE  StreamInv'
  <1>1. StreamType /\ HeaderRight
    BY DEF StreamInv
  <1> DEFINE verdict == CheckPointer(num, page, ptr_read, rpage[r])
             next    == (ptr_read + 1) % PtrRange
  <1>2. verdict \in {"ok", "expired", "toCome"}
    BY VerdictType
  <1>3. verdict = "ok" => ReadNumber \in First .. written - 1 /\ ptr_read = PtrOf(ReadNumber)
    BY <1>1, OkAt
  <1>4. CASE verdict = "toCome"
    <2>1. UNCHANGED vars
      BY <1>4 DEF SharedRead
    <2> QED BY <2>1, StutterStep
  <1>5. CASE verdict # "toCome"
    <2>1. /\ ptr_read' = next
          /\ rpage' = [rpage EXCEPT ![r] = CorrectedPage(next, @)]
          /\ delivered' = IF verdict = "ok" THEN Append(delivered, ReadNumber) ELSE delivered
          /\ skipped' = IF verdict = "expired" /\ ReadNumber >= First
                        THEN skipped \cup {ReadNumber} ELSE skipped
          /\ UNCHANGED <<num, page, written, overrun, dropped>>
      BY <1>5 DEF SharedRead
    <2> HIDE DEF verdict
    <2>2. /\ written \in Nat /\ First \in Start .. written /\ ptr_read \in 0 .. PtrRange - 1
          /\ dropped \in Start .. written /\ Start \in Nat /\ MaxMsgs \in Nat \ {0}
          /\ written \in Start .. Start + MaxWritten /\ PtrRange \in Nat \ {0} /\ MaxWritten \in Nat
          /\ First >= written - MaxMsgs
      BY <1>1, Numbers, Constants
    <2>3. First' = First /\ HeaderRight'
      BY <1>1, <2>1 DEF First, HeaderRight, PtrOf, PageOf
    <2>4. delivered \in Seq(Start .. Start + MaxWritten - 1)
      BY <1>1 DEF StreamType
    <2>5. StreamType'
      <3>1. next \in 0 .. PtrRange - 1
        BY <2>2, DivMod
      <3> HIDE DEF next
      <3>2. rpage' \in [Readers -> Int]
        <4>1. rpage \in [Readers -> Int]
          BY <1>1 DEF StreamType
        <4>2. CorrectedPage(next, rpage[r]) \in Int
          BY <3>1, <4>1, PageType
        <4> QED BY <2>1, <4>1, <4>2
      <3>3. delivered' \in Seq(Start .. Start + MaxWritten - 1)
        <4>1. CASE verdict = "ok"
          <5>1. ReadNumber \in Start .. Start + MaxWritten - 1
            BY <1>3, <2>2, <4>1
          <5> QED BY <2>1, <2>4, <4>1, <5>1
        <4> QED BY <2>1, <2>4, <4>1
      <3>4. skipped' \subseteq Int /\ overrun' \subseteq Start .. Start + MaxWritten
        <4>1. skipped \subseteq Int /\ overrun \subseteq Start .. Start + MaxWritten
          BY <1>1 DEF StreamType
        <4>2. ReadNumber \in Int
          <5>1. (ptr_read - num.p + PtrRange) % PtrRange \in Int
            BY <1>1, <2>2, Numbers
          <5> QED BY <2>2, <5>1 DEF ReadNumber
        <4> QED BY <2>1, <4>1, <4>2
      <3> QED BY <1>1, <2>1, <3>1, <3>2, <3>3, <3>4 DEF StreamType, HeaderTypeOK
    <2>6. ASSUME skipped' = {} PROVE \E m \in Start .. written' : StandsAt(m)' /\ DeliveredTo(m)'
      <3>1. PICK m \in Start .. written : StandsAt(m) /\ DeliveredTo(m)
        <4>1. skipped = {}
          BY <2>1, <2>6
        <4> QED BY <4>1 DEF StreamInv
      <3>2. /\ m \in Int /\ m >= Start /\ m <= written /\ written - m <= MaxMsgs + 1
            /\ ptr_read = PtrOf(m) 
            /\ (MustRead => \A k \in m .. First - 1 : k < dropped \/ k \in overrun)
        BY <2>2, <3>1 DEF StandsAt
      <3>3. ReadNumber = m
        BY <1>1, <2>2, <3>2, ReadAt
      <3>6. ptr_read' = PtrOf(m + 1)
        BY <2>1, <3>2, Neighbours
      <3>4. CASE verdict = "ok"
        <4>1. m \in First .. written - 1 /\ delivered' = Append(delivered, m)
          BY <1>3, <2>1, <3>3, <3>4
        <4>2. PICK q \in Start .. written : q = m + 1
          BY <2>2, <3>2, <4>1
        <4>3. StandsAt(q)'
          <5>1. ptr_read' = PtrOf(q)
            BY <3>6, <4>2
          <5>2. /\ q \in Start .. written /\ written - q <= MaxMsgs + 1
                /\ MustRead => \A k \in q .. First - 1 : k < dropped \/ k \in overrun
            BY <2>2, <3>2, <4>1, <4>2
          <5> QED BY <2>1, <2>3, <5>1, <5>2 DEF StandsAt, PtrOf
        <4>4. DeliveredTo(q)'
          <5> DEFINE d == Append(delivered, m)
                     l == Len(delivered)
          <5>1. /\ l \in Nat /\ Len(d) = l + 1 /\ d[l + 1] = m
                /\ \A i \in 1 .. l : d[i] = delivered[i] /\ delivered[i] \in Int
            BY <2>2, <2>4, <3>2
          <5>2. /\ \A i \in 1 .. l : delivered[i] < m
                /\ \A i \in 1 .. l - 1 : delivered[i] < delivered[i + 1]
                /\ \A k \in Start .. m - 1 : k >= dropped =>
                     \/ \E i \in 1 .. l : delivered[i] = k
                     \/ k < First /\ (~MustRead \/ k \in overrun)
            BY <3>1 DEF DeliveredTo
          <5> HIDE DEF d, l
          <5>3. \A i \in 1 .. Len(d) : d[i] < q
            BY <3>2, <4>2, <5>1, <5>2
          <5>4. ASSUME NEW i \in 1 .. Len(d) - 1 PROVE d[i] < d[i + 1]
            <6>1. CASE i = l
              BY <5>1, <5>2, <6>1, <5>4
            <6>2. CASE i # l
              <7>1. i \in 1 .. l - 1 /\ i \in 1 .. l /\ i + 1 \in 1 .. l
                BY <5>1, <5>4, <6>2
              <7> QED BY <5>1, <5>2, <7>1
            <6> QED BY <6>1, <6>2
          <5>5. ASSUME NEW k \in Start .. q - 1, k >= dropped
                PROVE  \/ \E i \in 1 .. Len(d) : d[i] = k
                       \/ k < First /\ (~MustRead \/ k \in overrun)
            <6>1. CASE k = m
              BY <5>1, <6>1
            <6>2. CASE k # m
              <7>1. k \in Start .. m - 1
                BY <2>2, <3>2, <4>2, <5>5, <6>2
              <7>2. CASE \E i \in 1 .. l : delivered[i] = k
                <8>1. PICK i \in 1 .. l : delivered[i] = k
                  BY <7>2
                <8> QED BY <5>1, <8>1
              <7> QED BY <5>2, <5>5, <7>1, <7>2
            <6> QED BY <6>1, <6>2
          <5>6. delivered' = d
            BY <4>1 DEF d
          <5> QED BY <2>1, <2>3, <5>3, <5>4, <5>5, <5>6 DEF DeliveredTo
        <4> QED BY <2>1, <4>2, <4>3, <4>4
      <3>5. CASE verdict = "expired"
        <4>1. m < First /\ delivered' = delivered
          <5>1. ~ ReadNumber >= First
            BY <2>1, <2>6, <3>5
          <5>2. delivered' = delivered
            BY <2>1, <3>5
          <5> QED BY <2>2, <3>2, <3>3, <5>1, <5>2
        <4>2. PICK q \in Start .. written : q = m + 1
          BY <2>2, <3>2, <4>1
        <4>3. StandsAt(q)'
          <5>1. ptr_read' = PtrOf(q)
            BY <3>6, <4>2
          <5>2. /\ q \in Start .. written /\ written - q <= MaxMsgs + 1
                /\ MustRead => \A k \in q .. First - 1 : k < dropped \/ k \in overrun
            BY <2>2, <3>2, <4>1, <4>2
          <5> QED BY <2>1, <2>3, <5>1, <5>2 DEF StandsAt, PtrOf
        <4>4. DeliveredTo(q)'
          <5>1. \A i \in 1 .. Len(delivered) : delivered[i] < m /\ delivered[i] \in Int
            BY <2>2, <2>4, <3>1 DEF DeliveredTo
          <5>2. \A i \in 1 .. Len(delivered) : delivered[i] < q
            BY <3>2, <4>2, <5>1
          <5>3. ASSUME NEW k \in Start .. q - 1, k >= dropped
                PROVE  \/ \E i \in 1 .. Len(delivered) : delivered[i] = k
                       \/ k < First /\ (~MustRead \/ k \in overrun)
            <6>1. CASE k = m
              <7>1. m \in m .. First - 1 /\ ~ m < dropped
                BY <2>2, <3>2, <4>1, <5>3, <6>1
              <7> QED BY <3>2, <4>1, <6>1, <7>1
            <6>2. CASE k # m
              <7>1. k \in Start .. m - 1
                BY <2>2, <3>2, <4>2, <5>3, <6>2
              <7> QED BY <3>1, <5>3, <7>1 DEF DeliveredTo
            <6> QED BY <6>1, <6>2
          <5> QED BY <2>1, <2>3, <3>1, <4>1, <5>2, <5>3 DEF DeliveredTo
        <4> QED BY <2>1, <4>2, <4>3, <4>4
      <3> QED BY <1>2, <1>5, <3>4, <3>5
    <2> QED BY <2>3, <2>5, <2>6 DEF StreamInv
  <1> QED
    BY <1>4, <1>5

LEMMA StreamStep ==
  ASSUME StreamInv, [Next]_vars
  PROVE  StreamInv'
<1>1. CASE UNCHANGED vars
  BY <1>1, StutterStep
<1>2. CASE \E c \in 0 .. MaxMsgs : Write(c)
  BY <1>2, WriteStep
<1>3. CASE \E k \in 1 .. MaxMsgs : Clear(k)
  BY <1>3, ClearStep
<1>4. CASE Discard
  BY <1>4, DiscardStep
<1>5. ASSUME NEW r \in Readers, SharedRead(r) \/ Restart(r) PROVE StreamInv'
  BY <1>5, ReadStep, RestartStep
<1> QED
  BY <1>1, <1>2, <1>3, <1>4, <1>5 DEF Next

--------------------------------------------------------------------------------
(* The results *)

(***************************************************************************)
(* LB_write, LB_clear, LB_misc (LB_DISCARD_UNREAD_IN_SHARED_STREAM), LB_open *)
(* and LB_read (LB_SHARED_READ) keep ptr_read the pointer of a message no   *)
(* more than MaxMsgs + 1 behind the next one, in front of everything that   *)
(* was delivered, unless LB_EXPIRED was returned wrongly before.            *)
(***************************************************************************)
THEOREM StreamCorrect == Spec => []StreamInv
BY StreamInit, StreamStep, PTL DEF Spec

\* The state keeps its type whatever LB_EXPIRED was returned for: LB_read
\* (LB_SHARED_READ) never delivers a message that was not written.
THEOREM ShareTypeCorrect == Spec => []TypeOK
<1>1. StreamInv => TypeOK
  <2> SUFFICES ASSUME StreamInv PROVE TypeOK
    OBVIOUS
  <2>1. StreamType /\ HeaderRight
    BY DEF StreamInv
  <2>2. dropped \in Start .. Start + MaxWritten
    BY <2>1, Numbers, Constants
  <2> QED BY <2>1, <2>2 DEF StreamType, TypeOK
<1> QED
  BY <1>1, StreamCorrect, PTL

(***************************************************************************)
(* lb.3 on LB_SHARE_STREAM, for any number of readers: as long as no reader *)
(* was told LB_EXPIRED of a message that had not expired, LB_read delivers  *)
(* every message once, in order, and passes only what was cleared or        *)
(* discarded, or had expired: of an LB that is LB_MUST_READ as well, only   *)
(* the message that a full LB loses without a look at ptr_read.             *)
(***************************************************************************)
THEOREM DeliveredOnceCorrect == Spec => [](ExpiredIsTrue => DeliveredOnce)
<1>1. StreamInv => (ExpiredIsTrue => DeliveredOnce)
  <2> SUFFICES ASSUME StreamInv, skipped = {} PROVE DeliveredOnce
    BY DEF ExpiredIsTrue
  <2>1. StreamType /\ HeaderRight
    BY DEF StreamInv
  <2>2. PICK m \in Start .. written : StandsAt(m) /\ DeliveredTo(m)
    BY DEF StreamInv
  <2>3. written \in Nat /\ Start \in Nat /\ MaxMsgs \in Nat
    BY <2>1, Numbers, Constants
  <2>4. m \in Int /\ m <= written /\ written - m \in 0 .. MaxMsgs + 1 /\ ptr_read = PtrOf(m)
    BY <2>2, <2>3 DEF StandsAt
  <2>5. ReadNumber = m
    BY <2>1, <2>4, ReadAt
  <2>6. ReadNumber <= written
    BY <2>4, <2>5
  <2>7. \A i \in 1 .. Len(delivered) - 1 : delivered[i] < delivered[i + 1]
    BY <2>2 DEF DeliveredTo
  <2>8. ASSUME NEW k \in Start .. written - 1, k < ReadNumber, k >= dropped
        PROVE  \/ \E i \in 1 .. Len(delivered) : delivered[i] = k
               \/ k < First /\ (~MustRead \/ k \in overrun)
    <3>1. k \in Start .. m - 1
      BY <2>3, <2>4, <2>5, <2>8
    <3> QED BY <2>2, <2>8, <3>1 DEF DeliveredTo
  <2> QED BY <2>6, <2>7, <2>8 DEF DeliveredOnce
<1> QED
  BY <1>1, StreamCorrect, PTL

--------------------------------------------------------------------------------
(* When LB_EXPIRED is not true *)

\* A message that has not expired is passed over only when it is the next one,
\* by a reader whose page is that of an earlier one.
LEMMA SkipsNext ==
  ASSUME StreamInv, ExpiredIsTrue, NEW r \in Readers, SharedRead(r), skipped' # skipped,
         PageOf(written + 1) - rpage[r] <= 2
  PROVE  PassesNextOnly(r)
  <1>1. StreamType /\ HeaderRight
    BY DEF StreamInv
  <1>2. PICK m \in Start .. written : StandsAt(m)
    BY DEF StreamInv, ExpiredIsTrue
  <1>3. /\ written \in Nat /\ num.n \in 0 .. MaxMsgs /\ First = written - num.n /\ Start \in Nat
        /\ num = [n |-> num.n, p |-> PtrOf(written)] /\ MaxMsgs \in Nat /\ num.p = PtrOf(written)
        /\ page = PageOf(written) /\ rpage \in [Readers -> Int]
    BY <1>1, Numbers, Constants DEF HeaderRight, StreamType
  <1>4. m \in Nat /\ m <= written /\ written - m \in 0 .. MaxMsgs + 1 /\ ptr_read = PtrOf(m)
    BY <1>2, <1>3 DEF StandsAt
  <1>5. ReadNumber = m
    BY <1>1, <1>4, ReadAt
  <1> DEFINE verdict == CheckPointer(num, page, ptr_read, rpage[r])
             next    == (ptr_read + 1) % PtrRange
  <1>6. /\ verdict = "expired" /\ m >= First
        /\ rpage' = [rpage EXCEPT ![r] = CorrectedPage(next, @)]
    BY <1>5 DEF SharedRead, vars
  <1>7. PICK b \in Int : b = rpage[r]
    BY <1>3
  <1>8. PICK a \in Int : /\ a = PageOf(written) /\ a = CorrectedPage(num.p, page)
                        /\ PageOf(written + 1) \in {a, a + 1}
    <2>1. PageOf(written) \in Int /\ PageOf(written) - PageOf(written) \in -2 .. 1
      BY <1>3, Split
    <2>2. CorrectedPage(num.p, page) = PageOf(written)
      BY <1>3, <2>1, Corrected
    <2>3. PageOf(written + 1) \in {PageOf(written), PageOf(written) + 1}
      BY <1>3, Successor
    <2> QED BY <2>1, <2>2, <2>3
  <1>9. a - b <= 2 /\ PageOf(written + 1) - b <= 2
    BY <1>7, <1>8
  <1>10. /\ ~(b > a \/ (b >= a /\ ptr_read >= num.p))
         /\ ~ InWindow(num, ptr_read)
    BY <1>6, <1>7, <1>8, <1>9 DEF CheckPointer
  <1>11. m = written
    <2> SUFFICES ASSUME m < written PROVE FALSE
      BY <1>3, <1>4
    <2>1. PICK n \in 0 .. MaxMsgs : n = num.n
      BY <1>3
    <2>2. CheckPointer([n |-> n, p |-> PtrOf(written)], page, PtrOf(m), PageOf(m)) = "ok"
      <3>1. page \in Int /\ page - PageOf(written) \in -2 .. 1
        BY <1>3, Split
      <3>2. ~ m >= written /\ m >= written - n
        BY <1>3, <1>4, <1>6, <2>1
      <3> QED BY <1>3, <1>4, <3>1, <3>2, CheckRight
    <2>3. InWindow([n |-> n, p |-> PtrOf(written)], PtrOf(m))
      BY <2>2 DEF CheckPointer
    <2> QED BY <1>3, <1>4, <1>10, <2>1, <2>3
  <1>12. ptr_read >= num.p
    BY <1>3, <1>4, <1>11, Split
  <1>13. b < a
    BY <1>10, <1>12
  <1>14. next = PtrOf(written + 1)
    BY <1>3, <1>4, <1>11, Neighbours
  <1>15. CorrectedPage(next, b) = PageOf(written + 1)
    <2>1. PICK c \in {a, a + 1} : c = PageOf(written + 1)
      BY <1>8
    <2>2. b - c \in -2 .. 1
      BY <1>7, <1>8, <1>9, <1>13, <2>1
    <2>3. written + 1 \in Int /\ b - PageOf(written + 1) \in -2 .. 1
      BY <1>3, <2>1, <2>2
    <2> QED BY <1>7, <1>14, <2>3, Corrected
  <1>16. rpage'[r] = PageOf(ReadNumber + 1)
    <2> HIDE DEF next
    <2> QED BY <1>3, <1>5, <1>6, <1>7, <1>11, <1>15
  <1>17. ReadNumber >= written
    BY <1>3, <1>5, <1>11
  <1>18. rpage[r] < PageOf(ReadNumber)
    BY <1>5, <1>7, <1>8, <1>11, <1>13
  <1> QED
    BY <1>16, <1>17, <1>18 DEF PassesNextOnly

(***************************************************************************)
(* What LB_read (LB_SHARED_READ) loses when a reader at most two pages      *)
(* behind is told LB_EXPIRED wrongly for the first time, whatever writes,   *)
(* clears, discards, restarts and other readers came before and at whatever *)
(* turn of a page or of the pointer range: no message that is there, only   *)
(* the one to be written next, and only for a reader that is behind; it     *)
(* knows the page of the stream again afterwards.                           *)
(***************************************************************************)
THEOREM FirstSkipIsNext ==
  Spec => [][\A r \in Readers :
               /\ ExpiredIsTrue /\ SharedRead(r) /\ skipped' # skipped
               /\ PageOf(written + 1) - rpage[r] <= 2
               => PassesNextOnly(r)]_vars
<1>1. StreamInv /\ [Next]_vars =>
        [\A r \in Readers :
           /\ ExpiredIsTrue /\ SharedRead(r) /\ skipped' # skipped
           /\ PageOf(written + 1) - rpage[r] <= 2
           => PassesNextOnly(r)]_vars
  BY SkipsNext
<1> QED
  BY <1>1, StreamCorrect, PTL DEF Spec

================================================================================
