---------------------------- MODULE LBMustReadProofs ---------------------------
(***************************************************************************)
(* Must-read linear buffers (LBMustRead) for every size of the buffer and   *)
(* any number of readers: the header and the readers keep their types; and  *)
(* as far as the counterexamples beside the runs allow, what is unread does *)
(* not expire, and nothing else makes a write fail.                         *)
(***************************************************************************)
EXTENDS LBMustRead, LBPointerProofs, FiniteSetTheorems

--------------------------------------------------------------------------------
(* What holds of both kinds of must-read buffers *)

\* The header words are those of the next message.
HeaderRight ==
  /\ num.p = PtrOf(written) /\ page = PageOf(written)
  /\ num.n <= written - Start

\* Reader r stands at message n: its pointer and its page belong together.
ReaderAt(r, n) == rd[r].rpt = PtrOf(n) /\ rd[r].rpage = PageOf(n)

MRBase ==
  /\ TypeOK /\ HeaderRight
  /\ \A r \in Readers : passed[r] <= written /\ \E n \in Int : ReaderAt(r, n)

LEMMA Constants ==
  /\ MaxMsgs \in Nat \ {0} /\ PageSize \in Nat \ {0} /\ PtrRange \in Nat \ {0}
  /\ PtrRange = 4 * PageSize /\ MaxMsgs + 4 <= PageSize
  /\ Start \in Nat /\ MaxWritten \in Nat /\ MustRead /\ ~ShareStream
  /\ NReaders \in Nat /\ MaxClears \in Nat /\ IsFiniteSet(Readers)
  BY Sizes, UnreadAssumption, MustReadAssumption

LEMMA Numbers ==
  ASSUME TypeOK, HeaderRight
  PROVE  /\ written \in Nat /\ written \in Start .. Start + MaxWritten
         /\ num.n \in 0 .. MaxMsgs /\ num = [n |-> num.n, p |-> num.p]
         /\ First \in Start .. written /\ First = written - num.n
         /\ num.p = PtrOf(written) /\ page = PageOf(written)
         /\ ptr_read \in 0 .. PtrRange - 1
         /\ First >= written - MaxMsgs /\ First \in Nat
  <1>1. num \in NumPt /\ written \in Start .. Start + MaxWritten /\ ptr_read \in 0 .. PtrRange - 1
    BY DEF TypeOK, HeaderTypeOK
  <1>2. num.n \in 0 .. MaxMsgs /\ num = [n |-> num.n, p |-> num.p]
    BY <1>1 DEF NumPt
  <1>3. First = written - num.n /\ num.n <= written - Start /\ num.p = PtrOf(written)
        /\ page = PageOf(written)
    BY DEF First, HeaderRight
  <1>4. First \in Start .. written /\ First >= written - MaxMsgs
    BY <1>1, <1>2, <1>3, Constants
  <1> QED
    BY <1>1, <1>2, <1>3, <1>4, Constants

\* A pointer with a page corrected for it is that of some message.
LEMMA SomeMessage ==
  ASSUME NEW pt \in 0 .. PtrRange - 1, NEW ref \in Int
  PROVE  \E n \in Int : pt = PtrOf(n) /\ CorrectedPage(pt, ref) = PageOf(n)
  <1> DEFINE q == pt \div PageSize
             r == pt % PageSize
             k == ref % NPages
             nc == (q - k + NPages) % NPages
  <1>1. /\ q \in 0 .. 3 /\ r \in 0 .. PageSize - 1 /\ pt = PageSize * q + r
        /\ k \in 0 .. 3 /\ NPages = 4 /\ PageSize \in Nat \ {0}
    <2>1. q \in Int /\ r \in 0 .. PageSize - 1 /\ pt = PageSize * q + r
      BY Constants, DivMod
    <2>2. k \in 0 .. 3 /\ NPages = 4
      BY DivMod DEF NPages
    <2>3. ~ (q < 0)
      <3> SUFFICES ASSUME q < 0 PROVE FALSE
        OBVIOUS
      <3> HIDE DEF q, r
      <3>1. PageSize * q + PageSize <= PageSize * 0
        BY <2>1, Constants, MulLt
      <3> QED BY <2>1, <3>1, Constants
    <2>4. ~ (3 < q)
      <3> SUFFICES ASSUME 3 < q PROVE FALSE
        OBVIOUS
      <3> HIDE DEF q, r
      <3>1. PageSize * 3 + PageSize <= PageSize * q
        BY <2>1, Constants, MulLt
      <3> QED BY <2>1, <3>1, Constants
    <2> QED BY <2>1, <2>2, <2>3, <2>4, Constants
  <1> DEFINE c == CorrectedPage(pt, ref)
  <1>2. c = IF nc = 3 THEN ref - 1 ELSE ref + nc
    BY DEF CorrectedPage
  <1>3. c \in Int /\ c % 4 = q
    <2>1. nc = (q - k + 4) % 4
      BY <1>1
    <2>2. ref = 4 * (ref \div 4) + k /\ ref \div 4 \in Int
      BY DivMod DEF NPages
    <2> HIDE DEF c, q, k, nc
    <2> QED BY <1>1, <1>2, <2>1, <2>2
  <1> DEFINE n == PageSize * c + r
  <1>4. n \in Int /\ n \div PageSize = c /\ n % PageSize = r
    <2>1. n \in Int
      <3> HIDE DEF c, r
      <3> QED BY <1>1, <1>3
    <2> HIDE DEF c, r
    <2> QED BY <1>1, <1>3, <2>1, DivModUnique
  <1>5. PageOf(n) = c /\ PtrOf(n) = pt
    <2>1. PageOf(n) = c
      BY <1>4 DEF PageOf
    <2>2. PtrOf(n) = PageSize * (PageOf(n) % NPages) + (n % PageSize)
      BY <1>4, Split
    <2> HIDE DEF n, c, q, r
    <2> QED BY <1>1, <1>3, <1>4, <2>1, <2>2
  <1> QED BY <1>4, <1>5

\* The pointer and the page LB_read gives the reader for its next message.
LEMMA NextMessage ==
  ASSUME NEW n \in Int
  PROVE  /\ (PtrOf(n) + 1) % PtrRange = PtrOf(n + 1)
         /\ CorrectedPage(PtrOf(n + 1), PageOf(n)) = PageOf(n + 1)
  <1>1. (PtrOf(n) + 1) % PtrRange = PtrOf(n + 1)
    BY Neighbours
  <1>2. PageOf(n) \in Int /\ PageOf(n + 1) \in {PageOf(n), PageOf(n) + 1}
    BY Split, Successor
  <1>3. PageOf(n) - PageOf(n + 1) \in -2 .. 1 /\ n + 1 \in Int
    BY <1>2
  <1> QED BY <1>1, <1>2, <1>3, Corrected

\* Searches start from the next message.
LEMMA FromNext ==
  ASSUME TypeOK, HeaderRight, NEW inc \in Int
  PROVE  ComputePointer(num.p, CorrectedPage(num.p, page), inc)
           = [pt |-> PtrOf(written + inc), page |-> PageOf(written + inc)]
  <1>1. written \in Int /\ num.p = PtrOf(written) /\ page = PageOf(written)
    BY Numbers
  <1>2. PageOf(written) - PageOf(written) \in -2 .. 1 /\ PageOf(written) \in Int
    BY <1>1, Split
  <1>3. CorrectedPage(num.p, page) = PageOf(written)
    BY <1>1, <1>2, Corrected
  <1> QED BY <1>1, <1>3, ComputeRight

LEMMA SearchedFirst ==
  ASSUME TypeOK, HeaderRight, NEW offset \in Int
  PROVE  SearchFirst(offset) = LET m == IF num.n = 0 THEN written ELSE First + offset
                               IN  [pt |-> PtrOf(m), page |-> PageOf(m)]
  <1> DEFINE inc == IF num.n = 0 THEN 0 ELSE offset - num.n
             m == IF num.n = 0 THEN written ELSE First + offset
  <1>1. inc \in Int /\ written + inc = m
    BY Numbers
  <1>2. SearchFirst(offset) = ComputePointer(num.p, CorrectedPage(num.p, page), inc)
    BY DEF SearchFirst
  <1> HIDE DEF inc
  <1>3. SearchFirst(offset) = [pt |-> PtrOf(written + inc), page |-> PageOf(written + inc)]
    BY <1>1, <1>2, FromNext
  <1> QED BY <1>1, <1>3

\* LB_Check_pointer says "available" of available messages only.
LEMMA OkAvailable ==
  ASSUME TypeOK, HeaderRight, NEW n \in Int,
         CheckPointer(num, page, PtrOf(n), PageOf(n)) = "ok"
  PROVE  n \in First .. written - 1
  <1>1. /\ written \in Int /\ num.n \in 0 .. MaxMsgs /\ First = written - num.n
        /\ num = [n |-> num.n, p |-> PtrOf(written)] /\ page = PageOf(written)
        /\ num.p = PtrOf(written) /\ MaxMsgs \in Nat /\ MaxMsgs + 4 <= PageSize
        /\ PageSize \in Nat \ {0}
    BY Numbers, Constants
  <1>2. CorrectedPage(num.p, page) = PageOf(written)
    <2>1. PageOf(written) - PageOf(written) \in -2 .. 1 /\ PageOf(written) \in Int
      BY <1>1, Split
    <2> QED BY <1>1, <2>1, Corrected
  <1>3. /\ ~ (PageOf(n) > PageOf(written)) /\ ~ (PageOf(written) - PageOf(n) > 2)
        /\ InWindow(num, PtrOf(n))
    BY <1>2 DEF CheckPointer
  <1>4. PICK k \in 0 .. MaxMsgs : k = num.n
    BY <1>1
  <1>5. PICK d \in 1 .. k : PtrOf(n) = PtrOf(written - d)
    <2>1. InWindow([n |-> k, p |-> PtrOf(written)], PtrOf(n)) /\ PtrOf(n) \in 0 .. PtrRange - 1
      BY <1>1, <1>3, <1>4, Split
    <2> QED BY <1>1, <2>1, WindowPointers
  <1>6. PICK m \in Int : m = written - d
    BY <1>1
  <1>7. PageOf(written) - PageOf(m) \in 0 .. 1
    <2>1. written - m \in 0 .. PageSize
      BY <1>1, <1>6
    <2> QED BY <1>1, <2>1, NearPages
  <1>8. /\ PageOf(n) % 4 = PageOf(m) % 4 /\ n % PageSize = m % PageSize
        /\ PageOf(n) \in Int /\ PageOf(m) \in Int /\ PageOf(written) \in Int
        /\ n = PageSize * PageOf(n) + (n % PageSize) /\ m = PageSize * PageOf(m) + (m % PageSize)
    <2>1. PtrOf(n) = PtrOf(m)
      BY <1>5, <1>6
    <2>2. /\ PtrOf(n) \div PageSize = PageOf(n) % NPages /\ PtrOf(n) % PageSize = n % PageSize
          /\ PtrOf(m) \div PageSize = PageOf(m) % NPages /\ PtrOf(m) % PageSize = m % PageSize
      BY Split
    <2>3. NPages = 4
      BY DEF NPages
    <2> QED BY <1>1, <2>1, <2>2, <2>3, Split
  <1>9. PageOf(n) = PageOf(m)
    BY ONLY <1>3, <1>7, <1>8
  <1>10. n = m
    BY <1>8, <1>9
  <1> QED BY <1>1, <1>4, <1>6, <1>10

--------------------------------------------------------------------------------
(* Calls of LB_read *)

\* The history numbers messages as the model does.
LEMMA NumberRight ==
  ASSUME NEW n \in Int
  PROVE  Number(PtrOf(n), PageOf(n)) = n
  <1>1. PageOf(n) \in Int /\ n % PageSize \in 0 .. PageSize - 1
    BY Split
  <1>2. n = PageSize * PageOf(n) + (n % PageSize) /\ PtrOf(n) % PageSize = n % PageSize
    BY Split
  <1>3. PageSize \in Nat
    BY Constants
  <1>4. Number(PtrOf(n), PageOf(n)) = PageOf(n) * PageSize + (n % PageSize)
    BY <1>2 DEF Number
  <1>5. PageOf(n) * PageSize = PageSize * PageOf(n)
    BY ONLY <1>1, <1>3
  <1> QED BY <1>2, <1>4, <1>5

LEMMA VerdictType ==
  ASSUME NEW pt, NEW pg
  PROVE  CheckPointer(num, page, pt, pg) \in Verdicts
  BY DEF CheckPointer, Verdicts

\* FollowRead, for message n; at is the message that counts as read.
FollowTo(r, n, at) ==
  /\ rd' = [rd EXCEPT ![r].rpt = PtrOf(n + 1), ![r].rpage = PageOf(n + 1)]
  /\ ptr_read' = IF PtrCompare(PtrOf(at), ptr_read) >= 0 THEN PtrOf(at + 1) ELSE ptr_read
  /\ UNCHANGED read_cnt

\* The call of reader r is about message n, of which LB_Check_pointer says v.
ReadAbout(r, n, v) ==
  /\ v \in Verdicts
  /\ v = "ok" => n \in First .. written - 1
  /\ v = CheckPointer(num, page, PtrOf(n), PageOf(n))
  /\ IF v = "toCome"
     THEN IF NReaders = 0 THEN UNCHANGED <<rd, ptr_read, read_cnt>>
          ELSE UpdateCommonPointer(r, PtrOf(n), PageOf(n))
     ELSE IF NReaders = 0
          THEN FollowTo(r, n, IF v # "expired" THEN n ELSE IF num.n = 0 THEN written ELSE First - 1)
          ELSE UpdateCommonPointer(r, PtrOf(n + 1), PageOf(n + 1))
  /\ passed' = IF v = "ok" /\ n >= passed[r] THEN [passed EXCEPT ![r] = n + 1] ELSE passed
  /\ emptied' = (emptied \/ (NReaders = 0 /\ v = "expired" /\ num.n = 0))
  /\ astray' = (astray \/ CountedEarly(r))
  /\ UNCHANGED <<num, page, written, clears>>

LEMMA ReadIsAbout ==
  ASSUME MRBase, NEW r \in Readers, NEW id \in Ids, Read(r, id)
  PROVE  \E n \in Int : \E v \in Verdicts : ReadAbout(r, n, v) /\ (id = "LB_NEXT" => ReaderAt(r, n))
  <1>1. /\ TypeOK /\ HeaderRight /\ written \in Int
        /\ id \in {"LB_NEXT", "LB_LATEST"} /\ First \in Int
    BY Numbers, MustReadAssumption DEF MRBase
  <1> DEFINE latest  == ComputePointer(num.p, CorrectedPage(num.p, page), -1)
             rpt     == IF id = "LB_NEXT" THEN rd[r].rpt ELSE latest.pt
             rpage   == IF id = "LB_NEXT" THEN rd[r].rpage ELSE latest.page
             next    == (rpt + 1) % PtrRange
             verdict == CheckPointer(num, page, rpt, rpage)
  <1>2. latest = [pt |-> PtrOf(written + (-1)), page |-> PageOf(written + (-1))]
    BY <1>1, FromNext
  <1>3. PICK n \in Int : rpt = PtrOf(n) /\ rpage = PageOf(n) /\ (id = "LB_NEXT" => ReaderAt(r, n))
    <2>1. CASE id = "LB_NEXT"
      BY <2>1 DEF MRBase, ReaderAt
    <2>2. CASE id # "LB_NEXT"
      <3>1. written + (-1) \in Int
        BY <1>1
      <3> QED BY <1>2, <2>2, <3>1
    <2> QED BY <2>1, <2>2
  <1>4. /\ IF verdict = "toCome"
           THEN IF NReaders = 0 THEN UNCHANGED <<rd, ptr_read, read_cnt>>
                ELSE UpdateCommonPointer(r, rpt, rpage)
           ELSE IF NReaders = 0 THEN FollowRead(r, rpt, rpage, verdict)
                ELSE UpdateCommonPointer(r, next, CorrectedPage(next, rpage))
        /\ passed' = IF verdict = "ok" /\ Number(rpt, rpage) >= passed[r]
                     THEN [passed EXCEPT ![r] = Number(rpt, rpage) + 1] ELSE passed
        /\ emptied' = (emptied \/ (NReaders = 0 /\ verdict = "expired" /\ num.n = 0))
        /\ astray' = (astray \/ CountedEarly(r))
        /\ UNCHANGED <<num, page, written, clears>>
    BY DEF Read
  <1>5. PICK v : v = verdict
    OBVIOUS
  <1> HIDE DEF latest, rpt, rpage, verdict
  <1>6. v \in Verdicts /\ v = CheckPointer(num, page, PtrOf(n), PageOf(n))
    BY <1>3, <1>5, VerdictType DEF verdict
  <1>7. v = "ok" => n \in First .. written - 1
    BY <1>1, <1>6, OkAvailable
  <1>8. Number(rpt, rpage) = n
    BY <1>3, NumberRight
  <1>9. next = PtrOf(n + 1) /\ CorrectedPage(next, rpage) = PageOf(n + 1)
    BY <1>3, NextMessage
  <1>10. ASSUME FollowRead(r, rpt, rpage, v)
         PROVE  FollowTo(r, n, IF v # "expired" THEN n ELSE IF num.n = 0 THEN written ELSE First - 1)
    <2> DEFINE at == IF v # "expired" THEN n ELSE IF num.n = 0 THEN written ELSE First - 1
               apt == IF v = "expired" THEN SearchFirst(-1).pt ELSE rpt
    <2>1. apt = PtrOf(at) /\ at \in Int
      <3>1. SearchFirst(-1).pt = PtrOf(IF num.n = 0 THEN written ELSE First + (-1))
        BY <1>1, SearchedFirst
      <3>2. First + (-1) = First - 1
        BY <1>1
      <3> QED BY <1>1, <1>3, <3>1, <3>2
    <2>2. (apt + 1) % PtrRange = PtrOf(at + 1)
      <3> HIDE DEF at, apt
      <3> QED BY <2>1, NextMessage
    <2>3. /\ rd' = [rd EXCEPT ![r].rpt = next, ![r].rpage = CorrectedPage(next, rpage)]
          /\ ptr_read' = IF PtrCompare(apt, ptr_read) >= 0 THEN (apt + 1) % PtrRange ELSE ptr_read
          /\ UNCHANGED read_cnt
      BY <1>10 DEF FollowRead
    <2> HIDE DEF at, apt, next
    <2>4. FollowTo(r, n, at)
      BY <1>9, <2>1, <2>2, <2>3 DEF FollowTo
    <2> QED BY <2>4 DEF at
  <1> HIDE DEF next
  <1>11. ReadAbout(r, n, v)
    BY <1>3, <1>4, <1>5, <1>6, <1>7, <1>8, <1>9, <1>10 DEF ReadAbout
  <1> QED BY <1>3, <1>6, <1>11

\* The record of a reader.
Rd == [rpt : 0 .. PtrRange - 1, rpage : Int, rpt_incd : -1 .. PtrRange - 1]

\* What Update_must_read_common_pointer does when the reader stands at message k.
LEMMA CountsAt ==
  ASSUME TypeOK, NEW r \in Readers, NEW k \in Int, UpdateCommonPointer(r, PtrOf(k), PageOf(k))
  PROVE  LET counts == rd[r].rpt_incd # ptr_read /\ PtrCompare(PtrOf(k), ptr_read + Half) >= 0
             cnt == IF counts THEN read_cnt + 1 ELSE read_cnt
         IN  /\ rd' \in [Readers -> Rd] /\ \A q \in Readers \ {r} : rd'[q] = rd[q]
             /\ rd'[r].rpt = PtrOf(k) /\ rd'[r].rpage = PageOf(k)
             /\ rd'[r].rpt_incd = IF counts THEN ptr_read ELSE rd[r].rpt_incd
             /\ ptr_read' = IF cnt >= NReaders THEN (ptr_read + Half) % PtrRange ELSE ptr_read
             /\ read_cnt' = IF cnt >= NReaders THEN 0 ELSE cnt
             /\ ptr_read' \in 0 .. PtrRange - 1 /\ read_cnt' \in 0 .. NReaders
  <1> DEFINE counts == rd[r].rpt_incd # ptr_read /\ PtrCompare(PtrOf(k), ptr_read + Half) >= 0
             cnt == IF counts THEN read_cnt + 1 ELSE read_cnt
             new == [rpt |-> PtrOf(k), rpage |-> PageOf(k),
                     rpt_incd |-> IF counts THEN ptr_read ELSE rd[r].rpt_incd]
  <1>1. /\ rd \in [Readers -> Rd] /\ ptr_read \in 0 .. PtrRange - 1 /\ read_cnt \in 0 .. NReaders
        /\ PtrRange \in Nat \ {0} /\ MaxMsgs \in Nat /\ NReaders \in Nat
    BY Constants DEF TypeOK, HeaderTypeOK, Rd
  <1>2. PtrOf(k) \in 0 .. PtrRange - 1 /\ PageOf(k) \in Int
    BY Split
  <1>3. /\ rd' = [rd EXCEPT ![r] = new]
        /\ IF cnt >= NReaders
           THEN ptr_read' = ComputePointer(ptr_read, PageOf(k), Half).pt /\ read_cnt' = 0
           ELSE read_cnt' = cnt /\ UNCHANGED ptr_read
    BY <1>1 DEF UpdateCommonPointer
  <1>4. new \in Rd
    <2> HIDE DEF counts
    <2> QED BY <1>1, <1>2 DEF Rd
  <1>5. rd' \in [Readers -> Rd] /\ rd'[r] = new /\ \A q \in Readers \ {r} : rd'[q] = rd[q]
    <2> HIDE DEF new
    <2> QED BY <1>1, <1>3, <1>4
  <1>6. ComputePointer(ptr_read, PageOf(k), Half).pt = (ptr_read + Half) % PtrRange
    BY DEF ComputePointer
  <1>7. ptr_read + Half \in Int
    BY <1>1 DEF Half
  <1>8. (ptr_read + Half) % PtrRange \in 0 .. PtrRange - 1
    BY <1>1, <1>7, DivMod
  <1>9. cnt \in Nat
    <2> HIDE DEF counts
    <2> QED BY <1>1
  <1> HIDE DEF counts
  <1>10. /\ ptr_read' = IF cnt >= NReaders THEN (ptr_read + Half) % PtrRange ELSE ptr_read
         /\ read_cnt' = IF cnt >= NReaders THEN 0 ELSE cnt
    BY <1>3, <1>6
  <1>11. ptr_read' \in 0 .. PtrRange - 1 /\ read_cnt' \in 0 .. NReaders
    <2> HIDE DEF cnt
    <2> QED BY <1>1, <1>8, <1>9, <1>10
  <1> HIDE DEF cnt
  <1>12. /\ rd'[r].rpt = PtrOf(k) /\ rd'[r].rpage = PageOf(k)
         /\ rd'[r].rpt_incd = IF counts THEN ptr_read ELSE rd[r].rpt_incd
    BY <1>5
  <1> QED BY <1>5, <1>10, <1>11, <1>12 DEF counts, cnt

--------------------------------------------------------------------------------
(* Types, for every way to use the buffer *)

\* The oldest messages of a write that needs room, by number.
LEMMA OldestAt ==
  ASSUME TypeOK, HeaderRight, NEW i \in Int
  PROVE  Oldest(i) = PtrOf(First + i - 1)
  <1> DEFINE k == -num.n - 1 + i
  <1>1. /\ written \in Int /\ num.n \in Int /\ First = written - num.n /\ num.p = PtrOf(written)
        /\ PtrRange \in Nat
    BY Numbers, Constants
  <1>2. k \in Int /\ written + k = First + i - 1
    BY <1>1
  <1>3. num.p - num.n - 1 + i + PtrRange = PtrOf(written) + k + PtrRange
    <2>1. PtrOf(written) \in Int
      BY <1>1, Split
    <2> QED BY <1>1, <2>1
  <1> HIDE DEF k
  <1>4. (PtrOf(written) + k + PtrRange) % PtrRange = PtrOf(written + k)
    BY <1>1, <1>2, PtrStep
  <1> QED BY <1>2, <1>3, <1>4 DEF Oldest

\* What a write of a message does to the header. The messages it pushes out are
\* before ptr_read, but for one that LB_write does not look at.
LEMMA WrittenHeader ==
  ASSUME TypeOK, HeaderRight, NEW c \in 0 .. MaxMsgs, WriteMessage(c)
  PROVE  /\ written' = written + 1 /\ written' \in Start .. Start + MaxWritten
         /\ num' \in NumPt /\ HeaderRight' /\ page' \in Nat
         /\ First' \in First .. written + 1 /\ ptr_read' = ptr_read
         /\ \A m \in First .. First' - 1 : PtrCompare(PtrOf(m), ptr_read) < 0 \/ Overrun(m)
  <1>1. /\ written \in Start .. Start + MaxWritten /\ num.n \in 0 .. MaxMsgs /\ First = written - num.n
        /\ num.p = PtrOf(written) /\ page = PageOf(written) /\ First \in Start .. written
        /\ written \in Nat
    BY Numbers DEF HeaderRight
  <1>2. /\ written < Start + MaxWritten /\ c \in 0 .. num.n /\ Room(c)
        /\ num' = UpdatedNum(UpdatedNum(num, 0, c), 1, Surplus(num))
        /\ page' = UpdatedPage(num, page) /\ written' = written + 1
    BY DEF WriteMessage
  <1>3. written' \in Start .. Start + MaxWritten
    BY <1>1, <1>2, Constants
  <1>4. NextPtr(num) = PtrOf(written + 1)
    BY <1>1, Neighbours DEF NextPtr
  <1>5. PICK x \in Nat : /\ x = c + (IF num.n = MaxMsgs THEN 1 ELSE 0)
                         /\ num.n + 1 - x \in 0 .. MaxMsgs
                         /\ num' = [n |-> num.n + 1 - x, p |-> PtrOf(written + 1)]
    <2>1. num.n \in 0 .. MaxMsgs /\ c \in 0 .. num.n /\ MaxMsgs \in Nat \ {0}
      BY <1>1, <1>2, Constants
    <2>2. PICK s \in 0 .. 1 : s = Surplus(num) /\ s = IF num.n = MaxMsgs THEN 1 ELSE 0
      BY <2>1 DEF Surplus
    <2>3. UpdatedNum(num, 0, c) = [n |-> num.n - c, p |-> num.p]
      BY <2>1 DEF UpdatedNum
    <2>4. UpdatedNum([n |-> num.n - c, p |-> num.p], 1, s)
            = [n |-> num.n - c + 1 - s, p |-> NextPtr(num)]
      <3>1. num.n - c + 1 - s \in 0 .. MaxMsgs
        BY <2>1, <2>2
      <3> QED BY <2>1, <3>1 DEF UpdatedNum, NextPtr
    <2>5. num.n - c + 1 - s = num.n + 1 - (c + s) /\ num.n + 1 - (c + s) \in 0 .. MaxMsgs
      BY <2>1, <2>2
    <2>6. PICK x \in Nat : x = c + s
      BY <2>1
    <2> QED BY <1>2, <1>4, <2>2, <2>3, <2>4, <2>5, <2>6
  <1>7. page' = PageOf(written + 1)
    <2>1. CorrectedPage(num.p, page) = PageOf(written)
      <3>1. PageOf(written) - PageOf(written) \in -2 .. 1 /\ PageOf(written) \in Int
        BY <1>1, Split
      <3> QED BY <1>1, <3>1, Corrected
    <2>2. PageOf(written + 1) = IF PtrOf(written + 1) % PageSize = 0 THEN PageOf(written) + 1 ELSE PageOf(written)
      BY <1>1, Successor
    <2> QED BY <1>2, <1>4, <2>1, <2>2 DEF UpdatedPage
  <1>8. PICK y \in 0 .. MaxMsgs : y = num.n + 1 - x /\ num'.n = y /\ num'.p = PtrOf(written + 1)
    BY <1>5
  <1>9. num' \in NumPt
    <2>1. PtrOf(written + 1) \in 0 .. PtrRange - 1
      BY <1>1, Split
    <2> QED BY <1>5, <1>8, <2>1 DEF NumPt
  <1>10. HeaderRight'
    <2>1. y <= written + 1 - Start
      BY <1>1, <1>5, <1>8, Constants
    <2>2. num'.p = PtrOf(written') /\ page' = PageOf(written')
      BY <1>2, <1>7, <1>8 DEF PtrOf, PageOf
    <2>3. num'.n <= written' - Start
      BY <1>1, <1>2, <1>8, <2>1, Constants
    <2> QED BY <2>2, <2>3 DEF HeaderRight
  <1>11. page' \in Nat
    <2>1. written + 1 \in Nat
      BY <1>1
    <2> QED BY <1>7, <2>1, Constants DEF PageOf
  <1>12. PICK f \in Int : f = First' /\ f = First + x /\ f = written + 1 - y
    <2>1. First' = written' - num'.n
      BY DEF First
    <2> QED BY <1>1, <1>2, <1>8, <2>1
  <1>13. f \in First .. written + 1
    BY <1>1, <1>8, <1>12
  <1>14. ASSUME NEW m \in First .. f - 1
         PROVE  PtrCompare(PtrOf(m), ptr_read) < 0 \/ Overrun(m)
    <2>1. PICK i \in Int : i = m - First + 1
      BY <1>1
    <2>2. i \in 1 .. x /\ m \in Int
      BY <1>1, <1>5, <1>12, <2>1
    <2>3. CASE i \in 1 .. (IF num.n - c = MaxMsgs THEN c + 1 ELSE c)
      <3>1. MayExpire(Oldest(i))
        BY <1>2, <2>3 DEF Room
      <3>2. Oldest(i) = PtrOf(m)
        <4>1. First + i - 1 = m
          BY <1>1, <2>1, <2>2
        <4> QED BY <2>2, <4>1, OldestAt
      <3> QED BY <3>1, <3>2, Constants DEF MayExpire
    <2>4. CASE i \notin 1 .. (IF num.n - c = MaxMsgs THEN c + 1 ELSE c)
      <3>1. num.n = MaxMsgs /\ i = c + 1 /\ c >= 1 /\ x = c + 1
        BY <1>1, <1>2, <1>5, <2>2, <2>4, Constants
      <3>2. f > First + 1 /\ m = f - 1
        BY <1>1, <1>12, <2>1, <2>2, <3>1
      <3> QED BY <1>12, <3>1, <3>2 DEF Overrun
    <2> QED BY <2>3, <2>4
  <1>15. ptr_read' = ptr_read
    BY Constants DEF WriteMessage, PulledUp
  <1> QED
    BY <1>2, <1>3, <1>9, <1>10, <1>11, <1>12, <1>13, <1>14, <1>15

LEMMA InitBase == Init => MRBase
  <1> SUFFICES ASSUME Init PROVE MRBase
    OBVIOUS
  <1>1. /\ num = [n |-> 0, p |-> PtrOf(Start)] /\ page = PageOf(Start) /\ written = Start
        /\ ptr_read = PtrOf(Start) /\ read_cnt = 0 /\ rd = [r \in Readers |-> Opened]
        /\ passed = [r \in Readers |-> Start] /\ emptied = FALSE /\ astray = FALSE /\ clears = 0
    BY DEF Init, HeaderInit, PtrOf, PageOf
  <1>2. /\ PtrOf(Start) \in 0 .. PtrRange - 1 /\ PageOf(Start) \in Nat
        /\ num \in NumPt /\ written \in Start .. Start + MaxWritten
    <2>1. PtrOf(Start) \in 0 .. PtrRange - 1 /\ Start \in Int
      BY Split, Constants
    <2>2. PageOf(Start) \in Nat
      BY Constants DEF PageOf
    <2> QED BY <1>1, <2>1, <2>2, Constants DEF NumPt
  <1>3. OpenPtr = PtrOf(Start) /\ CorrectedPage(OpenPtr, page) = PageOf(Start)
    <2>1. OpenPtr = PtrOf(Start)
      BY <1>1 DEF OpenPtr
    <2>2. PageOf(Start) - PageOf(Start) \in -2 .. 1 /\ PageOf(Start) \in Int /\ Start \in Int
      BY <1>2, Constants
    <2> QED BY <1>1, <2>1, <2>2, Corrected
  <1>4. Opened = [rpt |-> PtrOf(Start), rpage |-> PageOf(Start), rpt_incd |-> -1]
    BY <1>3 DEF Opened
  <1>5. Opened \in Rd
    BY <1>2, <1>4, Constants DEF Rd
  <1>6. TypeOK
    <2>1. HeaderTypeOK
      BY <1>1, <1>2 DEF HeaderTypeOK
    <2>2. rd \in [Readers -> Rd]
      BY <1>1, <1>5
    <2>3. passed \in [Readers -> Start .. Start + MaxWritten]
      BY <1>1, Constants
    <2>4. read_cnt = 0 /\ clears = 0 /\ emptied = FALSE /\ astray = FALSE
      BY <1>1
    <2>5. read_cnt \in 0 .. NReaders /\ clears \in 0 .. MaxClears
      BY ONLY <2>4, Constants
    <2>6. emptied \in BOOLEAN /\ astray \in BOOLEAN
      BY ONLY <2>4
    <2> QED BY <2>1, <2>2, <2>3, <2>5, <2>6 DEF TypeOK, Rd
  <1>7. HeaderRight
    BY <1>1, Constants DEF HeaderRight
  <1>8. \A r \in Readers : passed[r] <= written /\ ReaderAt(r, Start)
    BY <1>1, <1>4, Constants DEF ReaderAt
  <1> QED BY <1>6, <1>7, <1>8, Constants DEF MRBase

\* The variables of the readers keep their types.
LEMMA WriteBase ==
  ASSUME MRBase, NEW c \in 0 .. MaxMsgs, Write(c)
  PROVE  MRBase'
  <1>1. /\ TypeOK /\ HeaderRight /\ WriteMessage(c) /\ UNCHANGED <<read_cnt, rd, passed, emptied, clears>>
        /\ astray' \in BOOLEAN /\ written \in Int
    <2>1. astray' = (astray \/ written + 1 - ReadNumber >= 2 * MaxMsgs)
      BY DEF Write
    <2>2. astray' \in BOOLEAN
      BY <2>1
    <2> QED BY <2>2, Numbers DEF MRBase, Write
  <1>2. /\ written' = written + 1 /\ written' \in Start .. Start + MaxWritten
        /\ num' \in NumPt /\ HeaderRight' /\ page' \in Nat /\ ptr_read' = ptr_read
    BY <1>1, WrittenHeader
  <1>3. TypeOK'
    BY <1>1, <1>2 DEF TypeOK, HeaderTypeOK
  <1>4. \A r \in Readers : passed'[r] <= written' /\ \E n \in Int : ReaderAt(r, n)'
    <2> SUFFICES ASSUME NEW r \in Readers
                 PROVE  passed'[r] <= written' /\ \E n \in Int : ReaderAt(r, n)'
      OBVIOUS
    <2>1. passed[r] \in Int /\ passed[r] <= written /\ \E n \in Int : ReaderAt(r, n)
      BY <1>1, Constants DEF MRBase, TypeOK
    <2>2. passed'[r] <= written'
      BY <1>1, <1>2, <2>1
    <2>3. \E n \in Int : ReaderAt(r, n)'
      BY <1>1, <2>1 DEF ReaderAt
    <2> QED BY <2>2, <2>3
  <1> QED BY <1>2, <1>3, <1>4 DEF MRBase

\* LB_clear: the k oldest messages are no longer available.
LEMMA ClearBase ==
  ASSUME MRBase, NEW k \in 1 .. MaxMsgs, Clear(k)
  PROVE  MRBase' /\ First' = First + k /\ num'.n = num.n - k /\ First' <= written
  <1>1. /\ TypeOK /\ HeaderRight /\ ClearMessages(k) /\ UNCHANGED <<read_cnt, rd, passed, emptied, astray>>
        /\ clears < MaxClears /\ clears' = clears + 1 /\ UNCHANGED <<page, ptr_read, written>>
        /\ written \in Int /\ num.n \in 0 .. MaxMsgs /\ num = [n |-> num.n, p |-> num.p]
        /\ First = written - num.n /\ num.n <= written - Start /\ num \in NumPt /\ clears \in Nat
        /\ num.p = PtrOf(written) /\ page = PageOf(written)
    BY Numbers DEF MRBase, Clear, ClearMessages, HeaderRight, TypeOK, HeaderTypeOK
  <1>2. k \in 1 .. num.n /\ num' = UpdatedNum(num, 0, k)
    BY <1>1 DEF ClearMessages
  <1>3. num' = [n |-> num.n - k, p |-> num.p]
    BY <1>1, <1>2, Constants DEF UpdatedNum
  <1>4. num'.n = num.n - k /\ num'.p = num.p /\ num' \in NumPt
    BY <1>1, <1>2, <1>3, Constants DEF NumPt
  <1>5. First' = First + k /\ First' <= written
    <2>1. First' = written' - num'.n
      BY DEF First
    <2>2. First' = written - (num.n - k)
      BY <1>1, <1>4, <2>1
    <2> QED BY <1>1, <1>2, <2>2
  <1>6. HeaderRight'
    <2>1. num'.n <= written' - Start
      BY <1>1, <1>2, <1>4, Constants
    <2>2. num'.p = PtrOf(written') /\ page' = PageOf(written')
      BY <1>1, <1>4
    <2> QED BY <2>1, <2>2 DEF HeaderRight
  <1>7. TypeOK'
    <2>1. clears' \in 0 .. MaxClears
      BY <1>1, Constants
    <2> QED BY <1>1, <1>4, <2>1 DEF TypeOK, HeaderTypeOK
  <1>8. \A r \in Readers : passed'[r] <= written' /\ \E n \in Int : ReaderAt(r, n)'
    BY <1>1 DEF MRBase, ReaderAt
  <1> QED BY <1>4, <1>5, <1>6, <1>7, <1>8 DEF MRBase

\* What LB_read does with NReaders = 0 to the reader and to ptr_read.
LEMMA FollowsTo ==
  ASSUME TypeOK, NEW r \in Readers, NEW n \in Int, NEW at \in Int, FollowTo(r, n, at)
  PROVE  /\ rd' \in [Readers -> Rd] /\ \A q \in Readers \ {r} : rd'[q] = rd[q]
         /\ rd'[r].rpt = PtrOf(n + 1) /\ rd'[r].rpage = PageOf(n + 1)
         /\ ptr_read' \in 0 .. PtrRange - 1 /\ read_cnt' = read_cnt
  <1>1. rd \in [Readers -> Rd] /\ ptr_read \in 0 .. PtrRange - 1
    BY DEF TypeOK, HeaderTypeOK, Rd
  <1>2. /\ PtrOf(n + 1) \in 0 .. PtrRange - 1 /\ PageOf(n + 1) \in Int
        /\ PtrOf(at + 1) \in 0 .. PtrRange - 1
    <2>1. n + 1 \in Int /\ at + 1 \in Int
      OBVIOUS
    <2> QED BY <2>1, Split
  <1>3. /\ rd' = [rd EXCEPT ![r].rpt = PtrOf(n + 1), ![r].rpage = PageOf(n + 1)]
        /\ ptr_read' = IF PtrCompare(PtrOf(at), ptr_read) >= 0 THEN PtrOf(at + 1) ELSE ptr_read
        /\ read_cnt' = read_cnt
    BY DEF FollowTo
  <1>4. ptr_read' \in 0 .. PtrRange - 1
    BY <1>1, <1>2, <1>3
  <1>5. PICK pt \in 0 .. PtrRange - 1, pg \in Int : pt = PtrOf(n + 1) /\ pg = PageOf(n + 1)
    BY <1>2
  <1>6. rd \in [Readers -> [rpt : 0 .. PtrRange - 1, rpage : Int, rpt_incd : -1 .. PtrRange - 1]]
    BY <1>1 DEF Rd
  <1>7. rd' = [rd EXCEPT ![r].rpt = pt, ![r].rpage = pg]
    BY <1>3, <1>5
  <1>8. rd' \in [Readers -> [rpt : 0 .. PtrRange - 1, rpage : Int, rpt_incd : -1 .. PtrRange - 1]]
    BY ONLY <1>6, <1>7, r \in Readers
  <1>9. rd'[r].rpt = pt /\ rd'[r].rpage = pg /\ \A q \in Readers \ {r} : rd'[q] = rd[q]
    BY ONLY <1>6, <1>7, r \in Readers
  <1> QED BY <1>3, <1>4, <1>5, <1>8, <1>9 DEF Rd

\* The message that counts as read is a number.
LEMMA AtType ==
  ASSUME TypeOK, HeaderRight, NEW n \in Int, NEW v \in Verdicts
  PROVE  (IF v # "expired" THEN n ELSE IF num.n = 0 THEN written ELSE First - 1) \in Int
  BY Numbers

LEMMA ReadBase ==
  ASSUME MRBase, NEW r \in Readers, NEW n \in Int, NEW v \in Verdicts, ReadAbout(r, n, v)
  PROVE  MRBase'
  <1>1. /\ TypeOK /\ HeaderRight /\ written \in Int /\ First \in Start .. written
        /\ written \in Start .. Start + MaxWritten /\ UNCHANGED <<num, page, written, clears>>
        /\ rd \in [Readers -> Rd] /\ ptr_read \in 0 .. PtrRange - 1 /\ read_cnt \in 0 .. NReaders
        /\ passed \in [Readers -> Start .. Start + MaxWritten] /\ emptied \in BOOLEAN
    BY Numbers DEF MRBase, ReadAbout, TypeOK, HeaderTypeOK, Rd
  <1>2. /\ rd' \in [Readers -> Rd] /\ \A q \in Readers \ {r} : rd'[q] = rd[q]
        /\ \E k \in Int : rd'[r].rpt = PtrOf(k) /\ rd'[r].rpage = PageOf(k)
        /\ ptr_read' \in 0 .. PtrRange - 1 /\ read_cnt' \in 0 .. NReaders
    <2>1. CASE NReaders = 0 /\ v = "toCome"
      <3>1. UNCHANGED <<rd, ptr_read, read_cnt>>
        BY <2>1 DEF ReadAbout
      <3>2. \E k \in Int : rd[r].rpt = PtrOf(k) /\ rd[r].rpage = PageOf(k)
        BY DEF MRBase, ReaderAt
      <3> QED BY <1>1, <3>1, <3>2
    <2>2. CASE NReaders = 0 /\ v # "toCome"
      <3>1. PICK at \in Int : FollowTo(r, n, at)
        BY <1>1, <2>2, AtType DEF ReadAbout
      <3>2. n + 1 \in Int
        OBVIOUS
      <3> QED BY <1>1, <3>1, <3>2, FollowsTo
    <2>3. CASE NReaders # 0
      <3>1. PICK k \in Int : UpdateCommonPointer(r, PtrOf(k), PageOf(k))
        <4>1. n \in Int /\ n + 1 \in Int
          OBVIOUS
        <4> QED BY <2>3, <4>1 DEF ReadAbout
      <3>2. /\ rd' \in [Readers -> Rd] /\ \A q \in Readers \ {r} : rd'[q] = rd[q]
            /\ rd'[r].rpt = PtrOf(k) /\ rd'[r].rpage = PageOf(k)
            /\ ptr_read' \in 0 .. PtrRange - 1 /\ read_cnt' \in 0 .. NReaders
        BY <1>1, <3>1, CountsAt
      <3> QED BY <3>2
    <2> QED BY <2>1, <2>2, <2>3
  <1>3. /\ passed' \in [Readers -> Start .. Start + MaxWritten]
        /\ \A q \in Readers : passed'[q] <= written
    <2>1. \A q \in Readers : passed[q] <= written
      BY DEF MRBase
    <2>2. passed' = IF v = "ok" /\ n >= passed[r] THEN [passed EXCEPT ![r] = n + 1] ELSE passed
      BY DEF ReadAbout
    <2>3. CASE v = "ok" /\ n >= passed[r]
      <3>1. n \in First .. written - 1
        BY <2>3 DEF ReadAbout
      <3>2. n + 1 \in Start .. Start + MaxWritten /\ n + 1 <= written
        BY <1>1, <3>1, Constants
      <3> QED BY <1>1, <2>1, <2>2, <2>3, <3>2
    <2>4. CASE ~ (v = "ok" /\ n >= passed[r])
      BY <1>1, <2>1, <2>2, <2>4
    <2> QED BY <2>3, <2>4
  <1>4. emptied' \in BOOLEAN /\ astray' \in BOOLEAN
    <2>1. /\ emptied' = (emptied \/ (NReaders = 0 /\ v = "expired" /\ num.n = 0))
          /\ astray' = (astray \/ CountedEarly(r))
      BY DEF ReadAbout
    <2> QED BY ONLY <2>1
  <1>5. HeaderRight'
    BY <1>1 DEF HeaderRight
  <1>6. TypeOK'
    <2>1. HeaderTypeOK'
      BY <1>1, <1>2 DEF TypeOK, HeaderTypeOK
    <2> QED BY <1>1, <1>2, <1>3, <1>4, <2>1 DEF TypeOK, Rd
  <1>7. \A q \in Readers : \E k \in Int : ReaderAt(q, k)'
    <2> SUFFICES ASSUME NEW q \in Readers PROVE \E k \in Int : ReaderAt(q, k)'
      OBVIOUS
    <2>1. \E k \in Int : rd[q].rpt = PtrOf(k) /\ rd[q].rpage = PageOf(k)
      BY DEF MRBase, ReaderAt
    <2>2. \E k \in Int : rd'[q].rpt = PtrOf(k) /\ rd'[q].rpage = PageOf(k)
      BY <1>2, <2>1
    <2> QED BY <2>2 DEF ReaderAt
  <1> QED BY <1>1, <1>3, <1>5, <1>6, <1>7 DEF MRBase

\* A reader is moved to message n and nothing else changes but what it has read.
LEMMA MovedBase ==
  ASSUME MRBase, NEW r \in Readers, NEW n \in Int,
         UNCHANGED <<hdvars, read_cnt, emptied, clears>>, astray' \in BOOLEAN,
         rd' \in [Readers -> Rd], \A q \in Readers \ {r} : rd'[q] = rd[q],
         rd'[r].rpt = PtrOf(n), rd'[r].rpage = PageOf(n),
         passed' \in [Readers -> Start .. Start + MaxWritten],
         \A q \in Readers : passed'[q] <= written
  PROVE  MRBase'
  <1>1. TypeOK /\ HeaderRight /\ UNCHANGED <<num, page, ptr_read, written>>
    BY DEF MRBase, hdvars
  <1>2. TypeOK'
    <2>1. HeaderTypeOK'
      BY <1>1 DEF TypeOK, HeaderTypeOK
    <2> QED BY <1>1, <2>1 DEF TypeOK, Rd
  <1>3. HeaderRight'
    BY <1>1 DEF HeaderRight
  <1>4. \A q \in Readers : \E k \in Int : ReaderAt(q, k)'
    <2> SUFFICES ASSUME NEW q \in Readers PROVE \E k \in Int : ReaderAt(q, k)'
      OBVIOUS
    <2>1. \E k \in Int : rd[q].rpt = PtrOf(k) /\ rd[q].rpage = PageOf(k)
      BY DEF MRBase, ReaderAt
    <2>2. \E k \in Int : rd'[q].rpt = PtrOf(k) /\ rd'[q].rpage = PageOf(k)
      <3>1. CASE q = r
        BY <3>1
      <3>2. CASE q # r
        BY <2>1, <3>2
      <3> QED BY <3>1, <3>2
    <2> QED BY <2>2 DEF ReaderAt
  <1> QED BY <1>1, <1>2, <1>3, <1>4 DEF MRBase

LEMMA SeekBase ==
  ASSUME MRBase, NEW r \in Readers, SeekFirst(r)
  PROVE  MRBase'
  <1>1. /\ TypeOK /\ HeaderRight /\ UNCHANGED <<hdvars, read_cnt, passed, emptied, astray, clears>>
        /\ rd \in [Readers -> Rd] /\ astray' \in BOOLEAN
        /\ rd' = [rd EXCEPT ![r].rpt = SearchFirst(0).pt, ![r].rpage = SearchFirst(0).page]
        /\ passed \in [Readers -> Start .. Start + MaxWritten] /\ \A q \in Readers : passed[q] <= written
    BY DEF MRBase, SeekFirst, TypeOK, Rd
  <1>2. PICK n \in Int : SearchFirst(0).pt = PtrOf(n) /\ SearchFirst(0).page = PageOf(n)
    <2>1. SearchFirst(0) = LET m == IF num.n = 0 THEN written ELSE First + 0
                           IN  [pt |-> PtrOf(m), page |-> PageOf(m)]
      BY <1>1, SearchedFirst
    <2>2. (IF num.n = 0 THEN written ELSE First + 0) \in Int
      BY <1>1, Numbers
    <2> QED BY <2>1, <2>2
  <1>3. PICK pt \in 0 .. PtrRange - 1, pg \in Int : pt = PtrOf(n) /\ pg = PageOf(n)
    BY Split
  <1>4. rd \in [Readers -> [rpt : 0 .. PtrRange - 1, rpage : Int, rpt_incd : -1 .. PtrRange - 1]]
    BY <1>1 DEF Rd
  <1>5. rd' = [rd EXCEPT ![r].rpt = pt, ![r].rpage = pg]
    BY <1>1, <1>2, <1>3
  <1>6. rd' \in [Readers -> [rpt : 0 .. PtrRange - 1, rpage : Int, rpt_incd : -1 .. PtrRange - 1]]
    BY ONLY <1>4, <1>5, r \in Readers
  <1>7. rd'[r].rpt = pt /\ rd'[r].rpage = pg /\ \A q \in Readers \ {r} : rd'[q] = rd[q]
    BY ONLY <1>4, <1>5, r \in Readers
  <1>8. /\ UNCHANGED <<hdvars, read_cnt, emptied, clears>> /\ astray' \in BOOLEAN
        /\ rd' \in [Readers -> Rd]
        /\ rd'[r].rpt = PtrOf(n) /\ rd'[r].rpage = PageOf(n)
        /\ passed' \in [Readers -> Start .. Start + MaxWritten] /\ \A q \in Readers : passed'[q] <= written
    BY <1>1, <1>3, <1>6, <1>7 DEF Rd
  <1> QED BY <1>7, <1>8, MovedBase

\* Where LB_open leaves a reader.
LEMMA OpenedAt ==
  ASSUME MRBase
  PROVE  /\ Opened \in Rd /\ Opened.rpt_incd = -1
         /\ \E n \in Int : Opened.rpt = PtrOf(n) /\ Opened.rpage = PageOf(n)
         /\ NReaders > 0 => Opened.rpt = PtrOf(written) /\ Opened.rpage = PageOf(written)
  <1>1. /\ TypeOK /\ HeaderRight /\ num.p = PtrOf(written) /\ page = PageOf(written) /\ written \in Int
        /\ ptr_read \in 0 .. PtrRange - 1 /\ PageOf(written) \in Int /\ PtrOf(written) \in 0 .. PtrRange - 1
        /\ PtrRange \in Nat \ {0}
    BY Numbers, Split, Constants DEF MRBase
  <1>2. OpenPtr \in 0 .. PtrRange - 1 /\ (NReaders > 0 => OpenPtr = PtrOf(written))
    BY <1>1, Constants DEF OpenPtr
  <1>3. Opened.rpt = OpenPtr /\ Opened.rpage = CorrectedPage(OpenPtr, page) /\ Opened.rpt_incd = -1
        /\ Opened = [rpt |-> OpenPtr, rpage |-> CorrectedPage(OpenPtr, page), rpt_incd |-> -1]
    BY DEF Opened
  <1>4. PICK n \in Int : OpenPtr = PtrOf(n) /\ CorrectedPage(OpenPtr, page) = PageOf(n)
    BY <1>1, <1>2, SomeMessage
  <1>5. PageOf(n) \in Int
    BY Split
  <1>6. Opened \in Rd
    BY <1>1, <1>2, <1>3, <1>4, <1>5 DEF Rd
  <1>7. ASSUME NReaders > 0 PROVE CorrectedPage(OpenPtr, page) = PageOf(written)
    <2>1. PageOf(written) - PageOf(written) \in -2 .. 1
      BY <1>1
    <2> QED BY <1>1, <1>2, <1>7, <2>1, Corrected
  <1> QED BY <1>2, <1>3, <1>4, <1>6, <1>7

LEMMA RestartBase ==
  ASSUME MRBase, NEW r \in Readers, Restart(r)
  PROVE  MRBase'
  <1>1. /\ UNCHANGED <<hdvars, read_cnt, emptied, clears>> /\ rd' = [rd EXCEPT ![r] = Opened]
        /\ rd \in [Readers -> Rd] /\ written \in Start .. Start + MaxWritten
        /\ passed' = IF NReaders > 0 THEN [passed EXCEPT ![r] = written] ELSE passed
        /\ passed \in [Readers -> Start .. Start + MaxWritten] /\ \A q \in Readers : passed[q] <= written
    BY DEF MRBase, Restart, TypeOK, HeaderTypeOK, Rd
  <1>2. PICK n \in Int : Opened.rpt = PtrOf(n) /\ Opened.rpage = PageOf(n) /\ Opened \in Rd
    BY OpenedAt
  <1>3. /\ rd' \in [Readers -> Rd] /\ rd'[r] = Opened /\ \A q \in Readers \ {r} : rd'[q] = rd[q]
    BY <1>1, <1>2
  <1>4. /\ passed' \in [Readers -> Start .. Start + MaxWritten]
        /\ \A q \in Readers : passed'[q] <= written
    BY <1>1, Constants
  <1>5. rd'[r].rpt = PtrOf(n) /\ rd'[r].rpage = PageOf(n)
    BY <1>2, <1>3
  <1>6. astray' \in BOOLEAN
    <2>1. astray' = (astray \/ rd[r].rpt_incd = ptr_read)
      BY DEF Restart
    <2> QED BY ONLY <2>1
  <1> QED BY <1>1, <1>3, <1>4, <1>5, <1>6, MovedBase

LEMMA BaseStep == MRBase /\ [Next]_vars => MRBase'
  <1> SUFFICES ASSUME MRBase, [Next]_vars PROVE MRBase'
    OBVIOUS
  <1>1. CASE \E c \in 0 .. MaxMsgs : Write(c)
    BY <1>1, WriteBase
  <1>2. CASE \E k \in 1 .. MaxMsgs : Clear(k)
    BY <1>2, ClearBase
  <1>3. CASE \E r \in Readers : \E id \in Ids : Read(r, id)
    <2>1. PICK r \in Readers, id \in Ids : Read(r, id)
      BY <1>3
    <2>2. PICK n \in Int, v \in Verdicts : ReadAbout(r, n, v)
      BY <2>1, ReadIsAbout
    <2> QED BY <2>2, ReadBase
  <1>4. CASE \E r \in Readers : SeekFirst(r)
    BY <1>4, SeekBase
  <1>5. CASE \E r \in Readers : Restart(r)
    BY <1>5, RestartBase
  <1>6. CASE UNCHANGED vars
    <2>1. UNCHANGED <<num, page, ptr_read, written, read_cnt, rd, passed, emptied, astray, clears>>
      BY <1>6 DEF vars
    <2>2. TypeOK' /\ HeaderRight'
      BY <2>1 DEF MRBase, TypeOK, HeaderTypeOK, HeaderRight
    <2>3. \A r \in Readers : passed'[r] <= written' /\ \E n \in Int : ReaderAt(r, n)'
      BY <2>1 DEF MRBase, ReaderAt
    <2> QED BY <2>2, <2>3 DEF MRBase
  <1> QED BY <1>1, <1>2, <1>3, <1>4, <1>5, <1>6 DEF Next

LEMMA BaseCorrect == Spec => []MRBase
  BY InitBase, BaseStep, PTL DEF Spec

\* TypeOK for every size of the buffer and any use of it: LB_clear, seeks and
\* readers that come and go included.
THEOREM MustReadTypeCorrect == Spec => []TypeOK
  <1>1. MRBase => TypeOK
    BY DEF MRBase
  <1> QED BY <1>1, BaseCorrect, PTL

--------------------------------------------------------------------------------
(* Where the messages lie to ptr_read *)

\* ptr_read is that of message P, close enough to the next message.
NearRead(P) ==
  /\ ptr_read = PtrOf(P) /\ written - P < 2 * MaxMsgs
  /\ P <= written \/ (P = written + 1 /\ First = written)

\* LB_Ptr_compare tells how the messages from the oldest available one to the
\* next and ptr_read lie.
LEMMA ReadSide ==
  ASSUME MRBase, NEW P \in Int, NearRead(P), NEW m \in First .. written
  PROVE  PtrCompare(PtrOf(m), ptr_read) = IF m = P THEN 0 ELSE IF m > P THEN 1 ELSE -1
  <1>1. /\ written \in Int /\ First \in Int /\ First <= written /\ First >= written - MaxMsgs
        /\ MaxMsgs \in Nat \ {0}
    BY Numbers, Constants DEF MRBase
  <1>2. m \in Int /\ m - P < 2 * MaxMsgs /\ P - m < 2 * MaxMsgs
    BY <1>1 DEF NearRead
  <1>3. ptr_read = PtrOf(P)
    BY DEF NearRead
  <1> QED BY <1>2, <1>3, CompareRight

\* The history takes ptr_read for the message it is of.
LEMMA ReadIs ==
  ASSUME MRBase, NEW P \in Int, NearRead(P)
  PROVE  ReadNumber = P
  <1> DEFINE d == written - P
             p == PtrOf(P)
             q == PtrOf(written)
             ahead == (p - q + PtrRange) % PtrRange
  <1>1. /\ MaxMsgs \in Nat \ {0} /\ PtrRange \in Nat \ {0} /\ PtrRange > 4 * MaxMsgs
        /\ written \in Int /\ num.p = q /\ ptr_read = p
        /\ PtrRange \div 2 \in Nat /\ 2 * (PtrRange \div 2) = PtrRange
    BY Constants, Numbers DEF MRBase, NearRead
  <1>2. /\ p \in 0 .. PtrRange - 1 /\ q \in 0 .. PtrRange - 1
        /\ d \in -1 .. 2 * MaxMsgs - 1 /\ P = written - d
    <2>1. p \in 0 .. PtrRange - 1 /\ q \in 0 .. PtrRange - 1
      BY <1>1, Split
    <2>2. d \in -1 .. 2 * MaxMsgs - 1 /\ P = written - d
      BY <1>1 DEF NearRead
    <2> QED BY <2>1, <2>2
  <1>3. ahead = IF d = -1 THEN 1 ELSE IF d = 0 THEN 0 ELSE PtrRange - d
    <2>1. CASE d = -1
      <3>1. p = IF q + 1 < PtrRange THEN q + 1 ELSE q + 1 - PtrRange
        <4>1. P = written + 1 /\ 1 \in 0 .. PtrRange - 1
          BY <1>1, <1>2, <2>1
        <4> QED BY <1>1, <4>1, Ahead
      <3> DEFINE x == p - q + PtrRange
      <3> HIDE DEF p, q, d
      <3>2. x \in 0 .. 2 * PtrRange - 1 /\ (x = PtrRange + 1 \/ x = 1) /\ PtrRange > 1
        BY <1>1, <1>2, <3>1
      <3> HIDE DEF x
      <3>3. x % PtrRange = IF x < PtrRange THEN x ELSE x - PtrRange
        BY <1>1, <3>2, ModSmall
      <3>4. x % PtrRange = 1
        BY <1>1, <3>2, <3>3
      <3> QED BY <2>1, <3>4 DEF x
    <2>2. CASE d # -1
      <3>1. q = IF p + d < PtrRange THEN p + d ELSE p + d - PtrRange
        <4>1. P + d = written /\ d \in 0 .. PtrRange - 1
          BY <1>1, <1>2, <2>2
        <4> HIDE DEF d
        <4> QED BY <4>1, Ahead
      <3> DEFINE x == p - q + PtrRange
      <3> HIDE DEF p, q, d
      <3>2. x \in 0 .. 2 * PtrRange - 1 /\ (x = PtrRange - d \/ x = 2 * PtrRange - d) /\ d \in 0 .. PtrRange - 1
        BY <1>1, <1>2, <2>2, <3>1
      <3> HIDE DEF x
      <3>3. x % PtrRange = IF x < PtrRange THEN x ELSE x - PtrRange
        BY <1>1, <3>2, ModSmall
      <3>4. x % PtrRange = IF d = 0 THEN 0 ELSE PtrRange - d
        BY <1>1, <3>2, <3>3
      <3> QED BY <2>2, <3>4 DEF x
    <2> QED BY <2>1, <2>2
  <1>4. ReadNumber = IF ahead < PtrRange \div 2 THEN written + ahead ELSE written + ahead - PtrRange
    BY <1>1 DEF ReadNumber
  <1> HIDE DEF ahead, p, q, d
  <1> QED BY <1>1, <1>2, <1>3, <1>4

\* The messages a write pushes out are before ptr_read, or the one it did not
\* look at.
LEMMA PushedOut ==
  ASSUME MRBase, NEW P \in Int, NearRead(P), NEW c \in 0 .. MaxMsgs, Write(c)
  PROVE  /\ First' \in First .. written + 1
         /\ \A m \in First .. First' - 1 : m < P \/ Overrun(m)
  <1>1. /\ First \in Int /\ written \in Int /\ First' \in First .. written + 1
        /\ \A m \in First .. First' - 1 : PtrCompare(PtrOf(m), ptr_read) < 0 \/ Overrun(m)
    BY WrittenHeader, Numbers DEF Write, MRBase
  <1>2. PICK f \in First .. written + 1 : f = First'
    BY <1>1
  <1>3. ASSUME NEW m \in First .. f - 1 PROVE m < P \/ Overrun(m)
    <2>1. m \in First .. written
      <3>1. First \in Int /\ written \in Int
        BY <1>1
      <3>2. f \in First .. written + 1 /\ m \in First .. f - 1
        OBVIOUS
      <3> QED BY ONLY <3>1, <3>2
    <2>2. PtrCompare(PtrOf(m), ptr_read) = IF m = P THEN 0 ELSE IF m > P THEN 1 ELSE -1
      BY <2>1, ReadSide
    <2>3. PtrCompare(PtrOf(m), ptr_read) < 0 \/ Overrun(m)
      BY ONLY <1>1, <1>2, m \in First .. f - 1
    <2> QED BY <1>1, <2>1, <2>2, <2>3
  <1> QED BY <1>1, <1>2, <1>3

\* As long as ptr_read has not gone astray, LB_write leaves it near.
LEMMA WriteNear ==
  ASSUME MRBase, NEW P \in Int, NearRead(P), NEW c \in 0 .. MaxMsgs, Write(c), ~astray'
  PROVE  ~astray /\ written' - P < 2 * MaxMsgs
  <1>1. astray' = (astray \/ written + 1 - ReadNumber >= 2 * MaxMsgs)
    BY DEF Write
  <1>2. ~astray /\ ~ (written + 1 - ReadNumber >= 2 * MaxMsgs)
    BY <1>1
  <1>3. ReadNumber = P /\ written' = written + 1 /\ written \in Int /\ MaxMsgs \in Int
    BY ReadIs, Numbers, Constants DEF MRBase, Write, WriteMessage
  <1> QED BY <1>2, <1>3

\* Only LB_write adds a message.
LEMMA OnlyWrite ==
  ASSUME MRBase, Next, written' > written
  PROVE  \E c \in 0 .. MaxMsgs : Write(c)
  <1>1. written \in Int
    BY Numbers DEF MRBase
  <1>2. ~ UNCHANGED written
    BY <1>1
  <1>3. \A k \in 1 .. MaxMsgs : ~ Clear(k)
    BY <1>2 DEF Clear, ClearMessages
  <1>4. \A r \in Readers : ~ SeekFirst(r) /\ ~ Restart(r) /\ \A id \in Ids : ~ Read(r, id)
    BY <1>2 DEF SeekFirst, Restart, Read, hdvars
  <1> QED BY <1>3, <1>4 DEF Next

\* Nothing brings ptr_read back.
LEMMA StaysAstray ==
  ASSUME [Next]_vars, ~astray'
  PROVE  ~astray
  <1>1. CASE \E c \in 0 .. MaxMsgs : Write(c)
    <2>1. PICK b : astray' = (astray \/ b)
      BY <1>1 DEF Write
    <2> QED BY <2>1
  <1>2. CASE \E k \in 1 .. MaxMsgs : Clear(k)
    BY <1>2 DEF Clear
  <1>3. CASE \E r \in Readers : \E id \in Ids : Read(r, id)
    <2>1. PICK r \in Readers : astray' = (astray \/ CountedEarly(r))
      BY <1>3 DEF Read
    <2> QED BY <2>1
  <1>4. CASE \E r \in Readers : SeekFirst(r)
    BY <1>4 DEF SeekFirst
  <1>5. CASE \E r \in Readers : Restart(r)
    <2>1. PICK r \in Readers : astray' = (astray \/ rd[r].rpt_incd = ptr_read)
      BY <1>5 DEF Restart
    <2> QED BY <2>1
  <1>6. CASE UNCHANGED vars
    BY <1>6 DEF vars
  <1> QED BY <1>1, <1>2, <1>3, <1>4, <1>5, <1>6 DEF Next

--------------------------------------------------------------------------------
(* NReaders = 0: the messages after the furthest one read are kept *)

(***************************************************************************)
(* ptr_read is that of message P. It may lag behind the oldest available    *)
(* message, and may be one ahead of the next message once a reader found    *)
(* the LB empty. No reader has read P; of the messages before P that are    *)
(* available, each or a later one was read.                                 *)
(***************************************************************************)
Furthest(P) ==
  /\ ptr_read = PtrOf(P) /\ P <= written + 1 /\ (P = written + 1 => num.n = 0)
  /\ written - P < 2 * MaxMsgs
  /\ MaxMsgs > 1 => \A r \in Readers : passed[r] <= P
  /\ ~emptied => P <= written /\ \A m \in First .. P - 1 : \E r \in Readers : passed[r] > m

FurthestInv == MRBase /\ (~astray => \E P \in Int : Furthest(P))

\* The numbers of Furthest.
LEMMA Bounds ==
  ASSUME MRBase, NEW P \in Int, Furthest(P)
  PROVE  /\ written \in Int /\ First \in Int /\ First <= written /\ First >= written - MaxMsgs
         /\ num.n = written - First /\ MaxMsgs \in Nat \ {0}
         /\ P <= written + 1 /\ (P = written + 1 => First = written)
         /\ written - P < 2 * MaxMsgs
         /\ ptr_read = PtrOf(P) /\ TypeOK /\ HeaderRight
  <1>1. /\ written \in Nat /\ First \in Start .. written /\ First = written - num.n
        /\ First >= written - MaxMsgs /\ num.n \in 0 .. MaxMsgs /\ First \in Nat /\ TypeOK /\ HeaderRight
    BY Numbers DEF MRBase
  <1>2. /\ ptr_read = PtrOf(P) /\ P <= written + 1 /\ (P = written + 1 => num.n = 0)
        /\ written - P < 2 * MaxMsgs
    BY DEF Furthest
  <1> QED BY <1>1, <1>2, Constants

LEMMA FurthestNear ==
  ASSUME MRBase, NEW P \in Int, Furthest(P)
  PROVE  NearRead(P)
  BY Bounds DEF NearRead

LEMMA InitFurthest == Init => FurthestInv
  <1> SUFFICES ASSUME Init PROVE FurthestInv
    OBVIOUS
  <1>1. /\ num = [n |-> 0, p |-> PtrOf(Start)] /\ written = Start /\ ptr_read = PtrOf(Start)
        /\ passed = [r \in Readers |-> Start]
    BY DEF Init, HeaderInit, PtrOf
  <1>2. First = Start /\ num.n = 0
    BY <1>1, Constants DEF First
  <1>3. Furthest(Start)
    BY <1>1, <1>2, Constants DEF Furthest
  <1> QED BY <1>3, InitBase, Constants DEF FurthestInv

LEMMA WriteFurthest ==
  ASSUME MRBase, NEW P \in Int, Furthest(P), NEW c \in 0 .. MaxMsgs, Write(c), ~astray'
  PROVE  Furthest(P)'
  <1>1. /\ written \in Int /\ First \in Int /\ First <= written /\ MaxMsgs \in Nat \ {0}
        /\ P <= written + 1 /\ ptr_read = PtrOf(P) /\ TypeOK /\ HeaderRight
    BY Bounds
  <1>2. /\ written' = written + 1 /\ First' \in First .. written + 1 /\ ptr_read' = ptr_read
        /\ UNCHANGED <<passed, emptied>>
    BY <1>1, WrittenHeader DEF Write
  <1>3. PICK f \in First .. written + 1 : f = First'
    BY <1>2
  <1>4. written' - P < 2 * MaxMsgs
    BY WriteNear, FurthestNear
  <1>5. P <= written' /\ P # written' + 1 /\ P <= written' + 1
    BY <1>1, <1>2
  <1>6. MaxMsgs > 1 => \A r \in Readers : passed[r] <= P
    BY DEF Furthest
  <1>7. ~emptied => \A m \in f .. P - 1 : \E r \in Readers : passed[r] > m
    <2>1. ~emptied => \A m \in First .. P - 1 : \E r \in Readers : passed[r] > m
      BY DEF Furthest
    <2> QED BY <1>1, <1>3, <2>1
  <1> QED BY <1>1, <1>2, <1>3, <1>4, <1>5, <1>6, <1>7 DEF Furthest

LEMMA ClearFurthest ==
  ASSUME MRBase, NEW P \in Int, Furthest(P), NEW k \in 1 .. MaxMsgs, Clear(k)
  PROVE  Furthest(P)'
  <1>1. /\ written \in Int /\ First \in Int /\ First <= written /\ num.n = written - First
        /\ MaxMsgs \in Nat \ {0} /\ P <= written + 1 /\ (P = written + 1 => First = written)
        /\ written - P < 2 * MaxMsgs /\ ptr_read = PtrOf(P)
    BY Bounds
  <1>2. /\ First' = First + k /\ k \in 1 .. num.n
        /\ UNCHANGED <<page, ptr_read, written, passed, emptied>>
    BY ClearBase DEF Clear, ClearMessages
  <1>3. P <= written
    BY <1>1, <1>2
  <1>4. MaxMsgs > 1 => \A r \in Readers : passed[r] <= P
    BY DEF Furthest
  <1>5. ~emptied => \A m \in First' .. P - 1 : \E r \in Readers : passed[r] > m
    <2>1. ~emptied => \A m \in First .. P - 1 : \E r \in Readers : passed[r] > m
      BY DEF Furthest
    <2>2. PICK f \in Int : f = First' /\ f >= First
      BY <1>1, <1>2
    <2> QED BY <1>1, <2>1, <2>2
  <1>6. P # written' + 1 /\ P <= written' /\ P <= written' + 1 /\ written' - P < 2 * MaxMsgs
    BY <1>1, <1>2, <1>3
  <1> QED BY <1>1, <1>2, <1>4, <1>5, <1>6 DEF Furthest

\* LB_read of an available message moves ptr_read behind it, or leaves it.
LEMMA OkFurthest ==
  ASSUME NReaders = 0, MRBase, NEW P \in Int, Furthest(P), NEW r \in Readers, NEW n \in Int,
         ReadAbout(r, n, "ok")
  PROVE  Furthest(IF n < P THEN P ELSE n + 1)'
  <1>1. /\ written \in Int /\ First \in Int /\ First <= written /\ num.n = written - First
        /\ MaxMsgs \in Nat \ {0} /\ P <= written + 1 /\ (P = written + 1 => First = written)
        /\ written - P < 2 * MaxMsgs /\ ptr_read = PtrOf(P)
        /\ passed \in [Readers -> Start .. Start + MaxWritten] /\ Start \in Nat /\ MaxWritten \in Nat
    BY Bounds, Constants DEF TypeOK
  <1>2. /\ n \in First .. written - 1 /\ FollowTo(r, n, n) /\ UNCHANGED <<num, written, emptied>>
        /\ passed' = IF n >= passed[r] THEN [passed EXCEPT ![r] = n + 1] ELSE passed
    BY <1>1 DEF ReadAbout, MRBase, TypeOK
  <1> DEFINE Q == IF n < P THEN P ELSE n + 1
  <1>3. ptr_read' = PtrOf(Q)
    <2>1. PtrCompare(PtrOf(n), ptr_read) = IF n = P THEN 0 ELSE IF n > P THEN 1 ELSE -1
      <3>1. n \in First .. written
        BY <1>1, <1>2
      <3> QED BY <3>1, ReadSide, FurthestNear
    <2>2. ptr_read' = IF PtrCompare(PtrOf(n), ptr_read) >= 0 THEN PtrOf(n + 1) ELSE ptr_read
      BY <1>2 DEF FollowTo
    <2>3. CASE n < P
      BY <1>1, <2>1, <2>2, <2>3
    <2>4. CASE ~ (n < P)
      <3>1. PtrCompare(PtrOf(n), ptr_read) >= 0
        BY <2>1, <2>4
      <3> QED BY <2>2, <2>4, <3>1
    <2> QED BY <2>3, <2>4
  <1>4. First' = First
    BY <1>2 DEF First
  <1>5. /\ Q \in Int /\ Q <= written /\ P <= Q /\ n < Q /\ First <= Q
    BY <1>1, <1>2
  <1>6. MaxMsgs > 1 => \A q \in Readers : passed'[q] <= Q
    <2> SUFFICES ASSUME MaxMsgs > 1, NEW q \in Readers PROVE passed'[q] <= Q
      OBVIOUS
    <2>1. passed[q] <= P /\ passed[q] \in Int
      BY <1>1 DEF Furthest
    <2>2. passed'[q] = passed[q] \/ passed'[q] = n + 1
      BY <1>1, <1>2
    <2> HIDE DEF Q
    <2> QED BY <1>1, <1>2, <1>5, <2>1, <2>2
  <1>7. ~emptied => \A m \in First .. Q - 1 : \E q \in Readers : passed'[q] > m
    <2> SUFFICES ASSUME ~emptied, NEW m \in First .. Q - 1 PROVE \E q \in Readers : passed'[q] > m
      OBVIOUS
    <2>1. passed'[r] > n /\ passed'[r] \in Int /\ \A q \in Readers : passed'[q] >= passed[q]
      <3>1. \A q \in Readers : passed[q] \in Int
        BY <1>1
      <3> QED BY <1>1, <1>2, <3>1
    <2>2. CASE m <= n
      BY <1>1, <1>2, <2>1, <2>2
    <2>3. CASE n < m
      <3>1. m \in First .. P - 1
        BY <1>1, <1>2, <2>3
      <3>2. PICK q \in Readers : passed[q] > m
        BY <3>1 DEF Furthest
      <3>3. passed'[q] >= passed[q] /\ passed[q] \in Int /\ passed'[q] \in Int
        <4>1. passed'[q] = passed[q] \/ passed'[q] = n + 1
          BY <1>1, <1>2
        <4> QED BY <1>1, <1>2, <2>1, <4>1
      <3> QED BY <1>1, <3>2, <3>3
    <2>4. m \in Int
      BY <1>1
    <2> QED BY <1>2, <2>2, <2>3, <2>4
  <1> HIDE DEF Q
  <1>8. Q # written + 1 /\ Q <= written + 1 /\ written - Q < 2 * MaxMsgs
    BY <1>1, <1>5
  <1>9. Furthest(Q)'
    BY <1>2, <1>3, <1>4, <1>5, <1>6, <1>7, <1>8 DEF Furthest
  <1> QED BY <1>9 DEF Q

\* LB_read of a message that expired: the one before the oldest counts as read.
LEMMA ExpiredFurthest ==
  ASSUME NReaders = 0, MRBase, NEW P \in Int, Furthest(P), NEW r \in Readers, NEW n \in Int,
         ReadAbout(r, n, "expired")
  PROVE  \E Q \in Int : Furthest(Q)'
  <1>1. /\ written \in Int /\ First \in Int /\ First <= written /\ First >= written - MaxMsgs
        /\ num.n = written - First
        /\ MaxMsgs \in Nat \ {0} /\ P <= written + 1 /\ (P = written + 1 => First = written)
        /\ written - P < 2 * MaxMsgs /\ ptr_read = PtrOf(P)
        /\ \A q \in Readers : passed[q] \in Int /\ passed[q] <= written
    BY Bounds, Constants DEF MRBase, TypeOK
  <1> DEFINE at == IF num.n = 0 THEN written ELSE First - 1
  <1>2. /\ FollowTo(r, n, at) /\ UNCHANGED <<num, written, passed>>
        /\ emptied' = (emptied \/ num.n = 0)
    BY <1>1 DEF ReadAbout
  <1>9. ~emptied' => ~emptied /\ num.n # 0
    BY <1>2
  <1>3. at \in Int /\ ptr_read' = IF PtrCompare(PtrOf(at), ptr_read) >= 0 THEN PtrOf(at + 1) ELSE ptr_read
    BY <1>1, <1>2 DEF FollowTo
  <1>4. First' = First
    BY <1>2 DEF First
  <1>5. /\ MaxMsgs > 1 => \A q \in Readers : passed[q] <= P
        /\ ~emptied => P <= written /\ \A m \in First .. P - 1 : \E q \in Readers : passed[q] > m
    BY DEF Furthest
  <1>6. CASE PtrCompare(PtrOf(at), ptr_read) < 0
    <2>1. ptr_read' = PtrOf(P)
      <3>1. ~ (PtrCompare(PtrOf(at), ptr_read) >= 0)
        <4>1. PtrCompare(PtrOf(at), ptr_read) \in {-1, 0, 1}
          BY DEF PtrCompare
        <4> QED BY <1>6, <4>1
      <3> QED BY <1>1, <1>3, <3>1
    <2>3. Furthest(P)'
      BY <1>1, <1>2, <1>4, <1>5, <1>9, <2>1 DEF Furthest
    <2> QED BY <2>3
  <1>7. CASE PtrCompare(PtrOf(at), ptr_read) >= 0
    <2>1. ptr_read' = PtrOf(at + 1)
      BY <1>3, <1>7
    <2>2. MaxMsgs > 1 => P <= at + 1
      <3> SUFFICES ASSUME MaxMsgs > 1, at < P PROVE FALSE
        BY <1>1, <1>3
      <3>1. at - P < 2 * MaxMsgs /\ P - at < 2 * MaxMsgs
        BY <1>1
      <3> HIDE DEF at
      <3>2. PtrCompare(PtrOf(at), PtrOf(P)) = IF at = P THEN 0 ELSE IF at > P THEN 1 ELSE -1
        BY <1>3, <3>1, CompareRight
      <3> QED BY <1>1, <1>3, <1>7, <3>2
    <2>3. at + 1 \in Int /\ at + 1 <= written + 1 /\ First <= at + 1
          /\ (at + 1 = written + 1 => num.n = 0) /\ written - (at + 1) < 2 * MaxMsgs
      BY <1>1
    <2>4. MaxMsgs > 1 => \A q \in Readers : passed[q] <= at + 1
      <3> HIDE DEF at
      <3> QED BY <1>1, <1>3, <1>5, <2>2, <2>3
    <2>5. ~emptied' => at + 1 <= written /\ \A m \in First .. (at + 1) - 1 : \E q \in Readers : passed[q] > m
      <3> SUFFICES ASSUME ~emptied'
                   PROVE  at + 1 <= written /\ \A m \in First .. (at + 1) - 1 : FALSE
        OBVIOUS
      <3>1. num.n # 0
        BY <1>9
      <3> QED BY <1>1, <3>1
    <2> HIDE DEF at
    <2>6. PICK Q \in Int : Q = at + 1
      BY <2>3
    <2>7. Furthest(Q)'
      BY <1>2, <1>4, <2>1, <2>3, <2>4, <2>5, <2>6 DEF Furthest
    <2> QED BY <2>7
  <1>8. PtrCompare(PtrOf(at), ptr_read) \in {-1, 0, 1}
    BY DEF PtrCompare
  <1> QED BY <1>6, <1>7, <1>8

LEMMA ReadFurthest ==
  ASSUME NReaders = 0, MRBase, NEW P \in Int, Furthest(P), NEW r \in Readers, NEW id \in Ids,
         Read(r, id)
  PROVE  \E Q \in Int : Furthest(Q)'
  <1>1. PICK n \in Int, v \in Verdicts : ReadAbout(r, n, v)
    BY ReadIsAbout
  <1>2. CASE v = "ok"
    <2>1. Furthest(IF n < P THEN P ELSE n + 1)'
      BY <1>1, <1>2, OkFurthest
    <2>2. PICK Q \in Int : Q = IF n < P THEN P ELSE n + 1
      OBVIOUS
    <2> QED BY <2>1, <2>2
  <1>3. CASE v = "expired"
    BY <1>1, <1>3, ExpiredFurthest
  <1>4. CASE v = "toCome"
    <2>1. UNCHANGED <<num, written, ptr_read, passed, emptied>>
      <3>1. UNCHANGED <<num, written, ptr_read, passed>>
        BY <1>1, <1>4 DEF ReadAbout
      <3>2. emptied' = (emptied \/ FALSE) /\ emptied \in BOOLEAN
        BY <1>1, <1>4 DEF ReadAbout, MRBase, TypeOK
      <3>3. emptied' = emptied
        BY <3>2
      <3> QED BY <3>1, <3>3
    <2>2. Furthest(P)'
      BY <2>1 DEF Furthest, First
    <2> QED BY <2>2
  <1>5. v = "ok" \/ v = "expired" \/ v = "toCome"
    BY DEF Verdicts
  <1> QED BY <1>2, <1>3, <1>4, <1>5

LEMMA FurthestStep ==
  ASSUME NReaders = 0
  PROVE  FurthestInv /\ [Next]_vars => FurthestInv'
  <1> SUFFICES ASSUME FurthestInv, [Next]_vars, ~astray' PROVE \E Q \in Int : Furthest(Q)'
    BY BaseStep DEF FurthestInv
  <1>1. MRBase
    BY DEF FurthestInv
  <1>2. ~astray
    BY StaysAstray
  <1>3. PICK P \in Int : Furthest(P)
    BY <1>2 DEF FurthestInv
  <1>4. CASE \E c \in 0 .. MaxMsgs : Write(c)
    BY <1>1, <1>3, <1>4, WriteFurthest
  <1>5. CASE \E k \in 1 .. MaxMsgs : Clear(k)
    BY <1>1, <1>3, <1>5, ClearFurthest
  <1>6. CASE \E r \in Readers : \E id \in Ids : Read(r, id)
    BY <1>1, <1>3, <1>6, ReadFurthest
  <1>7. CASE (\E r \in Readers : SeekFirst(r) \/ Restart(r)) \/ UNCHANGED vars
    <2>1. UNCHANGED <<num, written, ptr_read, passed, emptied>>
      <3>1. CASE UNCHANGED vars
        BY <3>1 DEF vars
      <3>2. CASE \E r \in Readers : SeekFirst(r)
        BY <3>2 DEF SeekFirst, hdvars
      <3>3. CASE \E r \in Readers : Restart(r)
        <4>1. ~ (NReaders > 0)
          OBVIOUS
        <4> QED BY <3>3, <4>1 DEF Restart, hdvars
      <3> QED BY <1>7, <3>1, <3>2, <3>3
    <2>2. Furthest(P)'
      BY <1>3, <2>1 DEF Furthest, First
    <2> QED BY <2>2
  <1> QED BY <1>4, <1>5, <1>6, <1>7 DEF Next

LEMMA FurthestCorrect ==
  ASSUME NReaders = 0
  PROVE  Spec => []FurthestInv
  BY InitFurthest, FurthestStep, PTL DEF Spec

(***************************************************************************)
(* UnreadLostByOverrun for every size of the buffer, any number of readers  *)
(* and any use of it: of what LB_write pushes out, each message or a later  *)
(* one was read, but for the one message a full LB does not look at.        *)
(***************************************************************************)
THEOREM FurthestLostByOverrun ==
  ASSUME NReaders = 0
  PROVE  Spec => UnreadLostByOverrun
  <1>1. FurthestInv /\ [Next]_vars => [~emptied /\ ~astray => LosesByOverrun]_vars
    <2> SUFFICES ASSUME FurthestInv, Next, ~emptied, ~astray, written' > written,
                        NEW m \in First .. First' - 1
                 PROVE  Released(m) \/ Overrun(m)
      BY DEF LosesByOverrun
    <2>1. PICK P \in Int : Furthest(P)
      BY DEF FurthestInv
    <2>2. MRBase
      BY DEF FurthestInv
    <2>3. PICK c \in 0 .. MaxMsgs : Write(c)
      BY <2>2, OnlyWrite
    <2>4. First' \in First .. written + 1 /\ (m < P \/ Overrun(m))
      BY <2>1, <2>2, <2>3, PushedOut, FurthestNear
    <2>5. CASE Overrun(m)
      BY <2>5
    <2>6. CASE m < P
      <3>1. m \in First .. P - 1
        <4>1. First \in Int /\ First' \in Int
          BY <2>1, <2>2, <2>4, Bounds
        <4>2. m \in First .. First' - 1
          OBVIOUS
        <4> QED BY <2>6, <4>1, <4>2
      <3>2. PICK r \in Readers : passed[r] > m
        BY <2>1, <3>1 DEF Furthest
      <3> DEFINE R == {q \in Readers : passed[q] > m}
      <3>3. IsFiniteSet(R)
        BY Constants, FS_Subset
      <3>4. r \in R
        BY <3>2
      <3> HIDE DEF R
      <3>5. Cardinality(R) \in Nat /\ Cardinality(R) # 0
        BY <3>3, <3>4, FS_CardinalityType, FS_EmptySet
      <3>6. ReadBy(m) >= 1
        BY <3>5 DEF ReadBy, R
      <3> QED BY <3>6 DEF Released
    <2> QED BY <2>4, <2>5, <2>6
  <1> QED BY <1>1, FurthestCorrect, PTL DEF Spec, UnreadLostByOverrun

(***************************************************************************)
(* FullOnlyIfUnread under the same conditions, for more than one message:   *)
(* LB_write is refused only to keep a message neither read nor followed by  *)
(* one that was. (An LB of one message takes a pointer two messages apart   *)
(* for either side.)                                                        *)
(***************************************************************************)
THEOREM FurthestFull ==
  ASSUME NReaders = 0, MaxMsgs > 1
  PROVE  Spec => []FullOnlyIfUnread
  <1>1. FurthestInv => FullOnlyIfUnread
    <2> SUFFICES ASSUME FurthestInv, NEW c \in 0 .. num.n, ~astray, ~ Room(c)
                 PROVE  \E m \in First .. First + c : m < written /\ ~Released(m)
      BY DEF FullOnlyIfUnread
    <2>1. PICK P \in Int : Furthest(P)
      BY DEF FurthestInv
    <2>2. MRBase
      BY DEF FurthestInv
    <2>3. /\ written \in Int /\ First \in Int /\ num.n = written - First /\ num.n \in 0 .. MaxMsgs
          /\ TypeOK /\ HeaderRight /\ MaxMsgs \in Nat \ {0}
          /\ passed \in [Readers -> Start .. Start + MaxWritten] /\ Start \in Nat /\ MaxWritten \in Nat
      BY <2>1, <2>2, Bounds, Numbers, Constants DEF TypeOK
    <2>4. PICK i \in 1 .. (IF num.n - c = MaxMsgs THEN c + 1 ELSE c) : ~ MayExpire(Oldest(i))
      BY DEF Room
    <2>5. PICK m \in Int : m = First + i - 1
      BY <2>3
    <2>6. m \in First .. written - 1 /\ m <= First + c /\ i \in Int
      <3>1. i \in 1 .. c + 1 /\ i \in 1 .. num.n
        BY <2>3, <2>4
      <3> QED BY <2>3, <2>5, <3>1
    <2>7. ~ (PtrCompare(PtrOf(m), ptr_read) < 0)
      BY <2>3, <2>4, <2>5, <2>6, OldestAt DEF MayExpire
    <2>8. m >= P
      <3>1. m \in First .. written
        BY <2>3, <2>6
      <3>2. PtrCompare(PtrOf(m), ptr_read) = IF m = P THEN 0 ELSE IF m > P THEN 1 ELSE -1
        BY <2>1, <2>2, <3>1, ReadSide, FurthestNear
      <3> QED BY <2>5, <2>7, <3>2
    <2>9. {q \in Readers : passed[q] > m} = {}
      <3>1. \A q \in Readers : passed[q] <= P /\ passed[q] \in Int
        BY <2>1, <2>3 DEF Furthest
      <3> QED BY <2>5, <2>8, <3>1
    <2>10. ReadBy(m) = 0
      BY <2>9, FS_EmptySet DEF ReadBy
    <2>11. ~ Released(m) /\ m < written /\ m \in First .. First + c
      BY <2>3, <2>6, <2>10 DEF Released
    <2> QED BY <2>11
  <1> QED BY <1>1, FurthestCorrect, PTL

--------------------------------------------------------------------------------
(* NReaders > 0: a message is kept until that many readers have read it *)

\* The readers counted at the present ptr_read.
Counted == {r \in Readers : rd[r].rpt_incd = ptr_read}

(***************************************************************************)
(* ptr_read is that of message P, which no reader is behind. A reader has    *)
(* read what lies between the oldest available message and its place, the    *)
(* counted ones stand half a buffer after P, and the available messages      *)
(* before P were read by enough readers.                                     *)
(***************************************************************************)
AllPast(P) ==
  /\ P \in Start .. written /\ ptr_read = PtrOf(P) /\ written - P < 2 * MaxMsgs
  /\ \A r \in Readers :
       /\ Position(r) \in P .. written
       /\ passed[r] >= Position(r) \/ Position(r) <= First
       /\ r \in Counted => Position(r) >= P + Half
  /\ read_cnt <= Cardinality(Counted)
  /\ \A m \in First .. P - 1 : ReadBy(m) >= NReaders

AllPastInv == MRBase /\ (~astray => \E P \in Int : AllPast(P))

LEMMA HalfType == Half \in Nat /\ 2 * Half <= MaxMsgs
  <1>1. Half \in Int /\ MaxMsgs % 2 \in 0 .. 1 /\ MaxMsgs = 2 * Half + (MaxMsgs % 2) /\ MaxMsgs \in Nat
    <2>1. MaxMsgs \in Int /\ MaxMsgs \in Nat /\ 2 \in Nat \ {0}
      BY Constants
    <2> QED BY <2>1, DivMod DEF Half
  <1> QED BY <1>1

\* Where a reader stands is one message.
LEMMA Standing ==
  ASSUME MRBase, NEW r \in Readers
  PROVE  /\ Position(r) \in Int /\ ReaderAt(r, Position(r))
         /\ \A n \in Int : ReaderAt(r, n) => n = Position(r)
  <1>1. \A n \in Int : ReaderAt(r, n) => n = Position(r)
    BY NumberRight DEF ReaderAt, Position
  <1>2. PICK n \in Int : ReaderAt(r, n)
    BY DEF MRBase
  <1> QED BY <1>1, <1>2

LEMMA AllPastNear ==
  ASSUME MRBase, NEW P \in Int, AllPast(P)
  PROVE  NearRead(P)
  <1>1. P <= written /\ ptr_read = PtrOf(P) /\ written - P < 2 * MaxMsgs
    BY Numbers DEF AllPast, MRBase
  <1> QED BY <1>1 DEF NearRead

LEMMA InitAllPast == Init => AllPastInv
  <1> SUFFICES ASSUME Init PROVE AllPastInv
    OBVIOUS
  <1>1. /\ num = [n |-> 0, p |-> PtrOf(Start)] /\ written = Start /\ ptr_read = PtrOf(Start)
        /\ passed = [r \in Readers |-> Start] /\ read_cnt = 0 /\ page = PageOf(Start)
        /\ rd = [r \in Readers |-> Opened] /\ MRBase
    BY InitBase DEF Init, HeaderInit, PtrOf, PageOf
  <1>2. First = Start /\ Start \in Nat
    BY <1>1, Constants DEF First
  <1>3. Opened = [rpt |-> PtrOf(Start), rpage |-> PageOf(Start), rpt_incd |-> -1]
    <2>1. OpenPtr = PtrOf(Start)
      BY <1>1 DEF OpenPtr
    <2>2. PageOf(Start) \in Int /\ PageOf(Start) - PageOf(Start) \in -2 .. 1 /\ Start \in Int
      BY <1>2, Split
    <2>3. CorrectedPage(PtrOf(Start), PageOf(Start)) = PageOf(Start)
      BY <2>2, Corrected
    <2> QED BY <1>1, <2>1, <2>3 DEF Opened
  <1>4. PtrOf(Start) \in 0 .. PtrRange - 1 /\ PtrRange \in Nat \ {0}
    BY <1>2, Split, Constants
  <1>5. Counted = {}
    BY <1>1, <1>3, <1>4 DEF Counted
  <1>6. Cardinality(Counted) = 0
    BY <1>5, FS_EmptySet
  <1>7. \A r \in Readers : Position(r) = Start /\ rd[r].rpt_incd = -1
    BY <1>1, <1>2, <1>3, NumberRight DEF Position
  <1>8. \A r \in Readers : r \notin Counted
    BY <1>5
  <1>9. AllPast(Start)
    BY <1>1, <1>2, <1>4, <1>6, <1>7, <1>8, Constants DEF AllPast
  <1> QED BY <1>1, <1>2, <1>9 DEF AllPastInv

\* More readers passed m; enough of them did already.
LEMMA ReadByGrows ==
  ASSUME NEW m, \A q \in Readers : passed[q] > m => passed'[q] > m
  PROVE  ReadBy(m) \in Nat /\ ReadBy(m)' \in Nat /\ ReadBy(m) <= ReadBy(m)'
  <1> DEFINE S == {q \in Readers : passed[q] > m}
             T == {q \in Readers : passed'[q] > m}
  <1>1. IsFiniteSet(S) /\ IsFiniteSet(T) /\ S \subseteq T
    <2>1. S \subseteq Readers /\ T \subseteq Readers /\ S \subseteq T
      OBVIOUS
    <2> HIDE DEF S, T
    <2> QED BY <2>1, Constants, FS_Subset
  <1>2. ReadBy(m) = Cardinality(S) /\ ReadBy(m)' = Cardinality(T)
    BY DEF ReadBy
  <1> HIDE DEF S, T
  <1> QED BY <1>1, <1>2, FS_Subset, FS_CardinalityType

LEMMA WriteAllPast ==
  ASSUME MRBase, NEW P \in Int, AllPast(P), NEW c \in 0 .. MaxMsgs, Write(c), ~astray'
  PROVE  AllPast(P)'
  <1>1. /\ written \in Int /\ First \in Int /\ TypeOK /\ HeaderRight /\ Start \in Nat /\ MaxMsgs \in Nat
    BY Numbers, Constants DEF MRBase
  <1>2. /\ written' = written + 1 /\ ptr_read' = ptr_read
        /\ UNCHANGED <<read_cnt, rd, passed>>
    BY <1>1, WrittenHeader DEF Write
  <1>3. PICK f \in First .. written + 1 : f = First'
    BY PushedOut, AllPastNear
  <1>4. /\ P \in Start .. written /\ ptr_read = PtrOf(P)
        /\ read_cnt <= Cardinality(Counted)
        /\ \A m \in First .. P - 1 : ReadBy(m) >= NReaders
    BY DEF AllPast
  <1>5. Counted' = Counted /\ \A r \in Readers : Position(r)' = Position(r)
    BY <1>2 DEF Counted, Position
  <1>6. \A m \in f .. P - 1 : ReadBy(m)' >= NReaders
    <2>1. \A m \in f .. P - 1 : m \in First .. P - 1
      BY <1>1, <1>3
    <2>2. \A m : ReadBy(m)' = ReadBy(m)
      BY <1>2 DEF ReadBy
    <2> QED BY <1>4, <2>1, <2>2
  <1>7. \A r \in Readers : /\ Position(r) \in P .. written + 1
                           /\ passed[r] >= Position(r) \/ Position(r) <= f
                           /\ r \in Counted => Position(r) >= P + Half
    BY <1>1, <1>3 DEF AllPast
  <1>8. P \in Start .. written + 1
    BY <1>1, <1>4
  <1>9. written' - P < 2 * MaxMsgs
    BY WriteNear, AllPastNear
  <1> QED BY <1>2, <1>3, <1>4, <1>5, <1>6, <1>7, <1>8, <1>9 DEF AllPast

LEMMA ClearAllPast ==
  ASSUME MRBase, NEW P \in Int, AllPast(P), NEW k \in 1 .. MaxMsgs, Clear(k)
  PROVE  AllPast(P)'
  <1>1. written \in Int /\ First \in Int /\ Start \in Nat
    BY Numbers, Constants DEF MRBase
  <1>2. First' = First + k /\ UNCHANGED <<ptr_read, written, read_cnt, rd, passed>>
    BY ClearBase DEF Clear, ClearMessages
  <1>3. PICK f \in Int : f = First' /\ First <= f
    BY <1>1, <1>2
  <1>4. /\ P \in Start .. written /\ ptr_read = PtrOf(P) /\ read_cnt <= Cardinality(Counted)
        /\ written - P < 2 * MaxMsgs
        /\ \A m \in First .. P - 1 : ReadBy(m) >= NReaders
    BY DEF AllPast
  <1>5. Counted' = Counted /\ \A r \in Readers : Position(r)' = Position(r)
    BY <1>2 DEF Counted, Position
  <1>6. \A m \in f .. P - 1 : ReadBy(m)' >= NReaders
    <2>1. \A m \in f .. P - 1 : m \in First .. P - 1
      BY <1>1, <1>3
    <2>2. \A m : ReadBy(m)' = ReadBy(m)
      BY <1>2 DEF ReadBy
    <2> QED BY <1>4, <2>1, <2>2
  <1>7. \A r \in Readers : /\ Position(r) \in P .. written
                           /\ passed[r] >= Position(r) \/ Position(r) <= f
                           /\ r \in Counted => Position(r) >= P + Half
    BY <1>1, <1>3 DEF AllPast
  <1> QED BY <1>2, <1>3, <1>4, <1>5, <1>6, <1>7 DEF AllPast

\* A reader that was not counted opens the LB again: it stands at the next
\* message, having read what came before.
LEMMA RestartAllPast ==
  ASSUME NReaders > 0, MRBase, NEW P \in Int, AllPast(P), NEW r \in Readers, Restart(r), ~astray'
  PROVE  AllPast(P)'
  <1>1. /\ written \in Int /\ First \in Int /\ Start \in Nat /\ Half \in Nat
        /\ passed \in [Readers -> Start .. Start + MaxWritten] /\ MaxWritten \in Nat
        /\ rd \in [Readers -> Rd] /\ ptr_read \in 0 .. PtrRange - 1 /\ First <= written
    BY Numbers, Constants, HalfType DEF MRBase, TypeOK, HeaderTypeOK, Rd
  <1>2. /\ UNCHANGED <<num, page, ptr_read, written, read_cnt>> /\ rd' = [rd EXCEPT ![r] = Opened]
        /\ passed' = [passed EXCEPT ![r] = written] /\ First' = First
    BY DEF Restart, hdvars, First
  <1>3. r \notin Counted
    <2>1. astray' = (astray \/ rd[r].rpt_incd = ptr_read)
      BY DEF Restart
    <2>2. ~ (rd[r].rpt_incd = ptr_read)
      BY <2>1
    <2> QED BY <2>2 DEF Counted
  <1>4. /\ Opened.rpt_incd = -1 /\ Opened.rpt = PtrOf(written) /\ Opened.rpage = PageOf(written)
        /\ rd'[r] = Opened /\ \A q \in Readers \ {r} : rd'[q] = rd[q]
    BY <1>1, <1>2, OpenedAt
  <1>5. Position(r)' = written /\ \A q \in Readers \ {r} : Position(q)' = Position(q)
    BY <1>1, <1>4, NumberRight DEF Position
  <1>6. Counted' = Counted
    <2>1. -1 # ptr_read
      BY <1>1
    <2> QED BY <1>2, <1>3, <1>4, <2>1 DEF Counted
  <1>7. /\ P \in Start .. written /\ ptr_read = PtrOf(P) /\ read_cnt <= Cardinality(Counted)
        /\ written - P < 2 * MaxMsgs
        /\ \A m \in First .. P - 1 : ReadBy(m) >= NReaders
        /\ \A q \in Readers : /\ Position(q) \in P .. written
                              /\ passed[q] >= Position(q) \/ Position(q) <= First
                              /\ q \in Counted => Position(q) >= P + Half
    BY DEF AllPast
  <1>8. \A q \in Readers : passed[q] \in Int /\ passed'[q] \in Int /\ passed'[q] >= passed[q]
    BY <1>1, <1>2 DEF MRBase
  <1>9. ASSUME NEW q \in Readers
        PROVE  /\ Position(q)' \in P .. written
               /\ passed'[q] >= Position(q)' \/ Position(q)' <= First
               /\ q \in Counted => Position(q)' >= P + Half
    <2>1. CASE q = r
      BY <1>1, <1>2, <1>3, <1>5, <1>7, <2>1
    <2>2. CASE q # r
      BY <1>2, <1>5, <1>7, <2>2
    <2> QED BY <2>1, <2>2
  <1>10. \A m \in First .. P - 1 : ReadBy(m)' >= NReaders
    <2> SUFFICES ASSUME NEW m \in First .. P - 1 PROVE ReadBy(m)' >= NReaders
      OBVIOUS
    <2>1. \A q \in Readers : passed[q] > m => passed'[q] > m
      BY <1>1, <1>7, <1>8
    <2>2. ReadBy(m) >= NReaders
      BY <1>7
    <2> QED BY <2>1, <2>2, ReadByGrows, Constants
  <1> QED BY <1>2, <1>6, <1>7, <1>9, <1>10 DEF AllPast

(***************************************************************************)
(* Reader r comes to message k, having read what lies before it, and the    *)
(* common pointer is brought up to date.                                    *)
(***************************************************************************)
LEMMA CountStep ==
  ASSUME NReaders > 0, Cardinality(Readers) <= NReaders,
         MRBase, NEW P \in Int, AllPast(P), NEW r \in Readers, NEW k \in Position(r) .. written,
         UpdateCommonPointer(r, PtrOf(k), PageOf(k)), ~ CountedEarly(r), UNCHANGED <<num, written>>,
         passed' \in [Readers -> Int], \A q \in Readers : passed'[q] >= passed[q],
         passed'[r] >= k \/ k <= First
  PROVE  \E Q \in Int : AllPast(Q)'
  <1> DEFINE counts == rd[r].rpt_incd # ptr_read /\ PtrCompare(PtrOf(k), ptr_read + Half) >= 0
             cnt == IF counts THEN read_cnt + 1 ELSE read_cnt
             C == {q \in Readers : rd'[q].rpt_incd = ptr_read}
             pos == [q \in Readers |-> IF q = r THEN k ELSE Position(q)]
  <1>1. /\ written \in Int /\ First \in Int /\ First' = First /\ Start \in Nat /\ MaxMsgs \in Nat \ {0}
        /\ PtrRange \in Nat \ {0} /\ NReaders \in Nat /\ Half \in Nat /\ 2 * Half <= MaxMsgs
        /\ written \in Start .. Start + MaxWritten /\ MaxWritten \in Nat /\ TypeOK
        /\ ptr_read \in 0 .. PtrRange - 1
        /\ read_cnt \in 0 .. NReaders /\ IsFiniteSet(Readers) /\ Cardinality(Readers) \in Nat
    <2>1. First' = First
      BY DEF First
    <2>3. /\ TypeOK /\ written \in Int /\ First \in Int /\ written \in Start .. Start + MaxWritten
          /\ ptr_read \in 0 .. PtrRange - 1
      BY Numbers DEF MRBase
    <2>4. read_cnt \in 0 .. NReaders
      BY DEF MRBase, TypeOK
    <2>5. IsFiniteSet(Readers) /\ Cardinality(Readers) \in Nat
      BY Constants, FS_CardinalityType
    <2>6. Half \in Nat /\ 2 * Half <= MaxMsgs
      BY HalfType
    <2> QED BY <2>1, <2>3, <2>4, <2>5, <2>6, Constants
  <1>2. /\ P \in Start .. written /\ ptr_read = PtrOf(P)
        /\ written - P < 2 * MaxMsgs
        /\ \A m \in First .. P - 1 : ReadBy(m) >= NReaders
        /\ \A q \in Readers : /\ Position(q) \in P .. written
                              /\ passed[q] >= Position(q) \/ Position(q) <= First
                              /\ q \in Counted => Position(q) >= P + Half
        /\ read_cnt <= Cardinality(Counted)
    BY DEF AllPast
  <1>4. k \in P .. written /\ k \in Start .. written
    <2>1. Position(r) \in P .. written
      BY <1>2
    <2> QED BY <1>1, <1>2, <2>1
  <1>5. /\ rd' \in [Readers -> Rd] /\ \A q \in Readers \ {r} : rd'[q] = rd[q]
        /\ rd'[r].rpt = PtrOf(k) /\ rd'[r].rpage = PageOf(k)
        /\ rd'[r].rpt_incd = IF counts THEN ptr_read ELSE rd[r].rpt_incd
        /\ ptr_read' = IF cnt >= NReaders THEN (ptr_read + Half) % PtrRange ELSE ptr_read
        /\ read_cnt' = IF cnt >= NReaders THEN 0 ELSE cnt
    <2>1. k \in Int
      BY <1>1, <1>4
    <2> QED BY <1>1, <2>1, CountsAt
  <1>6. counts => k >= P + Half /\ r \notin Counted
    <2> SUFFICES ASSUME counts PROVE k >= P + Half
      BY DEF Counted
    <2>1. k \in Int /\ P \in Int /\ Half \in 0 .. PtrRange - 1
      BY <1>1, <1>4, Constants
    <2>2. CASE ptr_read + Half < PtrRange
      <3>1. ptr_read + Half = PtrOf(P + Half)
        BY <1>2, <2>1, <2>2, Ahead
      <3>2. PICK Q \in Int : Q = P + Half
        BY <1>1
      <3>3. k - Q < 2 * MaxMsgs /\ Q - k < 2 * MaxMsgs
        BY <1>1, <1>2, <1>4, <3>2
      <3>4. PtrCompare(PtrOf(k), PtrOf(Q)) = IF k = Q THEN 0 ELSE IF k > Q THEN 1 ELSE -1
        BY <2>1, <3>3, CompareRight
      <3>5. PtrCompare(PtrOf(k), PtrOf(Q)) >= 0
        BY <3>1, <3>2
      <3> QED BY <2>1, <3>2, <3>4, <3>5
    <2>3. CASE ~ (ptr_read + Half < PtrRange)
      <3>1. rd'[r].rpt_incd = ptr_read /\ ptr_read + Half >= PtrRange
        <4> HIDE DEF counts
        <4> QED BY <1>1, <1>5, <2>3
      <3>2. Position(r)' = k
        BY <1>5, <2>1, NumberRight DEF Position
      <3>3. ReadNumber = P
        BY ReadIs, AllPastNear
      <3>4. ~ (k < P + Half)
        BY <3>1, <3>2, <3>3 DEF CountedEarly
      <3> QED BY <1>1, <2>1, <3>4
    <2> QED BY <2>2, <2>3
  <1>7. pos \in [Readers -> P .. written] /\ \A q \in Readers : pos[q] = Position(q)' /\ pos[q] >= Position(q)
    <2>1. Position(r)' = k
      <3>1. k \in Int
        BY <1>1, <1>4
      <3> QED BY <1>5, <3>1, NumberRight DEF Position
    <2>2. \A q \in Readers \ {r} : Position(q)' = Position(q)
      BY <1>5 DEF Position
    <2>3. \A q \in Readers : Position(q) \in P .. written
      BY <1>2
    <2>4. k >= Position(r)
      <3>1. Position(r) \in Int
        BY <1>1, <2>3
      <3> QED BY <1>1, <3>1
    <2> QED BY <1>1, <1>4, <2>1, <2>2, <2>3, <2>4
  <1>8. \A q \in Readers : passed'[q] >= pos[q] \/ pos[q] <= First
    <2> SUFFICES ASSUME NEW q \in Readers PROVE passed'[q] >= pos[q] \/ pos[q] <= First
      OBVIOUS
    <2>1. CASE q = r
      BY <2>1
    <2>2. CASE q # r
      <3>1. /\ pos[q] = Position(q) /\ (passed[q] >= Position(q) \/ Position(q) <= First) /\ passed'[q] >= passed[q]
            /\ pos[q] \in Int /\ passed[q] \in Int /\ passed'[q] \in Int
        BY <1>1, <1>2, <1>7, <2>2 DEF TypeOK
      <3> QED BY ONLY <3>1, <1>1
    <2> QED BY <2>1, <2>2
  <1>9. C = (IF counts THEN Counted \cup {r} ELSE Counted) /\ C \subseteq Readers
    <2> HIDE DEF counts
    <2>1. \A q \in Readers \ {r} : rd'[q].rpt_incd = rd[q].rpt_incd
      BY <1>5
    <2> QED BY <1>5, <2>1 DEF Counted
  <1>10. IsFiniteSet(Counted) /\ Cardinality(Counted) \in Nat /\ IsFiniteSet(C) /\ Cardinality(C) \in Nat
    <2>1. Counted \subseteq Readers
      BY DEF Counted
    <2> HIDE DEF C
    <2> QED BY <1>1, <1>9, <2>1, FS_Subset, FS_CardinalityType
  <1>11. cnt <= Cardinality(C) /\ cnt \in Nat
    <2>1. CASE counts
      <3>1. C = Counted \cup {r} /\ r \notin Counted
        BY <1>6, <1>9, <2>1
      <3>2. cnt = read_cnt + 1
        BY <2>1
      <3> HIDE DEF C, cnt
      <3>3. Cardinality(C) = Cardinality(Counted) + 1
        BY <1>10, <3>1, FS_AddElement
      <3> QED BY <1>1, <1>2, <1>10, <3>2, <3>3
    <2>2. CASE ~ counts
      <3>1. C = Counted /\ cnt = read_cnt
        BY <1>9, <2>2
      <3> HIDE DEF C, cnt
      <3> QED BY <1>1, <1>2, <3>1
    <2> QED BY <2>1, <2>2
  <1>12. \A q \in C : q \in Readers /\ pos[q] >= P + Half
    <2> SUFFICES ASSUME NEW q \in C PROVE pos[q] >= P + Half
      BY <1>9
    <2>1. q \in Readers /\ pos[q] \in Int /\ Position(q) \in Int /\ pos[q] >= Position(q)
      <3>1. q \in Readers
        BY <1>9
      <3> HIDE DEF pos
      <3> QED BY <1>1, <1>2, <1>7, <3>1
    <2>2. CASE q \in Counted
      <3>1. Position(q) >= P + Half
        BY <1>2, <2>1, <2>2
      <3> HIDE DEF pos
      <3> QED BY <1>1, <2>1, <3>1
    <2>3. CASE q \notin Counted
      <3>1. q = r /\ counts
        BY <1>9, <2>3
      <3> QED BY <1>6, <3>1
    <2> QED BY <2>2, <2>3
  <1>13. \A q \in C : rd'[q].rpt_incd = ptr_read
    OBVIOUS
  <1> HIDE DEF counts
  <1>14. CASE cnt >= NReaders
    <2> DEFINE Q == P + Half
    <2>1. C = Readers
      <3> HIDE DEF C, cnt
      <3>1. Cardinality(C) <= Cardinality(Readers) /\ (Cardinality(C) = Cardinality(Readers) => C = Readers)
        BY <1>1, <1>9, FS_Subset
      <3>2. Cardinality(C) = Cardinality(Readers)
        BY <1>1, <1>10, <1>11, <1>14, <3>1
      <3> QED BY <3>1, <3>2
    <2>2. \A q \in Readers : pos[q] \in Q .. written
      <3>1. \A q \in Readers : pos[q] >= P + Half /\ pos[q] \in P .. written
        <4> HIDE DEF C, pos
        <4> QED BY <1>7, <1>12, <2>1
      <3> HIDE DEF pos
      <3> QED BY <1>1, <3>1
    <2>3. Q \in Start .. written
      <3>1. pos[r] \in Q .. written
        BY <2>2
      <3> HIDE DEF pos
      <3> QED BY <1>1, <1>2, <3>1
    <2>4. ptr_read' = PtrOf(Q) /\ read_cnt' = 0
      <3>1. ptr_read' = (ptr_read + Half) % PtrRange /\ read_cnt' = 0
        <4> HIDE DEF cnt
        <4> QED BY <1>5, <1>14
      <3>2. (PtrOf(P) + Half) % PtrRange = PtrOf(Q)
        <4>1. (PtrOf(P) + Half + PtrRange) % PtrRange = PtrOf(P + Half)
          BY <1>1, PtrStep
        <4>2. PtrOf(P) + Half \in Int
          BY <1>1, <1>2
        <4> QED BY <1>1, <4>1, <4>2, ModTurn
      <3> QED BY <1>2, <3>1, <3>2
    <2>5. written - Q < 2 * MaxMsgs
      BY <1>1, <1>2
    <2>7. \A q \in Readers : q \in Counted' => pos[q] >= Q + Half
      <3> SUFFICES ASSUME NEW q \in Readers, q \in Counted' PROVE pos[q] >= Q + Half
        OBVIOUS
      <3>1. rd'[q].rpt_incd = ptr_read'
        BY DEF Counted
      <3>2. rd'[q].rpt_incd = PtrOf(P)
        <4> HIDE DEF C
        <4> QED BY <1>2, <1>13, <2>1
      <3>3. Half = 0
        <4> SUFFICES ASSUME Half # 0 PROVE FALSE
          OBVIOUS
        <4>1. P < Q /\ Q - P < PtrRange /\ Q \in Int /\ P \in Int
          BY <1>1, <2>3, Constants
        <4> HIDE DEF Q
        <4>2. P % PtrRange # Q % PtrRange
          BY <1>1, <4>1, ModDistinct
        <4> QED BY <2>4, <3>1, <3>2, <4>2 DEF PtrOf
      <3>4. pos[q] \in Q .. written
        BY <2>2
      <3> HIDE DEF pos
      <3> QED BY <1>1, <2>3, <3>3, <3>4
    <2>8. read_cnt' <= Cardinality(Counted')
      <3>1. Counted' \subseteq Readers
        BY DEF Counted
      <3>2. Cardinality(Counted') \in Nat
        BY <1>1, <3>1, FS_Subset, FS_CardinalityType
      <3> QED BY <2>4, <3>2
    <2>9. \A m \in First .. Q - 1 : ReadBy(m)' >= NReaders
      <3> SUFFICES ASSUME NEW m \in First .. Q - 1 PROVE ReadBy(m)' >= NReaders
        OBVIOUS
      <3>1. m \in Int /\ First <= m /\ m < Q
        BY <1>1, <2>3
      <3>2. \A q \in Readers : passed'[q] > m
        <4> SUFFICES ASSUME NEW q \in Readers PROVE passed'[q] > m
          OBVIOUS
        <4>1. pos[q] \in Q .. written /\ (passed'[q] >= pos[q] \/ pos[q] <= First) /\ passed'[q] \in Int
          BY <1>8, <2>2
        <4> HIDE DEF pos, Q
        <4> QED BY <1>1, <2>3, <3>1, <4>1
      <3>3. {q \in Readers : passed'[q] > m} = Readers
        BY <3>2
      <3>4. ReadBy(m)' = Cardinality(Readers)
        BY <3>3 DEF ReadBy
      <3>5. Cardinality(Readers) >= NReaders
        <4>1. Cardinality(C) = Cardinality(Readers)
          BY <2>1
        <4> HIDE DEF C, cnt
        <4> QED BY <1>1, <1>10, <1>11, <1>14, <4>1
      <3> QED BY <3>4, <3>5
    <2> HIDE DEF Q, pos
    <2>10. AllPast(Q)'
      BY <1>1, <1>7, <1>8, <2>2, <2>3, <2>4, <2>5, <2>7, <2>8, <2>9 DEF AllPast
    <2>11. Q \in Int
      BY <1>1, <2>3
    <2> QED BY <2>10, <2>11
  <1>15. CASE ~ (cnt >= NReaders)
    <2>1. ptr_read' = ptr_read /\ read_cnt' = cnt
      <3> HIDE DEF cnt
      <3> QED BY <1>5, <1>15
    <2>2. Counted' = C
      BY <2>1 DEF Counted
    <2>3. read_cnt' <= Cardinality(Counted')
      <3> HIDE DEF C, cnt
      <3> QED BY <1>11, <2>1, <2>2
    <2>4. \A q \in Readers : q \in Counted' => pos[q] >= P + Half
      BY <1>12, <2>2
    <2>5. \A m \in First .. P - 1 : ReadBy(m)' >= NReaders
      <3> SUFFICES ASSUME NEW m \in First .. P - 1 PROVE ReadBy(m)' >= NReaders
        OBVIOUS
      <3>1. \A q \in Readers : passed[q] > m => passed'[q] > m
        <4>1. \A q \in Readers : passed[q] \in Int /\ passed'[q] \in Int
          BY <1>1 DEF TypeOK
        <4> QED BY <1>1, <4>1
      <3>2. ReadBy(m) >= NReaders
        BY <1>2
      <3> QED BY <1>1, <3>1, <3>2, ReadByGrows
    <2>6. \A q \in Readers : pos[q] \in P .. written
      BY <1>7
    <2> HIDE DEF pos
    <2>7. AllPast(P)'
      BY <1>1, <1>2, <1>7, <1>8, <2>1, <2>3, <2>4, <2>5, <2>6 DEF AllPast
    <2> QED BY <2>7
  <1> QED BY <1>14, <1>15

LEMMA ReadAllPast ==
  ASSUME NReaders > 0, Cardinality(Readers) <= NReaders,
         MRBase, NEW P \in Int, AllPast(P), NEW r \in Readers, NEW id \in Ids, Read(r, id), ~astray'
  PROVE  \E Q \in Int : AllPast(Q)'
  <1>1. id = "LB_NEXT"
    BY MustReadAssumption
  <1>2. PICK n \in Int, v \in Verdicts : ReadAbout(r, n, v) /\ ReaderAt(r, n)
    BY <1>1, ReadIsAbout
  <1>3. n = Position(r)
    BY <1>2, Standing
  <1>4. /\ written \in Nat /\ First \in Start .. written /\ First = written - num.n /\ First \in Nat
        /\ num.n \in 0 .. MaxMsgs /\ num = [n |-> num.n, p |-> PtrOf(written)]
        /\ page = PageOf(written) /\ Start \in Nat
        /\ passed \in [Readers -> Start .. Start + MaxWritten] /\ MaxWritten \in Nat
    BY Numbers, Constants DEF MRBase, TypeOK
  <1>5. n \in Start .. written /\ (passed[r] >= n \/ n <= First) /\ n \in Nat
    <2>1. P \in Start .. written /\ Position(r) \in P .. written /\ (passed[r] >= Position(r) \/ Position(r) <= First)
      BY DEF AllPast
    <2> QED BY <1>3, <1>4, <2>1
  <1>6. v = IF n >= written THEN "toCome" ELSE IF n >= First THEN "ok" ELSE "expired"
    <2>1. PageOf(written) \in Int /\ PageOf(written) - PageOf(written) \in -2 .. 1
      BY <1>4, Split
    <2>2. PICK y \in 0 .. MaxMsgs : y = num.n
      BY <1>4
    <2>3. CheckPointer([n |-> y, p |-> PtrOf(written)], PageOf(written), PtrOf(n), PageOf(n))
            = IF n >= written THEN "toCome" ELSE IF n >= written - y THEN "ok" ELSE "expired"
      BY ONLY <1>4, <1>5, <2>1, <2>2, CheckRight
    <2>4. v = CheckPointer(num, page, PtrOf(n), PageOf(n))
      BY <1>2 DEF ReadAbout
    <2> QED BY <1>4, <2>2, <2>3, <2>4
  <1>7. /\ UNCHANGED <<num, written>>
        /\ passed' = IF v = "ok" /\ n >= passed[r] THEN [passed EXCEPT ![r] = n + 1] ELSE passed
        /\ UpdateCommonPointer(r, PtrOf(IF v = "toCome" THEN n ELSE n + 1),
                               PageOf(IF v = "toCome" THEN n ELSE n + 1))
    BY <1>2 DEF ReadAbout
  <1>8. PICK k \in Int : k = IF v = "toCome" THEN n ELSE n + 1
    BY <1>5
  <1>9. k \in Position(r) .. written
    BY <1>3, <1>4, <1>5, <1>6, <1>8
  <1>10. passed' \in [Readers -> Int] /\ \A q \in Readers : passed'[q] >= passed[q]
    BY <1>4, <1>5, <1>7
  <1>11. passed'[r] >= k \/ k <= First
    <2>1. CASE v = "ok"
      <3>1. k = n + 1
        BY <1>8, <2>1
      <3> QED BY <1>4, <1>5, <1>7, <2>1, <3>1
    <2>2. CASE v = "expired"
      <3>1. n < First
        <4>1. ~ (n >= written) /\ ~ (n >= First)
          BY <1>6, <2>2
        <4> QED BY <1>4, <1>5, <4>1
      <3> QED BY <1>4, <1>5, <1>8, <2>2, <3>1
    <2>3. CASE v = "toCome"
      BY <1>5, <1>7, <1>8, <2>3
    <2> QED BY <2>1, <2>2, <2>3 DEF Verdicts
  <1>12. UpdateCommonPointer(r, PtrOf(k), PageOf(k))
    BY <1>7, <1>8
  <1>13. ~ CountedEarly(r)
    <2>1. astray' = (astray \/ CountedEarly(r))
      BY <1>2 DEF ReadAbout
    <2> QED BY <2>1
  <1> QED BY <1>7, <1>9, <1>10, <1>11, <1>12, <1>13, CountStep

LEMMA AllPastStep ==
  ASSUME NReaders > 0, Cardinality(Readers) <= NReaders
  PROVE  AllPastInv /\ [Next]_vars => AllPastInv'
  <1> SUFFICES ASSUME AllPastInv, [Next]_vars, ~astray' PROVE \E Q \in Int : AllPast(Q)'
    BY BaseStep DEF AllPastInv
  <1>1. MRBase
    BY DEF AllPastInv
  <1>2. ~astray
    BY StaysAstray
  <1>3. PICK P \in Int : AllPast(P)
    BY <1>2 DEF AllPastInv
  <1>4. CASE \E c \in 0 .. MaxMsgs : Write(c)
    BY <1>1, <1>3, <1>4, WriteAllPast
  <1>5. CASE \E k \in 1 .. MaxMsgs : Clear(k)
    BY <1>1, <1>3, <1>5, ClearAllPast
  <1>6. CASE \E r \in Readers : \E id \in Ids : Read(r, id)
    BY <1>1, <1>3, <1>6, ReadAllPast
  <1>7. CASE \E r \in Readers : Restart(r)
    BY <1>1, <1>3, <1>7, RestartAllPast
  <1>8. ~ \E r \in Readers : SeekFirst(r)
    BY MustReadAssumption DEF SeekFirst
  <1>9. CASE UNCHANGED vars
    <2>1. UNCHANGED <<num, written, ptr_read, read_cnt, rd, passed>>
      BY <1>9 DEF vars
    <2>2. First' = First /\ Counted' = Counted /\ \A r \in Readers : Position(r)' = Position(r)
      BY <2>1 DEF First, Counted, Position
    <2>3. AllPast(P)'
      <3>1. \A m \in First .. P - 1 : ReadBy(m)' >= NReaders
        <4>1. \A m : ReadBy(m)' = ReadBy(m)
          BY <2>1 DEF ReadBy
        <4> QED BY <1>3, <4>1 DEF AllPast
      <3> QED BY <1>3, <2>1, <2>2, <3>1 DEF AllPast
    <2> QED BY <2>3
  <1> QED BY <1>4, <1>5, <1>6, <1>7, <1>8, <1>9 DEF Next

(***************************************************************************)
(* UnreadLostByOverrun for every size of the buffer, as long as no more      *)
(* readers read than were announced: whatever they do, LB_clear and the wrap *)
(* of the pointer included, LB_write pushes out no message before NReaders   *)
(* of the readers have read it, but for the one it does not look at.         *)
(***************************************************************************)
THEOREM CountedLostByOverrun ==
  ASSUME NReaders > 0, Cardinality(Readers) <= NReaders
  PROVE  Spec => UnreadLostByOverrun
  <1>1. AllPastInv /\ [Next]_vars => [~emptied /\ ~astray => LosesByOverrun]_vars
    <2> SUFFICES ASSUME AllPastInv, Next, ~astray, written' > written, NEW m \in First .. First' - 1
                 PROVE  Released(m) \/ Overrun(m)
      BY DEF LosesByOverrun
    <2>1. PICK P \in Int : AllPast(P)
      BY DEF AllPastInv
    <2>2. MRBase
      BY DEF AllPastInv
    <2>3. PICK c \in 0 .. MaxMsgs : Write(c)
      BY <2>2, OnlyWrite
    <2>4. First' \in First .. written + 1 /\ (m < P \/ Overrun(m))
      BY <2>1, <2>2, <2>3, PushedOut, AllPastNear
    <2>5. CASE Overrun(m)
      BY <2>5
    <2>6. CASE m < P
      <3>1. m \in First .. P - 1
        <4>1. First \in Int /\ First' \in Int
          BY <2>2, <2>4, Numbers DEF MRBase
        <4>2. m \in First .. First' - 1
          OBVIOUS
        <4> QED BY <2>6, <4>1, <4>2
      <3> QED BY <2>1, <3>1 DEF AllPast, Released
    <2> QED BY <2>4, <2>5, <2>6
  <1>2. Spec => []AllPastInv
    BY InitAllPast, AllPastStep, PTL DEF Spec
  <1> QED BY <1>1, <1>2, PTL DEF Spec, UnreadLostByOverrun
================================================================================
