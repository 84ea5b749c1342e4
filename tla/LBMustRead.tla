------------------------------- MODULE LBMustRead ------------------------------
(***************************************************************************)
(* LB_MUST_READ: unread messages do not expire. With NReaders = 0 the LB    *)
(* keeps the messages after the furthest one ever read; with NReaders > 0   *)
(* (LB_SET_N_MUST_READERS) it keeps those that fewer than NReaders of the   *)
(* readers, all reading LB_NEXT, have read.                                 *)
(***************************************************************************)
EXTENDS LBUnread

CONSTANTS
  NReaders,   \* hd->non_dec_id >> 1
  Ids,        \* the ids LB_read is called with: "LB_NEXT", "LB_LATEST"
  Seeks,      \* readers also call LB_seek (0, LB_FIRST)
  MaxClears,  \* bound on the LB_clear calls
  Restarts    \* readers also close and open the LB again

ASSUME MustReadAssumption ==
  /\ MustRead /\ ~ShareStream
  /\ NReaders \in Nat
  /\ Ids \subseteq {"LB_NEXT", "LB_LATEST"}
  /\ NReaders > 0 => Ids = {"LB_NEXT"} /\ ~Seeks
  /\ Seeks \in BOOLEAN /\ Restarts \in BOOLEAN
  /\ MaxClears \in Nat

VARIABLES
  read_cnt,  \* hd->read_cnt: readers that passed half a buffer after ptr_read
  rd,        \* reader -> lb->rpt, lb->rpage, lb->rpt_incd
  passed,    \* reader -> messages it has read or counts as having read (history)
  emptied,   \* ptr_read was moved past the next message to be written (history)
  astray,    \* ptr_read was moved too early or fell too far behind (history)
  clears     \* LB_clear calls so far (bound)

vars == <<num, page, ptr_read, written, read_cnt, rd, passed, emptied, astray, clears>>

\* Readers that open the LB read from ptr_read, or from the next message.
OpenPtr == IF NReaders = 0 THEN ptr_read ELSE num.p

Opened == [rpt |-> OpenPtr, rpage |-> CorrectedPage(OpenPtr, page), rpt_incd |-> -1]

Half == MaxMsgs \div 2

\* LB_search_for_message (LB_FIRST, offset): an empty LB ignores the offset.
SearchFirst(offset) ==
  ComputePointer(num.p, CorrectedPage(num.p, page),
                 IF num.n = 0 THEN 0 ELSE offset - num.n)

\* Mutation: a reader may be counted more than once.
CountTwice(r, rpt, rpage) ==
  LET counts == PtrCompare(rpt, ptr_read + Half) >= 0
      cnt    == IF counts THEN read_cnt + 1 ELSE read_cnt
  IN  /\ rd' = [rd EXCEPT ![r] = [rpt |-> rpt, rpage |-> rpage, rpt_incd |-> -1]]
      /\ IF cnt >= NReaders
         THEN ptr_read' = ComputePointer(ptr_read, rpage, Half).pt /\ read_cnt' = 0
         ELSE read_cnt' = cnt /\ UNCHANGED ptr_read

\* Mutation: the count is not reset when ptr_read moves.
CountOn(r, rpt, rpage) ==
  LET counts == rd[r].rpt_incd # ptr_read /\ PtrCompare(rpt, ptr_read + Half) >= 0
      cnt    == IF counts THEN read_cnt + 1 ELSE read_cnt
  IN  /\ rd' = [rd EXCEPT ![r] = [rpt |-> rpt, rpage |-> rpage,
                   rpt_incd |-> IF counts THEN ptr_read ELSE @.rpt_incd]]
      /\ read_cnt' = cnt
      /\ ptr_read' = IF cnt >= NReaders THEN ComputePointer(ptr_read, rpage, Half).pt
                     ELSE ptr_read

\* Mutation: the last reader is not enough to move ptr_read.
CountOneMore(r, rpt, rpage) ==
  LET counts == rd[r].rpt_incd # ptr_read /\ PtrCompare(rpt, ptr_read + Half) >= 0
      cnt    == IF counts THEN read_cnt + 1 ELSE read_cnt
  IN  /\ rd' = [rd EXCEPT ![r] = [rpt |-> rpt, rpage |-> rpage,
                   rpt_incd |-> IF counts THEN ptr_read ELSE @.rpt_incd]]
      /\ IF cnt > NReaders
         THEN ptr_read' = ComputePointer(ptr_read, rpage, Half).pt /\ read_cnt' = 0
         ELSE read_cnt' = cnt /\ UNCHANGED ptr_read

(***************************************************************************)
(* Update_must_read_common_pointer, for reader r whose read pointer is rpt: *)
(* the last of NReaders readers to come half a buffer past ptr_read moves   *)
(* it there. The sum is compared without being taken modulo the range.      *)
(***************************************************************************)
UpdateCommonPointer(r, rpt, rpage) ==
  LET counts == /\ rd[r].rpt_incd # ptr_read
                /\ PtrCompare(rpt, ptr_read + Half) >= 0
      cnt    == IF counts THEN read_cnt + 1 ELSE read_cnt
  IN  /\ rd' = [rd EXCEPT ![r] = [rpt |-> rpt, rpage |-> rpage,
                   rpt_incd |-> IF counts THEN ptr_read ELSE @.rpt_incd]]
      /\ IF cnt >= NReaders
         THEN /\ ptr_read' = ComputePointer(ptr_read, rpage, Half).pt
              /\ read_cnt' = 0
         ELSE /\ read_cnt' = cnt
              /\ UNCHANGED ptr_read

\* Mutation: ptr_read stays on the message that was read.
FollowReadBehind(r, rpt, rpage, verdict) ==
  LET at   == IF verdict = "expired" THEN SearchFirst(-1).pt ELSE rpt
      next == (rpt + 1) % PtrRange
  IN  /\ rd' = [rd EXCEPT ![r].rpt = next, ![r].rpage = CorrectedPage(next, rpage)]
      /\ ptr_read' = IF PtrCompare(at, ptr_read) >= 0 THEN at ELSE ptr_read
      /\ UNCHANGED read_cnt

\* NReaders = 0: ptr_read follows the furthest read; a message read too late
\* counts as the one before the oldest available.
FollowRead(r, rpt, rpage, verdict) ==
  LET at   == IF verdict = "expired" THEN SearchFirst(-1).pt ELSE rpt
      next == (rpt + 1) % PtrRange
  IN  /\ rd' = [rd EXCEPT ![r].rpt = next, ![r].rpage = CorrectedPage(next, rpage)]
      /\ ptr_read' = IF PtrCompare(at, ptr_read) >= 0 THEN (at + 1) % PtrRange ELSE ptr_read
      /\ UNCHANGED read_cnt

\* The number of message (pt, page); the history need not be modulo the range.
Number(pt, pg) == pg * PageSize + (pt % PageSize)

Position(r) == Number(rd[r].rpt, rd[r].rpage)

\* Reader r is counted at ptr_read before it is half a buffer past it, as half a
\* buffer past it lies beyond the pointer range.
CountedEarly(r) ==
  /\ rd'[r].rpt_incd = ptr_read
  /\ ptr_read + Half >= PtrRange
  /\ Position(r)' < ReadNumber + Half

\* LB_read (id)
Read(r, id) ==
  LET latest  == ComputePointer(num.p, CorrectedPage(num.p, page), -1)
      rpt     == IF id = "LB_NEXT" THEN rd[r].rpt ELSE latest.pt
      rpage   == IF id = "LB_NEXT" THEN rd[r].rpage ELSE latest.page
      next    == (rpt + 1) % PtrRange
      verdict == CheckPointer(num, page, rpt, rpage)
  IN  /\ id \in Ids
      /\ IF verdict = "toCome"
         THEN IF NReaders = 0 THEN UNCHANGED <<rd, ptr_read, read_cnt>>
              ELSE UpdateCommonPointer(r, rpt, rpage)
         ELSE IF NReaders = 0 THEN FollowRead(r, rpt, rpage, verdict)
              ELSE UpdateCommonPointer(r, next, CorrectedPage(next, rpage))
      /\ passed' = IF verdict = "ok" /\ Number(rpt, rpage) >= passed[r]
                   THEN [passed EXCEPT ![r] = Number(rpt, rpage) + 1] ELSE passed
      /\ emptied' = (emptied \/ (NReaders = 0 /\ verdict = "expired" /\ num.n = 0))
      /\ astray' = (astray \/ CountedEarly(r))
      /\ UNCHANGED <<num, page, written, clears>>

\* LB_seek (0, LB_FIRST) moves the reader's own pointer only.
SeekFirst(r) ==
  /\ Seeks
  /\ rd' = [rd EXCEPT ![r].rpt = SearchFirst(0).pt, ![r].rpage = SearchFirst(0).page]
  /\ UNCHANGED <<hdvars, read_cnt, passed, emptied, astray, clears>>

\* LB_close and LB_open. A reader among several "starts with the next new
\* message and all existing messages are considered as read by this reader", and
\* nobody knows that it was counted.
Restart(r) ==
  /\ Restarts
  /\ rd' = [rd EXCEPT ![r] = Opened]
  /\ passed' = IF NReaders > 0 THEN [passed EXCEPT ![r] = written] ELSE passed
  /\ astray' = (astray \/ rd[r].rpt_incd = ptr_read)
  /\ UNCHANGED <<hdvars, read_cnt, emptied, clears>>

\* LB_Ptr_compare cannot order messages 2 * MaxMsgs apart.
Write(c) ==
  /\ WriteMessage(c)
  /\ astray' = (astray \/ written + 1 - ReadNumber >= 2 * MaxMsgs)
  /\ UNCHANGED <<read_cnt, rd, passed, emptied, clears>>

Clear(k) ==
  /\ clears < MaxClears
  /\ ClearMessages(k)
  /\ clears' = clears + 1
  /\ UNCHANGED <<read_cnt, rd, passed, emptied, astray>>

Init ==
  /\ HeaderInit
  /\ read_cnt = 0
  /\ rd = [r \in Readers |-> Opened]
  /\ passed = [r \in Readers |-> Start]
  /\ emptied = FALSE
  /\ astray = FALSE
  /\ clears = 0

Next ==
  \/ \E c \in 0 .. MaxMsgs : Write(c)
  \/ \E k \in 1 .. MaxMsgs : Clear(k)
  \/ \E r \in Readers : (\E id \in Ids : Read(r, id)) \/ SeekFirst(r) \/ Restart(r)

Spec == Init /\ [][Next]_vars

\* Readers keep calling LB_read; nothing is assumed of the writer.
FairSpec == Spec /\ \A r \in Readers : WF_vars(Read(r, "LB_NEXT"))

--------------------------------------------------------------------------------

TypeOK ==
  /\ HeaderTypeOK
  /\ read_cnt \in 0 .. NReaders
  /\ rd \in [Readers -> [rpt : 0 .. PtrRange - 1, rpage : Int,
                         rpt_incd : -1 .. PtrRange - 1]]
  /\ passed \in [Readers -> Start .. Start + MaxWritten]
  /\ emptied \in BOOLEAN /\ astray \in BOOLEAN
  /\ clears \in 0 .. MaxClears

\* How many readers have read message m.
ReadBy(m) == Cardinality({r \in Readers : passed[r] > m})

\* Message m need not be kept: enough readers have read it or, with NReaders = 0,
\* it or a later one has been read.
Released(m) == ReadBy(m) >= (IF NReaders = 0 THEN 1 ELSE NReaders)

(***************************************************************************)
(* lb.3, LB_MUST_READ: "a message will not subject to expiration if this    *)
(* message and all messages after it have never been read"; with n_readers  *)
(* set, "any newly written message will not be expired unless it is read by *)
(* at least n_readers readers". LB_write does not always keep this: a full  *)
(* LB that makes room for a message loses one that nobody asked about.      *)
(***************************************************************************)
UnreadKept ==
  [][written' > written => \A m \in First .. First' - 1 : Released(m)]_vars

LosesByOverrun ==
  written' > written => \A m \in First .. First' - 1 : Released(m) \/ Overrun(m)

(***************************************************************************)
(* That one message, and no other that is not released, is what an LB_write *)
(* can cost, through clears, seeks, restarts and the wrap of the pointer.   *)
(* The promise ends with the first LB_read that finds its message expired   *)
(* and the LB empty (it moves ptr_read past the message to be written next) *)
(* or once ptr_read has gone astray.                                        *)
(***************************************************************************)
UnreadLostByOverrun == [][~emptied /\ ~astray => LosesByOverrun]_vars

(***************************************************************************)
(* The other side, with NReaders = 0: LB_write fails with LB_FULL only      *)
(* because one of the messages that would expire has not been read, after   *)
(* clears, seeks and restarts. Otherwise a buffer could fill up for good.   *)
(***************************************************************************)
FullOnlyIfUnread ==
  \A c \in 0 .. num.n :
    ~astray /\ ~Room(c) => \E m \in First .. First + c : m < written /\ ~Released(m)

(***************************************************************************)
(* With several readers ptr_read lags up to Half - 1 messages behind what   *)
(* all have read. As long as every reader keeps calling LB_read, also while *)
(* it has caught up and gets LB_TO_COME, a message that can spare the last  *)
(* Half - 1 messages finds room in the end.                                 *)
(***************************************************************************)
WriterProceeds == \A c \in 0 .. MaxMsgs : []<>(c > num.n - Half + 1 \/ Room(c))
================================================================================
