-------------------------------- MODULE LBStream -------------------------------
(***************************************************************************)
(* A sequential linear buffer (neither LB_DB nor LB_MUST_READ, message area *)
(* of a fixed size) in shared memory: one writer at a time, which holds the *)
(* LB's exclusive lock, and readers that take no lock. Every load and store *)
(* of shared memory whose order matters is a step of its own; a writer may  *)
(* die between two stores, after which the kernel drops its lock and the    *)
(* next writer continues from what is in memory.                            *)
(***************************************************************************)
EXTENDS LBPointer, Sequences

CONSTANTS
  MaSize,      \* lb->ma_size: units of message area
  Lens,        \* lengths of the messages written
  Readers,     \* descriptors that read
  BufLen,      \* buflen of the readers' LB_read calls
  Start,       \* messages written and cleared before the behaviour begins
  MaxWrites,   \* bound on LB_write calls, those that die included
  MaxLead      \* bound on messages published during one call of a reader

\* The pointer range can be unfolded only while a reader's loads of the packed
\* word and of the page are less than a page of messages apart (a page is of
\* the order of 2^15 messages): "In normal use, nc ... can never be 2".
ASSUME StreamAssumption ==
  /\ MaSize \in Nat \ {0}
  /\ Lens \subseteq 1 .. MaSize
  /\ BufLen \in Nat \ {0}
  /\ Start \in Nat
  /\ MaxWrites \in Nat
  /\ MaxLead \in 0 .. PageSize - 1

VARIABLES
  num,     \* hd->num_pt
  page,    \* hd->ptr_page
  dir,     \* lb->dir: slot -> [loc, id]; loc is where the message ends
  area,    \* the message area: unit -> <<message, index>> last stored there
  wr,      \* the call in progress on the writer side
  rd,      \* reader -> its descriptor and the call in progress
  log,     \* messages published (history)
  writes   \* LB_write calls so far; also the identity of a message's content

vars == <<num, page, dir, area, wr, rd, log, writes>>

wvars == <<num, page, dir, area, wr, log, writes>>

--------------------------------------------------------------------------------
(* The writer *)

NoWrite == [pc |-> "idle", len |-> 0, loc |-> 0, k |-> 0, rm |-> 0]

Written == Start + Len(log)

First == Written - num.n

\* Length of the message that ends in the directory slot of pt.
DirLen(pt) ==
  LET d == dir[Slot(pt)].loc - dir[Slot(PrevPtr(pt))].loc
  IN  IF d <= 0 THEN d + MaSize ELSE d

\* The pointer of the i-th oldest available message, i from 1.
Oldest(i) == (num.p - num.n - 1 + i + PtrRange) % PtrRange

\* Where the newest message ends; an empty LB restarts at offset 0.
FreeLoc == IF num.n = 0 THEN 0 ELSE dir[Slot(PrevPtr(num.p))].loc

\* Free units before anything is expired.
FreeSize ==
  LET d == dir[Slot(PrevPtr(Oldest(1)))].loc - FreeLoc
  IN  IF num.n = 0 THEN MaSize ELSE d % MaSize

\* Free units once the c oldest messages are expired.
FreeAfter[c \in 0 .. MaxMsgs] ==
  IF c = 0 THEN FreeSize ELSE FreeAfter[c - 1] + DirLen(Oldest(c))

\* Mutation: one unit too few is made free.
BeginWriteTight(len) ==
  /\ wr = NoWrite
  /\ writes < MaxWrites
  /\ \E c \in 0 .. num.n :
       /\ FreeAfter[c] + 1 >= len
       /\ \A b \in 0 .. c - 1 : FreeAfter[b] + 1 < len
       /\ num' = IF c > 0 THEN UpdatedNum(num, 0, c) ELSE num
  /\ dir' = IF num.n = 0 THEN [dir EXCEPT ![Slot(PrevPtr(num.p))].loc = 0] ELSE dir
  /\ wr' = [pc |-> "body", len |-> len, loc |-> FreeLoc, k |-> 0,
          rm |-> Surplus(num)]
  /\ writes' = writes + 1
  /\ UNCHANGED <<page, area, rd, log>>

(***************************************************************************)
(* LB_write, up to the body: it counts the messages that the new one pushes *)
(* out (wr.rm), then Get_sequential_free_space finds where the free space   *)
(* begins and expires as few of the oldest messages as leave room for len   *)
(* units. On an empty LB it also resets the previous slot.                  *)
(***************************************************************************)
BeginWrite(len) ==
  /\ wr = NoWrite
  /\ writes < MaxWrites
  /\ \E c \in 0 .. num.n :
       /\ FreeAfter[c] >= len
       /\ \A b \in 0 .. c - 1 : FreeAfter[b] < len
       /\ num' = IF c > 0 THEN UpdatedNum(num, 0, c) ELSE num
  /\ dir' = IF num.n = 0 THEN [dir EXCEPT ![Slot(PrevPtr(num.p))].loc = 0] ELSE dir
  /\ wr' = [pc |-> "body", len |-> len, loc |-> FreeLoc, k |-> 0,
          rm |-> Surplus(num)]
  /\ writes' = writes + 1
  /\ UNCHANGED <<page, area, rd, log>>

\* Write_msg_body, one unit at a time, around the end of the area.
StoreUnit ==
  /\ wr.pc = "body"
  /\ area' = [area EXCEPT ![(wr.loc + wr.k) % MaSize] = <<writes, wr.k>>]
  /\ wr' = [wr EXCEPT !.k = @ + 1, !.pc = IF wr.k + 1 = wr.len THEN "slot" ELSE "body"]
  /\ UNCHANGED <<num, page, dir, rd, log, writes>>

\* Mutation: the end of the message is not taken around the end of the area.
StoreSlotUnwrapped ==
  /\ wr.pc = "slot"
  /\ dir' = [dir EXCEPT ![Slot(num.p)] = [loc |-> wr.loc + wr.len, id |-> writes]]
  /\ wr' = [wr EXCEPT !.pc = "page"]
  /\ UNCHANGED <<num, page, area, rd, log, writes>>

\* The new message's directory slot.
StoreSlot ==
  /\ wr.pc = "slot"
  /\ dir' = [dir EXCEPT ![Slot(num.p)] =
               [loc |-> (wr.loc + wr.len) % MaSize, id |-> writes]]
  /\ wr' = [wr EXCEPT !.pc = "page"]
  /\ UNCHANGED <<num, page, area, rd, log, writes>>

StorePage ==
  /\ wr.pc = "page"
  /\ page' = UpdatedPage(num, page)
  /\ wr' = [wr EXCEPT !.pc = "num"]
  /\ UNCHANGED <<num, dir, area, rd, log, writes>>

\* No reader may be overtaken by a page of messages within one call.
NotOvertaken == \A r \in Readers : rd[r].pc = "idle" \/ Written - rd[r].published < MaxLead

\* The message becomes available and those counted before room was made for it
\* expire; LB_Unlock_return frees the lock.
StoreNum ==
  /\ wr.pc = "num"
  /\ NotOvertaken
  /\ num' = UpdatedNum(num, 1, wr.rm)
  /\ log' = Append(log, [id |-> writes, len |-> wr.len])
  /\ wr' = NoWrite
  /\ UNCHANGED <<page, dir, area, rd, writes>>

\* LB_clear of the k oldest messages.
Clear(k) ==
  /\ wr = NoWrite
  /\ k \in 1 .. num.n
  /\ num' = UpdatedNum(num, 0, k)
  /\ UNCHANGED <<page, dir, area, wr, rd, log, writes>>

\* The writer dies inside LB_write; what it stored stays.
Crash ==
  /\ wr # NoWrite
  /\ wr' = NoWrite
  /\ UNCHANGED <<num, page, dir, area, rd, log, writes>>

Write ==
  \/ \E len \in Lens : BeginWrite(len)
  \/ StoreUnit \/ StoreSlot \/ StorePage \/ StoreNum

--------------------------------------------------------------------------------
(* The readers *)

NoAnswer == [kind |-> "none"]

\* A descriptor between calls. rpt and rpage are lb->rpt and lb->rpage; m is
\* the number of the message they stand for (history).
AtRest(rpt, rpage, m, answer) ==
  [pc |-> "idle", rpt |-> rpt, rpage |-> rpage, m |-> m, answer |-> answer,
   num0 |-> [n |-> 0, p |-> 0], cnum |-> [n |-> 0, p |-> 0],
   id |-> 0, loc |-> 0, len |-> 0, buf |-> <<>>, published |-> 0, expired |-> 0]

Set(r, rec) == rd' = [rd EXCEPT ![r] = rec] /\ UNCHANGED wvars

\* LB_read (LB_NEXT), to the first load of num_pt.
BeginRead(r) ==
  /\ rd[r].pc = "idle"
  /\ Set(r, [rd[r] EXCEPT !.pc = "num1", !.num0 = num, !.answer = NoAnswer,
                          !.published = Written, !.expired = First])

\* LB_Check_pointer loads num_pt ...
LoadNum(r) ==
  /\ rd[r].pc \in {"num1", "num2", "num3"}
  /\ Set(r, [rd[r] EXCEPT !.cnum = num,
       !.pc = CASE @ = "num1" -> "page1" [] @ = "num2" -> "page2" [] OTHER -> "page3"])

\* Mutation: LB_TO_COME moves the read pointer too.
EndReadAlways(r, answer) ==
  LET rpt == (rd[r].rpt + 1) % PtrRange
  IN  Set(r, AtRest(rpt, CorrectedPage(rpt, rd[r].rpage), rd[r].m + 1, answer))

\* Mutation: LB_EXPIRED does not move the read pointer.
EndReadStays(r, answer) ==
  LET rpt == (rd[r].rpt + 1) % PtrRange
  IN  Set(r, IF answer.kind \in {"toCome", "expired"}
             THEN AtRest(rd[r].rpt, rd[r].rpage, rd[r].m, answer)
             ELSE AtRest(rpt, CorrectedPage(rpt, rd[r].rpage), rd[r].m + 1, answer))

\* Lb_read_internal moves the read pointer on, except on LB_TO_COME.
EndRead(r, answer) ==
  LET rpt == (rd[r].rpt + 1) % PtrRange
  IN  Set(r, IF answer.kind = "toCome"
             THEN AtRest(rd[r].rpt, rd[r].rpage, rd[r].m, answer)
             ELSE AtRest(rpt, CorrectedPage(rpt, rd[r].rpage), rd[r].m + 1, answer))

\* The units copied, and the id and length that came with them.
Message(r) ==
  [kind |-> IF rd[r].len > BufLen THEN "cut" ELSE "message",
   id |-> rd[r].id, len |-> rd[r].len, buf |-> rd[r].buf]

\* ... and then the page, and decides.
LoadPage(r) ==
  LET verdict == CheckPointer(rd[r].cnum, page, rd[r].rpt, rd[r].rpage)
  IN  \/ /\ rd[r].pc = "page1"
         /\ IF verdict = "ok" THEN Set(r, [rd[r] EXCEPT !.pc = "prev"])
            ELSE EndRead(r, [kind |-> verdict])
      \/ /\ rd[r].pc = "page2"
         /\ IF verdict = "ok" THEN Set(r, [rd[r] EXCEPT !.pc = "body"])
            ELSE EndRead(r, [kind |-> "expired"])
      \/ /\ rd[r].pc = "page3"
         /\ EndRead(r, IF verdict = "ok" THEN Message(r) ELSE [kind |-> "expired"])

\* LB_Get_message_info: the id and the end of the message before, ...
LoadPrev(r) ==
  /\ rd[r].pc = "prev"
  /\ Set(r, [rd[r] EXCEPT !.pc = "curr", !.id = dir[Slot(rd[r].rpt)].id,
                          !.loc = dir[Slot(PrevPtr(rd[r].rpt))].loc])

\* ... and the end of this one, which give where it starts and its length.
LoadCurr(r) ==
  LET d == dir[Slot(rd[r].rpt)].loc - rd[r].loc
  IN  /\ rd[r].pc = "curr"
      /\ Set(r, [rd[r] EXCEPT !.pc = "same2", !.len = IF d <= 0 THEN d + MaSize ELSE d])

\* Mutation: the message is not checked again after its body was copied.
CheckAgainOnce(r) ==
  \/ /\ rd[r].pc = "same2"
     /\ Set(r, [rd[r] EXCEPT !.pc = IF num = rd[r].num0 THEN "body" ELSE "num2"])
  \/ /\ rd[r].pc = "same3"
     /\ EndRead(r, Message(r))

\* "check again": an unchanged num_pt spares the call of LB_Check_pointer.
CheckAgain(r) ==
  \/ /\ rd[r].pc = "same2"
     /\ Set(r, [rd[r] EXCEPT !.pc = IF num = rd[r].num0 THEN "body" ELSE "num2"])
  \/ /\ rd[r].pc = "same3"
     /\ IF num = rd[r].num0 THEN EndRead(r, Message(r))
        ELSE Set(r, [rd[r] EXCEPT !.pc = "num3"])

\* Read_msg_body, one unit at a time, at most BufLen of them.
LoadUnit(r) ==
  LET k    == Len(rd[r].buf)
      last == k + 1 = rd[r].len \/ k + 1 = BufLen
  IN  /\ rd[r].pc = "body"
      /\ Set(r, [rd[r] EXCEPT !.buf = Append(@, area[(rd[r].loc + k) % MaSize]),
                              !.pc = IF last THEN "same3" ELSE "body"])

\* LB_seek (0, LB_FIRST or LB_LATEST): the packed word, ...
BeginSeek(r) ==
  /\ rd[r].pc = "idle"
  /\ Set(r, [rd[r] EXCEPT !.pc = "seek", !.cnum = num, !.answer = NoAnswer,
                          !.published = Written, !.expired = First])

\* ... then the page, and the new read pointer from both.
EndSeek(r, id) ==
  LET n   == rd[r].cnum.n
      inc == IF n = 0 THEN 0 ELSE IF id = "LB_FIRST" THEN -n ELSE -1
      new == ComputePointer(rd[r].cnum.p, CorrectedPage(rd[r].cnum.p, page), inc)
  IN  /\ rd[r].pc = "seek"
      /\ Set(r, AtRest(new.pt, new.page, rd[r].published + inc, NoAnswer))

Read(r) ==
  \/ BeginRead(r) \/ LoadNum(r) \/ LoadPage(r) \/ LoadPrev(r) \/ LoadCurr(r)
  \/ CheckAgain(r) \/ LoadUnit(r)

SeekCall(r) == BeginSeek(r) \/ \E id \in {"LB_FIRST", "LB_LATEST"} : EndSeek(r, id)

--------------------------------------------------------------------------------

\* An LB whose first Start messages, each as long as the area, were cleared;
\* LB_open sets a read pointer to the next message.
Init ==
  /\ num = [n |-> 0, p |-> Start % PtrRange]
  /\ page = Start \div PageSize
  /\ dir = [s \in 0 .. NSlots - 1 |-> [loc |-> 0, id |-> 0]]
  /\ area = [u \in 0 .. MaSize - 1 |-> <<0, u>>]
  /\ wr = NoWrite
  /\ rd = [r \in Readers |-> AtRest(Start % PtrRange, Start \div PageSize, Start, NoAnswer)]
  /\ log = <<>>
  /\ writes = 0

Next ==
  \/ Write
  \/ \E k \in 1 .. MaxMsgs : Clear(k)
  \/ Crash
  \/ \E r \in Readers : Read(r) \/ SeekCall(r)

Spec == Init /\ [][Next]_vars

(***************************************************************************)
(* Readers keep calling LB_read (LB_NEXT): weak fairness of Read, which is   *)
(* enabled except between the loads of LB_seek. The calls never wait for a  *)
(* writer, so nothing is assumed of the writers: they may stop or die at any *)
(* point.                                                                   *)
(***************************************************************************)
FairSpec ==
  /\ Spec
  /\ \A r \in Readers : []<>(rd[r].pc = "seek") \/ []<><<Read(r)>>_vars

--------------------------------------------------------------------------------

Unit == (0 .. MaxWrites) \X (0 .. MaSize - 1)

TypeOK ==
  /\ num \in NumPt
  /\ page \in Nat
  /\ dir \in [0 .. NSlots - 1 -> [loc : 0 .. MaSize - 1, id : 0 .. MaxWrites]]
  /\ area \in [0 .. MaSize - 1 -> Unit]
  /\ wr \in [pc : {"idle", "body", "slot", "page", "num"}, len : 0 .. MaSize,
             loc : 0 .. MaSize - 1, k : 0 .. MaSize, rm : 0 .. 1]
  /\ rd \in [Readers ->
       [pc : {"idle", "num1", "page1", "prev", "curr", "same2", "num2", "page2",
              "body", "same3", "num3", "page3", "seek"},
        rpt : 0 .. PtrRange - 1, rpage : Int, m : Int,
        answer : [kind : {"none", "expired", "toCome"}]
                   \cup [kind : {"message", "cut"}, id : 0 .. MaxWrites,
                         len : 0 .. MaSize, buf : Seq(Unit)],
        num0 : NumPt, cnum : NumPt, id : 0 .. MaxWrites, loc : 0 .. MaSize - 1,
        len : 0 .. MaSize, buf : Seq(Unit), published : Nat, expired : Int]]
  /\ log \in Seq([id : 1 .. MaxWrites, len : Lens])
  /\ writes \in 0 .. MaxWrites

\* The published message of number m.
Published(m) == log[m - Start + 1]

\* The first n units of a message.
Content(msg, n) == [i \in 1 .. n |-> <<msg.id, i - 1>>]

(***************************************************************************)
(* Every available message is whole in the buffer, at any instant: while a  *)
(* writer is filling free space or storing its slot, and after it died      *)
(* doing so. What the directory says of it (the slot before gives its start,*)
(* its own slot its end and id) finds exactly the units written.            *)
(***************************************************************************)
StoredIntact ==
  \A i \in 1 .. num.n :
    LET pt  == Oldest(i)
        msg == Published(First + i - 1)
    IN  /\ dir[Slot(pt)].id = msg.id
        /\ DirLen(pt) = msg.len
        /\ [k \in 1 .. msg.len |-> area[(dir[Slot(PrevPtr(pt))].loc + k - 1) % MaSize]]
             = Content(msg, msg.len)

(***************************************************************************)
(* lb.doc: "no corrupted messages are ever read". A read that returns data  *)
(* without a lock returns the message its read pointer stood for: its id,   *)
(* its length and its first units, never a mixture with a later message.    *)
(***************************************************************************)
ReadsFaithful ==
  \A r \in Readers :
    rd[r].answer.kind \in {"message", "cut"} =>
      LET a   == rd[r].answer
          msg == Published(rd[r].m - 1)
      IN  /\ rd[r].m - 1 \in Start .. Written - 1
          /\ a.id = msg.id /\ a.len = msg.len
          /\ a.buf = Content(msg, IF msg.len > BufLen THEN BufLen ELSE msg.len)

(***************************************************************************)
(* Every answer is the one LBQueue allows: data only of a message that had  *)
(* not expired when the call began, LB_EXPIRED only for a message that has  *)
(* expired, LB_TO_COME only for one not published when the call began.      *)
(***************************************************************************)
Queue == INSTANCE LBQueue WITH
  Messages <- [id : 1 .. MaxWrites, len : Lens],
  log    <- log,
  first  <- First - Start,
  cursor <- [r \in Readers |-> rd[r].m - Start],
  asked  <- [r \in Readers |->
               IF rd[r].pc = "idle" THEN [reading |-> FALSE, published |-> 0, expired |-> 0]
               ELSE [reading |-> TRUE, published |-> rd[r].published - Start,
                     expired |-> rd[r].expired - Start]],
  answer <- [r \in Readers |->
               LET a == rd[r].answer
               IN  IF a.kind \in {"message", "cut"}
                   THEN [kind |-> a.kind, msg |-> [id |-> a.id, len |-> a.len]]
                   ELSE [kind |-> a.kind]]

ImplementsQueue == Queue!Spec

(***************************************************************************)
(* A reader that keeps reading, and seeks no more, catches up with what is  *)
(* published whenever writers pause (MaxWrites bounds their number), also   *)
(* when they died in the middle of LB_write.                                *)
(***************************************************************************)
ReaderCatchesUp ==
  \A r \in Readers :
    <>[](rd[r].pc # "seek") => []<>(rd[r].m >= Written)
================================================================================
