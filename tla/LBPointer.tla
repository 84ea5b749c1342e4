------------------------------- MODULE LBPointer -------------------------------
(***************************************************************************)
(* Message pointers of a linear buffer (LB), as lb_common.c computes them.  *)
(*                                                                         *)
(* A message is named by a pointer in 0 .. PtrRange - 1 and a page number.  *)
(* The pointer falls back to 0 after PtrRange - 1; the page number counts   *)
(* how many multiples of PageSize have been passed since the LB was made.   *)
(* The header word hd->num_pt packs the number of available messages and    *)
(* the pointer of the next message and is written atomically; it is the     *)
(* record [n, p] here. hd->ptr_page is a word of its own.                   *)
(***************************************************************************)
EXTENDS Integers

CONSTANTS
  MaxMsgs,   \* lb->maxn_msgs: the largest number of available messages
  NSlots,    \* lb->n_slots: slots of the message directory
  PageSize   \* lb->page_size: a multiple of NSlots

\* Get_sizes adds four slots to the directory; Initialize_lb_struct makes a
\* page a whole number of directories.
ASSUME PointerAssumption ==
  /\ MaxMsgs \in Nat \ {0}
  /\ NSlots = MaxMsgs + 4
  /\ PageSize \in Nat \ {0}
  /\ PageSize % NSlots = 0

NPages == 4

\* lb->ptr_range
PtrRange == NPages * PageSize

\* A message is numbered from 0 in the order of publication; this is how the
\* number is split into the pointer and the page a reader holds.
PtrOf(m) == m % PtrRange
PageOf(m) == m \div PageSize

NumPt == [n : 0 .. MaxMsgs, p : 0 .. PtrRange - 1]

Verdicts == {"ok", "expired", "toCome"}

(***************************************************************************)
(* The page of pointer ptr, given a page number that may be one off because *)
(* it was not read together with the pointer.                              *)
(***************************************************************************)
CorrectedPage(ptr, ref) ==
  LET nc == ((ptr \div PageSize) - (ref % NPages) + NPages) % NPages
  IN  IF nc = 3 THEN ref - 1 ELSE ref + nc

\* The message inc places after (before, when negative) the one at pt, page.
ComputePointer(pt, page, inc) ==
  LET fwd == inc - (PageSize - (pt % PageSize))
      bwd == -inc - (pt % PageSize) - 1
  IN  [pt   |-> (pt + inc) % PtrRange,
       page |-> IF inc >= 0
                THEN IF fwd >= 0 THEN page + 1 + (fwd \div PageSize) ELSE page
                ELSE IF bwd >= 0 THEN page - 1 - (bwd \div PageSize) ELSE page]

(***************************************************************************)
(* Whether (num.p - num.n .. num.p - 1), taken modulo the pointer range,    *)
(* contains ptr. The code moves the window up by one range, and a ptr not   *)
(* above its end with it, when the window starts below 0.                   *)
(***************************************************************************)
InWindow(num, ptr) ==
  LET max  == IF num.p = 0 THEN PtrRange - 1 ELSE num.p - 1
      min  == max - num.n + 1
      wrap == min < 0
      up   == IF wrap THEN PtrRange ELSE 0
      q    == IF wrap /\ ptr <= max THEN ptr + PtrRange ELSE ptr
  IN  q <= max + up /\ q >= min + up

\* Mutation: a message four pages back is looked up in the window.
CheckPointerFar(num, hdpage, ptr, page) ==
  LET cur == CorrectedPage(num.p, hdpage)
  IN  IF page > cur \/ (page >= cur /\ ptr >= num.p) THEN "toCome"
      ELSE IF cur - page > 4 THEN "expired"
      ELSE IF InWindow(num, ptr) THEN "ok" ELSE "expired"

\* Mutation: a reader two pages behind is told that its message expired.
CheckPointerNear(num, hdpage, ptr, page) ==
  LET cur == CorrectedPage(num.p, hdpage)
  IN  IF page > cur \/ (page >= cur /\ ptr >= num.p) THEN "toCome"
      ELSE IF cur - page > 1 THEN "expired"
      ELSE IF InWindow(num, ptr) THEN "ok" ELSE "expired"

\* Mutation: the newest message is still to come.
CheckPointerLate(num, hdpage, ptr, page) ==
  LET cur == CorrectedPage(num.p, hdpage)
  IN  IF page > cur \/ (page >= cur /\ ptr >= num.p - 1) THEN "toCome"
      ELSE IF cur - page > 2 THEN "expired"
      ELSE IF InWindow(num, ptr) THEN "ok" ELSE "expired"

\* The status of message (ptr, page) for the header words num and hdpage.
CheckPointer(num, hdpage, ptr, page) ==
  LET cur == CorrectedPage(num.p, hdpage)
  IN  IF page > cur \/ (page >= cur /\ ptr >= num.p) THEN "toCome"
      ELSE IF cur - page > 2 THEN "expired"
      ELSE IF InWindow(num, ptr) THEN "ok" ELSE "expired"

\* 1, 0 or -1 as message pt1 is after, is, or is before message pt2.
PtrCompare(pt1, pt2) ==
  LET near == (IF pt1 > pt2 THEN pt1 - pt2 ELSE pt2 - pt1) < 2 * MaxMsgs
  IN  IF pt1 = pt2 THEN 0
      ELSE IF near = (pt1 > pt2) THEN 1 ELSE -1

\* Mutation: the pointer does not fall back to 0.
NextPtrUnwrapped(num) == num.p + 1

\* Mutation: the stored page is taken as it is, also after a crash.
UpdatedPageUncorrected(num, hdpage) ==
  IF (num.p + 1) % PageSize = 0 THEN hdpage + 1 ELSE hdpage

(***************************************************************************)
(* LB_Update_pointer, in the two stores it makes: the page first, then the  *)
(* packed word. Adding a message (add = 1) moves the pointer; removing only *)
(* lowers the count.                                                        *)
(***************************************************************************)
NextPtr(num) == (num.p + 1) % PtrRange

UpdatedPage(num, hdpage) ==
  LET cur == CorrectedPage(num.p, hdpage)
  IN  IF NextPtr(num) % PageSize = 0 THEN cur + 1 ELSE cur

UpdatedNum(num, add, rm) ==
  LET k == num.n + add - rm
  IN  [n |-> IF k < 0 THEN 0 ELSE IF k > MaxMsgs THEN MaxMsgs ELSE k,
       p |-> IF add = 0 THEN num.p ELSE NextPtr(num)]

(***************************************************************************)
(* The number of messages that LB_write removes when it publishes one more. *)
(* The code counts them before it makes room for the message, and does not  *)
(* count again: a full LB loses one message more than those that made room. *)
(***************************************************************************)
Surplus(num) == IF num.n + 1 > MaxMsgs THEN num.n + 1 - MaxMsgs ELSE 0

\* The directory slot of a message.
Slot(pt) == pt % NSlots

\* The pointer before pt.
PrevPtr(pt) == IF pt = 0 THEN PtrRange - 1 ELSE pt - 1
================================================================================
