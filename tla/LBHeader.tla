-------------------------------- MODULE LBHeader -------------------------------
(***************************************************************************)
(* The two header words of a linear buffer that tell its readers which      *)
(* messages are available: hd->num_pt and hd->ptr_page, as LB_write and     *)
(* LB_clear update them under the LB's exclusive lock. LB_Update_pointer    *)
(* stores the page and then the packed word, and the process may die in     *)
(* between. No reader changes these words.                                  *)
(***************************************************************************)
EXTENDS LBPointer

VARIABLES
  num,      \* hd->num_pt
  page,     \* hd->ptr_page
  step,     \* what the writer does next, "idle" when nobody writes
  n_rm,     \* messages the writer will remove when it publishes its own
  written   \* messages published since the LB was created (history)

vars == <<num, page, step, n_rm, written>>

\* Create_lb
Init ==
  /\ num = [n |-> 0, p |-> 0]
  /\ page = 0
  /\ step = "idle"
  /\ n_rm = 0
  /\ written = 0

\* LB_write counts the messages to remove, then expires c to make room.
BeginWrite(c) ==
  /\ step = "idle"
  /\ c \in 0 .. num.n
  /\ n_rm' = Surplus(num)
  /\ num' = UpdatedNum(num, 0, c)
  /\ step' = "page"
  /\ UNCHANGED <<page, written>>

\* First store of LB_Update_pointer (lb, 1, n_rm).
StorePage ==
  /\ step = "page"
  /\ page' = UpdatedPage(num, page)
  /\ step' = "num"
  /\ UNCHANGED <<num, n_rm, written>>

\* Second store: the new message is published and n_rm expire, itself among
\* them when all the others made room for it.
StoreNum ==
  /\ step = "num"
  /\ num' = UpdatedNum(num, 1, n_rm)
  /\ n_rm' = 0
  /\ written' = written + 1
  /\ step' = "idle"
  /\ UNCHANGED page

\* LB_clear: LB_Update_pointer (lb, 0, k).
Clear(k) ==
  /\ step = "idle"
  /\ k \in 1 .. num.n
  /\ num' = UpdatedNum(num, 0, k)
  /\ UNCHANGED <<page, step, n_rm, written>>

\* The writer dies; the next one starts over.
Crash ==
  /\ step # "idle"
  /\ step' = "idle"
  /\ n_rm' = 0
  /\ UNCHANGED <<num, page, written>>

Next ==
  \/ \E c \in 0 .. MaxMsgs : BeginWrite(c)
  \/ StorePage
  \/ StoreNum
  \/ \E k \in 1 .. MaxMsgs : Clear(k)
  \/ Crash

Spec == Init /\ [][Next]_vars

TypeOK ==
  /\ num \in NumPt
  /\ page \in Nat
  /\ step \in {"idle", "page", "num"}
  /\ n_rm \in 0 .. 1
  /\ written \in Nat

--------------------------------------------------------------------------------
\* The messages 0 .. written - 1 were published, the last num.n are available.
TrueVerdict(m) ==
  IF m >= written THEN "toCome"
  ELSE IF m >= written - num.n THEN "ok" ELSE "expired"

(***************************************************************************)
(* The packed word names the next message and the stored page is that of    *)
(* the next message or, from its store on (a crash included), that of the   *)
(* message after it. This is what lets a page read apart from the pointer   *)
(* be corrected, and what the next writer finds after a crash.              *)
(***************************************************************************)
PageAtMostOneAhead ==
  /\ num.p = PtrOf(written)
  /\ num.n <= written
  /\ page \in {PageOf(written), PageOf(written + 1)}
  /\ step = "num" => page = PageOf(written + 1)

(***************************************************************************)
(* lb.doc, design notes: with four pages in the pointer range one can       *)
(* "reliably unfold the pointer (and, thus, reliably detect an expired      *)
(* message)". LB_Check_pointer tells the truth about every message there    *)
(* was, however far the reader has fallen behind, and about those to come   *)
(* within two pointer ranges, whichever side of the page store it looks     *)
(* from.                                                                    *)
(***************************************************************************)
VerdictTrue(m) == CheckPointer(num, page, PtrOf(m), PageOf(m)) = TrueVerdict(m)

CheckPointerTrue == \A m \in 0 .. written + 2 * PtrRange : VerdictTrue(m)

(***************************************************************************)
(* LB_Ptr_compare orders two messages at most MaxMsgs apart, in particular  *)
(* across the wrap of the pointer. LB_MUST_READ and LB_SHARE_STREAM use it  *)
(* to keep unread messages.                                                 *)
(***************************************************************************)
PtrCompareTrue ==
  \A d \in 0 .. MaxMsgs :
    /\ PtrCompare(PtrOf(written + d), PtrOf(written)) = (IF d = 0 THEN 0 ELSE 1)
    /\ PtrCompare(PtrOf(written), PtrOf(written + d)) = (IF d = 0 THEN 0 ELSE -1)

(***************************************************************************)
(* LB_Compute_pointer, from the next message by an increment of either sign *)
(* (LB_seek, LB_Search_msg), yields the pointer and the page of that        *)
(* message, also when it goes below the first message or past a wrap.       *)
(***************************************************************************)
ComputePointerTrue ==
  \A inc \in -2 * PtrRange .. 2 * PtrRange :
    ComputePointer(PtrOf(written), PageOf(written), inc)
      = [pt |-> PtrOf(written + inc), page |-> PageOf(written + inc)]

(***************************************************************************)
(* What readers, seeks and must-read queues compute from the two words is   *)
(* right for every message, in every state a writer can leave them in.      *)
(***************************************************************************)
PointersTrue == CheckPointerTrue /\ PtrCompareTrue /\ ComputePointerTrue
================================================================================
