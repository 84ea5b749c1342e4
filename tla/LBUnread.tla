-------------------------------- MODULE LBUnread -------------------------------
(***************************************************************************)
(* The writer of a linear buffer whose header carries a common read pointer *)
(* hd->ptr_read: LB_MUST_READ and LB_SHARE_STREAM buffers (sequential       *)
(* message area). Every operation on them, the reads included, runs under   *)
(* the LB's exclusive lock, so each is one step here. What the readers do   *)
(* with ptr_read is in LBMustRead and LBShare.                              *)
(***************************************************************************)
EXTENDS LBPointer, FiniteSets

CONSTANTS
  MustRead,     \* lb->flags & LB_MUST_READ
  ShareStream,  \* lb->flags & LB_SHARE_STREAM
  Readers,      \* descriptors that read
  Start,        \* messages written and cleared before the behaviour begins
  MaxWritten    \* bound on the messages written in the behaviour

ASSUME UnreadAssumption ==
  /\ MustRead \in BOOLEAN /\ ShareStream \in BOOLEAN
  /\ IsFiniteSet(Readers)
  /\ Start \in Nat /\ MaxWritten \in Nat

VARIABLES
  num,       \* hd->num_pt
  page,      \* hd->ptr_page
  ptr_read,  \* hd->ptr_read
  written    \* messages published since the LB was created (history)

hdvars == <<num, page, ptr_read, written>>

First == written - num.n

\* The number of the message at ptr_read, which is within half a pointer range
\* of the next message.
ReadNumber ==
  LET ahead == (ptr_read - num.p + PtrRange) % PtrRange
  IN  IF ahead < PtrRange \div 2 THEN written + ahead ELSE written + ahead - PtrRange

\* The pointer of the i-th oldest available message, i from 1.
Oldest(i) == (num.p - num.n - 1 + i + PtrRange) % PtrRange

\* A message the common read pointer has passed may expire.
MayExpire(pt) == ~MustRead \/ PtrCompare(pt, ptr_read) < 0

\* Mutation: the message that a full LB loses is not checked.
RoomOfRemoved(c) == \A i \in 1 .. c : MayExpire(Oldest(i))

(***************************************************************************)
(* Get_sequential_free_space, for a message that fits once the c oldest are *)
(* gone. A full LB also loses its oldest message when the new one is        *)
(* published, so that one is checked although it is not removed here.       *)
(***************************************************************************)
Room(c) ==
  \A i \in 1 .. (IF num.n - c = MaxMsgs THEN c + 1 ELSE c) : MayExpire(Oldest(i))

\* Mutation: ptr_read is pulled up past messages that are available.
PulledUpFar(p) ==
  LET pt == (p + PtrRange - (MaxMsgs - 1)) % PtrRange
  IN  IF ShareStream /\ PtrCompare(pt, ptr_read) > 0 THEN pt ELSE ptr_read

\* LB_write of a shared stream keeps ptr_read close to the available messages.
PulledUp(p) ==
  LET exppt == (p + PtrRange - (MaxMsgs + 1)) % PtrRange
  IN  IF ShareStream /\ PtrCompare(exppt, ptr_read) > 0 THEN exppt ELSE ptr_read

(***************************************************************************)
(* LB_write of a message that needs the c oldest messages to expire. When   *)
(* there is no Room (c) it returns LB_FULL and changes nothing. A full LB   *)
(* loses one more message than the c it made room with, the new one itself  *)
(* when those were all.                                                     *)
(***************************************************************************)
WriteMessage(c) ==
  /\ written < Start + MaxWritten
  /\ c \in 0 .. num.n
  /\ Room(c)
  /\ num' = UpdatedNum(UpdatedNum(num, 0, c), 1, Surplus(num))
  /\ page' = UpdatedPage(num, page)
  /\ ptr_read' = PulledUp(NextPtr(num))
  /\ written' = written + 1

\* Message m is the one that a full LB loses besides those that made room.
Overrun(m) == num.n = MaxMsgs /\ First' > First + 1 /\ m = First' - 1

\* LB_clear of the k oldest messages; it asks nobody whether they were read.
ClearMessages(k) ==
  /\ k \in 1 .. num.n
  /\ num' = UpdatedNum(num, 0, k)
  /\ UNCHANGED <<page, ptr_read, written>>

\* After Start messages were written, read and cleared.
HeaderInit ==
  /\ num = [n |-> 0, p |-> Start % PtrRange]
  /\ page = Start \div PageSize
  /\ ptr_read = Start % PtrRange
  /\ written = Start

HeaderTypeOK ==
  /\ num \in NumPt
  /\ page \in Nat
  /\ ptr_read \in 0 .. PtrRange - 1
  /\ written \in Start .. Start + MaxWritten
================================================================================
