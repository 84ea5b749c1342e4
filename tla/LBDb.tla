-------------------------------- MODULE LBDb --------------------------------
(***************************************************************************)
(* A message database (LB_DB): messages are updated in place and deleted   *)
(* by id, and readers take no lock.  Each directory slot counts the        *)
(* updates of its message (ucnt) and has two message infos; an update goes *)
(* to the one not in use, in newly allocated space, and ucnt makes it      *)
(* current.  The free space is kept in a table in the file; sms_ok tells   *)
(* whether it can be trusted, or must be made again from the directory.    *)
(*                                                                         *)
(* Message pointers count from 0 here: LBPointer has their arithmetic, and *)
(* LBHeader the two words of the header.  A message body is a sequence of  *)
(* units; notification and locking are in LBNotify.                        *)
(***************************************************************************)
EXTENDS Integers, Sequences, FiniteSets, TLC

CONSTANTS
  Readers,
  MaxMsgs,    \* hd->n_msgs
  Area,       \* ma_size, or the bound on the file of an LB of any size
  IdMask,     \* LB_MSG_DB_ID_MASK + 1
  BinaryMin,  \* N_BINARY_SEARCH_MSGS
  UserIds,    \* ids the callers choose; {} when they use LB_ANY
  Lengths,    \* message lengths
  Before,     \* numbers of one-unit messages there may be at the start
  MaxCalls, MaxClears, MaxFaults, \* bounds on the calls and the failures
  MaxLead     \* bound on the messages added during one read

\* A slot is used again when as many messages were added as there are slots,
\* four more than messages.  N_BINARY_SEARCH_MSGS is 8: the search needs an
\* interval to halve.  MAXN_MSGS (0x7ffb) is less than LB_MSG_DB_ID_MASK.
ASSUME DbAssumption ==
  /\ {MaxMsgs, Area, IdMask} \subseteq Nat \ {0} /\ MaxMsgs < 2 * IdMask
  /\ BinaryMin \in Nat \ {0, 1} /\ MaxLead \in 0 .. 3
  /\ UserIds \subseteq 1 .. IdMask - 1 /\ Lengths \subseteq 0 .. Area
  /\ Before \subseteq 0 .. MaxMsgs /\ \A n \in Before : n <= Area
  /\ {MaxCalls, MaxClears, MaxFaults} \subseteq Nat

VARIABLES
  first, next,     \* hd->num_pt: the oldest available message, the next one
  dir,             \* slot -> id, ucnt (LB_dir.loc) and the two message infos
  by_user, deleted, non_dec,    \* hd->miscflags, hd->non_dec_id
  sms_ok, total, free,          \* the table: space it knows, what is free in it
  size, unit,      \* the message area of the file, and its contents
  w,               \* the call of the writer that holds the lock
  rd,              \* the LB_read of each reader
  calls, clears, faults         \* bounds

header == <<first, next, by_user, deleted, non_dec>>
table == <<sms_ok, total, free>>
bounds == <<calls, clears, faults>>
vars == <<header, dir, table, size, unit, w, rd, bounds>>

NSlots == MaxMsgs + 4
Slot(pt) == pt % NSlots
Window == first .. next - 1
MaxId == 2 * IdMask - 1
None == [n |-> 0, len |-> -1]     \* no value
Info(len, loc, val) == [len |-> len, loc |-> loc, val |-> val]
Idle == [pc |-> "idle"]
NoRead == [pc |-> "idle", id |-> 0, pt |-> 0, num |-> <<0, 0>>, ucnt |-> 0,
           want |-> None, loc |-> 0, len |-> 0, got |-> <<>>]

\* The current info of a message; .val is history, the LB_write that made it.
Current(pt) == dir[Slot(pt)].info[dir[Slot(pt)].ucnt % 2]

\* The units of a body of length len at loc, and those of the current messages.
Span(loc, len) == loc .. loc + len - 1
Live == UNION {Span(Current(pt).loc, Current(pt).len) : pt \in Window}

-----------------------------------------------------------------------------
(* LB_Search_msg.                                                          *)

Masked(id) == IF by_user THEN id ELSE id % IdMask

\* One halving of the interval i of messages, of which f knows the rest.
Halve(id, f, i) ==
  LET mid == (i[1] + i[2]) \div 2
  IN IF mid <= i[1] THEN i[2]
     ELSE IF Masked(id) >= Masked(dir[Slot(mid)].id) THEN f[<<mid, i[2]>>]
     ELSE f[<<i[1], mid>>]

\* The end of the last interval, of two messages: the first whose masked id is
\* above id's, or the last.
Bisect(id, st, end) ==
  LET f[i \in Nat \X Nat] == Halve(id, f, i) IN f[<<st, end>>]

\* The messages that are compared with id, the latest of which is returned.
Candidates(id) ==
  IF next - first >= BinaryMin /\ non_dec
    THEN LET e == Bisect(id, first, next - 1) IN {e - 1, e}
    ELSE Window

Found(id) == {pt \in Candidates(id) : dir[Slot(pt)].id = id}
Latest(S) == CHOOSE pt \in S : \A o \in S : o <= pt

-----------------------------------------------------------------------------
(* lb_sms.c: the table of free space.                                      *)

\* Sm_generate_table: what the table is when it is made from the directory;
\* Check_table makes it if sms_ok is not set.
Table == IF sms_ok THEN [total |-> total, free |-> free]
                   ELSE [total |-> size, free |-> (0 .. size - 1) \ Live]

\* The free segments: the longest runs of free units.
Segments(F) ==
  {s \in F \X (1 .. Area) : /\ Span(s[1], s[2]) \subseteq F
                            /\ s[1] - 1 \notin F /\ s[1] + s[2] \notin F}

\* Get_random_free_space: the start of a smallest segment that is long enough,
\* or the end of the space, which grows; {} is LB_FULL.
FreeSpace(len) ==
  LET fit == {s \in Segments(Table.free) : s[2] >= len}
      best == {s \in fit : \A o \in fit : s[2] <= o[2]}
  IN IF fit # {} THEN {s[1] : s \in best}
     ELSE IF Table.total + len <= Area THEN {Table.total} ELSE {}

\* The table after len units at loc were taken: sms_ok is not reset when the
\* space has grown.
Take(loc, len) ==
  /\ sms_ok' = (loc \notin Table.free)
  /\ free' = Table.free \ Span(loc, len)
  /\ total' = IF loc \in Table.free THEN Table.total ELSE Table.total + len

-----------------------------------------------------------------------------
(* LB_write and LB_delete, one step for each store a reader or a death can *)
(* tell from the next.                                                     *)

Call(id, len, pt, kind, loc) ==
  w' = [pc |-> IF len > 0 THEN "body" ELSE "info", id |-> id, len |-> len,
        pt |-> pt, kind |-> kind, loc |-> loc, k |-> 0,
        old |-> IF kind = "replace" THEN Current(pt) ELSE Info(-1, 0, None),
        val |-> [n |-> calls + 1, len |-> len]]

\* The space for the message, or LB_FULL with the table checked.
Allocate(id, len, pt, kind) ==
  IF len <= 0 THEN Call(id, len, pt, kind, 0) /\ UNCHANGED table
  ELSE \/ \E loc \in FreeSpace(len) : Call(id, len, pt, kind, loc) /\ Take(loc, len)
       \/ /\ FreeSpace(len) = {}
          /\ sms_ok' = TRUE /\ free' = Table.free /\ total' = Table.total
          /\ w' = Idle

Begin == w.pc = "idle" /\ calls < MaxCalls /\ calls' = calls + 1

\* Replace_message: the message with the id, unless it is deleted; an LB_delete
\* has len = -1 and needs a database without ids of the callers'.
Replace(id, len) ==
  /\ Begin
  /\ len < 0 => ~by_user
  /\ Found(id) # {} /\ Current(Latest(Found(id))).len >= 0
  /\ Allocate(id, len, Latest(Found(id)), "replace")
  /\ UNCHANGED <<header, dir, size, unit, rd, clears, faults>>

\* Find_replace_msgpt with LB_ANY: a full database reuses a deleted message,
\* which gets a new id with the same masked id at once.
Reuse(len) ==
  /\ Begin
  /\ deleted /\ next - first = MaxMsgs
  /\ \E pt \in {p \in Window : Current(p).len < 0} :
       LET up == dir[Slot(pt)].id + IdMask
           id == IF up > MaxId THEN up % IdMask ELSE up
       IN /\ dir' = [dir EXCEPT ![Slot(pt)].id = id]
          /\ Allocate(id, len, pt, "replace")
  /\ UNCHANGED <<header, size, unit, rd, clears, faults>>

\* The id LB_ANY gives to a message added at the end.
NextId == IF next = first THEN 1 ELSE (dir[Slot(next - 1)].id + 1) % (MaxId + 1)

\* A message is added; id 0 is LB_ANY.
Add(id, len) ==
  /\ Begin
  /\ next - first < MaxMsgs
  /\ id # 0 => Found(id) = {} /\ ~deleted
  /\ IF id = 0 THEN Allocate(NextId, len, next, "any")
               ELSE Allocate(id, len, next, "byUser")
  /\ UNCHANGED <<header, dir, size, unit, rd, clears, faults>>

Goto(pc) == w' = [w EXCEPT !.pc = pc]

\* Write_msg_body; the file grows when it is written past its end.
StoreUnit ==
  /\ w.pc = "body"
  /\ unit' = [unit EXCEPT ![w.loc + w.k] = <<w.val.n, w.k>>]
  /\ size' = IF w.loc + w.k < size THEN size ELSE w.loc + w.k + 1
  /\ w' = [w EXCEPT !.k = @ + 1, !.pc = IF w.k + 1 = w.len THEN "info" ELSE @]
  /\ UNCHANGED <<header, dir, table, rd, bounds>>

\* Mutation: the info in use is overwritten.
StoreInfoInUse ==
  /\ w.pc = "info"
  /\ LET s == Slot(w.pt)
         info == Info(w.len, w.loc, w.val)
     IN dir' = IF w.kind # "replace"
                 THEN [dir EXCEPT ![s].id = w.id, ![s].ucnt = 0,
                                  ![s].info[0] = info]
                 ELSE [dir EXCEPT ![s].info[dir[s].ucnt % 2] = info]
  /\ non_dec' = (non_dec /\ ~(/\ w.kind # "replace" /\ first < w.pt
                              /\ w.id < dir[Slot(w.pt - 1)].id))
  /\ deleted' = (deleted \/ w.len < 0)
  /\ by_user' = (by_user \/ w.kind = "byUser")
  /\ Goto("publish")
  /\ UNCHANGED <<first, next, table, size, unit, rd, bounds>>

\* Mutation: a smaller id than the one before it is not noticed.
StoreInfoOrder ==
  /\ w.pc = "info"
  /\ LET s == Slot(w.pt)
         info == Info(w.len, w.loc, w.val)
     IN dir' = IF w.kind # "replace"
                 THEN [dir EXCEPT ![s].id = w.id, ![s].ucnt = 0,
                                  ![s].info[0] = info]
                 ELSE [dir EXCEPT ![s].info[(dir[s].ucnt + 1) % 2] = info]
  /\ deleted' = (deleted \/ w.len < 0)
  /\ by_user' = (by_user \/ w.kind = "byUser")
  /\ Goto("publish")
  /\ UNCHANGED <<first, next, non_dec, table, size, unit, rd, bounds>>

\* The info that is not in use, or the slot of a new message.
StoreInfo ==
  /\ w.pc = "info"
  /\ LET s == Slot(w.pt)
         info == Info(w.len, w.loc, w.val)
     IN dir' = IF w.kind # "replace"
                 THEN [dir EXCEPT ![s].id = w.id, ![s].ucnt = 0,
                                  ![s].info[0] = info]
                 ELSE [dir EXCEPT ![s].info[(dir[s].ucnt + 1) % 2] = info]
  /\ non_dec' = (non_dec /\ ~(/\ w.kind # "replace" /\ first < w.pt
                              /\ w.id < dir[Slot(w.pt - 1)].id))
  /\ deleted' = (deleted \/ w.len < 0)
  /\ by_user' = (by_user \/ w.kind = "byUser")
  /\ Goto("publish")
  /\ UNCHANGED <<first, next, table, size, unit, rd, bounds>>

\* No reader may be overtaken by more than MaxLead messages within one read.
Reading == {"ucnt", "loc", "len", "same", "expired", "body", "still", "last"}
NotOvertaken == \A r \in Readers : rd[r].pc \in Reading => next - rd[r].num[2] < MaxLead

\* The new ucnt, or the new num_pt, makes the message current.
Publish ==
  /\ w.pc = "publish"
  /\ IF w.kind # "replace"
       THEN NotOvertaken /\ next' = next + 1 /\ UNCHANGED dir
       ELSE dir' = [dir EXCEPT ![Slot(w.pt)].ucnt = @ + 1]
            /\ UNCHANGED next
  /\ Goto("table")
  /\ UNCHANGED <<first, by_user, deleted, non_dec, table, size, unit, rd, bounds>>

TableOk ==
  /\ w.pc = "table"
  /\ sms_ok' = (sms_ok \/ w.len > 0)
  /\ IF w.old.len > 0 THEN Goto("free") ELSE w' = Idle
  /\ UNCHANGED <<header, dir, total, free, size, unit, rd, bounds>>

\* LB_sms_free_space: a table made here has the old space free already.  The
\* table is not right until it is marked so.
Free ==
  /\ w.pc = "free"
  /\ IF sms_ok THEN sms_ok' = FALSE /\ Goto("freed") /\ UNCHANGED <<total, free>>
               ELSE /\ sms_ok' = TRUE /\ total' = Table.total /\ free' = Table.free
                    /\ w' = Idle
  /\ UNCHANGED <<header, dir, size, unit, rd, bounds>>

\* Space that is free already, or beyond the end, is an error.
Freed ==
  /\ w.pc = "freed"
  /\ IF Span(w.old.loc, w.old.len) \subseteq (0 .. total - 1) \ free
       THEN free' = free \cup Span(w.old.loc, w.old.len) /\ sms_ok' = TRUE
       ELSE UNCHANGED <<sms_ok, free>>
  /\ w' = Idle
  /\ UNCHANGED <<header, dir, total, size, unit, rd, bounds>>

\* The writer dies, or Write_msg_body or LB_process_nr fails and LB_write
\* returns: in both cases the lock is let go.
Stop ==
  /\ w.pc # "idle" /\ faults < MaxFaults
  /\ faults' = faults + 1
  /\ w' = Idle
  /\ UNCHANGED <<header, dir, table, size, unit, rd, calls, clears>>

\* Mutation: more messages are cleared than there are.
ClearTooMany(k) ==
  /\ w.pc = "idle" /\ clears < MaxClears
  /\ sms_ok' = FALSE
  /\ first' = first + k
  /\ non_dec' = (non_dec \/ k + 1 >= next - first)
  /\ clears' = clears + 1
  /\ UNCHANGED <<next, by_user, deleted, dir, total, free, size, unit, w, rd,
                 calls, faults>>

\* LB_clear.
Clear(k) ==
  /\ w.pc = "idle" /\ clears < MaxClears /\ k <= next - first
  /\ sms_ok' = FALSE
  /\ first' = first + k
  /\ non_dec' = (non_dec \/ k + 1 >= next - first)
  /\ clears' = clears + 1
  /\ UNCHANGED <<next, by_user, deleted, dir, total, free, size, unit, w, rd,
                 calls, faults>>

-----------------------------------------------------------------------------
(* LB_read: LB_read_a_message, repeated while the message is updated.      *)

Reader(r, change) == rd' = [rd EXCEPT ![r] = change]
ReaderSteps == UNCHANGED <<header, dir, table, size, unit, w, bounds>>

\* LB_Search_msg, or LB_NEXT with the read pointer anywhere (id 0).
Find(r, id) ==
  /\ rd[r].pc \in {"idle", "done"}
  /\ \E pt \in IF id = 0 THEN Window ELSE {Latest(S) : S \in {Found(id)} \ {{}}} :
       Reader(r, [NoRead EXCEPT !.pc = "num", !.id = id, !.pt = pt])
  /\ ReaderSteps

\* LB_Check_pointer; an expired message ends the call.
LoadNum(r) ==
  /\ rd[r].pc = "num"
  /\ Reader(r, IF rd[r].pt < first THEN NoRead
               ELSE [rd[r] EXCEPT !.pc = "ucnt", !.num = <<first, next>>])
  /\ ReaderSteps

LoadUcnt(r) ==
  /\ rd[r].pc = "ucnt"
  /\ Reader(r, [rd[r] EXCEPT !.pc = "loc", !.ucnt = dir[Slot(rd[r].pt)].ucnt,
                             !.want = Current(rd[r].pt).val])
  /\ ReaderSteps

LoadLoc(r) ==
  /\ rd[r].pc = "loc"
  /\ Reader(r, [rd[r] EXCEPT !.pc = "len",
                             !.loc = dir[Slot(rd[r].pt)].info[rd[r].ucnt % 2].loc])
  /\ ReaderSteps

LoadLen(r) ==
  /\ rd[r].pc = "len"
  /\ Reader(r, [rd[r] EXCEPT !.pc = "same",
                             !.len = dir[Slot(rd[r].pt)].info[rd[r].ucnt % 2].len])
  /\ ReaderSteps

Same(r) == rd[r].ucnt = dir[Slot(rd[r].pt)].ucnt

\* What is forgotten when the info, or the whole message, is read again.
Again(r) == [NoRead EXCEPT !.pc = "num", !.id = rd[r].id, !.pt = rd[r].pt]
AgainInfo(r) == [Again(r) EXCEPT !.pc = "ucnt", !.num = rd[r].num]

\* What is left of a read when it ends.
Done(r) == [NoRead EXCEPT !.pc = "done", !.len = rd[r].len, !.got = rd[r].got,
                          !.want = rd[r].want]

\* ucnt must be what it was when the info was loaded.
SameInfo(r) ==
  /\ rd[r].pc = "same"
  /\ Reader(r, IF Same(r) THEN [rd[r] EXCEPT !.pc = "expired"] ELSE AgainInfo(r))
  /\ ReaderSteps

\* Mutation: ucnt is not compared again after the body is copied.
SameBodyAlways(r) ==
  /\ rd[r].pc = "last"
  /\ Reader(r, Done(r))
  /\ ReaderSteps

\* The same when the body is copied, and the call is over.
SameBody(r) ==
  /\ rd[r].pc = "last"
  /\ Reader(r, IF Same(r) THEN Done(r) ELSE Again(r))
  /\ ReaderSteps

\* The message must not have expired, before and after its body is copied.
NotExpired(r) ==
  /\ rd[r].pc \in {"expired", "still"}
  /\ Reader(r, IF rd[r].num # <<first, next>> /\ rd[r].pt < first THEN NoRead
               ELSE [rd[r] EXCEPT !.pc = IF @ = "expired" THEN "body" ELSE "last"])
  /\ ReaderSteps

LoadUnit(r) ==
  /\ rd[r].pc = "body"
  /\ LET k == Len(rd[r].got)
     IN Reader(r, IF k >= rd[r].len THEN [rd[r] EXCEPT !.pc = "still"]
                  ELSE [rd[r] EXCEPT !.got = Append(@, unit[rd[r].loc + k])])
  /\ ReaderSteps

-----------------------------------------------------------------------------
\* The database as the LB_write calls before left it: the messages got their
\* ids by LB_ANY.  The table of a file that was just opened may not be right.
Init ==
  /\ first = 0 /\ next \in Before
  /\ dir = [s \in 0 .. NSlots - 1 |->
              [id |-> IF s < next THEN s + 1 ELSE 0, ucnt |-> 0,
               info |-> [i \in 0 .. 1 |->
                 IF s < next /\ i = 0 THEN Info(1, s, [n |-> -s, len |-> 1])
                                     ELSE Info(0, 0, None)]]]
  /\ by_user = FALSE /\ deleted = FALSE /\ non_dec = TRUE
  /\ sms_ok = FALSE /\ total = 0 /\ free = {}
  /\ size \in {next, Area}      \* messages of any size, or of a fixed total
  /\ unit = [u \in 0 .. Area - 1 |-> IF u < next THEN <<-u, 0>> ELSE <<0, 0>>]
  /\ w = Idle
  /\ rd = [r \in Readers |-> NoRead]
  /\ calls = 0 /\ clears = 0 /\ faults = 0

Write ==
  \/ \E len \in Lengths : \/ \E id \in 1 .. MaxId : Replace(id, len)
                          \/ \E id \in UserIds \cup {0} : Add(id, len)
                          \/ Reuse(len)
  \/ \E id \in 1 .. MaxId : Replace(id, -1)
  \/ StoreUnit \/ StoreInfo \/ Publish \/ TableOk \/ Free \/ Freed \/ Stop

Read(r) ==
  \/ \E id \in 0 .. MaxId : Find(r, id)
  \/ LoadNum(r) \/ LoadUcnt(r) \/ LoadLoc(r) \/ LoadLen(r) \/ SameInfo(r)
  \/ SameBody(r) \/ NotExpired(r) \/ LoadUnit(r)

Next ==
  \/ Write \/ \E k \in 1 .. MaxMsgs : Clear(k)
  \/ \E r \in Readers : Read(r)

Spec == Init /\ [][Next]_vars
-----------------------------------------------------------------------------
\* Every variable has the values its comment names.
TypeOK ==
  /\ first \in Nat /\ next \in first .. first + MaxMsgs
  /\ {by_user, deleted, non_dec, sms_ok} \subseteq BOOLEAN
  /\ \A s \in DOMAIN dir : /\ dir[s].id \in 0 .. MaxId /\ dir[s].ucnt \in Nat
                            /\ \A i \in 0 .. 1 : /\ dir[s].info[i].loc \in 0 .. Area
                                                  /\ dir[s].info[i].len \in -1 .. Area
  /\ total \in 0 .. Area /\ size \in 0 .. Area /\ free \subseteq 0 .. Area - 1
  /\ DOMAIN unit = 0 .. Area - 1
  /\ w.pc \in {"idle", "body", "info", "publish", "table", "free", "freed"}
  /\ \A r \in Readers : rd[r].pc \in {"idle", "num", "done"} \cup Reading
  /\ calls \in 0 .. MaxCalls /\ clears \in 0 .. MaxClears /\ faults \in 0 .. MaxFaults

\* A message keeps its body until it is replaced, deleted or cleared.
BodiesIntact ==
  \A pt \in Window : LET m == Current(pt) IN
    /\ m.len = m.val.len
    /\ \A k \in 0 .. m.len - 1 : unit[m.loc + k] = <<m.val.n, k>>

\* A table that is trusted has no space in use as free and, as long as no call
\* fails or dies, forgets no space.
TableTrue ==
  /\ sms_ok => free \cap Live = {}
  /\ w.pc = "idle" /\ sms_ok /\ faults = 0 =>
       total = size /\ free = (0 .. total - 1) \ Live

\* Whatever calls failed or died at whatever step, no space is given to two
\* messages: bodies stay whole, and the table of free space, that was trusted,
\* made again or in the making then, agrees with the directory.
SpaceRight == BodiesIntact /\ TableTrue

\* A read that ends well returns one whole message, the one that was current
\* when it loaded ucnt and still is when it ends, although it takes no lock
\* and the space of an older version is given away at once.
ReadsWhole ==
  \A r \in Readers : rd[r].pc = "done" =>
    /\ rd[r].len = rd[r].want.len
    /\ rd[r].got = [i \in 1 .. rd[r].len |-> <<rd[r].want.n, i - 1>>]

\* A message that is there is found by its id, by the binary search too, after
\* any deletions, reuses and clears; ids of the callers' need not increase.
SearchFinds ==
  w.pc = "idle" => \A pt \in Window :
    LET same == {o \in Window : dir[Slot(o)].id = dir[Slot(pt)].id}
        found == Found(dir[Slot(pt)].id)
    IN found # {} /\ Latest(found) = Latest(same)
=============================================================================
