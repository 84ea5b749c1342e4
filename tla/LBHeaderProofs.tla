----------------------------- MODULE LBHeaderProofs ----------------------------
(***************************************************************************)
(* The header words of a linear buffer. hd->num_pt and hd->ptr_page          *)
(* (LBHeader), for every buffer size: what a crash between the two stores    *)
(* leaves is always repaired, and every reader's test of its pointer tells   *)
(* the truth. hd->upd_flag (LBNotify), for any number of receivers and       *)
(* writes: who waits for the writer sees its message, and who misses one had *)
(* a flag lowered that was not its own.                                      *)
(***************************************************************************)
EXTENDS LBHeader, LBPointerProofs, LBNotify

\* PageAtMostOneAhead is inductive together with the types.
IInv == TypeOK /\ PageAtMostOneAhead

\* The page store puts the page of the message after the next one.
LEMMA UpdatedPageRight ==
  ASSUME IInv
  PROVE  /\ CorrectedPage(num.p, page) = PageOf(written)
         /\ UpdatedPage(num, page) = PageOf(written + 1)
  <1>1. written \in Int /\ written + 1 \in Int /\ page \in Int
    BY DEF IInv, TypeOK
  <1>2. PageOf(written) \in Int /\ PageOf(written + 1) \in {PageOf(written), PageOf(written) + 1}
    BY <1>1, Split, Successor
  <1>3. CorrectedPage(num.p, page) = PageOf(written)
    BY <1>1, <1>2, Corrected DEF IInv, PageAtMostOneAhead
  <1>4. PtrOf(written + 1) = NextPtr(num)
    BY <1>1, Successor DEF IInv, PageAtMostOneAhead, NextPtr
  <1> QED
    BY <1>1, <1>3, <1>4, Successor DEF UpdatedPage

\* What LB_Update_pointer makes of the packed word.
LEMMA UpdatedNumType ==
  ASSUME num \in NumPt, NEW add \in {0, 1}, NEW rm \in Int
  PROVE  UpdatedNum(num, add, rm) \in NumPt
  <1>1. MaxMsgs \in Nat /\ PtrRange \in Nat \ {0}
    BY Sizes
  <1>2. NextPtr(num) \in 0 .. PtrRange - 1
    BY <1>1 DEF NextPtr, NumPt
  <1> QED
    BY <1>1, <1>2 DEF UpdatedNum, NumPt

\* A new buffer is at message 0 of page 0.
LEMMA InvInit == Init => IInv
  <1> SUFFICES ASSUME Init PROVE IInv
    OBVIOUS
  <1>1. 0 % PtrRange = 0 /\ 0 \div PageSize = 0
    BY Sizes
  <1>2. num \in NumPt /\ page \in Nat /\ written \in Nat
    BY Sizes DEF Init, NumPt
  <1> QED
    BY <1>1, <1>2 DEF Init, IInv, TypeOK, PageAtMostOneAhead, PtrOf, PageOf

\* Both stores, a removal and a crash between the stores keep the pages apart by
\* one message at most.
LEMMA InvStep == IInv /\ [Next]_vars => IInv'
  <1> SUFFICES ASSUME IInv, [Next]_vars PROVE IInv'
    OBVIOUS
  <1> USE DEF IInv, TypeOK, PageAtMostOneAhead
  <1>1. /\ written \in Nat /\ num \in NumPt /\ num.n \in 0 .. MaxMsgs /\ MaxMsgs \in Nat
        /\ PageOf(written + 1) \in Nat /\ PageOf(written) \in Nat
    <2>1. written \in Nat /\ num \in NumPt /\ num.n \in 0 .. MaxMsgs
      BY DEF NumPt
    <2> QED BY <2>1, Sizes DEF PageOf
  <1> DEFINE Kept(k) == UpdatedNum(num, 0, k)
  <1>2. ASSUME NEW k \in 0 .. MaxMsgs
        PROVE  Kept(k) \in NumPt /\ Kept(k).p = num.p /\ Kept(k).n <= written
    <2>1. Kept(k) \in NumPt
      BY <1>1, UpdatedNumType
    <2>2. Kept(k).p = num.p /\ Kept(k).n <= num.n
      BY <1>1 DEF UpdatedNum
    <2> QED BY <1>1, <2>1, <2>2 DEF NumPt
  <1>3. ASSUME NEW c \in 0 .. MaxMsgs, BeginWrite(c) PROVE IInv'
    <2>1. num' = Kept(c) /\ step' = "page" /\ UNCHANGED <<page, written>>
      BY <1>3 DEF BeginWrite
    <2>2. Surplus(num) \in 0 .. 1
      BY <1>1 DEF Surplus
    <2> QED BY <1>2, <1>3, <2>1, <2>2 DEF BeginWrite
  <1>4. CASE StorePage
    BY <1>1, <1>4, UpdatedPageRight DEF StorePage
  <1>5. CASE StoreNum
    <2>1. num' = UpdatedNum(num, 1, n_rm) /\ written' = written + 1 /\ page' = page /\ step' = "idle"
          /\ n_rm' = 0 /\ step = "num" /\ n_rm \in 0 .. 1
      BY <1>5 DEF StoreNum
    <2>2. num' \in NumPt
      BY <1>1, <2>1, UpdatedNumType
    <2>3. num'.p = NextPtr(num) /\ num'.n <= num.n + 1
      BY <1>1, <2>1 DEF UpdatedNum
    <2>4. num'.p = PtrOf(written + 1)
      BY <1>1, <2>3, Successor DEF NextPtr
    <2>5. num'.n <= written'
      BY <1>1, <2>1, <2>2, <2>3 DEF NumPt
    <2> QED BY <1>1, <2>1, <2>2, <2>4, <2>5
  <1>6. ASSUME NEW k \in 1 .. MaxMsgs, Clear(k) PROVE IInv'
    BY <1>2, <1>6 DEF Clear
  <1>7. CASE Crash
    BY <1>1, <1>7 DEF Crash
  <1>8. CASE UNCHANGED vars
    BY <1>8 DEF vars
  <1> QED
    BY <1>3, <1>4, <1>5, <1>6, <1>7, <1>8 DEF Next

(***************************************************************************)
(* The header words keep their types: the page never becomes negative and   *)
(* the count never exceeds the buffer, through every crash and clear.       *)
(***************************************************************************)
THEOREM TypeCorrect == Spec => []TypeOK
  <1>1. IInv => TypeOK
    BY DEF IInv
  <1> QED
    BY <1>1, InvInit, InvStep, PTL DEF Spec

(***************************************************************************)
(* The stored page is never more than one message ahead of the packed word. *)
(***************************************************************************)
THEOREM PageCorrect == Spec => []PageAtMostOneAhead
  <1>1. IInv => PageAtMostOneAhead
    BY DEF IInv
  <1> QED
    BY <1>1, InvInit, InvStep, PTL DEF Spec

(***************************************************************************)
(* LB_Check_pointer is right about message m.                               *)
(***************************************************************************)
LEMMA VerdictRight ==
  ASSUME IInv, NEW m \in Nat
  PROVE  VerdictTrue(m)
  <1>1. /\ written \in Nat /\ num.n \in 0 .. MaxMsgs /\ page \in Int
        /\ num = [n |-> num.n, p |-> PtrOf(written)]
    BY DEF IInv, TypeOK, PageAtMostOneAhead, NumPt
  <1>2. page - PageOf(written) \in -2 .. 1
    <2> DEFINE w == written
               v == written + 1
    <2>1. w \in Int /\ v \in Int /\ v - w \in 0 .. PageSize
      BY <1>1, Sizes
    <2>2. PageOf(v) - PageOf(w) \in 0 .. 1 /\ PageOf(w) \in Int
      <3> HIDE DEF v, w
      <3> QED BY <2>1, NearPages, Split
    <2> QED BY <1>1, <2>2 DEF IInv, PageAtMostOneAhead
  <1> DEFINE n == num.n
             w == written
  <1>3. CheckPointer([n |-> n, p |-> PtrOf(w)], page, PtrOf(m), PageOf(m))
          = IF m >= w THEN "toCome" ELSE IF m >= w - n THEN "ok" ELSE "expired"
    BY <1>1, <1>2, CheckRight
  <1> QED
    BY <1>1, <1>3 DEF VerdictTrue, TrueVerdict

(***************************************************************************)
(* Whatever message a reader holds the pointer and page of, LB_Check_pointer *)
(* says "to come", "available" or "expired" exactly when that is so, in all *)
(* reachable states, those a dead writer left included. TLC checks this for *)
(* a buffer of two messages; here the buffer has any size.                  *)
(***************************************************************************)
THEOREM CheckPointerCorrect == Spec => []CheckPointerTrue
  <1>1. IInv => CheckPointerTrue
    <2> SUFFICES ASSUME IInv, NEW m \in 0 .. written + 2 * PtrRange PROVE VerdictTrue(m)
      BY DEF CheckPointerTrue
    <2> QED BY VerdictRight
  <1> QED
    BY <1>1, InvInit, InvStep, PTL DEF Spec

(***************************************************************************)
(* LB_Ptr_compare orders messages up to a full buffer apart, around the wrap *)
(* of the pointer as well.                                                  *)
(***************************************************************************)
THEOREM PtrCompareCorrect == Spec => []PtrCompareTrue
  <1>1. IInv => PtrCompareTrue
    <2> SUFFICES ASSUME IInv, NEW d \in 0 .. MaxMsgs
                 PROVE  /\ PtrCompare(PtrOf(written + d), PtrOf(written)) = (IF d = 0 THEN 0 ELSE 1)
                        /\ PtrCompare(PtrOf(written), PtrOf(written + d)) = (IF d = 0 THEN 0 ELSE -1)
      BY DEF PtrCompareTrue
    <2> DEFINE e == written + d
    <2>1. /\ MaxMsgs \in Nat \ {0} /\ written \in Int /\ e \in Int /\ d \in Int
          /\ e - written < 2 * MaxMsgs /\ written - e < 2 * MaxMsgs
          /\ (e = written <=> d = 0) /\ (d # 0 => e > written)
      BY Sizes DEF IInv, TypeOK
    <2> HIDE DEF e
    <2>2. /\ PtrCompare(PtrOf(e), PtrOf(written)) = (IF d = 0 THEN 0 ELSE 1)
          /\ PtrCompare(PtrOf(written), PtrOf(e)) = (IF d = 0 THEN 0 ELSE -1)
      BY <2>1, CompareRight
    <2> QED BY <2>2 DEF e
  <1> QED
    BY <1>1, InvInit, InvStep, PTL DEF Spec

(***************************************************************************)
(* LB_Compute_pointer finds the message any number of places before or      *)
(* after the next one.                                                      *)
(***************************************************************************)
THEOREM ComputePointerCorrect == Spec => []ComputePointerTrue
  <1>1. IInv => ComputePointerTrue
    <2> SUFFICES ASSUME IInv, NEW inc \in -2 * PtrRange .. 2 * PtrRange
                 PROVE  ComputePointer(PtrOf(written), PageOf(written), inc)
                          = [pt |-> PtrOf(written + inc), page |-> PageOf(written + inc)]
      BY DEF ComputePointerTrue
    <2>1. written \in Int /\ inc \in Int
      BY Sizes DEF IInv, TypeOK
    <2> QED BY <2>1, ComputeRight
  <1> QED
    BY <1>1, InvInit, InvStep, PTL DEF Spec

(***************************************************************************)
(* The three together: the pointer arithmetic of lb_common.c is right for   *)
(* every buffer size, in every reachable state.                             *)
(***************************************************************************)
THEOREM PointersCorrect == Spec => []PointersTrue
  <1>1. PointersTrue <=> CheckPointerTrue /\ PtrCompareTrue /\ ComputePointerTrue
    BY DEF PointersTrue
  <1> QED
    BY <1>1, CheckPointerCorrect, PtrCompareCorrect, ComputePointerCorrect, PTL

--------------------------------------------------------------------------------
(***************************************************************************)
(* The update flag: the inductive invariant says which messages a UN may    *)
(* speak of, and what a receiver knows when it is about to read.            *)
(***************************************************************************)

\* The messages whose writers are done with them, one way or the other.
Done == {NoUN} \cup published \cup died

\* Only the message being written can be announced and not done.
Announced == {x \in 1 .. writes : x \in Done \/ (x = writes /\ wr = "sent")}

UNsAnnounced ==
  \A r \in Receivers :
    /\ \A i \in 1 .. Len(inbox[r]) : inbox[r][i] \in Announced
    /\ rd[r].un \in Announced \cup {NoUN}

\* Having the lock means that no writer is between its UN and the end.
WaitedDone ==
  \A r \in Receivers :
    /\ rd[r].waited /\ rd[r].pc # "wait" => rd[r].un \in Done
    /\ rd[r].pc \in {"wait", "held", "recheck", "reset"} => rd[r].waited
    /\ rd[r].pc \in {"idle", "check"} => ~rd[r].waited
    /\ rd[r].pc = "idle" => rd[r].un = NoUN

\* The flag is up from before the UN to the end, or somebody lowered it.
FlagUp == wr \in {"flagged", "sent"} => upd_flag \/ robbed

UnflaggedRead ==
  \A r \in Receivers : rd[r].pc = "read" /\ rd[r].un \notin Done => robbed

\* A writer at work has a message.
Writing == wr # "idle" => writes > 0

NotifyInv ==
  /\ NotifyTypeOK /\ Writing /\ UNsAnnounced /\ WaitedDone /\ FlagUp /\ UnflaggedRead
  /\ WaitersSeeMessage /\ MissedOnlyIfRobbed

--------------------------------------------------------------------------------

\* Nothing is written, announced or lowered at the start.
LEMMA NotifyInvInit == NotifyInit => NotifyInv
<1> SUFFICES ASSUME NotifyInit PROVE NotifyInv
  OBVIOUS
<1> USE NotifyAssumption DEF NotifyInit
<1>1. NotifyTypeOK
  <2>1. inbox \in [Receivers -> Seq(1 .. MaxWrites)]
    OBVIOUS
  <2>2. rd \in [Receivers -> [pc : {"idle", "check", "wait", "held", "recheck", "reset", "read"},
                              un : 0 .. MaxWrites, waited : BOOLEAN]]
    BY DEF Idle, NoUN
  <2>3. LockOwned
    BY DEF LockOwned, Idle
  <2>4. missed \subseteq [un : 1 .. MaxWrites, waited : BOOLEAN]
    OBVIOUS
  <2>5. published \subseteq 1 .. MaxWrites /\ died \subseteq 1 .. MaxWrites
    OBVIOUS
  <2>6. lock \in {"free", "writer"} \cup Receivers /\ upd_flag \in BOOLEAN /\ robbed \in BOOLEAN
    OBVIOUS
  <2>7. wr \in {"idle", "locked", "flagged", "sent", "published", "lowered"}
    OBVIOUS
  <2>8. writes \in 0 .. MaxWrites /\ polls \in 0 .. MaxPolls
    OBVIOUS
  <2> QED
    BY <2>1, <2>2, <2>3, <2>4, <2>5, <2>6, <2>7, <2>8 DEF NotifyTypeOK
<1>2. UNsAnnounced
  <2>1. \A r \in Receivers : Len(inbox[r]) = 0 /\ rd[r].un = NoUN
    BY DEF Idle
  <2>2. \A i \in 1 .. 0 : FALSE
    OBVIOUS
  <2> QED
    BY ONLY <2>1, <2>2 DEF UNsAnnounced
<1>3. WaitedDone
  BY DEF WaitedDone, Idle, NoUN
<1>4. FlagUp /\ UnflaggedRead /\ WaitersSeeMessage /\ MissedOnlyIfRobbed
  BY DEF FlagUp, UnflaggedRead, WaitersSeeMessage, MissedOnlyIfRobbed, Idle, Done
<1>5. Writing
  BY DEF Writing
<1> QED
  BY <1>1, <1>2, <1>3, <1>4, <1>5 DEF NotifyInv

\* LB_write counts its message when it takes the lock.
LEMMA WritingStep == NotifyTypeOK /\ Writing /\ [NotifyNext]_notifyVars => Writing'
<1> SUFFICES ASSUME NotifyTypeOK, Writing, [NotifyNext]_notifyVars PROVE Writing'
  OBVIOUS
<1>1. writes \in Nat
  BY NotifyAssumption DEF NotifyTypeOK
<1>2. CASE Lock
  BY <1>1, <1>2 DEF Lock, Writing
<1>3. CASE WriterSteps
  BY <1>3 DEF WriterSteps, RaiseFlag, SendUN, Publish, LowerFlag, Unlock, Writing, history
<1>4. CASE WriterDies
  BY <1>4 DEF WriterDies, Writing
<1>5. ASSUME NEW r \in Receivers, ReceiverSteps(r) \/ Poll(r) PROVE Writing'
  BY <1>5 DEF ReceiverSteps, Receive, Poll, CheckFlag, GetLock, DropLock, RecheckFlag,
              ResetFlag, ReadLB, Writing
<1>6. CASE UNCHANGED notifyVars
  BY <1>6 DEF notifyVars, Writing
<1> QED
  BY <1>2, <1>3, <1>4, <1>5, <1>6 DEF NotifyNext

\* The types and the ownership of the lock, action by action.
LEMMA TypeStep == NotifyTypeOK /\ Writing /\ [NotifyNext]_notifyVars => NotifyTypeOK'
<1> SUFFICES ASSUME NotifyTypeOK, Writing, [NotifyNext]_notifyVars PROVE NotifyTypeOK'
  OBVIOUS
<1> USE NotifyAssumption
<1>1. ASSUME Lock PROVE NotifyTypeOK'
  BY <1>1 DEF Lock, NotifyTypeOK, LockOwned, history
<1>2. ASSUME RaiseFlag PROVE NotifyTypeOK'
  BY <1>2 DEF RaiseFlag, NotifyTypeOK, LockOwned, history
<1>3. ASSUME SendUN PROVE NotifyTypeOK'
  <2>1. writes \in 1 .. MaxWrites
    BY <1>3 DEF SendUN, NotifyTypeOK, Writing
  <2>2. inbox' \in [Receivers -> Seq(1 .. MaxWrites)]
    BY <2>1, <1>3 DEF SendUN, NotifyTypeOK
  <2> QED
    BY <2>2, <1>3 DEF SendUN, NotifyTypeOK, LockOwned, history
<1>4. ASSUME Publish PROVE NotifyTypeOK'
  <2>1. published' \subseteq 1 .. MaxWrites
    BY <1>4 DEF Publish, NotifyTypeOK, Writing
  <2> QED
    BY <2>1, <1>4 DEF Publish, NotifyTypeOK, LockOwned, history
<1>5. ASSUME LowerFlag PROVE NotifyTypeOK'
  BY <1>5 DEF LowerFlag, NotifyTypeOK, LockOwned, history
<1>6. ASSUME Unlock PROVE NotifyTypeOK'
  BY <1>6 DEF Unlock, NotifyTypeOK, LockOwned, history
<1>7. ASSUME WriterDies PROVE NotifyTypeOK'
  <2>1. died' \subseteq 1 .. MaxWrites
    BY <1>7 DEF WriterDies, NotifyTypeOK, Writing
  <2> QED
    BY <2>1, <1>7 DEF WriterDies, NotifyTypeOK, LockOwned, history
<1>8. ASSUME NEW r \in Receivers, Receive(r) PROVE NotifyTypeOK'
  BY <1>8 DEF Receive, NotifyTypeOK, LockOwned, history
<1>9. ASSUME NEW r \in Receivers, Poll(r) PROVE NotifyTypeOK'
  <2>1. polls' \in 0 .. MaxPolls
    BY <1>9 DEF Poll, NotifyTypeOK
  <2>2. rd' \in [Receivers -> [pc : {"idle", "check", "wait", "held", "recheck", "reset", "read"},
                               un : 0 .. MaxWrites, waited : BOOLEAN]]
    BY <1>9 DEF Poll, Go, NotifyTypeOK
  <2>3. LockOwned'
    BY <1>9 DEF Poll, Go, NotifyTypeOK, LockOwned
  <2> QED
    BY <2>1, <2>2, <2>3, <1>9 DEF Poll, NotifyTypeOK, history
<1>10. ASSUME NEW r \in Receivers, CheckFlag(r) PROVE NotifyTypeOK'
  <2>1. rd' \in [Receivers -> [pc : {"idle", "check", "wait", "held", "recheck", "reset", "read"},
                               un : 0 .. MaxWrites, waited : BOOLEAN]]
    <3>1. CASE upd_flag
      <4>1. rd' = [rd EXCEPT ![r] = [pc |-> "wait", un |-> rd[r].un, waited |-> TRUE]]
        BY <1>10, <3>1 DEF CheckFlag, NotifyTypeOK
      <4>2. [pc |-> "wait", un |-> rd[r].un, waited |-> TRUE]
              \in [pc : {"idle", "check", "wait", "held", "recheck", "reset", "read"},
                  un : 0 .. MaxWrites, waited : BOOLEAN]
        BY DEF NotifyTypeOK
      <4> QED
        BY <4>1, <4>2 DEF NotifyTypeOK
    <3>2. CASE ~upd_flag
      BY <1>10, <3>2 DEF CheckFlag, Go, NotifyTypeOK
    <3> QED
      BY <3>1, <3>2
  <2>2. LockOwned'
    <3>1. rd[r].pc = "check" /\ rd'[r].pc \in {"wait", "read"}
      BY <1>10 DEF CheckFlag, Go, NotifyTypeOK
    <3>2. \A q \in Receivers \ {r} : rd'[q] = rd[q]
      BY <1>10 DEF CheckFlag, Go, NotifyTypeOK
    <3> QED
      BY <3>1, <3>2, <1>10 DEF CheckFlag, NotifyTypeOK, LockOwned
  <2> QED
    BY <2>1, <2>2, <1>10 DEF CheckFlag, NotifyTypeOK, history
<1>11. ASSUME NEW r \in Receivers, GetLock(r) PROVE NotifyTypeOK'
  BY <1>11 DEF GetLock, Go, NotifyTypeOK, LockOwned, history
<1>12. ASSUME NEW r \in Receivers, DropLock(r) PROVE NotifyTypeOK'
  BY <1>12 DEF DropLock, Go, NotifyTypeOK, LockOwned, history
<1>13. ASSUME NEW r \in Receivers, RecheckFlag(r) PROVE NotifyTypeOK'
  BY <1>13 DEF RecheckFlag, Go, NotifyTypeOK, LockOwned, history
<1>14. ASSUME NEW r \in Receivers, ResetFlag(r) PROVE NotifyTypeOK'
  BY <1>14 DEF ResetFlag, Go, NotifyTypeOK, LockOwned, history
<1>15. ASSUME NEW r \in Receivers, ReadLB(r) PROVE NotifyTypeOK'
  BY <1>15 DEF ReadLB, Idle, NoUN, NotifyTypeOK, LockOwned, history
<1>16. ASSUME UNCHANGED notifyVars PROVE NotifyTypeOK'
  BY <1>16 DEF notifyVars, NotifyTypeOK, LockOwned
<1> QED
  BY <1>1, <1>2, <1>3, <1>4, <1>5, <1>6, <1>7, <1>8, <1>9, <1>10, <1>11, <1>12, <1>13,
     <1>14, <1>15, <1>16 DEF NotifyNext, WriterSteps, ReceiverSteps

\* What has been announced stays announced, and what is done stays done.
LEMMA AnnouncedStays ==
  NotifyTypeOK /\ [NotifyNext]_notifyVars => Done \subseteq Done' /\ Announced \subseteq Announced'
<1> SUFFICES ASSUME NotifyTypeOK, [NotifyNext]_notifyVars
             PROVE  Done \subseteq Done' /\ Announced \subseteq Announced'
  OBVIOUS
<1>0. writes \in Nat
  BY NotifyAssumption DEF NotifyTypeOK
<1>1. CASE Lock
  BY <1>0, <1>1 DEF Lock, Done, Announced, history
<1>2. CASE RaiseFlag \/ SendUN \/ LowerFlag \/ Unlock
  BY <1>2 DEF RaiseFlag, SendUN, LowerFlag, Unlock, Done, Announced, history
<1>3. CASE Publish
  BY <1>3 DEF Publish, Done, Announced
<1>4. CASE WriterDies
  BY <1>4 DEF WriterDies, Done, Announced
<1>5. CASE UNCHANGED <<published, died, writes, wr>>
  BY <1>5 DEF Done, Announced
<1>6. ASSUME NEW r \in Receivers, ReceiverSteps(r) \/ Poll(r)
      PROVE  UNCHANGED <<published, died, writes, wr>>
  BY <1>6 DEF ReceiverSteps, Receive, Poll, CheckFlag, GetLock, DropLock, RecheckFlag,
              ResetFlag, ReadLB, history
<1> QED
  BY <1>1, <1>2, <1>3, <1>4, <1>5, <1>6 DEF NotifyNext, WriterSteps, notifyVars

\* Go moves one receiver and changes nothing else of it.
LEMMA GoEffect ==
  ASSUME NotifyTypeOK, NEW q \in Receivers, NEW pc, Go(q, pc)
  PROVE  /\ rd'[q].pc = pc /\ rd'[q].un = rd[q].un /\ rd'[q].waited = rd[q].waited
         /\ \A r \in Receivers \ {q} : rd'[r] = rd[r]
BY DEF Go, NotifyTypeOK

\* A receiver that saw the flag up waits, another goes on to read.
LEMMA CheckFlagEffect ==
  ASSUME NotifyTypeOK, NEW q \in Receivers, CheckFlag(q)
  PROVE  /\ rd'[q].un = rd[q].un
         /\ \/ rd'[q].pc = "wait" /\ rd'[q].waited = TRUE
            \/ ~upd_flag /\ rd'[q].pc = "read" /\ rd'[q].waited = rd[q].waited
         /\ \A r \in Receivers \ {q} : rd'[r] = rd[r]
<1>1. CASE upd_flag
  <2>1. rd' = [rd EXCEPT ![q] = [pc |-> "wait", un |-> rd[q].un, waited |-> TRUE]]
    BY <1>1 DEF CheckFlag
  <2>2. rd'[q] = [pc |-> "wait", un |-> rd[q].un, waited |-> TRUE]
    BY <2>1 DEF NotifyTypeOK
  <2> QED
    BY <2>1, <2>2 DEF NotifyTypeOK
<1>2. CASE ~upd_flag
  BY <1>2, GoEffect DEF CheckFlag
<1> QED
  BY <1>1, <1>2

\* UNs in the inboxes and in hand speak of messages already announced.
LEMMA UNsAnnouncedStep == NotifyTypeOK /\ Writing /\ UNsAnnounced /\ [NotifyNext]_notifyVars => UNsAnnounced'
<1> SUFFICES ASSUME NotifyTypeOK, Writing, UNsAnnounced, [NotifyNext]_notifyVars PROVE UNsAnnounced'
  OBVIOUS
<1>0. Announced \subseteq Announced'
  BY AnnouncedStays
<1>1. CASE UNCHANGED <<inbox, rd>>
  BY <1>0, <1>1 DEF UNsAnnounced, NoUN
<1>2. CASE SendUN
  <2>1. writes \in Announced'
    BY <1>2, NotifyAssumption DEF SendUN, Announced, Writing, NotifyTypeOK
  <2>2. \A r \in Receivers : inbox[r] \in Seq(1 .. MaxWrites) /\ inbox'[r] = Append(inbox[r], writes)
    BY <1>2 DEF SendUN, NotifyTypeOK
  <2>3. \A r \in Receivers : \A i \in 1 .. Len(inbox'[r]) :
          inbox'[r][i] = writes \/ (i \in 1 .. Len(inbox[r]) /\ inbox'[r][i] = inbox[r][i])
    BY <2>2
  <2>4. rd' = rd /\ writes' = writes
    BY <1>2 DEF SendUN
  <2> QED
    BY <1>0, <2>1, <2>3, <2>4 DEF UNsAnnounced, NoUN
<1>3. ASSUME NEW q \in Receivers, Receive(q) PROVE UNsAnnounced'
  <2>1. inbox[q] \in Seq(1 .. MaxWrites) /\ Len(inbox[q]) > 0
    BY <1>3 DEF Receive, NotifyTypeOK
  <2>2. rd'[q].un = inbox[q][1] /\ inbox'[q] = Tail(inbox[q])
    BY <1>3, <2>1 DEF Receive, NotifyTypeOK
  <2>3. \A i \in 1 .. Len(inbox'[q]) :
          i + 1 \in 1 .. Len(inbox[q]) /\ inbox'[q][i] = inbox[q][i + 1]
    BY <2>1, <2>2
  <2>4. \A r \in Receivers \ {q} : inbox'[r] = inbox[r] /\ rd'[r] = rd[r]
    BY <1>3 DEF Receive, NotifyTypeOK
  <2>5. 1 \in 1 .. Len(inbox[q])
    BY <2>1
  <2>6. \A i \in 1 .. Len(inbox[q]) : inbox[q][i] \in Announced'
    BY <1>0 DEF UNsAnnounced
  <2>7. rd'[q].un \in Announced' /\ \A i \in 1 .. Len(inbox'[q]) : inbox'[q][i] \in Announced'
    BY <2>2, <2>3, <2>5, <2>6
  <2>8. ASSUME NEW r \in Receivers \ {q}
        PROVE  /\ \A i \in 1 .. Len(inbox'[r]) : inbox'[r][i] \in Announced'
               /\ rd'[r].un \in Announced' \cup {NoUN}
    BY <1>0, <2>4 DEF UNsAnnounced
  <2> QED
    BY <2>7, <2>8 DEF UNsAnnounced, NoUN
<1>4. ASSUME NEW q \in Receivers, ReceiverSteps(q) \/ Poll(q), ~Receive(q) PROVE UNsAnnounced'
  <2>1. inbox' = inbox
    BY <1>4 DEF ReceiverSteps, Poll, CheckFlag, GetLock, DropLock, RecheckFlag, ResetFlag, ReadLB
  <2>2. \A r \in Receivers : rd'[r].un = rd[r].un \/ rd'[r].un = NoUN
    <3>1. CASE CheckFlag(q)
      BY <3>1, CheckFlagEffect
    <3>2. CASE ReadLB(q)
      <4>1. rd'[q] = Idle /\ \A r \in Receivers \ {q} : rd'[r] = rd[r]
        BY <3>2 DEF ReadLB, NotifyTypeOK
      <4> QED
        BY <4>1 DEF Idle
    <3>3. CASE Poll(q) \/ GetLock(q) \/ DropLock(q) \/ RecheckFlag(q) \/ ResetFlag(q)
      BY <3>3, GoEffect DEF Poll, GetLock, DropLock, RecheckFlag, ResetFlag
    <3> QED
      BY <1>4, <3>1, <3>2, <3>3 DEF ReceiverSteps
  <2> QED
    BY <1>0, <2>1, <2>2 DEF UNsAnnounced, NoUN
<1>5. ASSUME Lock \/ RaiseFlag \/ Publish \/ LowerFlag \/ Unlock \/ WriterDies
      PROVE  UNCHANGED <<inbox, rd>>
  BY <1>5 DEF Lock, RaiseFlag, Publish, LowerFlag, Unlock, WriterDies
<1> QED
  BY <1>1, <1>2, <1>3, <1>4, <1>5 DEF NotifyNext, WriterSteps, notifyVars

\* Only receivers change what receivers do, and nothing takes back a robbery.
LEMMA WriterEffect ==
  Lock \/ WriterSteps \/ WriterDies \/ UNCHANGED notifyVars
    => UNCHANGED <<rd, robbed, missed>>
BY DEF Lock, WriterSteps, RaiseFlag, SendUN, Publish, LowerFlag, Unlock, WriterDies, notifyVars, history

\* A robbery is not forgotten.
LEMMA RobbedStays == NotifyTypeOK /\ [NotifyNext]_notifyVars /\ robbed => robbed'
<1> SUFFICES ASSUME NotifyTypeOK, [NotifyNext]_notifyVars, robbed PROVE robbed'
  OBVIOUS
<1>1. ASSUME NEW q \in Receivers, ReceiverSteps(q) \/ Poll(q) PROVE robbed'
  BY <1>1 DEF ReceiverSteps, Receive, Poll, CheckFlag, GetLock, DropLock, RecheckFlag,
              ResetFlag, ReadLB, history
<1> QED
  BY <1>1, WriterEffect DEF NotifyNext

\* Where one step of a receiver leads, with what it knows.
LEMMA ReceiverEffect ==
  ASSUME NotifyTypeOK, NEW q \in Receivers, ReceiverSteps(q) \/ Poll(q)
  PROVE  /\ \A r \in Receivers \ {q} : rd'[r] = rd[r]
         /\ \/ rd'[q].pc = "check" /\ rd[q].pc = "idle" /\ ~rd'[q].waited
            \/ rd'[q].pc = "check" /\ rd[q].pc = "idle" /\ rd'[q].waited = rd[q].waited
            \/ CheckFlag(q)
            \/ /\ rd[q].pc = "wait" /\ lock = "free" /\ rd'[q].pc = "held"
               /\ rd'[q].un = rd[q].un /\ rd'[q].waited = rd[q].waited
            \/ /\ rd[q].pc \in {"held", "recheck", "reset"}
               /\ rd'[q].pc \in {"recheck", "reset", "read"}
               /\ rd'[q].un = rd[q].un /\ rd'[q].waited = rd[q].waited
            \/ ReadLB(q) /\ rd'[q] = Idle
<1>1. CASE Receive(q)
  BY <1>1 DEF Receive, NotifyTypeOK
<1>2. CASE Poll(q)
  BY <1>2, GoEffect DEF Poll
<1>3. CASE CheckFlag(q)
  BY <1>3, CheckFlagEffect
<1>4. CASE GetLock(q)
  BY <1>4, GoEffect DEF GetLock
<1>5. CASE DropLock(q) \/ RecheckFlag(q) \/ ResetFlag(q)
  <2>1. CASE DropLock(q)
    BY <2>1, GoEffect DEF DropLock
  <2>2. CASE RecheckFlag(q)
    BY <2>2, GoEffect DEF RecheckFlag
  <2>3. CASE ResetFlag(q)
    BY <2>3, GoEffect DEF ResetFlag
  <2> QED
    BY <1>5, <2>1, <2>2, <2>3
<1>6. CASE ReadLB(q)
  BY <1>6 DEF ReadLB, NotifyTypeOK
<1> QED
  BY <1>1, <1>2, <1>3, <1>4, <1>5, <1>6 DEF ReceiverSteps

\* Taking the lock shows that the writer of the UN in hand is done.
LEMMA WaitedDoneStep ==
  NotifyTypeOK /\ UNsAnnounced /\ WaitedDone /\ [NotifyNext]_notifyVars => WaitedDone'
<1> SUFFICES ASSUME NotifyTypeOK, UNsAnnounced, WaitedDone, [NotifyNext]_notifyVars PROVE WaitedDone'
  OBVIOUS
<1>0. Done \subseteq Done'
  BY AnnouncedStays
<1>1. CASE UNCHANGED rd
  BY <1>0, <1>1 DEF WaitedDone
<1>2. ASSUME NEW q \in Receivers, ReceiverSteps(q) \/ Poll(q) PROVE WaitedDone'
  <2>1. \A r \in Receivers \ {q} : rd'[r] = rd[r]
    BY <1>2, ReceiverEffect
  <2>2. /\ rd'[q].waited /\ rd'[q].pc # "wait" => rd'[q].un \in Done
        /\ rd'[q].pc \in {"wait", "held", "recheck", "reset"} => rd'[q].waited
        /\ rd'[q].pc \in {"idle", "check"} => ~rd'[q].waited
        /\ rd'[q].pc = "idle" => rd'[q].un = NoUN
    <3>1. CASE rd'[q].pc = "check" /\ rd[q].pc = "idle"
               /\ (~rd'[q].waited \/ rd'[q].waited = rd[q].waited)
      BY <3>1 DEF WaitedDone
    <3>2. CASE CheckFlag(q)
      <4>1. rd[q].pc = "check"
        BY <3>2 DEF CheckFlag
      <4> QED
        BY <3>2, <4>1, CheckFlagEffect DEF WaitedDone
    <3>3. CASE /\ rd[q].pc = "wait" /\ lock = "free" /\ rd'[q].pc = "held"
               /\ rd'[q].un = rd[q].un /\ rd'[q].waited = rd[q].waited
      <4>1. wr = "idle"
        BY <3>3 DEF NotifyTypeOK, LockOwned
      <4>2. rd[q].un \in Done
        BY <4>1 DEF UNsAnnounced, Announced, Done
      <4> QED
        BY <3>3, <4>2 DEF WaitedDone
    <3>4. CASE /\ rd[q].pc \in {"held", "recheck", "reset"}
               /\ rd'[q].pc \in {"recheck", "reset", "read"}
               /\ rd'[q].un = rd[q].un /\ rd'[q].waited = rd[q].waited
      BY <3>4 DEF WaitedDone
    <3>5. CASE rd'[q] = Idle
      BY <3>5 DEF Idle
    <3> QED
      BY <1>2, <3>1, <3>2, <3>3, <3>4, <3>5, ReceiverEffect
  <2> QED
    BY <1>0, <2>1, <2>2 DEF WaitedDone
<1> QED
  BY <1>1, <1>2, WriterEffect DEF NotifyNext

\* The flag goes down under a live writer only by a robbery.
LEMMA FlagUpStep == NotifyTypeOK /\ FlagUp /\ [NotifyNext]_notifyVars => FlagUp'
<1> SUFFICES ASSUME NotifyTypeOK, FlagUp, [NotifyNext]_notifyVars PROVE FlagUp'
  OBVIOUS
<1>1. CASE Lock \/ WriterSteps \/ WriterDies
  BY <1>1 DEF Lock, WriterSteps, RaiseFlag, SendUN, Publish, LowerFlag, Unlock, WriterDies, history, FlagUp
<1>2. ASSUME NEW q \in Receivers, ReceiverSteps(q) \/ Poll(q) PROVE FlagUp'
  BY <1>2 DEF ReceiverSteps, Receive, Poll, CheckFlag, GetLock, DropLock, RecheckFlag,
              ResetFlag, ReadLB, history, FlagUp
<1>3. CASE UNCHANGED notifyVars
  BY <1>3 DEF notifyVars, FlagUp
<1> QED
  BY <1>1, <1>2, <1>3 DEF NotifyNext

\* A receiver that found the flag down before its message was done: the flag
\* should have been up, so somebody had lowered it.
LEMMA UnflaggedReadStep ==
  NotifyTypeOK /\ UNsAnnounced /\ WaitedDone /\ FlagUp /\ UnflaggedRead /\ [NotifyNext]_notifyVars
    => UnflaggedRead'
<1> SUFFICES ASSUME NotifyTypeOK, UNsAnnounced, WaitedDone, FlagUp, UnflaggedRead, [NotifyNext]_notifyVars
             PROVE  UnflaggedRead'
  OBVIOUS
<1>0. Done \subseteq Done' /\ (robbed => robbed')
  BY AnnouncedStays, RobbedStays
<1>1. CASE UNCHANGED rd
  BY <1>0, <1>1 DEF UnflaggedRead
<1>2. ASSUME NEW q \in Receivers, ReceiverSteps(q) \/ Poll(q) PROVE UnflaggedRead'
  <2>1. \A r \in Receivers \ {q} : rd'[r] = rd[r]
    BY <1>2, ReceiverEffect
  <2>2. rd'[q].pc = "read" /\ rd'[q].un \notin Done => robbed
    <3>1. CASE CheckFlag(q)
      <4>1. rd[q].un \notin Done => wr = "sent"
        BY DEF UNsAnnounced, Announced, Done
      <4> QED
        BY <3>1, <4>1, CheckFlagEffect DEF FlagUp
    <3>2. CASE /\ rd[q].pc \in {"held", "recheck", "reset"}
               /\ rd'[q].un = rd[q].un
      BY <3>2 DEF WaitedDone
    <3>3. CASE rd'[q].pc \in {"check", "held"} \/ rd'[q] = Idle
      BY <3>3 DEF Idle
    <3> QED
      BY <1>2, <3>1, <3>2, <3>3, ReceiverEffect
  <2> QED
    BY <1>0, <2>1, <2>2 DEF UnflaggedRead
<1> QED
  BY <1>1, <1>2, WriterEffect DEF NotifyNext

\* A read misses its message only where UnflaggedRead has the flag robbed.
LEMMA MissedStep ==
  ASSUME NotifyTypeOK, WaitedDone, UnflaggedRead, WaitersSeeMessage, MissedOnlyIfRobbed,
         [NotifyNext]_notifyVars
  PROVE  WaitersSeeMessage' /\ MissedOnlyIfRobbed'
<1>1. ASSUME NEW q \in Receivers, ReadLB(q), missed' # missed
      PROVE  /\ missed' = missed \cup {[un |-> rd[q].un, waited |-> rd[q].waited]}
             /\ ~rd[q].waited /\ robbed
  <2>1. /\ rd[q].un \notin Done /\ rd[q].pc = "read"
        /\ missed' = missed \cup {[un |-> rd[q].un, waited |-> rd[q].waited]}
    BY <1>1 DEF ReadLB, Done
  <2> QED
    BY <2>1 DEF WaitedDone, UnflaggedRead
<1>2. CASE UNCHANGED missed
  BY <1>2, RobbedStays DEF WaitersSeeMessage, MissedOnlyIfRobbed
<1>3. ASSUME NEW q \in Receivers, ReadLB(q), missed' # missed
      PROVE  WaitersSeeMessage' /\ MissedOnlyIfRobbed'
  BY <1>1, <1>3, RobbedStays DEF WaitersSeeMessage, MissedOnlyIfRobbed
<1>4. ASSUME NEW q \in Receivers, ReceiverSteps(q) \/ Poll(q), ~ReadLB(q)
      PROVE  UNCHANGED missed
  BY <1>4 DEF ReceiverSteps, Receive, Poll, CheckFlag, GetLock, DropLock, RecheckFlag,
              ResetFlag, history
<1> QED
  BY <1>2, <1>3, <1>4, WriterEffect DEF NotifyNext

\* The parts of the invariant, together.
LEMMA NotifyInvStep == NotifyInv /\ [NotifyNext]_notifyVars => NotifyInv'
BY TypeStep, WritingStep, UNsAnnouncedStep, WaitedDoneStep, FlagUpStep, UnflaggedReadStep,
   MissedStep DEF NotifyInv

\* The inductive invariant holds throughout: from the lock to the read, every
\* receiver knows what WaitedDone, FlagUp and UnflaggedRead say.
THEOREM NotifyInvariance == NotifySpec => []NotifyInv
BY NotifyInvInit, NotifyInvStep, PTL DEF NotifySpec

(***************************************************************************)
(* The state keeps its type, and the exclusive lock of the LB is always     *)
(* held by exactly the process that is between taking and dropping it, for  *)
(* any number of receivers and of writers that die.                         *)
(***************************************************************************)
THEOREM NotifyTypeCorrect == NotifySpec => []NotifyTypeOK
<1>1. NotifyInv => NotifyTypeOK
  BY DEF NotifyInv
<1> QED
  BY <1>1, NotifyInvariance, PTL

(***************************************************************************)
(* Check_upd_flag: the lock taken and dropped by a call that found the flag *)
(* up is enough for that call to see the message of its UN, unless the      *)
(* writer died.                                                             *)
(***************************************************************************)
THEOREM WaitersCorrect == NotifySpec => []WaitersSeeMessage
<1>1. NotifyInv => WaitersSeeMessage
  BY DEF NotifyInv
<1> QED
  BY <1>1, NotifyInvariance, PTL

(***************************************************************************)
(* Check_upd_flag's unlocked second look and store (lb_common.c:540-546)    *)
(* are the only way for a receiver to miss the message of its UN.           *)
(***************************************************************************)
THEOREM MissedCorrect == NotifySpec => []MissedOnlyIfRobbed
<1>1. NotifyInv => MissedOnlyIfRobbed
  BY DEF NotifyInv
<1> QED
  BY <1>1, NotifyInvariance, PTL
================================================================================
