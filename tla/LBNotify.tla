-------------------------------- MODULE LBNotify -------------------------------
(***************************************************************************)
(* Update notification (UN) and the header word hd->upd_flag. LB_write      *)
(* sends the UN of a message before the message is available (it may have   *)
(* to be sent to many hosts, and the writer may die), so it raises upd_flag *)
(* first and lowers it last. A process that receives UNs looks at upd_flag  *)
(* at the start of each call, without a lock; if it is up it waits for the  *)
(* exclusive lock, lets it go, and lowers the flag if it is still up: the   *)
(* writer must have died.                                                   *)
(***************************************************************************)
EXTENDS Naturals, Sequences

CONSTANTS
  Receivers,   \* processes that called LB_UN_register: lb->upd_flag_check is set
  MaxWrites,   \* bound on LB_write calls
  MaxPolls     \* bound on reads that follow no UN

ASSUME NotifyAssumption ==
  /\ Receivers \cap {"free", "writer"} = {}
  /\ MaxWrites \in Nat /\ MaxPolls \in Nat

VARIABLES
  lock,       \* holder of the LB's exclusive lock: "free", "writer" or a receiver
  upd_flag,   \* hd->upd_flag
  wr,         \* progress of the process that writes (one at a time: the lock)
  inbox,      \* receiver -> UNs on their way to it, in order
  rd,         \* receiver -> progress of its call and the UN that led to it
  published,  \* messages made available (history)
  died,       \* messages whose writer died before making them available (history)
  writes,     \* LB_write calls so far; also the message being written
  polls,      \* reads that followed no UN (bound)
  robbed,     \* a receiver lowered the flag of a live writer (history)
  missed      \* reads that did not find the message of their UN (history)

notifyVars == <<lock, upd_flag, wr, inbox, rd, published, died, writes, polls, robbed, missed>>

history == <<published, died, robbed, missed>>

NoUN == 0

Idle == [pc |-> "idle", un |-> NoUN, waited |-> FALSE]

--------------------------------------------------------------------------------
(* The writer *)

\* LB_lock_mmap (lb, WRITE_PERM, EXC_LOCK)
Lock ==
  /\ wr = "idle" /\ lock = "free"
  /\ writes < MaxWrites
  /\ lock' = "writer" /\ wr' = "locked"
  /\ writes' = writes + 1
  /\ UNCHANGED <<upd_flag, inbox, rd, polls, history>>

\* Mutation: the flag is not raised.
RaiseNoFlag ==
  /\ wr = "locked"
  /\ wr' = "flagged"
  /\ UNCHANGED <<lock, upd_flag, inbox, rd, writes, polls, history>>

\* Send_to_server raises the flag when it takes the first UN, ...
RaiseFlag ==
  /\ wr = "locked"
  /\ upd_flag' = TRUE
  /\ wr' = "flagged"
  /\ UNCHANGED <<lock, inbox, rd, writes, polls, history>>

\* ... and the UNs leave at the end of LB_process_nr.
SendUN ==
  /\ wr = "flagged"
  /\ inbox' = [r \in Receivers |-> Append(inbox[r], writes)]
  /\ wr' = "sent"
  /\ UNCHANGED <<lock, upd_flag, rd, writes, polls, history>>

\* LB_Update_pointer
Publish ==
  /\ wr = "sent"
  /\ published' = published \cup {writes}
  /\ wr' = "published"
  /\ UNCHANGED <<lock, upd_flag, inbox, rd, died, writes, polls, robbed, missed>>

\* LB_Unlock_return: the flag, ...
LowerFlag ==
  /\ wr = "published"
  /\ upd_flag' = FALSE
  /\ wr' = "lowered"
  /\ UNCHANGED <<lock, inbox, rd, writes, polls, history>>

\* ... then the lock.
Unlock ==
  /\ wr = "lowered"
  /\ lock' = "free" /\ wr' = "idle"
  /\ UNCHANGED <<upd_flag, inbox, rd, writes, polls, history>>

\* The writer dies; the kernel drops its lock and nothing lowers the flag.
WriterDies ==
  /\ wr # "idle"
  /\ lock' = "free" /\ wr' = "idle"
  /\ died' = IF writes \in published THEN died ELSE died \cup {writes}
  /\ UNCHANGED <<upd_flag, inbox, rd, published, writes, polls, robbed, missed>>

WriterSteps == RaiseFlag \/ SendUN \/ Publish \/ LowerFlag \/ Unlock

--------------------------------------------------------------------------------
(* The receivers *)

Go(r, pc) == rd' = [rd EXCEPT ![r].pc = pc]

\* The UN's callback, or the loop around it, calls LB_read.
Receive(r) ==
  /\ rd[r].pc = "idle" /\ inbox[r] # <<>>
  /\ rd' = [rd EXCEPT ![r] = [pc |-> "check", un |-> Head(inbox[r]), waited |-> FALSE]]
  /\ inbox' = [inbox EXCEPT ![r] = Tail(@)]
  /\ UNCHANGED <<lock, upd_flag, wr, writes, polls, history>>

\* A call that no UN led to.
Poll(r) ==
  /\ rd[r].pc = "idle" /\ polls < MaxPolls
  /\ polls' = polls + 1
  /\ Go(r, "check")
  /\ UNCHANGED <<lock, upd_flag, wr, inbox, writes, history>>

\* Check_upd_flag (lb, READ_PERM): the first look ...
CheckFlag(r) ==
  /\ rd[r].pc = "check"
  /\ IF upd_flag THEN rd' = [rd EXCEPT ![r] = [pc |-> "wait", un |-> @.un, waited |-> TRUE]]
     ELSE Go(r, "read")
  /\ UNCHANGED <<lock, upd_flag, wr, inbox, writes, polls, history>>

\* Mutation: the lock is not waited for (SET_LOCK).
GetLockNoWait(r) ==
  /\ rd[r].pc = "wait"
  /\ lock' = IF lock = "free" THEN r ELSE lock
  /\ Go(r, IF lock = "free" THEN "held" ELSE "recheck")
  /\ UNCHANGED <<upd_flag, wr, inbox, writes, polls, history>>

\* ... SET_LOCK_WAIT ...
GetLock(r) ==
  /\ rd[r].pc = "wait" /\ lock = "free"
  /\ lock' = r
  /\ Go(r, "held")
  /\ UNCHANGED <<upd_flag, wr, inbox, writes, polls, history>>

\* Mutation: the lock is kept.
DropNoLock(r) ==
  /\ rd[r].pc = "held"
  /\ Go(r, "recheck")
  /\ UNCHANGED <<lock, upd_flag, wr, inbox, writes, polls, history>>

\* ... UNSET_LOCK ...
DropLock(r) ==
  /\ rd[r].pc = "held"
  /\ lock' = "free"
  /\ Go(r, "recheck")
  /\ UNCHANGED <<upd_flag, wr, inbox, writes, polls, history>>

\* Mutation: the flag is left to the next writer.
RecheckNoFlag(r) ==
  /\ rd[r].pc = "recheck"
  /\ Go(r, "read")
  /\ UNCHANGED <<lock, upd_flag, wr, inbox, writes, polls, history>>

\* ... the second look, which holds no lock, ...
RecheckFlag(r) ==
  /\ rd[r].pc = "recheck"
  /\ Go(r, IF upd_flag THEN "reset" ELSE "read")
  /\ UNCHANGED <<lock, upd_flag, wr, inbox, writes, polls, history>>

\* ... and the store that follows from it.
ResetFlag(r) ==
  /\ rd[r].pc = "reset"
  /\ upd_flag' = FALSE
  /\ robbed' = (robbed \/ wr \in {"flagged", "sent"})
  /\ Go(r, "read")
  /\ UNCHANGED <<lock, wr, inbox, published, died, writes, polls, missed>>

\* The read itself finds the messages that are available now.
ReadLB(r) ==
  LET m == rd[r].un
  IN  /\ rd[r].pc = "read"
      /\ missed' = IF m = NoUN \/ m \in published \cup died THEN missed
                   ELSE missed \cup {[un |-> m, waited |-> rd[r].waited]}
      /\ rd' = [rd EXCEPT ![r] = Idle]
      /\ UNCHANGED <<lock, upd_flag, wr, inbox, published, died, writes, polls, robbed>>

ReceiverSteps(r) ==
  \/ Receive(r) \/ CheckFlag(r) \/ GetLock(r) \/ DropLock(r) \/ RecheckFlag(r)
  \/ ResetFlag(r) \/ ReadLB(r)

--------------------------------------------------------------------------------

NotifyInit ==
  /\ lock = "free" /\ upd_flag = FALSE /\ wr = "idle"
  /\ inbox = [r \in Receivers |-> <<>>]
  /\ rd = [r \in Receivers |-> Idle]
  /\ published = {} /\ died = {} /\ missed = {} /\ robbed = FALSE
  /\ writes = 0 /\ polls = 0

NotifyNext ==
  \/ Lock \/ WriterSteps \/ WriterDies
  \/ \E r \in Receivers : ReceiverSteps(r) \/ Poll(r)

NotifySpec == NotifyInit /\ [][NotifyNext]_notifyVars

\* A writer that does not die goes on, and so do the receivers; nobody must
\* write, die or poll.
FairSpec ==
  /\ NotifySpec
  /\ WF_notifyVars(WriterSteps)
  /\ \A r \in Receivers : WF_notifyVars(ReceiverSteps(r))

\* The lock is held by whoever is in the middle of it.
LockOwned ==
  /\ lock = "writer" <=> wr # "idle"
  /\ \A r \in Receivers : lock = r <=> rd[r].pc = "held"

NotifyTypeOK ==
  /\ lock \in {"free", "writer"} \cup Receivers
  /\ upd_flag \in BOOLEAN
  /\ wr \in {"idle", "locked", "flagged", "sent", "published", "lowered"}
  /\ inbox \in [Receivers -> Seq(1 .. MaxWrites)]
  /\ rd \in [Receivers -> [pc : {"idle", "check", "wait", "held", "recheck", "reset", "read"},
                           un : 0 .. MaxWrites, waited : BOOLEAN]]
  /\ published \subseteq 1 .. MaxWrites /\ died \subseteq 1 .. MaxWrites
  /\ writes \in 0 .. MaxWrites /\ polls \in 0 .. MaxPolls
  /\ robbed \in BOOLEAN
  /\ missed \subseteq [un : 1 .. MaxWrites, waited : BOOLEAN]
  /\ LockOwned

(***************************************************************************)
(* lb_common.c, Check_upd_flag: the wait "is needed to guarantee that we    *)
(* always access updated LB after receiving an UN". No read that follows a  *)
(* UN looks at the LB while the message of the UN is still being written.   *)
(***************************************************************************)
UpdatedAfterUN == missed = {}

(***************************************************************************)
(* A receiver that found the flag up and waited does see its message, or    *)
(* the writer died, whatever other writers and receivers do in between.     *)
(***************************************************************************)
WaitersSeeMessage == \A x \in missed : ~x.waited

(***************************************************************************)
(* Only one thing can make a receiver miss the message of its UN: another   *)
(* call lowered the flag of a writer that was alive.                        *)
(***************************************************************************)
MissedOnlyIfRobbed == missed # {} => robbed

(***************************************************************************)
(* Nobody stays in the wait for the lock, and every UN is handled, also     *)
(* when a writer dies with the flag up or the lock held. lb_common.c,       *)
(* Check_upd_flag, "this happens only if the writer dies before completing  *)
(* write": a receiver that handles the UN of a dead writer leaves the flag  *)
(* down, so that later calls need not take the lock.                        *)
(***************************************************************************)
UNsHandled ==
  \A r \in Receivers :
    /\ (inbox[r] # <<>>) ~> (inbox[r] = <<>> /\ rd[r].pc = "idle")
    /\ \A m \in 1 .. MaxWrites :
         (m \in died /\ rd[r].un = m) ~> (~upd_flag \/ writes > m)
================================================================================
