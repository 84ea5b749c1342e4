-------------------------------- MODULE LBShare --------------------------------
(***************************************************************************)
(* LB_SHARE_STREAM: the readers that call LB_read (LB_SHARED_READ) divide   *)
(* one stream of messages among them. The pointer of the next message to    *)
(* deliver is hd->ptr_read; its page number is kept by nobody, and each     *)
(* reader takes the page of the message it read last itself.                *)
(***************************************************************************)
EXTENDS LBUnread, Sequences

CONSTANTS
  ClearsToo,  \* the writer also calls LB_clear
  Discards,   \* LB_misc (LB_DISCARD_UNREAD_IN_SHARED_STREAM) is called too
  Restarts    \* readers also close and open the LB again

ASSUME ShareAssumption ==
  ShareStream /\ {ClearsToo, Discards, Restarts} \subseteq BOOLEAN

VARIABLES
  rpage,      \* reader -> lb->rpage
  delivered,  \* messages returned by LB_read, in order (history)
  skipped,    \* messages LB_EXPIRED was returned for that had not expired (history)
  overrun,    \* messages a must-read LB lost without a look at ptr_read (history)
  dropped     \* messages below this were dropped by LB_clear or discarded (history)

vars == <<num, page, ptr_read, written, rpage, delivered, skipped, overrun, dropped>>

history == <<delivered, skipped, overrun, dropped>>

\* LB_open takes the page of the next message.
OpenPage == CorrectedPage(num.p, page)

\* Mutation: LB_TO_COME moves the pointers too.
SharedReadAhead(r) ==
  LET next == (ptr_read + 1) % PtrRange
  IN  /\ ptr_read' = next
      /\ rpage' = [rpage EXCEPT ![r] = CorrectedPage(next, @)]
      /\ delivered' = Append(delivered, ReadNumber)
      /\ UNCHANGED <<num, page, written, skipped, overrun, dropped>>

\* LB_read (LB_SHARED_READ). Both LB_EXPIRED and a message move the pointers on.
SharedRead(r) ==
  LET verdict == CheckPointer(num, page, ptr_read, rpage[r])
      next    == (ptr_read + 1) % PtrRange
  IN  IF verdict = "toCome" THEN UNCHANGED vars
      ELSE /\ ptr_read' = next
           /\ rpage' = [rpage EXCEPT ![r] = CorrectedPage(next, @)]
           /\ delivered' = IF verdict = "ok" THEN Append(delivered, ReadNumber) ELSE delivered
           /\ skipped' = IF verdict = "expired" /\ ReadNumber >= First
                         THEN skipped \cup {ReadNumber} ELSE skipped
           /\ UNCHANGED <<num, page, written, overrun, dropped>>

Write(c) ==
  /\ WriteMessage(c)
  /\ overrun' = overrun \cup {m \in First .. First' - 1 : MustRead /\ Overrun(m)}
  /\ UNCHANGED <<rpage, delivered, skipped, dropped>>

Clear(k) ==
  /\ ClearsToo
  /\ ClearMessages(k)
  /\ dropped' = IF First + k > dropped THEN First + k ELSE dropped
  /\ UNCHANGED <<rpage, delivered, skipped, overrun>>

\* LB_misc (LB_DISCARD_UNREAD_IN_SHARED_STREAM)
Discard ==
  /\ Discards
  /\ ptr_read' = num.p
  /\ dropped' = written
  /\ UNCHANGED <<num, page, written, rpage, delivered, skipped, overrun>>

Restart(r) ==
  /\ Restarts
  /\ rpage' = [rpage EXCEPT ![r] = OpenPage]
  /\ UNCHANGED <<hdvars, history>>

Init ==
  /\ HeaderInit
  /\ rpage = [r \in Readers |-> OpenPage]
  /\ delivered = <<>>
  /\ skipped = {} /\ overrun = {}
  /\ dropped = Start

Next ==
  \/ \E c \in 0 .. MaxMsgs : Write(c)
  \/ \E k \in 1 .. MaxMsgs : Clear(k)
  \/ Discard
  \/ \E r \in Readers : SharedRead(r) \/ Restart(r)

Spec == Init /\ [][Next]_vars

\* Each reader keeps calling LB_read.
FairSpec == Spec /\ \A r \in Readers : WF_vars(SharedRead(r))

--------------------------------------------------------------------------------

TypeOK ==
  /\ HeaderTypeOK
  /\ rpage \in [Readers -> Int]
  /\ delivered \in Seq(Start .. Start + MaxWritten - 1)
  /\ skipped \subseteq Int /\ overrun \subseteq Start .. Start + MaxWritten
  /\ dropped \in Start .. Start + MaxWritten

(***************************************************************************)
(* lb.3, LB_SHARE_STREAM: "each message must be read by one of the readers  *)
(* ... The messages are read sequentially ... No message will be read by    *)
(* multiple readers". Delivery is in order and without repetition, and the  *)
(* stream passes only what was delivered or dropped by request, what        *)
(* expired (of an LB that is of type LB_MUST_READ as well, the message a    *)
(* full LB does not look at), and what a reader that lost the page of the   *)
(* stream took for expired.                                                 *)
(***************************************************************************)
DeliveredOnce ==
  /\ ReadNumber <= written \/ written \in skipped
  /\ \A i \in 1 .. Len(delivered) - 1 : delivered[i] < delivered[i + 1]
  /\ \A m \in Start .. written - 1 :
       m < ReadNumber /\ m >= dropped =>
         \/ \E i \in 1 .. Len(delivered) : delivered[i] = m
         \/ m < First /\ (~MustRead \/ m \in overrun)
         \/ m \in skipped

\* A reader that falls behind is told LB_EXPIRED, and only then.
ExpiredIsTrue == skipped = {}

(***************************************************************************)
(* What a stale lb->rpage costs, at most two pages behind: LB_EXPIRED never *)
(* passes over a message that is there, only over one that is still to be   *)
(* written, and afterwards the reader knows the page of the stream again.   *)
(***************************************************************************)
PassesNextOnly(r) ==
  /\ ReadNumber >= written
  /\ rpage[r] < PageOf(ReadNumber)
  /\ rpage'[r] = PageOf(ReadNumber + 1)

StalePagePassesNext ==
  [][\A r \in Readers :
       SharedRead(r) /\ skipped' # skipped /\ PageOf(written + 1) - rpage[r] <= 2
         => PassesNextOnly(r)]_vars

(***************************************************************************)
(* While readers keep reading, every message is delivered, dropped or       *)
(* expires: nobody waits (LB_TO_COME) for a message that is there.          *)
(***************************************************************************)
StreamAdvances ==
  \A m \in Start .. Start + MaxWritten - 1 : (m < written) ~> (ReadNumber > m)
================================================================================
