-------------------------------- MODULE LBQueue --------------------------------
(***************************************************************************)
(* What a sequential linear buffer promises (lb.doc): messages are appended *)
(* to a log; the oldest ones may expire; each reader walks the log at its   *)
(* own pace. "No messages written to an LB are ever lost before their       *)
(* expiration and no corrupted messages are ever read." A read takes time:  *)
(* its answer must be right for some instant between its begin and its end. *)
(***************************************************************************)
EXTENDS Integers, Sequences

CONSTANTS Readers, Messages

VARIABLES
  log,     \* every message published, in order
  first,   \* the messages log[first + 1 ..] have not expired
  cursor,  \* reader -> number of messages it has passed
  asked,   \* reader -> what held when its read began, or NotReading
  answer   \* reader -> the outcome of its last read, or NoAnswer

vars == <<log, first, cursor, asked, answer>>

NotReading == [reading |-> FALSE, published |-> 0, expired |-> 0]
NoAnswer == [kind |-> "none"]

Init ==
  /\ log = <<>>
  /\ first = 0
  /\ cursor = [r \in Readers |-> 0]
  /\ asked = [r \in Readers |-> NotReading]
  /\ answer = [r \in Readers |-> NoAnswer]

\* A message is appended and at most one expires: the oldest, which is the new
\* message itself when all the others have expired before.
Publish(m) ==
  /\ log' = Append(log, m)
  /\ first' \in {first, first + 1}
  /\ UNCHANGED <<cursor, asked, answer>>

\* Oldest messages expire: removed by LB_clear, or by a writer needing space.
Expire ==
  /\ first' \in first + 1 .. Len(log)
  /\ UNCHANGED <<log, cursor, asked, answer>>

BeginRead(r) ==
  /\ asked[r] = NotReading
  /\ asked' = [asked EXCEPT ![r] =
       [reading |-> TRUE, published |-> Len(log), expired |-> first]]
  /\ answer' = [answer EXCEPT ![r] = NoAnswer]
  /\ UNCHANGED <<log, first, cursor>>

EndRead(r, a, step) ==
  /\ asked[r] # NotReading
  /\ asked' = [asked EXCEPT ![r] = NotReading]
  /\ answer' = [answer EXCEPT ![r] = a]
  /\ cursor' = [cursor EXCEPT ![r] = @ + step]
  /\ UNCHANGED <<log, first>>

\* The message, whole or cut to the caller's buffer; it had not expired when
\* the read began.
ReturnMessage(r, whole) ==
  /\ cursor[r] < Len(log)
  /\ cursor[r] >= asked[r].expired
  /\ EndRead(r, [kind |-> IF whole THEN "message" ELSE "cut",
                 msg  |-> log[cursor[r] + 1]], 1)

\* Only a message that has expired is reported expired.
ReturnExpired(r) == cursor[r] < first /\ EndRead(r, [kind |-> "expired"], 1)

\* Only a message not yet published when the read began is "to come".
ReturnToCome(r) ==
  cursor[r] >= asked[r].published /\ EndRead(r, [kind |-> "toCome"], 0)

\* LB_seek to the first or the latest message: one that was there during the
\* call, or the next to come.
Seek(r, target) ==
  /\ asked[r] # NotReading
  /\ target \in asked[r].expired .. Len(log)
  /\ cursor' = [cursor EXCEPT ![r] = target]
  /\ asked' = [asked EXCEPT ![r] = NotReading]
  /\ UNCHANGED <<log, first, answer>>

Next ==
  \/ \E m \in Messages : Publish(m)
  \/ Expire
  \/ \E r \in Readers :
       \/ BeginRead(r)
       \/ \E whole \in BOOLEAN : ReturnMessage(r, whole)
       \/ ReturnExpired(r)
       \/ ReturnToCome(r)
       \/ \E target \in asked[r].expired .. Len(log) : Seek(r, target)

Spec == Init /\ [][Next]_vars
================================================================================
