-------------------------------- MODULE CMRequests -----------------------------
(***************************************************************************)
(* The comm manager cm_tcp: the requests of one dedicated link. A pass of   *)
(* the main loop reads all requests in the LB ("get"), processes one of them *)
(* and polls the sockets ("poll"). Requests stay in a ring, req, until their *)
(* response was sent; a write in progress on a circuit (PVC) and the         *)
(* connect in progress are kept as indices into the ring. The network, the   *)
(* other side and the user who sends requests are the environment.           *)
(***************************************************************************)
EXTENDS Integers, Sequences

CONSTANTS
  NPvc,        \* link->n_pvc
  MaxReqs,     \* MAX_N_REQS
  MaxRequests  \* bound on requests sent by the user

ASSUME CMAssumption ==
  /\ NPvc \in Nat \ {0} /\ MaxReqs \in Nat \ {0}
  /\ MaxRequests \in Nat

VARIABLES
  link,     \* the fields of Link_struct, and its responses: see Init
  data_en,  \* link->data_en: the other side acknowledges data
  phase,    \* part of the main loop: "get" or "poll"
  sent      \* requests sent so far; the last one's req_num

vars == <<link, data_en, phase, sent>>

Pvcs == 1 .. NPvc
Slots == 0 .. MaxReqs - 1
Nums == 1 .. MaxRequests
None == 0

Types == {"CONNECT", "DISCONNECT", "WRITE", "STATUS", "CANCEL"}
Codes == {"SUCCESS", "FAILED", "DISCONNECTED", "TERMINATED", "IN_PROCESSING",
          "TOO_MANY_REQUESTS", "INVALID_PARAMETER", "COUNT"}

\* req_struct. parm: the circuit of a WRITE; the number a CANCEL is for, None for all.
Request == [type : Types, parm : Nat, num : Nat, state : {"new", "started", "done"}]

AllDone == [type |-> "STATUS", parm |-> None, num |-> None, state |-> "done"]

--------------------------------------------------------------------------------
(* The ring. l is a value of link. *)

Slot(l, i) == (l.st_ind + i) % MaxReqs

Offset(l, x) == (MaxReqs + x - l.st_ind) % MaxReqs

InRing(l) == {Slot(l, i) : i \in 0 .. l.n_reqs - 1}

Unfinished(l) == {x \in InRing(l) : l.req[x].state # "done"}

\* The request numbers that still wait for their end.
Live(l) == {l.req[x].num : x \in Unfinished(l)}

\* memcpy of the requests behind x, as far as the ring of l reaches
Shifted(l, req, x) ==
  [y \in Slots |-> IF Offset(l, x) <= Offset(l, y) /\ Offset(l, y) < l.n_reqs - 1
                   THEN req[(y + 1) % MaxReqs] ELSE req[y]]

\* The body of the loop below, at place x; r is what became of l so far.
RemoveAt(l, matching, r, x) ==
  IF r.req[x] \in matching
  THEN [r EXCEPT !.req = Shifted(l, @, x), !.n_reqs = @ - 1] ELSE r

\* The loop over the ring that removes the requests in matching. After a removal the
\* index moves on all the same: the request that took the place is passed over, and
\* copies left behind the end are visited.
RemoveMatching(l, matching) ==
  LET r[i \in 0 .. l.n_reqs] ==
        IF i = 0 THEN l ELSE RemoveAt(l, matching, r[i - 1], Slot(l, i - 1))
  IN  r[l.n_reqs]

\* The requests in the ring that are finished.
Finished(l) == {l.req[x] : x \in InRing(l) \ Unfinished(l)}

\* Mutation: those at the front go like the others, and the rest moves.
RmDoneShift(l) == RemoveMatching(l, Finished(l))

\* Rm_done_requests: those at the front go by moving st_ind.
RmDoneRequests(l) ==
  LET live == {i \in 0 .. l.n_reqs - 1 : l.req[Slot(l, i)].state # "done"}
      cnt == IF live = {} THEN l.n_reqs ELSE CHOOSE i \in live : \A j \in live : i <= j
      front == [l EXCEPT !.st_ind = (@ + cnt) % MaxReqs, !.n_reqs = @ - cnt]
  IN  RemoveMatching(front, Finished(front))

\* "put the request in the list"
Put(l, r) == [l EXCEPT !.req[Slot(l, l.n_reqs)] = r, !.n_reqs = @ + 1]

--------------------------------------------------------------------------------
(* Responses *)

\* What the user last heard of the connection.
Heard(l, r, code) ==
  IF r.type = "CONNECT" /\ code = "SUCCESS" THEN TRUE
  ELSE IF r.type \in {"CONNECT", "DISCONNECT"} /\ code \in {"SUCCESS", "FAILED"} THEN FALSE
  ELSE l.heard

\* CMPR_send_response for r, which may or may not be in the ring.
Respond(l, r, code) ==
  LET resets == r.type \in {"CONNECT", "DISCONNECT"} /\ code # "IN_PROCESSING"
  IN  [l EXCEPT
        !.w_buf = IF r.type # "WRITE" THEN @
                  ELSE [p \in Pvcs |-> IF @[p] = r.num THEN None ELSE @[p]],
        !.conn_activity = IF resets THEN "NO_ACTIVITY" ELSE @,
        !.out = Append(@, [num |-> r.num, type |-> r.type, code |-> code]),
        !.heard = Heard(l, r, code)]

\* The same for the request at index x, which is marked as finished.
RespondAt(l, x, code) ==
  LET done == Respond(l, l.req[x], code) IN [done EXCEPT !.req[x].state = "done"]

RespondIfType(r, x, type, code) ==
  IF r.req[x].type = type /\ r.req[x].state # "done" THEN RespondAt(r, x, code) ELSE r

\* while ((i = Pending_request (link, type, ind)) >= 0) ...: unfinished ones before ind
RespondPending(l, type, ind, code) ==
  LET r[i \in 0 .. Offset(l, ind)] ==
        IF i = 0 THEN l ELSE RespondIfType(r[i - 1], Slot(l, i - 1), type, code)
  IN  r[Offset(l, ind)]

\* What CMPR_cleanup does to the request at x.
CleanupAt(r, x) ==
  IF r.req[x].type # "WRITE" \/ r.req[x].state = "done" THEN r
  ELSE IF r.req[x].state = "started" THEN RespondAt(r, x, "DISCONNECTED")
  ELSE [r EXCEPT !.req[x].state = "done", !.gone = @ \cup {r.req[x].num}]

\* CMPR_cleanup: writes that were not started are dropped without an answer.
Cleanup(l) ==
  LET r[i \in 0 .. l.n_reqs] == IF i = 0 THEN l ELSE CleanupAt(r[i - 1], Slot(l, i - 1))
  IN  r[l.n_reqs]

\* CMPR_connect_failure, with the event CM_LOST_CONN
ConnectFailure(l) ==
  LET lost == l.conn_activity = "NO_ACTIVITY" /\ l.link_state = "CONNECTED"
      down == Cleanup([l EXCEPT !.link_state = "DISCONNECTED",
                                !.heard = IF lost THEN FALSE ELSE @])
  IN  IF down.conn_activity = "NO_ACTIVITY" THEN down
      ELSE RespondAt(down, down.conn_req_ind, "FAILED")

--------------------------------------------------------------------------------
(* Connections (cmt_tcp.c) *)

\* Disconnect closes all sockets and ends in End_disconnecting.
Disconnect(l) ==
  IF l.conn_activity = "DISCONNECTING"
  THEN LET down == [Cleanup(l) EXCEPT !.link_state = "DISCONNECTED", !.sockets = FALSE]
       IN  RespondAt(down, down.conn_req_ind, "SUCCESS")
  ELSE [l EXCEPT !.sockets = (l.conn_activity = "CONNECTING")]  \* opened for the next step

\* HA_connection_procedure
ConnectionProcedure(l) == Disconnect(Cleanup([l EXCEPT !.link_state = "DISCONNECTED"]))

\* Process_exception on a dedicated link
Exception(l) == Disconnect(ConnectFailure(l))

\* End_connecting
EndConnecting(l) ==
  [RespondAt(l, l.conn_req_ind, "SUCCESS") EXCEPT !.link_state = "CONNECTED"]

--------------------------------------------------------------------------------
(* Writing (cmt_tcp.c) *)

\* Mutation: the response does not wait for the acknowledgment.
WriteOutcomesUnacked(l, p) ==
  LET w == [l EXCEPT !.w_cnt[p] = "all"]
  IN  {l, RespondAt(w, w.w_req_ind[p], "SUCCESS")}

\* TCP_write_data: what a call can lead to. Some data are written; once all are written
\* and, if data_en, acknowledged, the request is answered. A socket may fail.
WriteOutcomes(l, p) ==
  LET ind == l.w_req_ind[p]
      failed == Exception(RespondAt(l, ind, "FAILED"))
      written == [l EXCEPT !.w_cnt[p] = IF data_en THEN "all" ELSE "acked"]
      answered(w) == RespondAt([w EXCEPT !.conveyed = w.w_buf[p]], ind, "SUCCESS")
  IN  IF l.link_state # "CONNECTED" THEN {RespondAt(l, ind, "DISCONNECTED")}
      ELSE IF l.w_buf[p] = None THEN {l}
      ELSE CASE l.w_cnt[p] = "some" ->
                  {l, failed, IF data_en THEN written ELSE answered(written)}
             [] l.w_cnt[p] = "all" -> {l}
             [] OTHER -> {answered(l)}

--------------------------------------------------------------------------------
(* Reading requests: CMRR_get_requests *)

\* The link at the start of a step, before anything happens to its requests.
Quiet == [link EXCEPT !.out = << >>, !.gone = {}, !.conveyed = None]

\* Mutation: requests in processing are cancelled too.
MatchesAny(c, r) == r.state # "done" /\ (c.parm = None \/ c.parm = r.num)

Matches(c, r) == r.state = "new" /\ (c.parm = None \/ c.parm = r.num)

\* CMPR_process_cancel: requests that were not started are removed without an answer.
ProcessCancel(l, c) ==
  LET matching == {r \in {l.req[x] : x \in InRing(l)} : Matches(c, r)}
      rest == RemoveMatching(l, matching)
      lost == {r.num : r \in matching} \ Live(rest)
  IN  Respond([rest EXCEPT !.gone = @ \cup lost], c, "COUNT")

\* Check_request
Legal(r) == r.type = "WRITE" => r.parm \in Pvcs

\* A connect or disconnect turned away makes conn_activity forget the one in processing.
TurnAway(l, r) ==
  LET forgets == r.type \in {"CONNECT", "DISCONNECT"} /\ l.conn_activity # "NO_ACTIVITY"
  IN  [Respond(l, r, "TOO_MANY_REQUESTS") EXCEPT !.forgotten = @ \/ forgets]

\* Mutation: no room is made before the request is put in the list.
AcceptOver(l, r) == Put(l, r)

Accept(l, r) ==
  LET room == RmDoneRequests(l)
  IN  IF room.n_reqs >= MaxReqs THEN TurnAway(room, r) ELSE Put(room, r)

\* parm matters in writes (any number may be sent) and cancels (one before, or all).
NewRequests ==
  {[type |-> t, parm |-> None, num |-> sent + 1, state |-> "new"] : t \in Types}
    \cup {[type |-> "WRITE", parm |-> p, num |-> sent + 1, state |-> "new"] : p \in Pvcs}
    \cup {[type |-> "CANCEL", parm |-> n, num |-> sent + 1, state |-> "new"] : n \in 1 .. sent}

GetRequest ==
  /\ phase = "get" /\ sent < MaxRequests
  /\ sent' = sent + 1
  /\ \E r \in NewRequests :
       link' = IF ~Legal(r) THEN Respond(Quiet, r, "INVALID_PARAMETER")
               ELSE IF r.type = "CANCEL" THEN ProcessCancel(Quiet, r)
               ELSE Accept(Quiet, r)
  /\ UNCHANGED <<data_en, phase>>

--------------------------------------------------------------------------------
(* Processing a request: CMPR_process_requests *)

Fresh(l) == {x \in InRing(l) : l.req[x].state = "new"}

\* Mutation: a write may overtake an older one of its circuit.
AnyOfCircuit(l, x) ==
  /\ x \in Fresh(l)
  /\ l.req[x].type = "WRITE" => \A y \in Fresh(l) : l.req[y].type = "WRITE"

\* Search_req: x is the first fresh request that is no write, or else the first fresh
\* write of the circuit with the lowest number.
Next1st(l, x) ==
  LET before(y) == Offset(l, y) < Offset(l, x)
  IN  /\ x \in Fresh(l)
      /\ \A y \in Fresh(l) :
           IF l.req[x].type = "WRITE"
           THEN /\ l.req[y].type = "WRITE" /\ l.req[y].parm >= l.req[x].parm
                /\ before(y) => l.req[y].parm # l.req[x].parm
           ELSE before(y) => l.req[y].type = "WRITE"

Started(l, x, activity) ==
  [l EXCEPT !.req[x].state = "started", !.conn_activity = activity, !.conn_req_ind = x]

ProcessConnect(l, x) ==
  LET alone == RespondPending(l, "DISCONNECT", x, "SUCCESS")
      connecting == Started(alone, x, "CONNECTING")
  IN  IF alone.conn_activity = "CONNECTING" THEN RespondAt(alone, x, "IN_PROCESSING")
      ELSE IF alone.link_state = "CONNECTED" THEN RespondAt(alone, x, "SUCCESS")
      ELSE IF l.conn_activity = "NO_ACTIVITY" THEN ConnectionProcedure(connecting)
      ELSE connecting

ProcessDisconnect(l, x) ==
  LET alone == RespondPending(l, "CONNECT", x, "TERMINATED")
  IN  IF alone.conn_activity = "DISCONNECTING" THEN RespondAt(alone, x, "IN_PROCESSING")
      ELSE ConnectionProcedure(Started(alone, x, "DISCONNECTING"))

\* Mutation: a circuit without a connection is served later.
ProcessWriteLater(l, x) ==
  LET p == l.req[x].parm
      started == [l EXCEPT !.w_buf[p] = l.req[x].num, !.w_req_ind[p] = x,
                           !.w_cnt[p] = "some", !.req[x].state = "started"]
  IN  IF l.w_buf[p] # None THEN {l}
      ELSE IF l.link_state = "CONNECTED" THEN WriteOutcomes(started, p) ELSE {started}

\* Process_write: nothing while the circuit is busy
ProcessWrite(l, x) ==
  LET p == l.req[x].parm
  IN  IF l.w_buf[p] # None THEN {l}
      ELSE WriteOutcomes([l EXCEPT !.w_buf[p] = l.req[x].num, !.w_req_ind[p] = x,
                                   !.w_cnt[p] = "some", !.req[x].state = "started"], p)

\* STATUS stands for CM_STATUS and CM_SET_PARAMS: answered at once.
Outcomes(l, x) ==
  CASE l.req[x].type = "CONNECT" -> {ProcessConnect(l, x)}
    [] l.req[x].type = "DISCONNECT" -> {ProcessDisconnect(l, x)}
    [] l.req[x].type = "WRITE" -> ProcessWrite(l, x)
    [] OTHER -> {RespondAt(l, x, "SUCCESS")}

ProcessRequest ==
  /\ phase = "get" /\ phase' = "poll"
  /\ IF Fresh(link) = {} THEN link' = Quiet
     ELSE \E x \in Slots : Next1st(link, x) /\ link' \in Outcomes(Quiet, x)
  /\ UNCHANGED <<data_en, sent>>

--------------------------------------------------------------------------------
(* SH_poll and the house keeping *)

Polled(l) ==
  /\ phase = "poll"
  /\ link' = l
  /\ UNCHANGED <<data_en, phase, sent>>

\* All circuits of the link have logged in.
Connected == link.conn_activity = "CONNECTING" /\ Polled(EndConnecting(Quiet))

\* A socket fails or is closed by the other side, a time limit passes.
ConnectionLost == link.sockets /\ Polled(Exception(Quiet))

\* A socket takes data again, or a short message is to be sent.
WriteMore(p) ==
  /\ link.link_state = "CONNECTED"
  /\ \E l \in WriteOutcomes(Quiet, p) \ {Quiet} : Polled(l)

\* Process_data_ack: the first for the message counts
DataAck(p) ==
  LET acked == [Quiet EXCEPT !.w_cnt[p] = "acked"]
  IN  /\ data_en /\ link.link_state = "CONNECTED"
      /\ link.w_buf[p] # None /\ link.w_cnt[p] = "all"
      /\ \E l \in WriteOutcomes(acked, p) : Polled(l)

EndPoll ==
  /\ phase = "poll" /\ phase' = "get"
  /\ link' = Quiet
  /\ UNCHANGED <<data_en, sent>>

--------------------------------------------------------------------------------

\* CMC_initialize. What a step did: out (responses), gone (requests cancelled or dropped
\* without one), conveyed (the write that reached the other side). History: heard,
\* forgotten (see TurnAway).
Init ==
  /\ link = [st_ind |-> 0, n_reqs |-> 0, req |-> [x \in Slots |-> AllDone],
             link_state |-> "DISCONNECTED", sockets |-> FALSE,
             conn_activity |-> "NO_ACTIVITY", conn_req_ind |-> 0,
             w_buf |-> [p \in Pvcs |-> None], w_req_ind |-> [p \in Pvcs |-> 0],
             w_cnt |-> [p \in Pvcs |-> "some"],
             out |-> << >>, gone |-> {}, conveyed |-> None,
             heard |-> FALSE, forgotten |-> FALSE]
  /\ data_en \in BOOLEAN
  /\ phase = "get" /\ sent = 0

Next ==
  \/ GetRequest \/ ProcessRequest \/ EndPoll
  \/ Connected \/ ConnectionLost
  \/ \E p \in Pvcs : WriteMore(p) \/ DataAck(p)

Spec == Init /\ [][Next]_vars

(***************************************************************************)
(* The main loop goes on: a request read is followed by its processing, a    *)
(* poll ends. The other side of a connection that lasts takes the data, and   *)
(* acknowledges them, in some later poll: strong fairness of WriteMore and    *)
(* DataAck, with the states in which they are enabled spelled out.            *)
(***************************************************************************)
Pass == phase = "get" /\ phase' = "poll"

InPollWith(p, cnt) ==
  /\ phase = "poll" /\ link.link_state = "CONNECTED"
  /\ link.w_buf[p] # None /\ link.w_cnt[p] = cnt

FairSpec ==
  /\ Spec
  /\ WF_phase(Pass) /\ WF_vars(EndPoll)
  /\ \A p \in Pvcs :
       /\ []<>InPollWith(p, "some") => []<><<WriteMore(p)>>_vars
       /\ []<>(data_en /\ InPollWith(p, "all")) => []<><<DataAck(p)>>_vars

--------------------------------------------------------------------------------

Responses == [num : Nums, type : Types, code : Codes]

Links ==
  [st_ind : Slots, n_reqs : 0 .. MaxReqs, req : [Slots -> Request],
   link_state : {"CONNECTED", "DISCONNECTED"}, sockets : BOOLEAN,
   conn_activity : {"NO_ACTIVITY", "CONNECTING", "DISCONNECTING"}, conn_req_ind : Slots,
   w_buf : [Pvcs -> Nums \cup {None}], w_req_ind : [Pvcs -> Slots],
   w_cnt : [Pvcs -> {"some", "all", "acked"}],
   out : Seq(Responses), gone : SUBSET Nums, conveyed : Nums \cup {None},
   heard : BOOLEAN, forgotten : BOOLEAN]

TypeOK ==
  /\ link \in Links
  /\ data_en \in BOOLEAN
  /\ phase \in {"get", "poll"} /\ sent \in 0 .. MaxRequests

(***************************************************************************)
(* cmt_def.h: w_req_ind is "the request index in "req" array" of the data in *)
(* w_buf, conn_req_ind the "req index in "req" of the current connect/       *)
(* disconnect request being processed". The requests move, the indices do    *)
(* not: they are right all the same while a link has one circuit.            *)
(***************************************************************************)
InProcessing(x, type) ==
  x \in Unfinished(link) /\ link.req[x].type = type /\ link.req[x].state = "started"

WriteIndexRight ==
  \A p \in Pvcs : link.w_buf[p] # None =>
    LET x == link.w_req_ind[p]
    IN  InProcessing(x, "WRITE") /\ link.req[x].num = link.w_buf[p]

IndexRight ==
  ~link.forgotten =>
    /\ WriteIndexRight
    /\ link.conn_activity # "NO_ACTIVITY" => InProcessing(link.conn_req_ind, "CONNECT")

(***************************************************************************)
(* prod_distri.txt: "comm_manager responses to each request with a responding *)
(* message". Who gets a response was waiting for one, gets no second one in   *)
(* the step, is finished by it, and was not cancelled or dropped. Without a   *)
(* response a request stays in the ring, with one exception: the loop that    *)
(* removes finished requests may take one that stands between two of them.    *)
(***************************************************************************)
Answered(l) == {l.out[i].num : i \in DOMAIN l.out}

BetweenFinished(n) ==
  \E i, j, k \in 0 .. link.n_reqs - 1 :
    /\ i < j /\ j < k /\ link.req[Slot(link, j)].num = n
    /\ link.req[Slot(link, i)].state = "done" /\ link.req[Slot(link, k)].state = "done"

AnswersOnce ==
  /\ ~link'.forgotten =>
       /\ Answered(link') \subseteq Live(link) \cup ((sent + 1) .. sent')
       /\ \A i, j \in DOMAIN link'.out : link'.out[i].num = link'.out[j].num => i = j
       /\ Answered(link') \cap (Live(link') \cup link'.gone) = {}
  /\ \A n \in Live(link) : \/ n \in Live(link') \cup link'.gone \cup Answered(link')
                            \/ BetweenFinished(n)

AnsweredOnce == [][AnswersOnce]_vars

(***************************************************************************)
(* What the user hears is true: a write is answered CM_SUCCESS if and only   *)
(* if its data reached the other side, and responses and the event           *)
(* CM_LOST_CONN tell whether the link is connected.                          *)
(***************************************************************************)
UserToldTruth ==
  ~link.forgotten =>
    /\ \A n \in Nums :
         link.conveyed = n <=>
           \E i \in DOMAIN link.out :
             link.out[i] = [num |-> n, type |-> "WRITE", code |-> "SUCCESS"]
    /\ link.heard <=> link.link_state = "CONNECTED"

(***************************************************************************)
(* prod_distri.txt: "Requests of the same priority are processed             *)
(* sequentially": when the data of a write reached the other side, no write   *)
(* of its circuit that was sent before it is left, as long as no connect or   *)
(* disconnect was turned away by a full ring (link.forgotten). The connect    *)
(* that the link then forgets stays in the ring, requests behind it are       *)
(* shifted by Rm_done_requests, and a write is no longer at its w_req_ind.    *)
(***************************************************************************)
WritesOldest ==
  link'.forgotten \/ \A x, y \in Unfinished(link) :
    /\ link.req[x].type = "WRITE" /\ link.req[y].type = "WRITE"
    /\ link.req[x].parm = link.req[y].parm /\ link.req[x].num < link.req[y].num
    => link'.conveyed # link.req[y].num

WritesInOrder == [][WritesOldest]_vars

(***************************************************************************)
(* Every request comes to an end, whatever happens to the connection: when   *)
(* the user has stopped sending, at last only a connect may still wait for    *)
(* the other side, as long as no connect or disconnect was turned away.       *)
(***************************************************************************)
RequestsEnd == <>[](link.forgotten \/ \A x \in Unfinished(link) : link.req[x].type = "CONNECT")
================================================================================
