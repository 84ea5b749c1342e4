# Formal models of the ORPG infrastructure

The repository holds the Open Radar Product Generator (ORPG) of the WSR-88D
weather radar: about 1.5 million lines of C and Fortran. Most of it computes
(meteorological algorithms), displays, or configures. What makes it one system
is a layer of infrastructure through which some hundred processes on several
hosts exchange data and are kept running. This directory specifies that layer
in TLA+, checks the specifications with TLC, and proves their main invariants
with TLAPS.

Paths below are relative to `src/files_orpg_sw/src/`.

## 1. The system

### Parts, their state and their operations

| Part | Code | State | Operations |
|---|---|---|---|
| Linear buffer (LB), message queue | `cpc100/lib003` `lb_write.c lb_read.c lb_sms.c lb_common.c lb_clear.c lb_seek.c lb_open.c` | a file or shared segment: header words (`num_pt`, `ptr_page`, `ptr_read`, `read_cnt`, `upd_flag`), a circular directory of slots, a circular message area; per descriptor a read pointer and its page | `LB_open`, `LB_write`, `LB_read`, `LB_seek`, `LB_clear`, `LB_misc`, `LB_close` |
| LB, message data base | same, `Get_random_free_space`, `Replace_message`, `lb_list.c` | the same, and an index of message ids, a sequence number, two copies of a replaceable message | `LB_write` (replace), `LB_delete`, `LB_read` by id, `LB_list` |
| LB locks | `lb_lock.c` | byte-range `fcntl` locks, a table of the owners in this process | `LB_lock` (exclusive, shared, tagged, blocking or not) |
| Update notification and events | `lb_notify.c lb_notify_sv.c`, `lib002/en*.c` | requests stored in the LB; per host a server with its clients, their registrations and their unacknowledged messages | `LB_UN_register`, `EN_register`, `EN_post`, `EN_control` |
| Remote calls | `lib005` (RMT), `lib006` (RSS) | connections, one server child per client | remote versions of LB and file calls |
| Comm manager | `cpc105/tsk004` (requests), `tsk005` (TCP), `tsk002` (X.25, HDLC) | per link a ring of requests, the connection activity, per circuit a write and a read in progress | connect, disconnect, write, cancel, set parameters; responses and events |
| Redundant channel manager | `cpc019/tsk001` (mngred) | channel state, link to the other channel, comms relay, RDA control, transition in progress | one pass of the main loop |
| RPG manager | `cpc111/tsk001` (manage_rpg) | RPG state and last command, kept in a checksummed message data base; process table | commands, start, stop, respawn, housekeeping |
| RDA control | `cpc004/tsk003` (control_rda) | wideband line state, timers, queue of RDA messages | line events, timer expirations, operator commands |
| Product distribution | `cpc002` (p_server, ps_routine, ps_onetime) | per user connection and authorization state, write queues, request tables | user messages, time-outs |
| The rest | algorithms, HCI, libraries of wrappers, tools | | |

### How they interact

Every arrow between two processes is an LB: one side writes, others read at
their own pace without a lock, are told by an update notification (UN), or poll.
Commands to the comm manager, mngred, manage_rpg and control_rda are messages in
must-read or shared LBs; states are messages in message data bases, with a UN to
those who watch. mngred commands manage_rpg and control_rda; manage_rpg starts
and stops everything; control_rda and p_server drive the comm manager through
request and response LBs. A mistake in the LB library is therefore a mistake of
every part, and it is also where the concurrency is: shared memory without
locks, processes that die at any instruction, pointers that wrap.

### What is hard

* Lock-free reads: a reader copies a message while a writer may reuse its slot
  and its space; two header words are loaded apart.
* Crashes: the kernel releases a dead process's lock; what it had stored stays.
* Numbers that wrap: pointers in a range of four pages, compared and added to.
* One read pointer shared by several processes, with each process caching part
  of what belongs to it.
* Notification before publication, with a flag that is looked at and lowered
  without a lock.
* Rings of requests whose elements move while their indices are kept elsewhere.
* Two channels that decide by what each last heard of the other.
* States that are written, then published; commands that are lost.

### What makes each part correct

* Message queue: a read returns a message as it was written, or says truly that
  it expired or is to come; published messages stay until they expire; readers
  get past every message; a dead writer disturbs nobody.
* Must-read: nothing expires unread (the code keeps this but for one message of a full
  buffer); a writer is refused only for unread messages.
* Shared stream: each message is delivered once, in order, or reported expired; a reader
  that lost the page of the stream loses no message that is there.
* Update flag: after a UN a reader sees the message; a dead writer's flag is
  lowered.
* Message data base: a read of an id returns one of its versions whole, the current
  one; the free space agrees with the directory, also after a crash.
* Locks: exclusion between owners, none is lost while its owner lives.
* Comm manager: each request gets one response, its own; a circuit is never
  blocked by a request that is gone.
* Channel manager: at most one channel serves the users; a channel ends up where its
  RDA is, and manage_rpg where its channel is.
* RPG manager: a stop that was begun ends, and leaves nothing running; the state
  before a power failure comes back; tasks that die are started again.

`PROJECT.json` lists the parts with their status (`components`) and the
places where such things go wrong (`hazards`).

## 2. The modules

| Module | Models | Code |
|---|---|---|
| `LBPointer` | pointer and page arithmetic, no state | `lb_common.c` |
| `LBHeader` | `hd->num_pt`, `hd->ptr_page` under writes, clears and crashes | `LB_Update_pointer` |
| `LBQueue` | abstract: what a queue promises to its readers | `lb.doc` |
| `LBStream` | the queue in shared memory, one load or store a step | `LB_write`, `LB_read`, `LB_seek`, `LB_clear` |
| `LBUnread` | the writer's side of LBs with a common read pointer | `Get_sequential_free_space`, `LB_write`, `LB_clear` |
| `LBMustRead` | readers of `LB_MUST_READ` (extends `LBUnread`) | `Lb_read_internal`, `Update_must_read_common_pointer` |
| `LBShare` | readers of `LB_SHARE_STREAM` (extends `LBUnread`) | `Lb_read_internal`, `LB_misc` |
| `LBNotify` | `hd->upd_flag`, the lock, UNs | `LB_lock_mmap`, `Check_upd_flag`, `LB_process_nr`, `LB_Unlock_return` |
| `LBDb` | the message data base, one load or store a step | `Replace_message`, `LB_write`, `lb_sms.c`, `LB_Search_msg`, `LB_read_a_message` |
| `CMRequests` | the request ring of one link of the comm manager | `cmc_read_request.c`, `cmc_process_requests.c`, and what `cmt_tcp.c` does to requests |
| `MngRed` | the two channels of a redundant site | `mngred_main.c`, `mngred_processing_states.c`, `mngred_channel_*.c` |
| `Mrpg` | the RPG manager, its tasks, nds, the power | `mrpg_manage_rpg.c`, `mrpg_process_cmds.c`, `mrpg_process_info.c`, `mrpg_main.c` |
| `LBPointerProofs` | lemmas on pointers, pages and division | |
| `LBHeaderProofs` | theorems about `LBHeader` and `LBNotify` | |
| `LBStreamProofs`, `LBMustReadProofs`, `LBShareProofs`, `LBDbProofs`, `CMRequestsProofs` | theorems about the modules of these names | |
| `ManagersProofs` | theorems about `MngRed` and `Mrpg` | |
| `MC...` | small instances | |

### Common conventions

A message has a *number* (0, 1, 2, ... in order of publication) that no code
stores. The code has its pointer, the number modulo `PtrRange`, and its page, the
number divided by `PageSize`. `PtrOf` and `PageOf` relate them, history variables
hold the numbers, and the properties say that what the code derives from
pointers and pages is what the numbers say. Pages are integers without a width: a
page counter of 32 bits lasts for 2^47 messages.

`num` is the packed word `num_pt` as a record `[n, p]`; packing and unpacking are
one load and one store in the code as here. Definitions introduced by "Mutation:"
are faulty variants of the next definition; no specification uses them. They
show, in `mutants`, that each property notices such a fault.

### LBHeader

`BeginWrite` is the part of `LB_write` that decides how many messages will go: it counts
those the new message pushes out (`Surplus`, kept in `n_rm`), *then* expires `c` of them to
make room. `StorePage` and `StoreNum` are the two stores of `LB_Update_pointer` for the new
message, `Clear` the call without one (`LB_clear`), `Crash` the death before or between the
stores. A full LB that expired `c` messages for room loses `c + 1`, since the count is not
taken again (`lb_write.c:216-219`, `291-295`), and when `c` is all of them the new message is
gone as soon as it is published. `LB_Update_pointer` is under the exclusive lock, so there is one
writer. The properties quantify over all messages a reader may ask for.

### LBStream

The writer's call goes through `pc`: `body` (units of the message), `slot`
(directory entry), `page`, `num`. Space is made and the previous slot of an
empty LB reset in `BeginWrite`: the store of `num_pt` that expires messages
precedes all others there, and no store of the body comes before. `wr.rm` is the number of
messages that go at publication, counted before that. The reader goes
through `num1`, `page1` (first `LB_Check_pointer`), `prev`, `curr`
(`LB_Get_message_info`), `same2` (or `num2`, `page2`: "check again"), `body`,
`same3` (or `num3`, `page3`). `LB_seek` loads the packed word, then the page.

Assumed: loads and stores take effect in program order (the code has no fences; it
was written for SPARC TSO and x86). `MaxLead`: in one call of a reader fewer than a
page of messages are published; the code says as much where it unfolds the pointer
("In normal use, nc ... can never be 2"), and a page is at least 2^13 messages.
Left out: `LB_DIRECT`, `LB_NOEXPIRE`, `LB_UNPROTECTED`, message areas of size 0, tags,
reading several messages, waiting reads (`LB_set_poll`), the message id counter (the
id is the number of the write here), UNs (in `LBNotify`).

### LBUnread, LBMustRead, LBShare

Reads of these LBs change the header and take the exclusive lock, so each call is
one step. A message's size appears as the number `c` of oldest messages that must
expire to make room; every `c` is tried, so every sequence of sizes is covered. `WriteMessage`
removes `c` messages and then `Surplus`, as above: `Room(c)` is what
`Get_sequential_free_space` compares with `ptr_read`, and a full LB loses one message
beyond those when `c > 0` (`Overrun`).
`LBMustRead` has the two modes of the code (`NReaders = 0`: the furthest read counts;
`NReaders > 0`: counted readers). `LB_misc (LB_SET_N_MUST_READERS)` is called
before readers and writer start, as `lb.3` recommends, and is part of `Init`. `emptied` and
`astray` are history: a read found the LB empty and moved `ptr_read` past the message to be
written next; `ptr_read` fell so far behind that `LB_Ptr_compare` cannot order messages, or was
moved for a reader counted too early (half a buffer past it lies beyond the range) or twice
(it was opened again after it had been counted).

In `LBShare`, `skipped` has the messages `LB_EXPIRED` was returned for although they had not
expired, `overrun` those a full must-read LB lost without a look at `ptr_read`, and `dropped`
is up to where `LB_clear` and discards went.

### LBNotify

`wr` is the progress of a writer: lock, flag, UNs, publication, flag down, unlock. A
receiver looks at the flag (`check`), waits for the lock (`wait`), holds it
(`held`), looks again (`recheck`), lowers (`reset`), reads (`read`). UNs travel in a
FIFO per receiver, which is the server's and the socket's behaviour as the library
relies on it; delays are arbitrary. Writes without a matching request do not touch
the flag and are left out. The definitions have names of their own (`NotifyInit`,
`NotifyNext`, `notifyVars`), since `LBHeaderProofs` extends this module and `LBHeader`.

### LBDb

A directory slot has two message infos and a count of updates, `ucnt`, whose parity names the
current one. The writer's call goes through `pc`: `body` (units of the message, in space not in
use), `info` (the other info, or the new slot, with the flags of the header), `publish` (`ucnt`,
or `num_pt`), `table` (`sms_ok`), `free` and `freed` (the old space, between two stores of
`sms_ok`). `Stop` is a death of the writer or the error return of `Write_msg_body` or
`LB_process_nr`: both let go of the lock with what is stored so far. `Table` is the table of free
space as `Check_table` has it: the stored one, or one made from the directory. Allocation takes a
smallest segment that fits; the code's choice among equal ones depends on its sort and is left
open.

The reader loads `num_pt`, `ucnt`, location, length, compares, copies unit by unit and
compares again, as `LB_read_a_message` does; `want` is the version that was current at the
load of `ucnt`. `Find` is the search in one step: it reads ids, which change only for
deleted messages. A retry forgets all that was loaded (`Again`, `AgainInfo`).

`MaxLead`: fewer than four messages are added during one read. A directory has four slots more
than messages, so with more of them the slot of the message being read may be used again in the
middle of the read; if the message had the same number of updates as the new one has, `ucnt`
cannot tell (a slot that is used again starts at 0, `lb_write.c:256-259`), and a torn body would
pass all three checks of a reader that looked for expiration in between. `DbAssumption` names
what the proofs need of the code's numbers: the binary search starts at two messages or more
(`N_BINARY_SEARCH_MSGS` is 8), and fewer messages than ids (`MAXN_MSGS`, `LB_MSG_DB_ID_MASK`).

Values with history: `.val` of an info is the number and length of the `LB_write` that made it.

### MngRed

Both channels, each with its mngred (`stage` to `delayCnt`), its manage_rpg (`orders`, `active`)
and its users (`lines`), around one relay. `Run_rpg_channel_mgr` is a loop over one `PS_`
function, chosen by the RDA's control state and the channel's; each function is one action,
except that `PS_xsition_to_active` sleeps between the acquisition of the relay and its
reading (`Acquired`). Status messages are in a message data base, where a new one replaces
the old one: `mail` holds at most one for each channel. `mail` is read in a callback, so any
number of passes may come first. Times (the limit of a switchover, of a lost relay)
are flags that a step of the clock raises at any time.

`hasty` records that a switchover was not an orderly one: it was forced by the time limit
or by a link that is down, a status message was on its way, or a manager died while active.
Two channels in service are then possible by design (the code warns the operator).
Abstracted: the relay is read in each pass, where the code reads it at most every 3 s; the
60 s for which a second loss of the relay is not counted anew. `OneInService` holds with
three events as well (3 million states); the run has two because of the liveness property.
`RedInit`, `RedNext` and the like have names of their own, since `ManagersProofs` extends this
module and `Mrpg`.

### Mrpg

`file` is the state file, all that outlives mrpg; `know` is the status column of the task
table, made from what nds reports; `run` is the truth. A command is cut where the state
file or the tasks change (`BeginStart`, `StartOperation`, `Started`; `BeginStop`, `Stop`,
`ShutdownDone`; and so on), because mrpg may die between any two (`Die`), and nds then
resumes it (`Resume`). `Startup` is `mrpg startup` at the command line, `Boot` and
`AutoStart` the OS's start. A task that gets SIGTERM ends sooner, later or never.
After a crash of the OS mrpg removes the data stores, the state file among them, and makes
that file anew (`Opened`). `was` is the state when a power failure was handled. It is
forgotten when the power fails again before auto start is done: the file then says
TRANSITION, and the next auto start starts an RPG that had been shut down. `strays` excuses
a stop during which nds did not answer (`MMR_opp_count` is then 0) or an "active" command
came, which in the code starts every task, whatever the state.

### CMRequests

One dedicated link of `cm_tcp`. `link` is `Link_struct`: the ring `req` with `st_ind`
and `n_reqs`, `conn_activity` and `conn_req_ind`, and for each circuit the write in
progress (`w_buf` holds the request's number instead of a pointer into its data),
`w_req_ind` and how far it got (`w_cnt`: some, all, acknowledged). Most definitions
take and return a link, as the code's functions take a `Link_struct *`, and actions
compose them in the order of the calls.

The process has one thread, so a step is a whole call: `GetRequest` reads one request
(there may be any number in a pass), `ProcessRequest` is `CMPR_process_requests`, then
come the events of the house keeping and `SH_poll` (`Connected`, `ConnectionLost`,
`WriteMore`, `DataAck`) in any number and order, and `EndPoll`. The sockets and the
other side choose: whether a write sends all, some or fails, when a connection
stands or breaks, whether the link asks for acknowledgments (`data_en`).

`out`, `gone` and `conveyed` say what the last step did (responses written; requests
cancelled or dropped without one; the write whose data the other side has). They are
emptied at the start of each step. `heard` and `forgotten` are history.

`RemoveMatching` is the loop both `Rm_done_requests` and `CMPR_process_cancel` contain, with its
index that moves on after a removal: a recursive function of that index, whose values are the
link, the index and what was removed (`RemoveAt`, `Shifted`). `STATUS` stands for `CM_STATUS` and
`CM_SET_PARAMS`, which are answered at once and differ in data only. Left out: packed and
compressed writes, buffered messages of X.25, reading, dial-out, the second channel, the steps
inside the connection procedure.

## 3. Runs

| Run | Instance | Shows |
|---|---|---|
| `header` | 2 messages, 6 slots, pages of 6, 80 messages | the arithmetic, for each message, in each state |
| `stream` | area of 3 units, messages of 1 and 2, one reader with a buffer of 2, 4 writes, start 2 before the wrap | refinement of `LBQueue`; messages whole in the buffer and in the reader's hands; a reader that keeps reading catches up |
| `mustread_furthest` | 3 messages, 2 readers that seek and restart, `LB_NEXT` and `LB_LATEST`, two clears, 10 messages around the wrap | a write loses no unread message but the one a full LB does not look at, up to the faults of section "Counterexamples"; `LB_FULL` only for unread ones |
| `mustread_all` | 4 messages, 2 counted readers that restart, one clear, 9 messages around the wrap | the same for messages that both must read; the writer is let in again |
| `share` | pages of 6, 2 readers, clears, discards, restarts, 7 messages over two turns of the page | delivery once, in order; a reader with a stale page passes over the next message only; no waiting for a message that is there |
| `notify` | 2 receivers, 3 writes, one poll | waiting helps; flags come down; no UN is left |
| `notify_robbed` | the same | the first finding below |
| `database` | 3 messages, area of 3 units, messages of 1 and 2, one reader, 3 calls, one clear, one failure at any step; binary search from 2 messages (the code: 8) | bodies and free space; reads whole and current; every id found |
| `requests` | one circuit, 5 requests of all types in a ring of 4 | who is answered, when and in which order; the user knows whether the link stands; every request ends |
| `redundant` | both channels, one RDA in control, any two of: changes of the RDAs, failures of link or relay controllers, deaths of mngred or manage_rpg | one channel in service unless a switchover was hasty; the channels follow their RDAs |
| `redundant_reminder` | the same | the second finding below |
| `manager` | 3 tasks (any state; standby; active channel only), 3 commands, 2 deaths, one power failure or OS crash | a stop leaves nothing running, and ends; auto start restores the state; tasks come back |

Why these bounds are enough. Directories have four slots more than messages, so
two messages already leave free, expired and available slots; the area of three
units with messages of one and two has full, fragmented and wrapping layouts. The
runs start before the wrap of the pointer or run past it, so that page turns and
wraps happen. A single reader suffices in `stream`: readers of a plain queue store
nothing that is shared. Two readers are the least that disturb each other through
`ptr_read`; `share` starts one message before the end of a page and ends at the start of the
page after the next, so that a reader comes to be one and two pages behind; two receivers and three writes the least in which one receiver lowers
the flag of a writer whose UN goes to another, while a third write follows.
A ring of four (eight in the code: `MAX_N_REQS`) fills with five requests, wraps, is
compacted in the middle and turns one request away; with eight the same takes nine.
A database of three messages has a live, a deleted and a new one; three units are full with
two messages, and the third call reuses the space the second freed while the reader still
copies it. Two events make a switchover and its return, or a switchover and any one
failure in the middle of it. Three commands are a stop, a start and one that comes in
between; two deaths are one during a stop and one after the resume.
`header` is proved for all sizes, so its instance only has to find mistakes early.

### Fairness

Writers are never assumed to write, nor to survive. `LBStream`, `LBShare` and
`mustread_all` assume weak fairness of each reader's calls: a call of `LB_read` never blocks
on a queue (a process that runs makes progress), and readers are loops. In `LBStream` it
is written with the states in which `Read` is enabled, which TLC evaluates faster than
`ENABLED`; nothing is assumed of seeks, and `ReaderCatchesUp` is about readers that stop
seeking. `LBNotify` also
assumes that a writer that does not die goes on; the wait for the lock is weakly
fair as `SET_LOCK_WAIT` is a blocking `fcntl`, and with a bounded number of writes
no stronger fairness is used.
`CMRequests` assumes that the main loop turns: `Pass` (a processing step after reading)
and `EndPoll` are weakly fair, since neither blocks for longer than the poll's time
limit. The other side of a connection that is up again and again takes data and
acknowledges at last: strong fairness of `WriteMore` and `DataAck`, again with their
enabling states spelled out. Nothing is assumed of `Connected`, which is why
`RequestsEnd` lets a connect wait for ever, nor of `ConnectionLost`.
`MngRed` assumes that both managers' loops turn and time passes, that a dead manager is
started again (mrpg respawns mngred), and that manage_rpg and p_server do what they are
told. A status message and a link check are strongly fair: `EN_WAIT` runs callbacks once
a second, but in the model a pass sleeping in the acquisition disables them. `Mrpg` assumes
that mrpg's loop turns, that nds, when it runs, resumes mrpg, and that power returns; not
that a task ends on SIGTERM, nor that commands come.

### Findings

* `notify_robbed`: `lb_common.c:540` lowers the flag without the lock. The flag may be
  the next writer's. `MissedOnlyIfRobbed` says that this is the only way to miss a
  message.
* `redundant_reminder`: the reminder of mngred to manage_rpg
  (`mngred_processing_states.c:126`, and `192` for inactive) divides a counter by 5
  that is reset in every pass, so it is never sent. When manage_rpg dies with the
  command to go active marked as read but not done, the channel is active and its RPG is
  not. `FollowsRda` is what remains true: the channel itself follows.

### Counterexamples by hand

These configurations are kept beside the runs; TLC finds each property violated.

* `MCMustReadViolation.cfg` (`UnreadKept`): a full must-read LB that expires messages to make
  room for a new one loses one message more than it compared with `ptr_read`. `nmsgs` is
  counted at `lb_write.c:219`, `LB_sms_get_free_space` expires `c` messages after that (line
  231; `lb_sms.c:868-880` looks at those `c` only), and lines 291-295 remove
  `nmsgs - maxn_msgs` more. `lb.3:335-338`: "a message will not subject to expiration if this
  message and all messages after it have never been read". When all messages made room, the
  new one itself is not available after its `LB_write` returned success.
  `UnreadLostByOverrun` is what remains true: that one message, and no other.
* `MCMustReadClearViolation.cfg` (`AlwaysLostByOverrun`): after `LB_clear` emptied a must-read
  queue, an `LB_EXPIRED` read moves the common pointer past the message to be written next
  (`lb_read.c:382`, `lb_seek.c:242`), which may then expire unread. `emptied` ends the promise
  of `UnreadLostByOverrun`.
* `MCMustReadWrapViolation.cfg` (`AlwaysLostByOverrun`): `lb_read.c:404` adds half a buffer to
  `ptr_read` without taking it modulo the range, so that a reader is counted too early.
  `mustread_all` crosses the wrap; `astray` ends the promise there.
* `MCLBShareViolation.cfg` (`ExpiredIsTrue`): `lb_read.c:346` combines the common pointer
  with the descriptor's own page. After the other reader took the stream across a page turn,
  this one gets `LB_EXPIRED` for the message that is still to come, and the stream passes over it.
  `StalePagePassesNext` is what remains true.
* `MCCMRequestsViolation.cfg` (`WriteIndexRight`): requests removed from the middle of the ring
  shift those behind them, and `w_req_ind` (`conn_req_ind` too) is not adjusted. With one circuit
  nothing in progress ever stands behind what is removed (`IndexRight`); with two, a write of
  circuit 1 overtakes one of circuit 2, and a `CM_CANCEL` of the latter leaves a stale index. A
  cancellation is not needed: with `NPvc = 2`, `MaxReqs = 4`, `MaxRequests = 5` and no
  `CM_CANCEL`, `IndexRight`, `UserToldTruth` and `AnsweredOnce` fail too. A connect that is done
  stands between the write of circuit 1 that was started and that of circuit 2; the next request
  read removes it (`cmc_read_request.c:660-708`), `w_req_ind` points past the write, and the
  response ends another request. By `cpc104/lib003/comms_link.conf` (column NS) `n_pvc` is 1 for
  the RDA, wide-area and dial-in links, and 2 for the dedicated user links.
* `MCMrpgViolation.cfg` (`TerminatedIsRestarted`): `mrpg.1:144` promises to restart a
  terminated process. One that dies while mrpg is dead is in the table of the resumed mrpg
  with no status, which only a process that was seen running can turn into "failed"
  (`mrpg_process_info.c:597`), and only failed ones are respawned
  (`mrpg_manage_rpg.c:483-504`). `KnownTasksRun` is what remains true.

Noted while modelling, without a run of their own: a reader that restarts is counted twice for
one half buffer (`rpt_incd` starts at -1, `lb_open.c:1209`; part of `astray`); a shared stream's reader that opens
the LB at the wrap applies the new page to a pointer before it and waits on `LB_TO_COME`; a
shared reader three pages or more behind the stream keeps a wrong page and gets `LB_EXPIRED`
again and again, so that the stream passes over several messages, those not yet written included
(`StalePagePassesNext` speaks of readers at most two behind); two clears with no read in between
can put `ptr_read` further from the messages than `LB_Ptr_compare` can order (part of `astray`);
an LB of one message takes a pointer two messages apart for
either side of `ptr_read`, and is full for ever or overwrites what is unread (`FullOnlyIfUnread`
fails with `MaxMsgs = 1`); with more readers than `LB_misc (LB_SET_N_MUST_READERS)` announced, a
slow one may fall more than two buffers behind, which counts as ahead (`UnreadLostByOverrun` fails
with `MaxMsgs = 4`, `NReaders = 1` and two readers); with `Half > 1` a message that needs the space of
the last `Half - 1` messages may be refused for good although all readers read everything
(`WriterProceeds` leaves these out); an `LB_NOEXPIRE` queue with a message area of size 0 is
always `LB_FULL` (`lb_sms.c:728`).

In the comm manager: the removal loop (`cmc_read_request.c:688-708`) may drop a live request that
stands between two finished ones, and only then (`BetweenFinished` in `AnsweredOnce`);
`CM_CANCEL` of all requests, the same loop, leaves some of them and may free one write's data
twice; a connect that is turned away because the ring is full resets `conn_activity`, and the
connect in processing is forgotten (`forgotten`: the properties leave out what follows). It stays
"started" in the ring for ever, so that a live request can come to stand in front of finished
ones; what the removal loop then shifts is in front of `w_req_ind`, which points at another
request from there on, and writes go out in the wrong order or never. `WritesInOrder` and
`RequestsEnd` without their `forgotten` still hold in the run's instance; it was an attempt to
prove them that found it (five slots and twelve requests). `CMPR_cleanup` drops writes that were
not started without the response `prod_distri.txt:159` promises; `Search_req` returns a write of
a busy circuit before one of an idle circuit, so lower circuits wait behind it; any other request
overtakes all writes.

In the data base: with `LB_ANY`, ids that pass the mask 0x7fff make the masked id of the
newest message smaller than the oldest's while the flag for binary search stays set, and a
message is not found (`SearchFinds` fails with `UserIds = {}`, `Area = 1`, `MaxMsgs = 4`,
`IdMask = 4`, `Lengths = {0}`, `Before = {0}`, `MaxCalls = 7`, `MaxClears = 3` and no
reader; `lb_common.c:326-397`); a reader of an id may
get the deleted message's old slot under a new id when `LB_ANY` reuses it while it reads
(`lb_write.c:381-388`); space is lost, not given twice, when a call fails after it made the
file grow, since the table is still marked as right (`TableTrue` asks for no lost space only
as long as nothing failed).

In mngred: `WCD_update_redun_ch` (`mngred_write_channel_data.c:184`) goes on without
advancing to the next entry when a tag cannot be registered, and loops. In manage_rpg:
`Remove_duplicated_processes` (`mrpg_manage_rpg.c:409`) goes on without advancing to the
next duplicate, so that a young one hides those behind it; a death in `MRPG_STARTUP` or
`MRPG_RESTART` leaves the state "transition" until an operator intervenes, and one in
`Standby_restart` loses the restart; "inactive" has no SIGKILL for tasks that do not end; a
death between the write of the state and its publication leaves the published copy stale.

## 4. Proofs

TLAPS 1.4.5 with Z3, Zenon and LS4. Each theorem holds for every value of the constants
that satisfies the named assumptions.

`LBPointerProofs` has the arithmetic: division and remainder, the sizes of the
range, how the pointer and page of a message number move to its successor
(`Successor`), that a page one off is corrected (`Corrected`), that
`LB_Compute_pointer` follows the message numbers (`ComputeRight`), that `LB_Check_pointer`
tells where a message is, given a page that is at most one ahead (`CheckRight`), that
messages near each other have slots of their own (`ModDistinct`, `SlotOf`), that `LB_Ptr_compare`
orders messages less than two buffers apart (`CompareRight`), which messages the window of
pointers holds (`WindowPointers`). Induction over
data is out of reach, but a set of naturals has a least element (`Least`, from the
well-foundedness of `<`), which replaces it here and in `LBDbProofs`.

`LBHeaderProofs`, assuming `PointerAssumption` only, proves the three properties of the run
`header` for all sizes. The inductive invariant is
`TypeOK /\ PageAtMostOneAhead`: the packed word names message `written`, and the stored
page is that of `written` or of `written + 1`. The second disjunct is what a crash
leaves, and it is why the code may correct the page by comparing its residue with the
pointer's. From the invariant alone follow `CheckPointerTrue` (`VerdictRight`
distinguishes pages apart by more than two, where the page decides, from nearer ones,
where the window of pointers is unambiguous), `PtrCompareTrue` and
`ComputePointerTrue`; together they are `PointersTrue`. TLC had checked them for two messages.

`LBStreamProofs`, assuming what `LBStream` assumes of its constants, is about the writer: for any
buffer, area, lengths and number of writes, clears and deaths. `WriterInv` has the types, the
invariant of the header words (`HeaderInv`), and the layout *unfolded*: a position in the
circular area is the remainder of one that never wraps (`L`), where the messages follow one
another. The area's length apart, unfolded positions do not meet, so `Storing` (a write in
progress has the space after the newest message, and it has been freed) keeps every available
message whole. `StoredIntact` alone is not inductive: it does not say where the free space is.

The second part of `LBStreamProofs` adds the readers, who take no lock. `ReadersInv` says for
each step of `LB_read` what is known of what was loaded: the call's `num_pt` is at most `MaxLead`
behind (`Began`), the packed word loaded last is that of an instant within the call (`Seen`), and
the length, place and units are those of the message *as long as it is available* (`Holds`,
`Right`). A message that expired is caught by "check again", since fewer messages than a page
have been published since, so `CheckRight` applies to the word and the page it loads. From it:
the types, `ReadsFaithful` (a read returns the message it was for, whatever the writer overwrote
meanwhile), and `QueueImplemented`, the refinement `ImplementsQueue` of the abstract queue: each
step of the detailed specification is a publication, an expiration, a returned message, a verdict
that is true at one moment of the call, or a stutter.

`LBShareProofs`, assuming what `LBShare` assumes of its constants. `StreamInv` says: as long as
no reader was told LB_EXPIRED wrongly, the stream stands at a message `m` that `ptr_read` names,
no more than `MaxMsgs + 1` behind the next one (`StandsAt`: `PulledUp` keeps it there, and only
then are its pointer and `LB_Ptr_compare` unambiguous), and what was delivered is in order, below
`m` and, dropped or expired messages apart, complete (`DeliveredTo`). Of a must-read stream, what
expired from `m` on was dropped or is a message a full LB did not look at. Hence `DeliveredOnce`
while `ExpiredIsTrue` holds (`DeliveredOnceCorrect`). `ExpiredIsTrue` does not hold for all
constants (counterexample above, `MCLBShareViolation.cfg`). What the first wrong LB_EXPIRED costs
is `FirstSkipIsNext`, at every turn of a page or of the range: if the reader is at most two pages
behind, then the window of available messages would have been asked, so the message is the next one;
its page is older, or it would be "to come"; and the page it takes from the next pointer is within
the reach of `LB_Get_corrected_page_number`. The run's `StalePagePassesNext` asks the same of every
such step, the first or not, which is not proved: several readers that are astray may have put
`ptr_read` anywhere.

`LBDbProofs`, assuming `DbAssumption`. `DbInv` says of the writers: the messages are whole in
space of their own (`Stored`); a call works in space that no message has, and what it stored so
far is there (`StoringInv`); it frees what no message has any more (`PublishedInv`); the table of
free space is right when it is marked so, *and* in the steps of a call that took or frees space,
where the mark is not set yet but will be without another look (`Trusted`): then it has nothing
as free of what messages, the call, or the version replaced have (`Taken`), and unless a call
failed it forgets nothing. `SpaceRight` speaks of marked tables only; that the mark may be set
again at the end of a call needs the rest. `ReadersInv` says of a read: its message's slot is not
used again until it is over (`Began`, with `MaxLead`), and while the message is available `ucnt`,
which only grows, is at least what was loaded, and if equal, all that was loaded is of the
current version (`Holds`, `Right`). After the last look for expiration this stays true even of a
message that expires then. `ReadsWhole` follows. The search by id is a recursive function; that
it exists and ends among the messages (`BisectExists`, `BisectInside`) is proved by the least
interval that would be a counterexample, and so is that it ends where the ids turn from below the
one sought to not below it (`BisectEnds`). `SearchFinds` needs the order of the ids as well
(`IdsInv`): while ids are by `LB_ANY`, the masked ids grow with the messages, and stay below the
mask until one is reused (`Given`); while they are the callers' and the flag for binary search is
set, the ids do not decrease (`Increasing`); deletions and callers' ids exclude each other, or
the two orders would mix; and a call that is adding a message has an id that continues the order
(`AddingInv`). `SearchFindsAll` has one hypothesis (`InMask`): fewer messages are added than
there are masked ids. It cannot be dropped (counterexample above), and the code does not see to
it: 0x7fff messages.

`LBMustReadProofs`, assuming what `LBMustRead` assumes of its constants. `MRBase` (types, header
words, every reader stands at a message) holds for all of them. The rest says which
message `P` the common pointer names, since `ptr_read` alone is a number that wraps:

* with `NReaders = 0` (`Furthest`), as long as `ptr_read` has not gone astray it is not behind
  the oldest message, but for what clears remove; no reader has passed it (with more than one
  message); and until a read finds the LB empty, all before it were read. Hence
  `UnreadLostByOverrun` (`FurthestLostByOverrun`), and `FullOnlyIfUnread` (`FurthestFull`) with
  `MaxMsgs > 1`.
* with counted readers (`AllPast`), none of them stands before `P`, those counted for the present
  half buffer stand half a buffer beyond it, `read_cnt` does not exceed their number, and what is
  before `P` was read by `NReaders`. Hence `UnreadLostByOverrun` (`CountedLostByOverrun`), if no
  more readers read than were announced.

Clears, restarts, seeks and the wrap of the pointer are all included; where they lead `ptr_read`
astray, the properties say so themselves. The message of `Overrun` is lost however `P` stands,
which is why it is named in the property and not excluded by a hypothesis. The other hypotheses
stand for counterexamples of section 3, and the runs `mustread_furthest` and `mustread_all` are
instances of the theorems. `UnreadLostByOverrun` alone is not inductive: whether a message may go is
decided by `ptr_read`, and what that is worth depends on all the reads before.

`CMRequestsProofs`. `CMBase` holds for all constants: what is in the ring, or in progress by an
index, is a request that was sent, of a circuit of the link (`Known`), and a disconnect is over
in the step that processes it, so that only connects and writes stay "started" (`Settled`). The
four properties of the run are proved for links with one circuit (`NPvc = 1`) and any size of the
ring, number of requests and order of events. `CMOne` says that the ring has the requests in the
order in which they were sent (`Ordered`), that no request waits in front of one in processing
(`Serial`), and, unless a connect was forgotten, that the requests in processing are the ones
that the indices name (`Proc`) and that a write is reported successful exactly if its data
reached the other side (`Truth`). `Serial` is the heart: the loops that remove requests shift
only those behind a finished one, so an index goes wrong only if what it names stands behind
something removed; and with one circuit, where only one request is in processing, all in front of
it are finished and are removed from the front of the ring, which moves `st_ind` and no request.
With two circuits `Serial` is false, and the properties are too (section 3). That the removal
loops keep the order and lose no request but one between two finished ones is proved without
induction, on the first index at which it would fail.

The second part of `LBHeaderProofs`, assuming `NotifyAssumption`, is about `LBNotify`. Besides
the types and the ownership of the lock, the invariant `NotifyInv` says: UNs in flight and in
hand are of messages whose writer is done or is the present one (`UNsAnnounced`); a receiver that
has had the lock has a message whose writer is done (`WaitedDone`); from the flag to publication
the flag is up, or a robbery happened (`FlagUp`); a receiver about to read an unfinished message
has been robbed (`UnflaggedRead`). `WaitersSeeMessage` and `MissedOnlyIfRobbed` are not inductive
without them: they speak of reads that took place, the others of what was known before.

The second part of `ManagersProofs` is about `MngRed`, assuming that there are two channels
(`TwoChannels`) and the numbers are naturals: types, and `OneInService` for any number of events.
The invariant is `Apart`: as long as no switchover was hasty, (1) whenever the other channel is
active, a channel has heard so last, or will hear it before anything else; (2) a channel that has
acquired the relay did it while the other was inactive and acquires nothing itself; (3) an active
channel holds the relay; (4) an inactive channel has no user lines, its RPG is inactive and no
"active" command is left for manage_rpg. (1) is what makes it safe to decide by the last message,
(4) is why the user lines follow: `OneInService` speaks of the present only. That a dead manager
counts as inactive (the first conjunct) needs no history.

The first part is about `Mrpg`, assuming `TaskTypes` and `RedundantIsBoolean`: types,
`StoppedIsQuiet` and `StateIsKept`, for any tasks, commands, deaths and power failures. `IQuiet`
adds to the first that a start writes TRANSITION before it starts a task, and that auto start
finds no task, since the node was down. `IKept` says where the state before a power failure is:
saved in the file (`PowerfailSaved`, while nds is down, so that only auto start or "mrpg startup"
can start mrpg), being brought back (`BringingBack`, when no command is read), or there again
(`BroughtBack`). `StateIsKept` names the last of the three only.

Only model-checked:

* all liveness properties: fairness and ENABLED are out of the prover's reach here;
* what holds for some constants only, beyond the hypotheses of its theorem:
  the properties of `LBMustRead` with more readers than announced or a single message, `LBDb.SearchFinds` past the mask, and those of `CMRequests`
  with more than one circuit. In all of these cases TLC has counterexamples (section 3).

Every safety invariant and action property of a passing run but `StalePagePassesNext`, of which
`FirstSkipIsNext` is the first step, is stated by a theorem.

## 5. Not modelled

* The algorithms, the operator interface, displays, adaptation data files, configuration,
  logging and the wrappers of liborpg, which are most of the repository: sequential
  computation and I/O, without state shared between processes except through LBs.
* The sockets of RMT, RSS, the X.25 boards and cm_ping: I/O around calls modelled where they
  matter (a failure or a delay of such a call is an alternative of the action that makes it).
* `LBLock`, the notification server, control_rda's timers and p_server have state machines
  of their own and are in the plan.
* Left out of modelled parts: see the sections of their modules above and the notes of
  `components`.

## 6. Plan

1. `CMRequests`, built: an abstract specification of it (a set of requests, each new, in
   processing or answered, in the order the priorities allow), packed writes, and the
   connection procedure in steps, with its time limit.
2. `LBLock` (locks of several descriptors of one process over `fcntl`), `EventServer` (UN
   and event delivery, acknowledgement, dead clients), then the composition of the latter
   with `LBNotify`.
3. `MngAdapt`: the copying of adaptation data between the channels of `MngRed`, with its
   update flags.
4. `CrdaLine` with MALRM timers; `PServer` on top of `CMRequests`; `RmtCall`.
5. `Mrpg`: the published state, duplicated processes, `MRPG_TASK_CONTROL`.
6. Proofs: for several circuits, what does hold of `CMRequests` (which requests an index can go
   astray to); the new modules' invariants.

Runs are kept to one for each question: a new module's questions replace runs that have
become parts of others.
