------------------------------- MODULE MngRed -------------------------------
(***************************************************************************)
(* The redundant channel manager of an FAA redundant site, cpc019/tsk001   *)
(* (mngred): two RPG channels, each with its RDA, share one comms relay    *)
(* that connects the user lines to one of them.  The manager of a channel  *)
(* makes it follow its RDA: it goes active when the RDA controls, after    *)
(* the other channel has gone inactive or the wait has been given up.      *)
(* Each channel decides by what it last heard of the other.                *)
(*                                                                         *)
(* One pass of Run_rpg_channel_mgr reads the state of the RDA and of the   *)
(* relay and calls one PS_ function: one action per function.  Only the    *)
(* acquisition of the relay is cut in two, since the manager sleeps after  *)
(* it.  Times are abstracted to "the limit has passed" or not.             *)
(***************************************************************************)
EXTENDS Naturals, Sequences

CONSTANTS Channels,     \* the two RPG channels
          Controlling,  \* those whose RDA controls at the start
          CmdDelay,     \* MNGRED_CHANL_CMD_DELAY
          MaxEvents     \* bound: changes of what the RDAs report, failures of
                        \* the inter-channel link or of a relay controller, and
                        \* deaths of a manager (mngred or manage_rpg)

ASSUME TwoChannels == \E a, b \in Channels : a # b /\ Channels = {a, b}
ASSUME AtMostOneControls ==
  Controlling \subseteq Channels /\ Controlling # Channels
ASSUME CmdDelayIsPositive == CmdDelay \in Nat \ {0}
ASSUME MaxEventsIsNat == MaxEvents \in Nat

VARIABLES
  rda,        \* what each RDA reports (external); "down": line not connected
  relay,      \* the channel the comms relay is latched to (external)
  dio,        \* the channel's relay controller answers (external)
  net,        \* a write to the other channel's LBs succeeds (external)
  stage,      \* "pass", "acquired" (asleep after the acquisition) or "dead"
  mode,       \* CHAnnel_state
  red,        \* REDundant_channel_state
  link,       \* CHAnnel_link_state = ORPGRED_CHANNEL_LINK_UP
  xsition,    \* Xsition_type
  late,       \* SWITCHOVER_TIME_LIMIT has passed since the transition began
  lost,       \* err_start_time: unset, set, or set long enough ago
  delayCnt,   \* the delay_cnt of the two PS_process functions
  mail,       \* a channel status message whose callback has not run yet
  orders,     \* commands manage_rpg has not read yet
  active,     \* manage_rpg's RPG_state.active
  lines,      \* some user line is not disconnected (external)
  hasty,      \* history: a switchover was not an orderly one
  changes     \* of the environment still to come (bound)

env == <<rda, relay, dio, net, changes>>
own == <<stage, mode, red, link, xsition, late, lost, delayCnt>>
out == <<mail, orders, active, lines, hasty>>
redVars == <<env, own, out>>

Modes == {"ACTIVE", "INACTIVE"}
RdaStates == {"controlling", "nonControlling", "unknown", "down"}
Other(c) == CHOOSE o \in Channels : o # c

-----------------------------------------------------------------------------
(* What a function leaves in the messages it sends.                        *)

\* ORPGMGR_send_command: the command is appended to manage_rpg's command LB.
SendCommand(c, m) == orders' = [orders EXCEPT ![c] = Append(@, m)]

\* CST_transmit_channel_status: the state is written to the other channel's
\* LB, where it replaces the message its callback has not read yet.
Transmit(c, m) ==
  mail' = IF net THEN [mail EXCEPT ![Other(c)] = m] ELSE mail

\* DIO_read_comms_relay_state, called by CST_update_channel_status at the start
\* of a pass.  It is called at most every 3 s: here, in every pass.
RelayRead(c) == IF ~dio[c] THEN "UNKNOWN"
                ELSE IF relay = c THEN "ASSIGNED" ELSE "UNASSIGNED"

\* DIO_acquire_comms_relay: latches the relay if its controller answers.
Acquire(c) == relay' = IF dio[c] THEN c ELSE relay

\* The command that PS_process_active_state and PS_process_inactive_state
\* give when manage_rpg is not in the channel's state, and the counter that
\* delays it: a count that does not command is reset.
Remind(c) ==
  LET n == delayCnt[c][mode[c]] + 1
      reminds == active[c] # (mode[c] = "ACTIVE") /\ n \div CmdDelay # 0
  IN /\ delayCnt' = [delayCnt EXCEPT ![c][mode[c]] = IF reminds THEN n ELSE 0]
     /\ IF reminds THEN SendCommand(c, mode[c]) ELSE UNCHANGED orders

\* What the first call of a transition starts: its time limit.
Late(c, type) == xsition[c] = type /\ late[c]

\* Xsition_type is cleared in the two PS_process functions.
NoXsition(c) == /\ xsition' = [xsition EXCEPT ![c] = "none"]
                /\ late' = [late EXCEPT ![c] = FALSE]

-----------------------------------------------------------------------------
(* The passes of the main loop.                                            *)

\* Mutation: a transition that does not wait for the other channel.
XsitionAtOnce(c) ==
  /\ stage[c] = "pass"
  /\ rda[c] = "controlling" /\ mode[c] = "INACTIVE"
  /\ xsition' = [xsition EXCEPT ![c] = "toActive"]
  /\ late' = [late EXCEPT ![c] = Late(c, "toActive")]
  /\ stage' = [stage EXCEPT ![c] = "acquired"]
  /\ Acquire(c)
  /\ UNCHANGED <<rda, dio, net, changes, mode, red, link, lost, delayCnt,
                 mail, orders, active, lines, hasty>>

\* PS_xsition_to_active: waits for the other channel to be inactive, unless
\* the link is down or the limit has passed; then acquires the relay.
XsitionToActive(c) ==
  /\ stage[c] = "pass"
  /\ rda[c] = "controlling" /\ mode[c] = "INACTIVE"
  /\ xsition' = [xsition EXCEPT ![c] = "toActive"]
  /\ late' = [late EXCEPT ![c] = Late(c, "toActive")]
  /\ IF link[c] /\ ~Late(c, "toActive") /\ red[c] # "INACTIVE"
       THEN UNCHANGED <<stage, relay, hasty>>
       ELSE /\ stage' = [stage EXCEPT ![c] = "acquired"]
            /\ Acquire(c)
            /\ hasty' = (hasty \/ red[c] # "INACTIVE" \/ mail[c] = "ACTIVE"
                               \/ stage[Other(c)] = "acquired")
  /\ UNCHANGED <<rda, dio, net, changes, mode, red, link, lost, delayCnt,
                 mail, orders, active, lines>>

\* The rest of PS_xsition_to_active, one second later.
Acquired(c) ==
  /\ stage[c] = "acquired"
  /\ stage' = [stage EXCEPT ![c] = "pass"]
  /\ IF RelayRead(c) = "ASSIGNED"
       THEN /\ mode' = [mode EXCEPT ![c] = "ACTIVE"]
            /\ SendCommand(c, "ACTIVE")
            /\ Transmit(c, "ACTIVE")
            /\ hasty' = (hasty \/ ~net)
       ELSE UNCHANGED <<mode, orders, mail, hasty>>
  /\ UNCHANGED <<env, red, link, xsition, late, lost, delayCnt, active, lines>>

\* Mutation: an active channel that leaves a lost relay alone.
ProcessNoRelay(c) ==
  /\ stage[c] = "pass"
  /\ rda[c] = "controlling" /\ mode[c] = "ACTIVE"
  /\ Remind(c) /\ NoXsition(c)
  /\ UNCHANGED <<rda, relay, dio, net, changes, stage, mode, red, link, lost, mail,
                 active, lines, hasty>>

\* PS_process_active_state: a lost relay is acquired again after a while.
ProcessActiveState(c) ==
  /\ stage[c] = "pass"
  /\ rda[c] = "controlling" /\ mode[c] = "ACTIVE"
  /\ IF RelayRead(c) = "UNASSIGNED"
       THEN /\ lost' = [lost EXCEPT ![c] = IF @ = "no" THEN "counting" ELSE @]
            /\ IF lost[c] = "due" THEN Acquire(c) ELSE UNCHANGED relay
       ELSE /\ lost' = [lost EXCEPT ![c] = "no"]
            /\ UNCHANGED relay
  /\ Remind(c) /\ NoXsition(c)
  /\ UNCHANGED <<rda, dio, net, changes, stage, mode, red, link, mail, active, lines,
                 hasty>>

\* The main loop's reasons to leave the active state.
MustLeave(c) == \/ rda[c] = "nonControlling"
                \/ /\ rda[c] = "down"
                   /\ red[c] = "ACTIVE" \/ RelayRead(c) = "UNASSIGNED"

\* PS_xsition_to_inactive: manage_rpg is told once; the channel is inactive
\* when its user lines are down, or the relay is gone or the limit has passed.
XsitionToInactive(c) ==
  /\ stage[c] = "pass"
  /\ mode[c] = "ACTIVE" /\ MustLeave(c)
  /\ xsition' = [xsition EXCEPT ![c] = "toInactive"]
  /\ late' = [late EXCEPT ![c] = Late(c, "toInactive")]
  /\ IF xsition[c] # "toInactive" THEN SendCommand(c, "INACTIVE")
                                  ELSE UNCHANGED orders
  /\ IF RelayRead(c) = "ASSIGNED" /\ ~Late(c, "toInactive") /\ lines[c]
       THEN UNCHANGED <<mode, mail, hasty>>
       ELSE /\ mode' = [mode EXCEPT ![c] = "INACTIVE"]
            /\ Transmit(c, "INACTIVE")
            /\ hasty' = (hasty \/ lines[c] \/ active[c] \/ orders'[c] # <<>>)
  /\ UNCHANGED <<env, stage, red, link, lost, delayCnt, active, lines>>

\* PS_process_inactive_state, for a channel whose RDA does not control.
ProcessInactiveState(c) ==
  /\ stage[c] = "pass"
  /\ rda[c] # "controlling" /\ mode[c] = "INACTIVE"
  /\ Remind(c) /\ NoXsition(c)
  /\ UNCHANGED <<env, stage, mode, red, link, lost, mail, active, lines, hasty>>

\* A pass of an active channel of whose RDA nothing is known: no PS_ function.
IdlePass(c) ==
  /\ stage[c] = "pass"
  /\ mode[c] = "ACTIVE" /\ rda[c] \in {"unknown", "down"} /\ ~MustLeave(c)
  /\ UNCHANGED <<env, stage, mode, red, link, xsition, late, lost, delayCnt, out>>

Pass(c) ==
  \/ XsitionToActive(c) \/ Acquired(c)
  \/ ProcessActiveState(c) \/ XsitionToInactive(c)
  \/ ProcessInactiveState(c) \/ IdlePass(c)

\* CLS_check_channel_link: the pings of the last interval were answered or
\* not; the status is sent when the link comes up and every 30 s (due).
CheckChannelLink(c, due) ==
  /\ stage[c] = "pass"
  /\ link' = [link EXCEPT ![c] = net]
  /\ IF net /\ (due \/ ~link[c]) THEN Transmit(c, mode[c]) ELSE UNCHANGED mail
  /\ UNCHANGED <<env, stage, mode, red, xsition, late, lost,
                 delayCnt, orders, active, lines, hasty>>

\* Mutation: a callback that runs with nothing to read.
ProcessNoMsg(c) ==
  /\ stage[c] = "pass"
  /\ red' = [red EXCEPT ![c] = mail[c]]
  /\ mail' = [mail EXCEPT ![c] = "none"]
  /\ UNCHANGED <<env, stage, mode, link, xsition, late, lost,
                 delayCnt, orders, active, lines, hasty>>

\* PC_process_channel_msg for a status message, run by EN_control (EN_WAIT).
ProcessChannelMsg(c) ==
  /\ stage[c] = "pass" /\ mail[c] # "none"
  /\ red' = [red EXCEPT ![c] = mail[c]]
  /\ mail' = [mail EXCEPT ![c] = "none"]
  /\ UNCHANGED <<env, stage, mode, link, xsition, late, lost,
                 delayCnt, orders, active, lines, hasty>>

\* The limits of the transition and of a lost relay pass.
TimePasses(c) ==
  /\ \/ /\ xsition[c] # "none" /\ ~late[c]
        /\ late' = [late EXCEPT ![c] = TRUE]
        /\ UNCHANGED lost
     \/ /\ lost[c] = "counting"
        /\ lost' = [lost EXCEPT ![c] = "due"]
        /\ UNCHANGED late
  /\ UNCHANGED <<env, stage, mode, red, link, xsition, delayCnt,
                 out>>

\* The manager dies without its termination handler, and its memory with it.
Crash(c) ==
  /\ stage[c] # "dead" /\ changes > 0
  /\ stage' = [stage EXCEPT ![c] = "dead"]
  /\ hasty' = (hasty \/ mode[c] = "ACTIVE")
  /\ changes' = changes - 1
  /\ mode' = [mode EXCEPT ![c] = "INACTIVE"]
  /\ link' = [link EXCEPT ![c] = TRUE]
  /\ NoXsition(c)
  /\ lost' = [lost EXCEPT ![c] = "no"]
  /\ delayCnt' = [delayCnt EXCEPT ![c] = [m \in Modes |-> 0]]
  /\ UNCHANGED <<rda, relay, dio, net, red, mail, orders, active, lines>>

\* IC_initialize_channel and Channel_startup: the channel starts inactive and
\* knows of the other what its LB holds; the link is assumed up.
Initialize(c) ==
  /\ stage[c] = "dead"
  /\ stage' = [stage EXCEPT ![c] = "pass"]
  /\ SendCommand(c, "INACTIVE")
  /\ red' = [red EXCEPT ![c] = IF mail[c] = "none" THEN @ ELSE mail[c]]
  /\ mail' = [d \in Channels |-> IF d = c THEN "none"
                                 ELSE IF net THEN "INACTIVE" ELSE mail[d]]
  /\ UNCHANGED <<env, mode, link, xsition, late, lost, delayCnt, active, lines,
                 hasty>>

-----------------------------------------------------------------------------
(* manage_rpg, the user lines and the hardware.                            *)

\* Process_activation and MMR_set_active of manage_rpg.
ProcessActivation(c) ==
  /\ orders[c] # <<>>
  /\ active' = [active EXCEPT ![c] = Head(orders[c]) = "ACTIVE"]
  /\ orders' = [orders EXCEPT ![c] = Tail(@)]
  /\ UNCHANGED <<env, own, mail, lines, hasty>>

\* manage_rpg dies: resumed, it goes on after the command it had marked when it
\* died, or after the ones that were too old when it was resumed.
RpgManagerDies(c) ==
  /\ changes > 0
  /\ \E n \in 1 .. Len(orders[c]) :
       orders' = [orders EXCEPT ![c] = SubSeq(@, n + 1, Len(@))]
  /\ changes' = changes - 1
  /\ UNCHANGED <<rda, relay, dio, net, own, mail, active, lines, hasty>>

\* p_server connects the users of an active RPG and disconnects the others.
LinesFollow(c) ==
  /\ lines[c] # active[c]
  /\ lines' = [lines EXCEPT ![c] = active[c]]
  /\ UNCHANGED <<env, own, mail, orders, active, hasty>>

\* What an RDA reports changes, or its line; one RDA at most controls: it may
\* take control from the other.
RdaChanges(c) ==
  /\ changes > 0
  /\ \E s \in RdaStates \ {rda[c]} :
       rda' = [d \in Channels |->
                 IF d = c THEN s
                 ELSE IF s = "controlling" /\ rda[d] = s THEN "nonControlling"
                 ELSE rda[d]]
  /\ changes' = changes - 1
  /\ UNCHANGED <<relay, dio, net, own, out>>

\* What fails may come back: only failures are bounded.
NetChanges ==
  /\ net => changes > 0
  /\ net' = ~net
  /\ changes' = IF net THEN changes - 1 ELSE changes
  /\ UNCHANGED <<rda, relay, dio, own, out>>

DioChanges(c) ==
  /\ dio[c] => changes > 0
  /\ dio' = [dio EXCEPT ![c] = ~@]
  /\ changes' = IF dio[c] THEN changes - 1 ELSE changes
  /\ UNCHANGED <<rda, relay, net, own, out>>

-----------------------------------------------------------------------------
RedInit ==
  /\ rda = [c \in Channels |-> IF c \in Controlling THEN "controlling"
                                                     ELSE "nonControlling"]
  /\ relay \in Channels
  /\ dio = [c \in Channels |-> TRUE]
  /\ net = TRUE
  /\ stage = [c \in Channels |-> "pass"]
  /\ mode = [c \in Channels |-> "INACTIVE"]
  /\ red = [c \in Channels |-> "INACTIVE"]
  /\ link = [c \in Channels |-> TRUE]
  /\ xsition = [c \in Channels |-> "none"]
  /\ late = [c \in Channels |-> FALSE]
  /\ lost = [c \in Channels |-> "no"]
  /\ delayCnt = [c \in Channels |-> [m \in Modes |-> 0]]
  /\ mail = [c \in Channels |-> "none"]
  /\ orders = [c \in Channels |-> <<>>]
  /\ active = [c \in Channels |-> FALSE]
  /\ lines = [c \in Channels |-> FALSE]
  /\ hasty = FALSE
  /\ changes = MaxEvents

RedNext ==
  \/ \E c \in Channels : \/ Pass(c)
                         \/ \E due \in BOOLEAN : CheckChannelLink(c, due)
                         \/ ProcessChannelMsg(c) \/ TimePasses(c)
                         \/ Crash(c) \/ Initialize(c)
                         \/ ProcessActivation(c) \/ RpgManagerDies(c)
                         \/ LinesFollow(c)
                         \/ RdaChanges(c) \/ DioChanges(c)
  \/ NetChanges

\* The loop passes about every second, and time passes, so that the relay is
\* read, the link checked and the status sent again and again; a manager that
\* died is started again by manage_rpg, which reads its commands.
RedFairness ==
  \A c \in Channels :
    /\ WF_redVars(Pass(c))
    /\ SF_redVars(CheckChannelLink(c, TRUE)) /\ SF_redVars(ProcessChannelMsg(c))
    /\ WF_redVars(TimePasses(c)) /\ WF_redVars(Initialize(c))
    /\ WF_redVars(ProcessActivation(c)) /\ WF_redVars(LinesFollow(c))

RedSpec == RedInit /\ [][RedNext]_redVars /\ RedFairness

-----------------------------------------------------------------------------
\* Every variable has the values its comment names.
RedTypeOK ==
  /\ rda \in [Channels -> RdaStates]
  /\ relay \in Channels /\ dio \in [Channels -> BOOLEAN] /\ net \in BOOLEAN
  /\ stage \in [Channels -> {"pass", "acquired", "dead"}]
  /\ mode \in [Channels -> Modes] /\ red \in [Channels -> Modes]
  /\ link \in [Channels -> BOOLEAN] /\ late \in [Channels -> BOOLEAN]
  /\ xsition \in [Channels -> {"none", "toActive", "toInactive"}]
  /\ lost \in [Channels -> {"no", "counting", "due"}]
  /\ delayCnt \in [Channels -> [Modes -> Nat]]
  /\ mail \in [Channels -> Modes \cup {"none"}]
  /\ orders \in [Channels -> Seq(Modes)]
  /\ active \in [Channels -> BOOLEAN] /\ lines \in [Channels -> BOOLEAN]
  /\ hasty \in BOOLEAN
  /\ changes \in 0 .. MaxEvents

\* At most one channel serves the users: unless a switchover was hasty, two
\* channels are never active together nor have user lines together, and the
\* active one holds the relay.  The orderly switchover rests on a chain over
\* both channels: RDA, manage_rpg, user lines, status message, relay.
OneInService ==
  \/ hasty
  \/ \A c \in Channels :
       /\ ~(mode[c] = "ACTIVE" /\ mode[Other(c)] = "ACTIVE")
       /\ ~(lines[c] /\ lines[Other(c)])
       /\ mode[c] = "ACTIVE" => relay = c

\* The channels come to follow their RDAs, whatever went wrong before: when
\* one RDA keeps control and the relay controllers answer, its channel ends
\* active with the relay, and the other, if it hears its RDA does not control
\* or does not hear it, ends inactive.  The link may be up or down.
FollowsRda ==
  \A c \in Channels :
    <>[](rda[c] = "controlling" /\ \A d \in Channels : dio[d]) =>
      <>[](/\ mode[c] = "ACTIVE" /\ relay = c
           /\ rda[Other(c)] # "unknown" => mode[Other(c)] = "INACTIVE")

\* mngred_processing_states.c:120: "if mrpg doesn't know this channel should
\* be in the active state, then command it to active".
ManagerFollows ==
  \A c \in Channels :
    <>[](rda[c] = "controlling" /\ \A d \in Channels : dio[d]) => <>[]active[c]
=============================================================================
