-------------------------------- MODULE Mrpg --------------------------------
(***************************************************************************)
(* The RPG manager, cpc111/tsk001 (mrpg): it starts, watches and stops the *)
(* operational processes (tasks) of the RPG.  What it must not forget, the *)
(* RPG state, is in a file; what it knows of the tasks comes from nds and  *)
(* is lost when it dies.  nds then runs "mrpg resume", which goes on from  *)
(* the file; the operator may run "mrpg startup", and the boot of the OS   *)
(* runs "mrpg auto_start".                                                 *)
(*                                                                         *)
(* One action for each part of a command between two changes of the file   *)
(* or of the tasks: mrpg, the node or a task may die between any two.      *)
(* LB_write replaces the state in the file as a whole (LBDb), so a death   *)
(* leaves the old state or the new one.                                    *)
(***************************************************************************)
EXTENDS Naturals, Sequences, FiniteSets

CONSTANTS
  Tasks,            \* the operational processes; MRPG_TT_RESPAWN and the other
  Respawn,          \* types of the task table are subsets
  AliveInStandby, AllStates, ActiveOnly,
  Redundant,        \* MMR_is_faa_redundant
  MaxCmds,          \* bound: commands sent, and runs of "mrpg startup"
  MaxDeaths,        \* bound: deaths of mrpg or tasks, nds not answering
  MaxPower          \* bound: power failures and OS crashes

ASSUME TaskTypes == \A S \in {Respawn, AliveInStandby, AllStates, ActiveOnly} :
                      S \subseteq Tasks
ASSUME RedundantIsBoolean == Redundant \in BOOLEAN

VARIABLES
  power,     \* "on", "failing" (SIGPWR was sent) or "off" (external)
  crashed,   \* the OS went down without its shutdown (external), and auto
             \* start or startup has not taken care of it
  run,       \* of a task: "none", "up", or "dying" (got SIGTERM; external)
  nds,       \* nds runs: it starts mrpg again when it dies
  file,      \* the state file: Mrpg_state_t's state, cmd, pf_state, active
  cmds,      \* the commands not marked as read in the command LB
  pc,        \* where mrpg is; "dead" when it does not run
  queued,    \* Queued_command: the command came from the LB
  restart,   \* the command is within Standby_restart
  sigpwr,    \* Sigpwr_received
  know,      \* of a task: the status in the task table; its pid is known,
             \* that is >= 0, when the status is "active"
  was,       \* history: the state when the power failure was handled
  strays,    \* history: tasks were started, or not seen, when they should stop
  budget     \* commands, deaths and power failures still to come

os == <<power, crashed>>
mem == <<queued, restart, sigpwr>>
vars == <<os, nds, run, file, cmds, pc, mem, know, was, strays, budget>>

States == {"SHUTDOWN", "STANDBY", "OPERATING", "TRANSITION", "FAILED", "POWERFAIL"}
Stops == {"SHUTDOWN", "STANDBY"}
Commands == {"STARTUP", "RESTART", "STANDBY_RESTART"} \cup Stops \cup
            (IF Redundant THEN {"ACTIVE", "INACTIVE"} ELSE {})

Spend(what) == budget[what] > 0 /\ budget' = [budget EXCEPT ![what] = @ - 1]
Goto(p) == pc' = p

\* MMR_set_rpg_state, after which mrpg is at p.
SetState(s, c, p) == file' = [file EXCEPT !.state = s, !.cmd = c] /\ Goto(p)

-----------------------------------------------------------------------------
(* The task table.                                                         *)

InStandbyState == \/ file.state = "STANDBY"
                  \/ file.state = "TRANSITION" /\ file.cmd \in {"STANDBY", "RESTART"}

\* The tasks that are left running when the others are stopped.
Kept == AllStates \cup (IF InStandbyState THEN AliveInStandby ELSE {})

\* Mutation: a started task that does not appear is waited for without end.
SeenLate(r, late) ==
  [t \in Tasks |-> IF r[t] # "none" THEN "active"
                   ELSE IF know[t] = "active" THEN "failed" ELSE know[t]]

\* Read_status_info: what is known when nds reports of the tasks r; late: a
\* task that was started and is not there had PROCESS_START_TIME to appear.
Seen(r, late) ==
  [t \in Tasks |-> IF r[t] # "none" THEN "active"
                   ELSE IF know[t] = "active" \/ (late /\ know[t] = "started")
                     THEN "failed" ELSE know[t]]

\* MMR_opp_count, of what is known: the tasks that should not run.
Opp(k) == {t \in Tasks \ Kept : k[t] = "active"}

\* The tasks Start_listed_processes starts.
Listed(k, active, forced) ==
  {t \in Tasks : /\ t \in ActiveOnly => active
                 /\ k[t] = "active" => forced /\ t \notin Kept}

Set(f, S, v) == [t \in Tasks |-> IF t \in S THEN v ELSE f[t]]
Start(S, r, k) == run' = Set(r, S, "up") /\ know' = Set(k, S, "started")

\* Stop_listed_processes with SIGTERM, for tasks in S; nothing when nds, which
\* is started if it does not run, does not answer.
Terminate(S) ==
  \/ \E late \in BOOLEAN :
       /\ nds' = TRUE
       /\ know' = Seen(run, late)
       /\ run' = Set(run, Opp(know') \cap S, "dying")
       /\ UNCHANGED budget
  \/ Spend("deaths") /\ UNCHANGED <<nds, know, run>>

-----------------------------------------------------------------------------
(* MPC_process_queued_cmds and MPC_process_command.                        *)

\* The next command is read, and marked so that it is never read again.
Read(c) == pc = "loop" /\ cmds # <<>> /\ Head(cmds) = c /\ cmds' = Tail(cmds)

Refused(c) == \/ file.state = "POWERFAIL"
              \/ c = "RESTART" /\ file.state # "STANDBY"
              \/ c = "STANDBY" /\ file.state # "OPERATING"

Refuse ==
  /\ \E c \in Commands \ {"STANDBY_RESTART"} : Read(c) /\ Refused(c)
  /\ UNCHANGED <<os, nds, run, file, pc, mem, know, was, strays, budget>>

\* MRPG_STARTUP and MRPG_RESTART set the state first.
BeginStart ==
  /\ \E c \in {"STARTUP", "RESTART"} :
       /\ Read(c) /\ ~Refused(c)
       /\ SetState("TRANSITION", c, "starting")
  /\ was' = "none"
  /\ UNCHANGED <<os, nds, run, mem, know, strays, budget>>

\* The tasks still running are killed, by name or by pid; then data stores
\* and init commands; then Start_operation starts the tasks.
StartOperation ==
  /\ pc = "starting"
  /\ \E late \in BOOLEAN :
       LET spared == IF file.cmd = "RESTART" THEN Kept
                     ELSE IF queued THEN AllStates ELSE {}
           r == Set(run, Tasks \ spared, "none")
           k == IF file.cmd = "RESTART" THEN Seen(r, late) ELSE know
       IN Start(Listed(k, file.active, TRUE), r, k)
  /\ nds' = TRUE
  /\ Goto("ready")
  /\ UNCHANGED <<os, file, cmds, mem, was, strays, budget>>

\* One of the steps failed, or one of auto_start to standby; a command of the
\* command line ends mrpg.
StartFails ==
  /\ pc \in {"starting", "STANDBY"}
  /\ Spend("deaths")
  /\ SetState("FAILED", file.cmd,
              IF ~queued THEN "exit" ELSE IF restart THEN "endRestart" ELSE "loop")
  /\ was' = "none"
  /\ UNCHANGED <<os, nds, run, cmds, mem, know, strays>>

Started ==
  /\ pc = "ready"
  /\ SetState("OPERATING", file.cmd, IF restart THEN "endRestart" ELSE "loop")
  /\ queued' = TRUE
  /\ UNCHANGED <<os, nds, run, cmds, restart, sigpwr, know, was, strays, budget>>

\* MRPG_SHUTDOWN and MRPG_STANDBY set the state, then Shutdown_rpg sends
\* SIGTERM once.
BeginStop ==
  /\ \/ \E c \in Stops : /\ Read(c) /\ ~Refused(c)
                         /\ SetState("TRANSITION", c, "stopping")
     \/ /\ pc = "standby" /\ ~Refused("STANDBY")
        /\ SetState("TRANSITION", "STANDBY", "stopping")
        /\ UNCHANGED cmds
  /\ was' = "none" /\ strays' = FALSE
  /\ UNCHANGED <<os, nds, run, mem, know, budget>>

Stop ==
  /\ pc = "stopping"
  /\ Terminate(Tasks)
  /\ Goto(IF restart THEN "toStandby" ELSE "loop")
  /\ UNCHANGED <<os, file, cmds, mem, was, strays>>

\* Standby_restart: a standby command, a wait for the standby state of at
\* most MAX_TO_STANDBY_TIME, and a restart command.
StandbyRestart ==
  /\ Read("STANDBY_RESTART") /\ file.state # "POWERFAIL"
  /\ restart' = TRUE /\ Goto("standby")
  /\ UNCHANGED <<os, nds, run, file, queued, sigpwr, know, was, strays, budget>>

RefuseRestart ==
  /\ \/ Read("STANDBY_RESTART") /\ file.state = "POWERFAIL" /\ UNCHANGED pc
     \/ /\ pc = "standby" /\ Refused("STANDBY")
        /\ Goto("endRestart") /\ UNCHANGED cmds
  /\ UNCHANGED <<os, nds, run, file, mem, know, was, strays, budget>>

RestartFromStandby ==
  /\ pc = "toStandby" /\ file.state = "STANDBY"
  /\ SetState("TRANSITION", "RESTART", "starting")
  /\ UNCHANGED <<os, nds, run, cmds, mem, know, was, strays, budget>>

StandbyTimesOut ==
  /\ pc = "toStandby" /\ file.state # "STANDBY"
  /\ Goto("endRestart")
  /\ UNCHANGED <<os, nds, run, file, cmds, mem, know, was, strays, budget>>

EndRestart ==
  /\ pc = "endRestart"
  /\ restart' = FALSE /\ Goto("loop")
  /\ UNCHANGED <<os, nds, run, file, cmds, queued, sigpwr, know, was, strays, budget>>

\* Process_activation: the tasks, then MMR_set_active.
BeginActivation ==
  /\ \/ /\ Read("ACTIVE") /\ ~Refused("ACTIVE")
        /\ Start(Listed(know, TRUE, FALSE), run, know)
        /\ Goto("activate")
        /\ strays' = (strays \/ file.state \in Stops)
        /\ UNCHANGED <<nds, budget>>
     \/ /\ Read("INACTIVE") /\ ~Refused("INACTIVE")
        /\ Terminate(ActiveOnly)
        /\ Goto("deactivate")
        /\ UNCHANGED strays
  /\ UNCHANGED <<os, file, mem, was>>

SetActive ==
  /\ pc \in {"activate", "deactivate"}
  /\ file' = [file EXCEPT !.active = (pc = "activate")]
  /\ Goto("loop")
  /\ UNCHANGED <<os, nds, run, cmds, mem, know, was, strays, budget>>

\* Mutation: the state is saved after it was set.
PowerfailSavesLast ==
  /\ pc = "loop" /\ sigpwr
  /\ IF file.state = "POWERFAIL"
       THEN Goto("exit") /\ UNCHANGED <<file, was>>
       ELSE /\ file' = [file EXCEPT !.pf = "POWERFAIL", !.state = "POWERFAIL",
                                    !.cmd = "POWERFAIL"]
            /\ Goto("powerfail")
            /\ was' = file.state
  /\ UNCHANGED <<os, nds, run, cmds, mem, know, strays, budget>>

\* MRPG_POWERFAIL; mrpg and its nds then end.
Powerfail ==
  /\ pc = "loop" /\ sigpwr
  /\ IF file.state = "POWERFAIL"
       THEN Goto("exit") /\ UNCHANGED <<file, was>>
       ELSE /\ file' = [file EXCEPT !.pf = file.state, !.state = "POWERFAIL",
                                    !.cmd = "POWERFAIL"]
            /\ Goto("powerfail")
            /\ was' = file.state
  /\ UNCHANGED <<os, nds, run, cmds, mem, know, strays, budget>>

PowerfailStop ==
  /\ pc = "powerfail"
  /\ IF file.pf = "OPERATING" THEN Terminate(Tasks)
                              ELSE UNCHANGED <<nds, run, know, budget>>
  /\ Goto("exit")
  /\ UNCHANGED <<os, file, cmds, mem, was, strays>>

\* MAIN_exit removes nds, so that mrpg is not started again.
Exit ==
  /\ pc = "exit"
  /\ nds' = FALSE /\ Goto("dead")
  /\ UNCHANGED <<power, crashed, run, file, cmds, mem, know, was, strays, budget>>

-----------------------------------------------------------------------------
(* MMR_housekeep and MPI_housekeep.                                        *)

\* nds reports: the status of the tasks is read.
StatusInfo(late) ==
  /\ pc \in {"loop", "toStandby"}
  /\ nds' = TRUE
  /\ know' = Seen(run, late)
  /\ UNCHANGED <<os, run, file, cmds, pc, mem, was, strays, budget>>

RespawnTask(t) ==
  /\ pc = "loop" /\ file.state = "OPERATING"
  /\ t \in Respawn /\ know[t] = "failed"
  /\ t \in ActiveOnly => file.active
  /\ Start({t}, run, know)
  /\ UNCHANGED <<os, nds, file, cmds, pc, mem, was, strays, budget>>

\* Mutation: the tasks that are left are not killed.
ShutdownNoKill(expired) ==
  /\ pc \in {"loop", "toStandby"}
  /\ file.state = "TRANSITION" /\ file.cmd \in Stops
  /\ \/ \E late \in BOOLEAN :
          /\ nds' = TRUE
          /\ know' = Seen(run, late)
          /\ Opp(know') = {} \/ expired
          /\ UNCHANGED <<run, strays, budget>>
     \/ Spend("deaths") /\ strays' = TRUE /\ UNCHANGED <<nds, know, run>>
  /\ SetState(file.cmd, file.cmd, pc)
  /\ UNCHANGED <<os, cmds, mem, was>>

\* Mutation: the tasks are waited for without end.
ShutdownWaits(expired) ==
  /\ pc \in {"loop", "toStandby"}
  /\ file.state = "TRANSITION" /\ file.cmd \in Stops
  /\ \/ \E late \in BOOLEAN :
          /\ nds' = TRUE
          /\ know' = Seen(run, late)
          /\ Opp(know') = {}
          /\ UNCHANGED <<run, strays, budget>>
     \/ Spend("deaths") /\ strays' = TRUE /\ UNCHANGED <<nds, know, run>>
  /\ SetState(file.cmd, file.cmd, pc)
  /\ UNCHANGED <<os, cmds, mem, was>>

\* The end of a shutdown or standby command: no task is left, or those that
\* are left after MAX_PROCESS_TERM_TIME (expired) are killed.  MMR_opp_count
\* is 0 when nds does not answer.
ShutdownDone(expired) ==
  /\ pc \in {"loop", "toStandby"}
  /\ file.state = "TRANSITION" /\ file.cmd \in Stops
  /\ \/ \E late \in BOOLEAN :
          /\ nds' = TRUE
          /\ know' = Seen(run, late)
          /\ Opp(know') = {} \/ expired
          /\ run' = Set(run, Opp(know'), "none")
          /\ UNCHANGED <<strays, budget>>
     \/ Spend("deaths") /\ strays' = TRUE /\ UNCHANGED <<nds, know, run>>
  /\ SetState(file.cmd, file.cmd, pc)
  /\ UNCHANGED <<os, cmds, mem, was>>

-----------------------------------------------------------------------------
(* mrpg starts.                                                            *)

\* MPC_open_mrpg_cmds_lb: of the unmarked commands the newest are read, those
\* sent since mrpg was started.
OpenCommands == \E k \in 0 .. Len(cmds) : cmds' = SubSeq(cmds, k + 1, Len(cmds))

Fresh == /\ restart' = FALSE /\ sigpwr' = FALSE
         /\ know' = [t \in Tasks |-> "notStarted"]

\* nds finds no mrpg: "mrpg resume" executes no command.
Resume ==
  /\ pc = "dead" /\ nds /\ power # "off"
  /\ Goto("loop") /\ queued' = TRUE
  /\ OpenCommands /\ Fresh
  /\ UNCHANGED <<os, nds, run, file, was, strays, budget>>

\* The state file mrpg finds: a crash of the OS has it removed and made anew.
Opened == IF crashed THEN [state |-> "SHUTDOWN", cmd |-> "SHUTDOWN",
                           pf |-> "SHUTDOWN", active |-> ~Redundant]
                     ELSE [file EXCEPT !.active = ~Redundant]

\* "mrpg startup" on the command line: Terminate_mrpg kills a running mrpg,
\* whatever it does, and its nds.
Startup ==
  /\ power # "off" /\ Spend("cmds")
  /\ IF Opened.state = "POWERFAIL"
       THEN /\ file' = Opened
            /\ Goto("exit")
       ELSE /\ file' = [Opened EXCEPT !.cmd = "STARTUP", !.state = "TRANSITION"]
            /\ Goto("starting")
  /\ nds' = FALSE /\ queued' = FALSE /\ crashed' = FALSE
  /\ OpenCommands /\ Fresh
  /\ was' = IF Opened.state = "POWERFAIL" THEN was ELSE "none"
  /\ UNCHANGED <<power, run, strays>>

\* The OS boots and runs "mrpg auto_start".
Boot ==
  /\ power = "off"
  /\ power' = "on"
  /\ Goto("autoStart") /\ queued' = FALSE /\ Fresh
  /\ file' = Opened
  /\ cmds' = <<>> /\ strays' = FALSE
  /\ UNCHANGED <<crashed, nds, run, was, budget>>

\* Mutation: the state before the power failure is not looked at.
PreStateIgnored == file.state

PreState == IF file.state = "POWERFAIL" THEN file.pf ELSE file.state

\* Auto_start: startup or restart, depending on how long mrpg was away, or the
\* state before is entered again.
AutoStart ==
  /\ pc = "autoStart"
  /\ IF ~crashed /\ PreState \in Stops
       THEN SetState("TRANSITION", "AUTO_START", PreState)
       ELSE \E c \in {"STARTUP", "RESTART"} :
              /\ c = "RESTART" => ~crashed /\ PreState = "OPERATING"
              /\ SetState("TRANSITION", c, "starting")
  /\ crashed' = FALSE
  /\ UNCHANGED <<power, nds, run, cmds, mem, know, was, strays, budget>>

AutoStop ==
  /\ pc \in Stops
  /\ LET types == AllStates \cup (IF pc = "STANDBY" THEN AliveInStandby ELSE {})
     IN Start(Listed(know, TRUE, FALSE) \cap types, run, know)
  /\ SetState(pc, file.cmd, "loop")
  /\ queued' = TRUE
  /\ UNCHANGED <<os, nds, cmds, restart, sigpwr, was, strays, budget>>

-----------------------------------------------------------------------------
(* The operator, the other channel, deaths and the power.                  *)

\* ORPGMGR_send_command.
Send(c) ==
  /\ Spend("cmds")
  /\ cmds' = Append(cmds, c)
  /\ UNCHANGED <<os, nds, run, file, pc, mem, know, was, strays>>

Die ==
  /\ pc # "dead" /\ Spend("deaths")
  /\ Goto("dead")
  /\ was' = IF file.state = "POWERFAIL" THEN was ELSE "none"
  /\ UNCHANGED <<os, nds, run, file, cmds, mem, know, strays>>

TaskDies(t) ==
  /\ run[t] = "up" /\ Spend("deaths")
  /\ run' = [run EXCEPT ![t] = "none"]
  /\ UNCHANGED <<os, nds, file, cmds, pc, mem, know, was, strays>>

\* A task ends on SIGTERM, sooner or later or never.
TaskEnds(t) ==
  /\ run[t] = "dying"
  /\ run' = [run EXCEPT ![t] = "none"]
  /\ UNCHANGED <<os, nds, file, cmds, pc, mem, know, was, strays, budget>>

PowerFails ==
  /\ power = "on" /\ Spend("power")
  /\ power' = "failing"
  /\ sigpwr' = (pc # "dead")
  /\ UNCHANGED <<crashed, nds, run, file, cmds, pc, queued, restart, know, was,
                 strays>>

\* The OS goes down, after a power failure or by a crash.
OsDown ==
  /\ \/ /\ power = "failing" /\ crashed' = FALSE
        /\ was' = IF file.state = "POWERFAIL" THEN was ELSE "none"
        /\ UNCHANGED budget
     \/ power = "on" /\ Spend("power") /\ crashed' = TRUE /\ was' = "none"
  /\ power' = "off" /\ nds' = FALSE /\ Goto("dead")
  /\ run' = [t \in Tasks |-> "none"]
  /\ UNCHANGED <<file, cmds, mem, know, strays>>

-----------------------------------------------------------------------------
Init ==
  /\ power = "on" /\ crashed = FALSE /\ nds = TRUE
  /\ run = [t \in Tasks |-> IF t \in ActiveOnly /\ Redundant THEN "none" ELSE "up"]
  /\ file = [state |-> "OPERATING", cmd |-> "STARTUP", pf |-> "SHUTDOWN",
             active |-> ~Redundant]
  /\ cmds = <<>> /\ pc = "loop"
  /\ queued = TRUE /\ restart = FALSE /\ sigpwr = FALSE
  /\ know = [t \in Tasks |-> IF run[t] = "up" THEN "active" ELSE "notStarted"]
  /\ was = "none" /\ strays = FALSE
  /\ budget = [cmds |-> MaxCmds, deaths |-> MaxDeaths, power |-> MaxPower]

\* The steps mrpg takes of itself.
Command ==
  \/ Refuse \/ BeginStart \/ StartOperation \/ Started \/ BeginStop \/ Stop
  \/ StandbyRestart \/ RefuseRestart \/ RestartFromStandby \/ EndRestart
  \/ BeginActivation \/ SetActive \/ Powerfail \/ PowerfailStop \/ Exit
  \/ AutoStart \/ AutoStop

Next ==
  \/ Command \/ StartFails \/ StandbyTimesOut
  \/ \E b \in BOOLEAN : StatusInfo(b) \/ ShutdownDone(b)
  \/ Resume \/ Startup \/ Boot
  \/ \E c \in Commands : Send(c)
  \/ \E t \in Tasks : RespawnTask(t) \/ TaskDies(t) \/ TaskEnds(t)
  \/ Die \/ PowerFails \/ OsDown

\* mrpg's loop goes round, nds starts mrpg again, and the power returns.  A
\* task need not end on SIGTERM.
Fairness ==
  /\ WF_vars(Command) /\ WF_vars(StatusInfo(TRUE)) /\ WF_vars(ShutdownDone(TRUE))
  /\ \A t \in Tasks : WF_vars(RespawnTask(t))
  /\ WF_vars(Resume) /\ WF_vars(Boot)
  /\ WF_vars(power = "failing" /\ OsDown)

Spec == Init /\ [][Next]_vars /\ Fairness

-----------------------------------------------------------------------------
\* Every variable has the values its comment names.
TypeOK ==
  /\ power \in {"on", "failing", "off"}
  /\ {crashed, nds, queued, restart, sigpwr, strays} \subseteq BOOLEAN
  /\ run \in [Tasks -> {"none", "up", "dying"}]
  /\ know \in [Tasks -> {"notStarted", "started", "active", "failed"}]
  /\ file \in [state : States, pf : States \ {"POWERFAIL"}, active : BOOLEAN,
               cmd : Commands \cup {"AUTO_START", "POWERFAIL"}]
  /\ cmds \in Seq(Commands)
  /\ pc \in {"dead", "loop", "starting", "ready", "stopping", "standby", "toStandby",
             "endRestart", "activate", "deactivate", "powerfail", "exit",
             "autoStart"} \cup Stops
  /\ was \in States \cup {"none"}

\* When the state file says shutdown or standby, the tasks that should be down
\* are, whoever died in the meantime and although a resumed mrpg remembers
\* neither that it sent SIGTERM nor when; unless nds did not answer, or an
\* "active" command, which starts every task, came in that very state.
StoppedIsQuiet ==
  file.state \in Stops =>
    strays \/ \A t \in Tasks \ Kept : run[t] = "none"

\* A shutdown or standby that was begun ends, whatever dies, however often nds
\* starts mrpg again in between, and though a task may not end on SIGTERM;
\* unless the node goes down or "mrpg startup" is run, which end nds too.
StopEnds ==
  LET stopping == file.state = "TRANSITION" /\ file.cmd \in Stops
  IN stopping /\ nds ~> ~stopping \/ ~nds

\* After a power failure that mrpg handled, auto_start brings back the state
\* the RPG was in: shutdown, standby or, restarted, operating; unless there is
\* another one before it is done, which mrpg does not handle then.
StateIsKept ==
  was # "none" /\ pc = "loop" /\ power = "on" =>
    file.state = IF was \in Stops THEN was ELSE "OPERATING"

\* In operation a task that mrpg has seen or started, and that is to be
\* respawned, comes back.
KnownTasksRun ==
  \A t \in Respawn :
    <>[](/\ file.state = "OPERATING" /\ know[t] # "notStarted"
         /\ t \in ActiveOnly => file.active) => <>[](run[t] # "none")

\* mrpg.1: "It restarts a terminated process if the action is specified in the
\* task table."
TerminatedIsRestarted ==
  \A t \in Respawn :
    <>[](file.state = "OPERATING" /\ (t \in ActiveOnly => file.active)) =>
      <>[](run[t] # "none")
=============================================================================
