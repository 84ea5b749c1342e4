---------------------------- MODULE ManagersProofs ----------------------------
(***************************************************************************)
(* Theorems about the RPG manager (Mrpg), for any tasks of any types, any    *)
(* number of commands, deaths and power failures; and about the redundant    *)
(* channel manager (MngRed), for any number of changes of the RDAs, failures *)
(* and deaths.                                                               *)
(***************************************************************************)
EXTENDS Mrpg, MngRed, TLAPS

--------------------------------------------------------------------------------
(* The RPG manager (Mrpg) *)

(***************************************************************************)
(* Types.                                                                  *)
(***************************************************************************)
LEMMA SeenType ==
  ASSUME TypeOK, NEW r, NEW tardy
  PROVE  Seen(r, tardy) \in [Tasks -> {"notStarted", "started", "active", "failed"}]
  BY DEF Seen, TypeOK

LEMMA TypeInit == Init => TypeOK
  <1> SUFFICES ASSUME Init PROVE TypeOK
    OBVIOUS
  <1>1. cmds \in Seq(Commands)
    BY DEF Init
  <1> QED
    BY <1>1, RedundantIsBoolean, TaskTypes DEF Init, TypeOK, States, Stops, Commands

\* A task table and tasks that are started or stopped keep their types.
LEMMA StartType ==
  ASSUME NEW S, NEW r \in [Tasks -> {"none", "up", "dying"}],
         NEW k \in [Tasks -> {"notStarted", "started", "active", "failed"}],
         Start(S, r, k)
  PROVE  /\ run' \in [Tasks -> {"none", "up", "dying"}]
         /\ know' \in [Tasks -> {"notStarted", "started", "active", "failed"}]
  BY DEF Start, Set

LEMMA TerminateType ==
  ASSUME TypeOK, NEW S, Terminate(S)
  PROVE  /\ run' \in [Tasks -> {"none", "up", "dying"}] /\ nds' \in BOOLEAN
         /\ know' \in [Tasks -> {"notStarted", "started", "active", "failed"}]
  <1>1. CASE UNCHANGED <<nds, know, run>>
    BY <1>1 DEF TypeOK
  <1>2. CASE \E tardy \in BOOLEAN :
               /\ nds' = TRUE
               /\ know' = Seen(run, tardy)
               /\ run' = Set(run, Opp(know') \cap S, "dying")
    BY <1>2, SeenType DEF TypeOK, Set
  <1> QED BY <1>1, <1>2 DEF Terminate

LEMMA ReadType ==
  ASSUME TypeOK, NEW c, Read(c)
  PROVE  cmds' \in Seq(Commands) /\ c \in Commands
  BY DEF TypeOK, Read

LEMMA OpenType ==
  ASSUME TypeOK, OpenCommands
  PROVE  cmds' \in Seq(Commands)
  BY DEF TypeOK, OpenCommands

LEMMA OpenedType ==
  ASSUME TypeOK
  PROVE  Opened \in [state : States, pf : States \ {"POWERFAIL"}, active : BOOLEAN,
                     cmd : Commands \cup {"AUTO_START", "POWERFAIL"}]
  <1> DEFINE a == ~Redundant
  <1>1. a \in BOOLEAN
    OBVIOUS
  <1>2. Opened = IF crashed THEN [state |-> "SHUTDOWN", cmd |-> "SHUTDOWN",
                                  pf |-> "SHUTDOWN", active |-> a]
                            ELSE [file EXCEPT !.active = a]
    BY DEF Opened
  <1> HIDE DEF a
  <1> QED
    BY <1>1, <1>2 DEF TypeOK, States, Stops, Commands

LEMMA TypeStep == TypeOK /\ [Next]_vars => TypeOK'
  <1> SUFFICES ASSUME TypeOK, [Next]_vars PROVE TypeOK'
    OBVIOUS
  <1> USE DEF os, mem, SetState, Goto, Spend
  <1>1. CASE Refuse
    BY <1>1, ReadType DEF Refuse, TypeOK
  <1>2. CASE BeginStart
    BY <1>2, ReadType DEF BeginStart, TypeOK, States, Stops, Commands
  <1>3. CASE StartOperation
    <2>1. PICK tardy \in BOOLEAN :
            LET spared == IF file.cmd = "RESTART" THEN Kept
                          ELSE IF queued THEN AllStates ELSE {}
                r == Set(run, Tasks \ spared, "none")
                k == IF file.cmd = "RESTART" THEN Seen(r, tardy) ELSE know
            IN Start(Listed(k, file.active, TRUE), r, k)
      BY <1>3 DEF StartOperation
    <2> DEFINE spared == IF file.cmd = "RESTART" THEN Kept
                         ELSE IF queued THEN AllStates ELSE {}
               r == Set(run, Tasks \ spared, "none")
               k == IF file.cmd = "RESTART" THEN Seen(r, tardy) ELSE know
    <2>2. r \in [Tasks -> {"none", "up", "dying"}]
      BY DEF TypeOK, Set
    <2>3. k \in [Tasks -> {"notStarted", "started", "active", "failed"}]
      BY SeenType DEF TypeOK
    <2>4. Start(Listed(k, file.active, TRUE), r, k)
      BY <2>1
    <2> HIDE DEF r, k
    <2>5. /\ run' \in [Tasks -> {"none", "up", "dying"}]
          /\ know' \in [Tasks -> {"notStarted", "started", "active", "failed"}]
      BY <2>2, <2>3, <2>4, StartType
    <2> QED
      BY <1>3, <2>5 DEF StartOperation, TypeOK
  <1>4. CASE StartFails
    BY <1>4 DEF StartFails, TypeOK, States, Stops
  <1>5. CASE Started
    BY <1>5 DEF Started, TypeOK, States, Stops
  <1>6. CASE BeginStop
    BY <1>6, ReadType DEF BeginStop, TypeOK, States, Stops, Commands
  <1>7. CASE Stop
    BY <1>7, TerminateType DEF Stop, TypeOK
  <1>8. CASE StandbyRestart
    BY <1>8, ReadType DEF StandbyRestart, TypeOK
  <1>9. CASE RefuseRestart
    BY <1>9, ReadType DEF RefuseRestart, TypeOK
  <1>10. CASE RestartFromStandby
    BY <1>10 DEF RestartFromStandby, TypeOK, States, Stops, Commands
  <1>11. CASE StandbyTimesOut
    BY <1>11 DEF StandbyTimesOut, TypeOK
  <1>12. CASE EndRestart
    BY <1>12 DEF EndRestart, TypeOK
  <1>13. CASE BeginActivation
    BY <1>13, ReadType, StartType, TerminateType DEF BeginActivation, TypeOK
  <1>14. CASE SetActive
    BY <1>14 DEF SetActive, TypeOK
  <1>15. CASE Powerfail
    BY <1>15 DEF Powerfail, TypeOK, States, Stops
  <1>16. CASE PowerfailStop
    BY <1>16, TerminateType DEF PowerfailStop, TypeOK
  <1>17. CASE Exit
    BY <1>17 DEF Exit, TypeOK
  <1>18. CASE AutoStart
    BY <1>18 DEF AutoStart, TypeOK, States, Stops, Commands
  <1>19. CASE AutoStop
    BY <1>19, StartType DEF AutoStop, TypeOK, States, Stops
  <1>20. CASE \E b \in BOOLEAN : StatusInfo(b)
    BY <1>20, SeenType DEF StatusInfo, TypeOK
  <1>21. CASE \E b \in BOOLEAN : ShutdownDone(b)
    <2>1. /\ run' \in [Tasks -> {"none", "up", "dying"}]
          /\ {nds', strays'} \subseteq BOOLEAN
          /\ know' \in [Tasks -> {"notStarted", "started", "active", "failed"}]
      <3>1. CASE UNCHANGED <<nds, know, run>> /\ strays' = TRUE
        BY <3>1 DEF TypeOK
      <3>2. CASE \E tardy \in BOOLEAN :
                   /\ nds' = TRUE
                   /\ know' = Seen(run, tardy)
                   /\ run' = Set(run, Opp(know'), "none")
                   /\ UNCHANGED strays
        BY <3>2, SeenType DEF TypeOK, Set
      <3> QED
        BY <1>21, <3>1, <3>2 DEF ShutdownDone
    <2>2. file' \in [state : States, pf : States \ {"POWERFAIL"}, active : BOOLEAN,
                     cmd : Commands \cup {"AUTO_START", "POWERFAIL"}]
      <3>1. /\ file.cmd \in Stops
            /\ file' = [file EXCEPT !.state = file.cmd, !.cmd = file.cmd]
        BY <1>21 DEF ShutdownDone
      <3> QED BY <3>1 DEF TypeOK, States, Stops
    <2> QED
      BY <1>21, <2>1, <2>2 DEF ShutdownDone, TypeOK
  <1>22. CASE Resume
    BY <1>22, OpenType DEF Resume, Fresh, TypeOK
  <1>23. CASE Startup
    BY <1>23, OpenType, OpenedType DEF Startup, Fresh, TypeOK, States, Stops, Commands
  <1>24. CASE Boot
    <2>1. cmds' = <<>> /\ <<>> \in Seq(Commands)
      BY <1>24 DEF Boot
    <2>2. know' \in [Tasks -> {"notStarted", "started", "active", "failed"}]
      BY <1>24 DEF Boot, Fresh
    <2> QED
      BY <1>24, <2>1, <2>2, OpenedType DEF Boot, Fresh, TypeOK
  <1>25. CASE \E c \in Commands : Send(c)
    BY <1>25 DEF Send, TypeOK
  <1>26. CASE \E t \in Tasks : RespawnTask(t)
    BY <1>26, StartType DEF RespawnTask, TypeOK
  <1>27. CASE \E t \in Tasks : TaskDies(t) \/ TaskEnds(t)
    BY <1>27 DEF TaskDies, TaskEnds, TypeOK
  <1>28. CASE Die
    BY <1>28 DEF Die, TypeOK
  <1>29. CASE PowerFails
    BY <1>29 DEF PowerFails, TypeOK
  <1>30. CASE OsDown
    BY <1>30 DEF OsDown, TypeOK
  <1>31. CASE UNCHANGED vars
    BY <1>31 DEF vars, TypeOK
  <1> QED
    BY <1>1, <1>2, <1>3, <1>4, <1>5, <1>6, <1>7, <1>8, <1>9, <1>10, <1>11, <1>12,
       <1>13, <1>14, <1>15, <1>16, <1>17, <1>18, <1>19, <1>20, <1>21, <1>22, <1>23,
       <1>24, <1>25, <1>26, <1>27, <1>28, <1>29, <1>30, <1>31 DEF Next, Command

\* The state file, and what mrpg knows of the tasks, keep their types through
\* every death, restart and power failure.
THEOREM MrpgTypeCorrect == Spec => []TypeOK
  BY TypeInit, TypeStep, PTL DEF Spec

(***************************************************************************)
(* Stopped is quiet.                                                       *)
(***************************************************************************)
AllDown == \A t \in Tasks : run[t] = "none"

\* Besides the property: a start sets the state before it starts a task, and
\* auto start finds no task running, since the node was down.
IQuiet ==
  /\ TypeOK /\ StoppedIsQuiet
  /\ pc = "starting" => file.state = "TRANSITION"
  /\ power = "off" => pc = "dead"
  /\ power = "off" \/ pc \in {"autoStart"} \cup Stops => AllDown

LEMMA QuietInit == Init => IQuiet
  BY TypeInit DEF Init, IQuiet, StoppedIsQuiet, Stops

\* SIGTERM to the tasks that should not run starts none.
LEMMA TerminateDown ==
  ASSUME TypeOK, NEW S, Terminate(S), NEW t \in Tasks, run[t] = "none"
  PROVE  run'[t] = "none"
  <1>1. CASE UNCHANGED <<nds, know, run>>
    BY <1>1
  <1>2. CASE \E tardy \in BOOLEAN :
               /\ nds' = TRUE
               /\ know' = Seen(run, tardy)
               /\ run' = Set(run, Opp(know') \cap S, "dying")
    <2>1. PICK tardy \in BOOLEAN : /\ know' = Seen(run, tardy)
                                  /\ run' = Set(run, Opp(know') \cap S, "dying")
      BY <1>2
    <2>2. know'[t] # "active"
      BY <2>1 DEF Seen
    <2> QED
      BY <2>1, <2>2 DEF Set, Opp
  <1> QED BY <1>1, <1>2 DEF Terminate

\* When the stop is declared done the tasks nds reported are dead.
LEMMA DoneDown ==
  ASSUME TypeOK, NEW b \in BOOLEAN, ShutdownDone(b)
  PROVE  strays' \/ \A t \in Tasks \ Kept' : run'[t] = "none"
  <1>1. CASE strays'
    BY <1>1
  <1>2. CASE ~strays'
    <2>1. PICK tardy \in BOOLEAN : /\ know' = Seen(run, tardy)
                                  /\ run' = Set(run, Opp(know'), "none")
      BY <1>2 DEF ShutdownDone
    <2>2. Kept' = Kept
      <3>1. /\ file.state = "TRANSITION" /\ file.cmd \in Stops
            /\ file' = [file EXCEPT !.state = file.cmd, !.cmd = file.cmd]
        BY DEF ShutdownDone, SetState
      <3>2. file'.state = file.cmd /\ file'.cmd = file.cmd
        BY <3>1 DEF TypeOK
      <3> QED
        BY <3>1, <3>2 DEF Kept, InStandbyState, Stops
    <2>3. ASSUME NEW t \in Tasks \ Kept
          PROVE  run'[t] = "none"
      <3>1. CASE run[t] = "none"
        BY <2>1, <3>1 DEF Set
      <3>2. CASE run[t] # "none"
        BY <2>1, <3>2 DEF Set, Opp, Seen
      <3> QED BY <3>1, <3>2
    <2> QED
      BY <2>2, <2>3
  <1> QED BY <1>1, <1>2

LEMMA QuietStep == IQuiet /\ [Next]_vars => IQuiet'
  <1> SUFFICES ASSUME IQuiet, [Next]_vars PROVE IQuiet'
    OBVIOUS
  <1>0. TypeOK /\ TypeOK'
    BY TypeStep DEF IQuiet
  <1> USE <1>0 DEF os, mem, SetState, Goto, Spend, IQuiet, StoppedIsQuiet, AllDown, Kept,
                   InStandbyState, Stops
  <1>1. CASE Refuse
    BY <1>1 DEF Refuse, Read
  <1>2. CASE BeginStart
    BY <1>2 DEF BeginStart, Read, TypeOK
  <1>3. CASE StartOperation
    BY <1>3 DEF StartOperation
  <1>4. CASE StartFails
    BY <1>4 DEF StartFails, TypeOK
  <1>5. CASE Started
    BY <1>5 DEF Started, TypeOK
  <1>6. CASE BeginStop
    BY <1>6 DEF BeginStop, Read, TypeOK
  <1>7. CASE Stop
    <2>1. \A t \in Tasks : run[t] = "none" => run'[t] = "none"
      BY <1>7, TerminateDown DEF Stop
    <2> QED
      BY <1>7, <2>1 DEF Stop
  <1>8. CASE StandbyRestart
    BY <1>8 DEF StandbyRestart, Read
  <1>9. CASE RefuseRestart
    BY <1>9 DEF RefuseRestart, Read
  <1>10. CASE RestartFromStandby
    BY <1>10 DEF RestartFromStandby, TypeOK
  <1>11. CASE StandbyTimesOut
    BY <1>11 DEF StandbyTimesOut
  <1>12. CASE EndRestart
    BY <1>12 DEF EndRestart
  <1>13. CASE BeginActivation
    <2>1. CASE /\ Read("ACTIVE") /\ Goto("activate")
               /\ strays' = (strays \/ file.state \in Stops)
               /\ UNCHANGED <<os, file>>
      BY <2>1 DEF Read
    <2>2. CASE /\ Read("INACTIVE") /\ Terminate(ActiveOnly) /\ Goto("deactivate")
               /\ UNCHANGED <<os, file, strays>>
      <3>1. \A t \in Tasks : run[t] = "none" => run'[t] = "none"
        BY <2>2, TerminateDown
      <3> QED
        BY <2>2, <3>1 DEF Read
    <2> QED
      BY <1>13, <2>1, <2>2 DEF BeginActivation
  <1>14. CASE SetActive
    BY <1>14 DEF SetActive, TypeOK
  <1>15. CASE Powerfail
    <2>1. /\ file'.state = "POWERFAIL" /\ pc' \in {"exit", "powerfail"}
          /\ power # "off" /\ power' = power
      BY <1>15 DEF Powerfail, TypeOK
    <2> QED
      BY <2>1
  <1>16. CASE PowerfailStop
    <2>1. \A t \in Tasks : run[t] = "none" => run'[t] = "none"
      BY <1>16, TerminateDown DEF PowerfailStop
    <2> QED
      BY <1>16, <2>1 DEF PowerfailStop
  <1>17. CASE Exit
    BY <1>17 DEF Exit
  <1>18. CASE AutoStart
    BY <1>18 DEF AutoStart, TypeOK
  <1>19. CASE AutoStop
    <2>1. PICK S \in SUBSET (AllStates \cup (IF pc = "STANDBY" THEN AliveInStandby ELSE {})) :
            run' = Set(run, S, "up")
      BY <1>19 DEF AutoStop, Start
    <2>2. file'.state = pc /\ pc \in Stops /\ pc' = "loop" /\ power' = power
      BY <1>19 DEF AutoStop, TypeOK
    <2>3. \A t \in Tasks \ Kept' : t \notin S
      BY <2>1, <2>2
    <2>4. \A t \in Tasks \ Kept' : run'[t] = "none"
      BY <2>1, <2>2, <2>3 DEF Set
    <2> QED
      BY <2>2, <2>4
  <1>20. CASE \E b \in BOOLEAN : StatusInfo(b)
    BY <1>20 DEF StatusInfo
  <1>21. CASE \E b \in BOOLEAN : ShutdownDone(b)
    <2>1. StoppedIsQuiet'
      BY <1>21, DoneDown
    <2> QED
      BY <1>21, <2>1 DEF ShutdownDone
  <1>22. CASE Resume
    BY <1>22 DEF Resume
  <1>23. CASE Startup
    <2>1. \/ file' = Opened /\ Opened.state = "POWERFAIL" /\ pc' = "exit"
          \/ /\ file' = [Opened EXCEPT !.cmd = "STARTUP", !.state = "TRANSITION"]
             /\ pc' = "starting"
      BY <1>23 DEF Startup
    <2>2. \/ file'.state = "POWERFAIL" /\ pc' = "exit"
          \/ file'.state = "TRANSITION" /\ pc' = "starting"
      BY <2>1, OpenedType
    <2>3. power' # "off"
      BY <1>23 DEF Startup
    <2> QED
      BY <2>2, <2>3
  <1>24. CASE Boot
    BY <1>24 DEF Boot
  <1>25. CASE \E c \in Commands : Send(c)
    BY <1>25 DEF Send
  <1>26. CASE \E t \in Tasks : RespawnTask(t)
    BY <1>26 DEF RespawnTask
  <1>27. CASE \E t \in Tasks : TaskDies(t) \/ TaskEnds(t)
    <2>1. \A t \in Tasks : run[t] = "none" => run'[t] = "none"
      BY <1>27 DEF TaskDies, TaskEnds, TypeOK
    <2>2. UNCHANGED <<power, file, pc, strays>>
      BY <1>27 DEF TaskDies, TaskEnds
    <2> QED
      BY <2>1, <2>2
  <1>28. CASE Die
    BY <1>28 DEF Die
  <1>29. CASE PowerFails
    BY <1>29 DEF PowerFails
  <1>30. CASE OsDown
    BY <1>30 DEF OsDown
  <1>31. CASE UNCHANGED vars
    BY <1>31 DEF vars
  <1> QED
    BY <1>1, <1>2, <1>3, <1>4, <1>5, <1>6, <1>7, <1>8, <1>9, <1>10, <1>11, <1>12,
       <1>13, <1>14, <1>15, <1>16, <1>17, <1>18, <1>19, <1>20, <1>21, <1>22, <1>23,
       <1>24, <1>25, <1>26, <1>27, <1>28, <1>29, <1>30, <1>31 DEF Next, Command

\* While the state file says shutdown or standby, the tasks that should be down
\* are, although mrpg, tasks and the power may fail at every step of the stop
\* and afterwards.
THEOREM StoppedQuiet == Spec => []StoppedIsQuiet
  <1>1. IQuiet => StoppedIsQuiet
    BY DEF IQuiet
  <1> QED
    BY <1>1, QuietInit, QuietStep, PTL DEF Spec

(***************************************************************************)
(* Auto start brings the state back.                                       *)
(***************************************************************************)
Expected == IF was \in Stops THEN was ELSE "OPERATING"

\* The power failure was handled, and auto start has not begun: the state
\* before is in the file.  With the power back nobody but auto start or
\* "mrpg startup" starts mrpg, since nds ended with it.
PowerfailSaved ==
  /\ file.state = "POWERFAIL" /\ file.pf = was
  /\ pc \in {"powerfail", "exit", "dead", "loop", "autoStart"}
  /\ power = "off" => pc = "dead"
  /\ power = "off" \/ pc = "autoStart" => ~crashed /\ ~nds
  /\ power = "on" => ~nds /\ pc \in {"autoStart", "dead", "exit"}

\* Auto start is on its way to the state, and no command is read.
BringingBack ==
  /\ file.state = "TRANSITION"
  /\ \/ pc \in Stops /\ pc = was
     \/ pc \in {"starting", "ready"} /\ was \notin Stops

\* It is there, and no other command was begun.
BroughtBack ==
  /\ file.state = Expected
  /\ pc \in {"loop", "standby", "endRestart", "activate", "deactivate"}

IKept ==
  /\ TypeOK
  /\ power = "off" => pc = "dead"
  /\ sigpwr => power # "on"
  /\ was # "none" => PowerfailSaved \/ BringingBack \/ BroughtBack

LEMMA KeptInit == Init => IKept
  BY TypeInit DEF Init, IKept

LEMMA KeptStep == IKept /\ [Next]_vars => IKept'
  <1> SUFFICES ASSUME IKept, [Next]_vars PROVE IKept'
    OBVIOUS
  <1>0. TypeOK /\ TypeOK'
    BY TypeStep DEF IKept
  <1> USE <1>0 DEF os, mem, SetState, Goto, Spend, IKept, PowerfailSaved, BringingBack,
                   BroughtBack, Expected, Stops
  <1>1. CASE Refuse
    BY <1>1 DEF Refuse, Read
  <1>2. CASE BeginStart
    BY <1>2 DEF BeginStart, Read, TypeOK
  <1>3. CASE StartOperation
    BY <1>3 DEF StartOperation
  <1>4. CASE StartFails
    BY <1>4 DEF StartFails, TypeOK
  <1>5. CASE Started
    BY <1>5 DEF Started, TypeOK
  <1>6. CASE BeginStop
    BY <1>6 DEF BeginStop, Read, TypeOK
  <1>7. CASE Stop
    BY <1>7 DEF Stop
  <1>8. CASE StandbyRestart
    BY <1>8 DEF StandbyRestart, Read
  <1>9. CASE RefuseRestart
    BY <1>9 DEF RefuseRestart, Read
  <1>10. CASE RestartFromStandby
    BY <1>10 DEF RestartFromStandby, TypeOK
  <1>11. CASE StandbyTimesOut
    BY <1>11 DEF StandbyTimesOut
  <1>12. CASE EndRestart
    BY <1>12 DEF EndRestart
  <1>13. CASE BeginActivation
    BY <1>13 DEF BeginActivation, Read, Refused
  <1>14. CASE SetActive
    BY <1>14 DEF SetActive, TypeOK
  <1>15. CASE Powerfail
    <2>1. /\ power = "failing" /\ power' = power /\ pc = "loop"
          /\ UNCHANGED <<sigpwr, crashed, nds>>
      BY <1>15 DEF Powerfail, TypeOK
    <2>2. CASE file.state = "POWERFAIL"
      BY <1>15, <2>1, <2>2 DEF Powerfail
    <2>3. CASE file.state # "POWERFAIL"
      <3>1. /\ file' = [file EXCEPT !.pf = file.state, !.state = "POWERFAIL",
                                   !.cmd = "POWERFAIL"]
            /\ pc' = "powerfail" /\ was' = file.state
        BY <1>15, <2>3 DEF Powerfail
      <3>2. file'.state = "POWERFAIL" /\ file'.pf = was'
        BY <3>1 DEF TypeOK
      <3> QED
        BY <2>1, <3>1, <3>2
    <2> QED
      BY <2>2, <2>3
  <1>16. CASE PowerfailStop
    BY <1>16 DEF PowerfailStop
  <1>17. CASE Exit
    BY <1>17 DEF Exit
  <1>18. CASE AutoStart
    BY <1>18 DEF AutoStart, PreState, TypeOK
  <1>19. CASE AutoStop
    BY <1>19 DEF AutoStop, TypeOK
  <1>20. CASE \E b \in BOOLEAN : StatusInfo(b)
    BY <1>20 DEF StatusInfo
  <1>21. CASE \E b \in BOOLEAN : ShutdownDone(b)
    BY <1>21 DEF ShutdownDone, TypeOK
  <1>22. CASE Resume
    BY <1>22 DEF Resume, Fresh
  <1>23. CASE Startup
    BY <1>23 DEF Startup, Opened, Fresh, TypeOK
  <1>24. CASE Boot
    BY <1>24 DEF Boot, Opened, Fresh, TypeOK
  <1>25. CASE \E c \in Commands : Send(c)
    BY <1>25 DEF Send
  <1>26. CASE \E t \in Tasks : RespawnTask(t)
    BY <1>26 DEF RespawnTask
  <1>27. CASE \E t \in Tasks : TaskDies(t) \/ TaskEnds(t)
    BY <1>27 DEF TaskDies, TaskEnds
  <1>28. CASE Die
    BY <1>28 DEF Die
  <1>29. CASE PowerFails
    BY <1>29 DEF PowerFails
  <1>30. CASE OsDown
    BY <1>30 DEF OsDown
  <1>31. CASE UNCHANGED vars
    BY <1>31 DEF vars
  <1> QED
    BY <1>1, <1>2, <1>3, <1>4, <1>5, <1>6, <1>7, <1>8, <1>9, <1>10, <1>11, <1>12,
       <1>13, <1>14, <1>15, <1>16, <1>17, <1>18, <1>19, <1>20, <1>21, <1>22, <1>23,
       <1>24, <1>25, <1>26, <1>27, <1>28, <1>29, <1>30, <1>31 DEF Next, Command

\* However often mrpg dies and the power fails, the state the RPG was in when
\* the power failure was handled is the one auto start brings back.
THEOREM StateKept == Spec => []StateIsKept
  <1>1. IKept => StateIsKept
    BY DEF IKept, StateIsKept, PowerfailSaved, BringingBack, BroughtBack, Expected, Stops
  <1> QED
    BY <1>1, KeptInit, KeptStep, PTL DEF Spec

--------------------------------------------------------------------------------
(* The redundant channel manager (MngRed) *)

LEMMA TheOther ==
  ASSUME NEW c \in Channels
  PROVE  /\ Other(c) \in Channels /\ Other(c) # c /\ Other(Other(c)) = c
         /\ Channels = {c, Other(c)}
  <1>1. PICK a, b \in Channels : a # b /\ Channels = {a, b}
    BY TwoChannels
  <1>2. CASE c = a
    <2>1. Other(c) = b
      BY <1>1, <1>2 DEF Other
    <2> QED BY <1>1, <1>2, <2>1 DEF Other
  <1>3. CASE c = b
    <2>1. Other(c) = a
      BY <1>1, <1>3 DEF Other
    <2> QED BY <1>1, <1>3, <2>1 DEF Other
  <1> QED BY <1>1, <1>2, <1>3

(***************************************************************************)
(* Types.                                                                  *)
(***************************************************************************)
LEMMA SendCommandType ==
  ASSUME RedTypeOK, NEW c \in Channels, NEW m \in Modes, SendCommand(c, m)
  PROVE  orders' \in [Channels -> Seq(Modes)]
  <1>1. Append(orders[c], m) \in Seq(Modes)
    BY DEF RedTypeOK
  <1> QED BY <1>1 DEF SendCommand, RedTypeOK

LEMMA TransmitType ==
  ASSUME RedTypeOK, NEW c \in Channels, NEW m \in Modes, Transmit(c, m)
  PROVE  mail' \in [Channels -> Modes \cup {"none"}]
  BY TheOther DEF Transmit, RedTypeOK

LEMMA RemindType ==
  ASSUME RedTypeOK, NEW c \in Channels, Remind(c)
  PROVE  /\ orders' \in [Channels -> Seq(Modes)]
         /\ delayCnt' \in [Channels -> [Modes -> Nat]]
  <1>1. mode[c] \in Modes /\ orders \in [Channels -> Seq(Modes)]
    BY DEF RedTypeOK
  <1>2. orders' \in [Channels -> Seq(Modes)]
    BY <1>1, SendCommandType DEF Remind
  <1>3. PICK n \in Nat : delayCnt' = [delayCnt EXCEPT ![c][mode[c]] = n]
    <2>1. delayCnt[c][mode[c]] + 1 \in Nat
      BY <1>1 DEF RedTypeOK
    <2> QED BY <2>1 DEF Remind
  <1>4. delayCnt' \in [Channels -> [Modes -> Nat]]
    BY <1>1, <1>3 DEF RedTypeOK
  <1> QED BY <1>2, <1>4

LEMMA AcquireType ==
  ASSUME RedTypeOK, NEW c \in Channels, Acquire(c)
  PROVE  relay' \in Channels
  BY DEF Acquire, RedTypeOK

LEMMA NoXsitionType ==
  ASSUME RedTypeOK, NEW c \in Channels, NoXsition(c)
  PROVE  /\ xsition' \in [Channels -> {"none", "toActive", "toInactive"}]
         /\ late' \in [Channels -> BOOLEAN]
  BY DEF NoXsition, RedTypeOK

LEMMA XsitionType ==
  ASSUME RedTypeOK, NEW c \in Channels, NEW type \in {"toActive", "toInactive"},
         xsition' = [xsition EXCEPT ![c] = type],
         late' = [late EXCEPT ![c] = Late(c, type)]
  PROVE  /\ xsition' \in [Channels -> {"none", "toActive", "toInactive"}]
         /\ late' \in [Channels -> BOOLEAN]
  <1>1. Late(c, type) \in BOOLEAN
    BY DEF Late, RedTypeOK
  <1>2. late' \in [Channels -> BOOLEAN]
    BY <1>1 DEF RedTypeOK
  <1> QED BY <1>2 DEF RedTypeOK

LEMMA RedTypeInit == RedInit => RedTypeOK
  <1> SUFFICES ASSUME RedInit PROVE RedTypeOK
    OBVIOUS
  <1>1. rda \in [Channels -> RdaStates]
    BY DEF RedInit, RdaStates
  <1>2. orders \in [Channels -> Seq(Modes)]
    <2>1. <<>> \in Seq(Modes)
      OBVIOUS
    <2> QED BY <2>1 DEF RedInit
  <1>3. delayCnt \in [Channels -> [Modes -> Nat]]
    BY DEF RedInit
  <1>4. changes \in 0 .. MaxEvents
    BY MaxEventsIsNat DEF RedInit
  <1> QED BY <1>1, <1>2, <1>3, <1>4 DEF RedInit, RedTypeOK, Modes

LEMMA RedTypeStep == RedTypeOK /\ [RedNext]_redVars => RedTypeOK'
  <1> SUFFICES ASSUME RedTypeOK, [RedNext]_redVars PROVE RedTypeOK'
    OBVIOUS
  <1> USE DEF env, own, out
  <1>1. ASSUME NEW c \in Channels, XsitionToActive(c) PROVE RedTypeOK'
    <2>1. relay' \in Channels /\ stage' \in [Channels -> {"pass", "acquired", "dead"}]
      BY <1>1, AcquireType DEF XsitionToActive, RedTypeOK
    <2>2. hasty' \in BOOLEAN
      BY <1>1 DEF XsitionToActive, RedTypeOK
    <2>3. /\ xsition' \in [Channels -> {"none", "toActive", "toInactive"}]
          /\ late' \in [Channels -> BOOLEAN]
      BY <1>1, XsitionType DEF XsitionToActive
    <2> QED BY <1>1, <2>1, <2>2, <2>3 DEF XsitionToActive, RedTypeOK
  <1>2. ASSUME NEW c \in Channels, Acquired(c) PROVE RedTypeOK'
    <2>1. orders' \in [Channels -> Seq(Modes)]
      BY <1>2, SendCommandType DEF Acquired, RedTypeOK, Modes
    <2>2. mail' \in [Channels -> Modes \cup {"none"}]
      BY <1>2, TransmitType DEF Acquired, RedTypeOK, Modes
    <2>3. mode' \in [Channels -> Modes]
      BY <1>2 DEF Acquired, RedTypeOK, Modes
    <2>4. hasty' \in BOOLEAN
      BY <1>2 DEF Acquired, RedTypeOK
    <2>5. stage' \in [Channels -> {"pass", "acquired", "dead"}]
      BY <1>2 DEF Acquired, RedTypeOK
    <2> QED BY <1>2, <2>1, <2>2, <2>3, <2>4, <2>5 DEF Acquired, RedTypeOK
  <1>3. ASSUME NEW c \in Channels, ProcessActiveState(c) PROVE RedTypeOK'
    <2>1. /\ orders' \in [Channels -> Seq(Modes)]
          /\ delayCnt' \in [Channels -> [Modes -> Nat]]
      BY <1>3, RemindType DEF ProcessActiveState
    <2>2. /\ xsition' \in [Channels -> {"none", "toActive", "toInactive"}]
          /\ late' \in [Channels -> BOOLEAN]
      BY <1>3, NoXsitionType DEF ProcessActiveState
    <2>3. relay' \in Channels
      BY <1>3, AcquireType DEF ProcessActiveState, RedTypeOK
    <2>4. lost' \in [Channels -> {"no", "counting", "due"}]
      BY <1>3 DEF ProcessActiveState, RedTypeOK
    <2> QED BY <1>3, <2>1, <2>2, <2>3, <2>4 DEF ProcessActiveState, RedTypeOK
  <1>4. ASSUME NEW c \in Channels, XsitionToInactive(c) PROVE RedTypeOK'
    <2>1. orders' \in [Channels -> Seq(Modes)]
      BY <1>4, SendCommandType DEF XsitionToInactive, RedTypeOK, Modes
    <2>2. mail' \in [Channels -> Modes \cup {"none"}]
      BY <1>4, TransmitType DEF XsitionToInactive, RedTypeOK, Modes
    <2>3. mode' \in [Channels -> Modes]
      <3>1. mode' = mode \/ mode' = [mode EXCEPT ![c] = "INACTIVE"]
        BY <1>4, Zenon DEF XsitionToInactive
      <3> QED BY <3>1 DEF RedTypeOK, Modes
    <2>4. hasty' \in BOOLEAN
      <3>1. \/ hasty' = hasty
            \/ hasty' = (hasty \/ lines[c] \/ active[c] \/ orders'[c] # <<>>)
        BY <1>4, Zenon DEF XsitionToInactive
      <3> QED BY <3>1 DEF RedTypeOK
    <2>5. /\ xsition' \in [Channels -> {"none", "toActive", "toInactive"}]
          /\ late' \in [Channels -> BOOLEAN]
      BY <1>4, XsitionType DEF XsitionToInactive
    <2> QED BY <1>4, <2>1, <2>2, <2>3, <2>4, <2>5 DEF XsitionToInactive, RedTypeOK
  <1>5. ASSUME NEW c \in Channels, ProcessInactiveState(c) PROVE RedTypeOK'
    <2>1. /\ orders' \in [Channels -> Seq(Modes)]
          /\ delayCnt' \in [Channels -> [Modes -> Nat]]
      BY <1>5, RemindType DEF ProcessInactiveState
    <2>2. /\ xsition' \in [Channels -> {"none", "toActive", "toInactive"}]
          /\ late' \in [Channels -> BOOLEAN]
      BY <1>5, NoXsitionType DEF ProcessInactiveState
    <2> QED BY <1>5, <2>1, <2>2 DEF ProcessInactiveState, RedTypeOK
  <1>6. ASSUME NEW c \in Channels, IdlePass(c) PROVE RedTypeOK'
    BY <1>6 DEF IdlePass, RedTypeOK
  <1>7. ASSUME NEW c \in Channels, NEW due \in BOOLEAN, CheckChannelLink(c, due)
        PROVE  RedTypeOK'
    <2>1. mail' \in [Channels -> Modes \cup {"none"}]
      BY <1>7, TransmitType DEF CheckChannelLink, RedTypeOK
    <2>2. link' \in [Channels -> BOOLEAN]
      BY <1>7 DEF CheckChannelLink, RedTypeOK
    <2> QED BY <1>7, <2>1, <2>2 DEF CheckChannelLink, RedTypeOK
  <1>8. ASSUME NEW c \in Channels, ProcessChannelMsg(c) PROVE RedTypeOK'
    BY <1>8 DEF ProcessChannelMsg, RedTypeOK
  <1>9. ASSUME NEW c \in Channels, TimePasses(c) PROVE RedTypeOK'
    BY <1>9 DEF TimePasses, RedTypeOK
  <1>10. ASSUME NEW c \in Channels, Crash(c) PROVE RedTypeOK'
    <2>1. /\ xsition' \in [Channels -> {"none", "toActive", "toInactive"}]
          /\ late' \in [Channels -> BOOLEAN]
      BY <1>10, NoXsitionType DEF Crash
    <2>2. delayCnt' \in [Channels -> [Modes -> Nat]]
      BY <1>10 DEF Crash, RedTypeOK
    <2>3. hasty' \in BOOLEAN
      BY <1>10 DEF Crash, RedTypeOK
    <2>4. mode' \in [Channels -> Modes] /\ lost' \in [Channels -> {"no", "counting", "due"}]
      BY <1>10 DEF Crash, RedTypeOK, Modes
    <2>5. changes' \in 0 .. MaxEvents
      BY <1>10, MaxEventsIsNat DEF Crash, RedTypeOK
    <2>6. /\ link' \in [Channels -> BOOLEAN]
          /\ stage' \in [Channels -> {"pass", "acquired", "dead"}]
      BY <1>10 DEF Crash, RedTypeOK
    <2> QED BY <1>10, <2>1, <2>2, <2>3, <2>4, <2>5, <2>6 DEF Crash, RedTypeOK
  <1>11. ASSUME NEW c \in Channels, Initialize(c) PROVE RedTypeOK'
    <2>1. orders' \in [Channels -> Seq(Modes)]
      BY <1>11, SendCommandType DEF Initialize, Modes
    <2>2. red' \in [Channels -> Modes]
      BY <1>11 DEF Initialize, RedTypeOK
    <2>3. mail' \in [Channels -> Modes \cup {"none"}]
      BY <1>11 DEF Initialize, RedTypeOK, Modes
    <2> QED BY <1>11, <2>1, <2>2, <2>3 DEF Initialize, RedTypeOK
  <1>12. ASSUME NEW c \in Channels, ProcessActivation(c) PROVE RedTypeOK'
    <2>1. Tail(orders[c]) \in Seq(Modes)
      BY <1>12 DEF ProcessActivation, RedTypeOK
    <2>2. orders' \in [Channels -> Seq(Modes)]
      BY <1>12, <2>1 DEF ProcessActivation, RedTypeOK
    <2>3. active' \in [Channels -> BOOLEAN]
      BY <1>12 DEF ProcessActivation, RedTypeOK
    <2> QED BY <1>12, <2>2, <2>3 DEF ProcessActivation, RedTypeOK
  <1>13. ASSUME NEW c \in Channels, RpgManagerDies(c) PROVE RedTypeOK'
    <2>1. PICK n \in 1 .. Len(orders[c]) :
            orders' = [orders EXCEPT ![c] = SubSeq(@, n + 1, Len(@))]
      BY <1>13 DEF RpgManagerDies
    <2>2. SubSeq(orders[c], n + 1, Len(orders[c])) \in Seq(Modes)
      BY <2>1 DEF RedTypeOK
    <2>3. orders' \in [Channels -> Seq(Modes)]
      BY <2>1, <2>2 DEF RedTypeOK
    <2>4. changes' \in 0 .. MaxEvents
      BY <1>13, MaxEventsIsNat DEF RpgManagerDies, RedTypeOK
    <2> QED BY <1>13, <2>3, <2>4 DEF RpgManagerDies, RedTypeOK
  <1>14. ASSUME NEW c \in Channels, LinesFollow(c) PROVE RedTypeOK'
    BY <1>14 DEF LinesFollow, RedTypeOK
  <1>15. ASSUME NEW c \in Channels, RdaChanges(c) PROVE RedTypeOK'
    <2>1. rda' \in [Channels -> RdaStates]
      BY <1>15 DEF RdaChanges, RedTypeOK, RdaStates
    <2>2. changes' \in 0 .. MaxEvents
      BY <1>15, MaxEventsIsNat DEF RdaChanges, RedTypeOK
    <2> QED BY <1>15, <2>1, <2>2 DEF RdaChanges, RedTypeOK
  <1>16. ASSUME NEW c \in Channels, DioChanges(c) PROVE RedTypeOK'
    <2>1. dio' \in [Channels -> BOOLEAN]
      BY <1>16 DEF DioChanges, RedTypeOK
    <2>2. changes' \in 0 .. MaxEvents
      BY <1>16, MaxEventsIsNat DEF DioChanges, RedTypeOK
    <2> QED BY <1>16, <2>1, <2>2 DEF DioChanges, RedTypeOK
  <1>17. CASE NetChanges
    <2>1. net' \in BOOLEAN
      BY <1>17 DEF NetChanges
    <2>2. changes' \in 0 .. MaxEvents
      BY <1>17, MaxEventsIsNat DEF NetChanges, RedTypeOK
    <2> QED BY <1>17, <2>1, <2>2 DEF NetChanges, RedTypeOK
  <1>18. CASE UNCHANGED redVars
    BY <1>18 DEF redVars, RedTypeOK
  <1> QED
    BY <1>1, <1>2, <1>3, <1>4, <1>5, <1>6, <1>7, <1>8, <1>9, <1>10, <1>11, <1>12,
       <1>13, <1>14, <1>15, <1>16, <1>17, <1>18 DEF RedNext, Pass

\* The channel manager and all it works with always keep their types.
THEOREM MngRedTypeCorrect == RedSpec => []RedTypeOK
  BY RedTypeInit, RedTypeStep, PTL DEF RedSpec

(***************************************************************************)
(* At most one channel serves.                                             *)
(***************************************************************************)
\* What keeps the channels apart while every switchover is orderly: a channel
\* has heard, or is going to hear before it hears anything else, that the
\* other one is active; one that holds the relay acquired it while the other
\* was inactive; an inactive one has stopped its RPG for good.
Apart ==
  /\ \A c \in Channels : stage[c] # "pass" => mode[c] = "INACTIVE"
  /\ ~hasty =>
       \A c \in Channels :
         /\ mode[Other(c)] = "ACTIVE" =>
              \/ mail[c] = "ACTIVE"
              \/ mail[c] = "none" /\ red[c] = "ACTIVE"
         /\ stage[c] = "acquired" => /\ mode[Other(c)] = "INACTIVE"
                                  /\ stage[Other(c)] # "acquired"
         /\ mode[c] = "ACTIVE" => relay = c /\ mode[Other(c)] = "INACTIVE"
         /\ mode[c] = "INACTIVE" =>
              /\ ~lines[c] /\ ~active[c]
              /\ \A i \in 1 .. Len(orders[c]) : orders[c][i] = "INACTIVE"

LEMMA ApartInit == RedInit => Apart
  <1> SUFFICES ASSUME RedInit PROVE Apart
    OBVIOUS
  <1> QED BY TheOther DEF RedInit, Apart

LEMMA ApartStep == RedTypeOK /\ Apart /\ [RedNext]_redVars => Apart'
  <1> SUFFICES ASSUME RedTypeOK, Apart, [RedNext]_redVars PROVE Apart'
    OBVIOUS
  <1> USE DEF env, own, out
  <1>1. ASSUME NEW c \in Channels, XsitionToActive(c) PROVE Apart'
    <2>1. /\ mode' = mode /\ red' = red /\ mail' = mail /\ orders' = orders
          /\ active' = active /\ lines' = lines
          /\ mode[c] = "INACTIVE"
      BY <1>1 DEF XsitionToActive
    <2>2. CASE stage' = stage /\ relay' = relay /\ hasty' = hasty
      BY <2>1, <2>2 DEF Apart
    <2>3. CASE /\ stage' = [stage EXCEPT ![c] = "acquired"]
               /\ Acquire(c)
               /\ hasty' = (hasty \/ red[c] # "INACTIVE" \/ mail[c] = "ACTIVE"
                                  \/ stage[Other(c)] = "acquired")
      <3>1. ~hasty' => /\ ~hasty /\ stage[Other(c)] # "acquired"
                       /\ mode[Other(c)] = "INACTIVE"
        <4>1. ~hasty' => /\ ~hasty /\ stage[Other(c)] # "acquired"
                         /\ red[c] = "INACTIVE" /\ mail[c] # "ACTIVE"
          BY <2>3, Zenon
        <4> QED BY <4>1, TheOther DEF Apart, RedTypeOK, Modes
      <3>2. stage'[c] = "acquired" /\ stage'[Other(c)] = stage[Other(c)]
        BY <2>3, TheOther DEF RedTypeOK
      <3> QED
        BY <2>1, <3>1, <3>2, TheOther DEF Apart
    <2> QED BY <1>1, <2>2, <2>3, Zenon DEF XsitionToActive
  <1>2. ASSUME NEW c \in Channels, Acquired(c) PROVE Apart'
    <2>1. /\ stage' = [stage EXCEPT ![c] = "pass"] /\ red' = red /\ relay' = relay
          /\ lines' = lines /\ active' = active /\ stage[c] = "acquired"
      BY <1>2 DEF Acquired
    <2>2. mode[c] = "INACTIVE"
      BY <2>1 DEF Apart
    <2>3. /\ stage'[c] = "pass" /\ \A d \in Channels \ {c} : stage'[d] = stage[d]
          /\ \A d \in Channels : Other(d) \in Channels
      BY <2>1, TheOther DEF RedTypeOK
    <2>4. CASE RelayRead(c) # "ASSIGNED"
      <3>1. mode' = mode /\ orders' = orders /\ mail' = mail /\ hasty' = hasty
        BY <1>2, <2>4 DEF Acquired
      <3>2. \A d \in Channels : stage'[d] # "pass" => stage[d] = stage'[d]
        BY <2>3
      <3> QED BY <2>1, <2>3, <3>1, <3>2 DEF Apart
    <2>5. CASE RelayRead(c) = "ASSIGNED"
      <3>1. PICK o \in Channels : o = Other(c) /\ o # c /\ Other(o) = c /\ Channels = {c, o}
        BY TheOther
      <3>2. relay = c
        BY <2>5 DEF RelayRead
      <3>3. /\ mode' = [mode EXCEPT ![c] = "ACTIVE"] /\ hasty' = (hasty \/ ~net)
            /\ orders' = [orders EXCEPT ![c] = Append(@, "ACTIVE")]
            /\ mail' = IF net THEN [mail EXCEPT ![Other(c)] = "ACTIVE"] ELSE mail
        BY <1>2, <2>5, Zenon DEF Acquired, SendCommand, Transmit
      <3>4. ~hasty' => ~hasty /\ net
        BY <3>3, Zenon
      <3>5. mode'[c] = "ACTIVE" /\ mode'[o] = mode[o] /\ orders'[o] = orders[o]
        BY <3>1, <3>3 DEF RedTypeOK
      <3>6. ~hasty' => mail'[o] = "ACTIVE" /\ mail'[c] = mail[c]
        BY <3>1, <3>3, <3>4 DEF RedTypeOK
      <3>7. ~hasty => mode[o] = "INACTIVE" /\ stage[o] # "acquired" /\ ~lines[o] /\ ~active[o]
                      /\ \A i \in 1 .. Len(orders[o]) : orders[o][i] = "INACTIVE"
        BY <2>1, <3>1 DEF Apart
      <3>8. \A d \in Channels : stage'[d] # "pass" => mode'[d] = "INACTIVE"
        BY <2>3, <3>1, <3>5 DEF Apart
      <3> QED BY <2>1, <2>3, <3>1, <3>2, <3>4, <3>5, <3>6, <3>7, <3>8 DEF Apart
    <2> QED BY <2>4, <2>5
  <1>3. ASSUME NEW c \in Channels, ProcessActiveState(c) PROVE Apart'
    <2>1. /\ stage' = stage /\ mode' = mode /\ red' = red /\ mail' = mail /\ lines' = lines
          /\ active' = active /\ hasty' = hasty /\ mode[c] = "ACTIVE"
      BY <1>3 DEF ProcessActiveState
    <2>2. relay' = relay \/ relay' = c
      BY <1>3, Zenon DEF ProcessActiveState, Acquire
    <2>3. PICK o \in Channels : o = Other(c) /\ o # c /\ Other(o) = c /\ Channels = {c, o}
      BY TheOther
    <2>4. orders'[o] = orders[o]
      <3>1. orders' = orders \/ orders' = [orders EXCEPT ![c] = Append(@, mode[c])]
        BY <1>3, Zenon DEF ProcessActiveState, Remind, SendCommand
      <3> QED BY <2>3, <3>1 DEF RedTypeOK
    <2> QED BY <2>1, <2>2, <2>3, <2>4 DEF Apart
  <1>4. ASSUME NEW c \in Channels, XsitionToInactive(c) PROVE Apart'
    <2>1. /\ stage' = stage /\ red' = red /\ relay' = relay /\ lines' = lines
          /\ active' = active /\ mode[c] = "ACTIVE"
      BY <1>4 DEF XsitionToInactive
    <2>2. \A d \in Channels : d # c => orders'[d] = orders[d]
      BY <1>4 DEF XsitionToInactive, SendCommand, RedTypeOK
    <2>3. CASE mode' = mode /\ mail' = mail /\ hasty' = hasty
      BY <2>1, <2>2, <2>3, TheOther DEF Apart, RedTypeOK, Modes
    <2>4. CASE /\ mode' = [mode EXCEPT ![c] = "INACTIVE"]
               /\ Transmit(c, "INACTIVE")
               /\ hasty' = (hasty \/ lines[c] \/ active[c] \/ orders'[c] # <<>>)
      <3>1. ~hasty' => ~hasty /\ ~lines[c] /\ ~active[c] /\ Len(orders'[c]) = 0
        BY <2>4
      <3>2. \A d \in Channels : d # Other(c) => mail'[d] = mail[d]
        BY <2>4, TheOther DEF Transmit, RedTypeOK
      <3> QED
        BY <2>1, <2>2, <2>4, <3>1, <3>2, TheOther DEF Apart, RedTypeOK, Modes
    <2> QED BY <1>4, <2>3, <2>4, Zenon DEF XsitionToInactive
  <1>5. ASSUME NEW c \in Channels, ProcessInactiveState(c) PROVE Apart'
    BY <1>5, TheOther DEF ProcessInactiveState, Remind, SendCommand, Apart, RedTypeOK, Modes
  <1>6. ASSUME NEW c \in Channels, IdlePass(c) PROVE Apart'
    BY <1>6 DEF IdlePass, Apart
  <1>7. ASSUME NEW c \in Channels, NEW due \in BOOLEAN, CheckChannelLink(c, due)
        PROVE  Apart'
    BY <1>7, TheOther DEF CheckChannelLink, Transmit, Apart, RedTypeOK, Modes
  <1>8. ASSUME NEW c \in Channels, ProcessChannelMsg(c) PROVE Apart'
    BY <1>8, TheOther DEF ProcessChannelMsg, Apart, RedTypeOK, Modes
  <1>9. ASSUME NEW c \in Channels, TimePasses(c) PROVE Apart'
    BY <1>9 DEF TimePasses, Apart
  <1>10. ASSUME NEW c \in Channels, Crash(c) PROVE Apart'
    <2>1. /\ stage' = [stage EXCEPT ![c] = "dead"] /\ mode' = [mode EXCEPT ![c] = "INACTIVE"]
          /\ red' = red /\ mail' = mail /\ orders' = orders /\ relay' = relay
          /\ active' = active /\ lines' = lines
      BY <1>10 DEF Crash
    <2>2. ~hasty' => ~hasty /\ mode' = mode
      <3>1. ~hasty' => ~hasty /\ mode[c] # "ACTIVE"
        BY <1>10, Zenon DEF Crash
      <3> QED BY <2>1, <3>1 DEF RedTypeOK, Modes
    <2>3. \A d \in Channels : stage'[d] = IF d = c THEN "dead" ELSE stage[d]
      BY <2>1 DEF RedTypeOK
    <2>4. \A d \in Channels : stage'[d] # "pass" => mode'[d] = "INACTIVE"
      BY <2>1, <2>3 DEF Apart, RedTypeOK
    <2> QED BY <2>1, <2>2, <2>3, <2>4, TheOther DEF Apart
  <1>11. ASSUME NEW c \in Channels, Initialize(c) PROVE Apart'
    BY <1>11, TheOther DEF Initialize, SendCommand, Apart, RedTypeOK, Modes
  <1>12. ASSUME NEW c \in Channels, ProcessActivation(c) PROVE Apart'
    BY <1>12, TheOther DEF ProcessActivation, Apart, RedTypeOK, Modes
  <1>13. ASSUME NEW c \in Channels, RpgManagerDies(c) PROVE Apart'
    BY <1>13, TheOther DEF RpgManagerDies, Apart, RedTypeOK, Modes
  <1>14. ASSUME NEW c \in Channels, LinesFollow(c) PROVE Apart'
    <2>1. \A d \in Channels : lines'[d] = IF d = c THEN active[c] ELSE lines[d]
      BY <1>14 DEF LinesFollow, RedTypeOK
    <2> QED BY <1>14, <2>1 DEF LinesFollow, Apart
  <1>15. ASSUME NEW c \in Channels, RdaChanges(c) PROVE Apart'
    BY <1>15 DEF RdaChanges, Apart
  <1>16. ASSUME NEW c \in Channels, DioChanges(c) PROVE Apart'
    BY <1>16 DEF DioChanges, Apart
  <1>17. CASE NetChanges
    BY <1>17 DEF NetChanges, Apart
  <1>18. CASE UNCHANGED redVars
    BY <1>18 DEF redVars, Apart
  <1> QED
    BY <1>1, <1>2, <1>3, <1>4, <1>5, <1>6, <1>7, <1>8, <1>9, <1>10, <1>11, <1>12,
       <1>13, <1>14, <1>15, <1>16, <1>17, <1>18 DEF RedNext, Pass

\* Unless a switchover was hasty, two channels never serve the users together.
THEOREM OneChannelServes == RedSpec => []OneInService
  <1>1. RedTypeOK /\ Apart => OneInService
    BY TheOther DEF RedTypeOK, Apart, OneInService, Modes
  <1> QED
    BY <1>1, RedTypeInit, RedTypeStep, ApartInit, ApartStep, PTL DEF RedSpec
================================================================================
