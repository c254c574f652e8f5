-------------------------- MODULE ProgramsLiveProofs --------------------------
(***************************************************************************)
(* The safety of the programs of MCProgramsLive: the process runner, for   *)
(* any set of process identifiers, the migration script, calls over the    *)
(* network, for all sizes and limits, and the consoles' lists of alerts.   *)
(***************************************************************************)
EXTENDS MCProgramsLive, SequenceTheorems, FiniteSetTheorems, TLAPS

-----------------------------------------------------------------------------
(* The process runner *)

\* pid_ is a process of the runner's own, alive or waiting to be reaped, and
\* no other identifier is.
OwnProcess ==
  /\ pid # 0 => /\ proc[pid].phase \in {"forked", "grouped", "exec", "zombie"}
                /\ proc[pid].phase = "zombie" => lastEnd = proc[pid].code
  /\ \A p \in Pids : p # pid => proc[p].phase \in {"free", "other"}

\* Who is left of a command's group is still the runner's to kill.
OwnKids ==
  \A p \in Pids :
    kids[p] => p = pid /\ proc[p].phase \in {"exec", "zombie"} /\ at # "wait"

\* Where the runner is says what it holds.
RunnerHolds ==
  /\ at \in {"setpgid", "deadline", "killall", "kill", "wait"} => pid # 0
  /\ at = "check" /\ for # "busy" => pid # 0
  /\ at \in {"kill", "wait"} => proc[pid].phase = "zombie"
  /\ at = "fork" => pid = 0

\* A success is reported of a command that is reaped, and stays true.
SuccessHeld == outcome = "Success" => at = "idle" /\ pid = 0 /\ lastEnd = "zero"

ProcessInv ==
  /\ Process!TypeOK /\ Process!OnlyOwnKilled
  /\ OwnProcess /\ OwnKids /\ RunnerHolds /\ SuccessHeld

-----------------------------------------------------------------------------
(* The migration *)

Steps == Migration!ApplySteps \cup Migration!RollbackSteps \cup {"off", "end", "failed", "killed"}
Unlocked == {"rbDisable", "rbReload", "rbRestart", "rbDoneStage", "rbDonePut"}
Migrated == {"check", "reload", "restart", "probe", "enable", "commit", "commitStage", "commitPut"}
Restoring == {"restoring", "restored"}

\* Where each process is says what phase it can meet.
PhaseInv ==
  /\ migPc["apply"] \in {"new", "unlink", "override", "commitStage", "commitPut"} =>
       phase = "pending"
  /\ \A p \in Migration!Procs : migPc[p] \in Unlocked => phase \in Restoring
  /\ \A p \in Migration!Procs :
       migPc[p] \in {"rbOldStage", "rbOldPut", "rbUnlink", "rbPhaseStage", "rbPhasePut"} =>
         phase # "committed"

\* What a process in the middle of its work has done to the files; the lock
\* keeps the other from undoing it.
FilesInv ==
  /\ migPc["apply"] \in {"unlink", "override"} => new
  /\ migPc["apply"] = "override" => ~old
  /\ \A p \in Migration!Procs :
       /\ migPc[p] \in {"rbUnlink", "rbPhaseStage", "rbPhasePut"} => old
       /\ migPc[p] \in {"rbPhaseStage", "rbPhasePut"} => ~new /\ ~override

\* A script that has written its files and may still commit them finds them
\* as they are, unless the timer's rollback is at work under the lock.
MigratedInv ==
  /\ migPc["apply"] \in Migrated
  /\ phase = "pending"
  /\ migPc["timer"] \notin {"rbUnlink", "rbPhaseStage", "rbPhasePut"}
  => new /\ override /\ ~old

\* The stage file of the phase belongs to a process between the two halves of
\* put(), or to a script that was killed there.
StageInv ==
  "phase" \in staged =>
    \/ migPc["apply"] \in {"commitPut", "rbPhasePut", "rbDonePut", "killed"}
    \/ migPc["timer"] \in {"rbPhasePut", "rbDonePut"}

\* What the second half of rollback() has done to the services stays done.
ServiceInv ==
  \A p \in Migration!Procs :
    /\ migPc[p] \in {"rbRestart", "rbDoneStage", "rbDonePut"} => ~loaded
    /\ migPc[p] \in {"rbDoneStage", "rbDonePut"} => link = "old"

\* The timer's process starts when it fires.
TimerInv ==
  /\ timer # "fired" => migPc["timer"] = "off"
  /\ migPc["apply"] = "arm" => timer = "unset"

MigrationInv ==
  /\ Migration!TypeOK /\ Migration!FilesFollowPhase /\ Migration!CommittedStays
  /\ Migration!RestoredRuns
  /\ PhaseInv /\ FilesInv /\ MigratedInv /\ StageInv /\ ServiceInv /\ TimerInv

-----------------------------------------------------------------------------
(* A call over the network *)

\* Either program's call, whatever it asks and whatever may happen to it.
AnyRequest == [header : Nat \ {0}, payload : Nat, body : Nat]
AnyCall(largest) == INSTANCE Exchange WITH
  Requests <- AnyRequest, ReplyMax <- largest, IoTimeout <- TRUE, Silence <- TRUE

Asked  == req.header + req.payload
Answer == IF verdict = "serve" THEN 1 + req.body ELSE 1
Ended  == {"unreached", "lost", "rejected", "refused", "ok"}

\* Exchange!TypeOK, of any request.
CallTypes ==
  /\ c \in Ended \cup {"connect", "trying", "handshake", "send", "reply", "body"}
  /\ s \in {"idle", "header", "decide", "discard", "receive", "answer", "closed", "gone"}
  /\ req \in AnyRequest /\ attempt \in 1..(Addresses + 1) /\ clock \in Nat /\ open \in Nat
  /\ sent \in 0..Asked /\ read \in 0..sent /\ sent - read <= Cap
  /\ verdict \in {"none", "early", "binding", "locked", "serve"}
  /\ wrote \in 0..Answer /\ taken \in 0..wrote /\ wrote - taken <= Cap
  /\ reset \in BOOLEAN /\ dropped \in BOOLEAN /\ fault \in BOOLEAN

\* A refusal that the caller may see as a lost connection.
Excused == req.header >= HeaderMax \/ (verdict = "early" /\ req.payload > 0)

\* Before the handshake nothing is sent, and the time-out bounds all attempts.
ConnectInv ==
  /\ c = "trying" => attempt <= Addresses
  /\ c \in {"connect", "trying", "handshake"} => s \in {"idle", "gone"}
  /\ s = "idle" => c \in {"connect", "trying", "handshake"} \cup Ended
  /\ c \in {"connect", "trying", "handshake"} \/ s = "idle" => sent = 0 /\ taken = 0

\* The caller sends all before it reads.
CallerInv ==
  /\ c = "send" => sent < Asked /\ taken = 0
  /\ c = "reply" => sent = Asked /\ taken = 0
  /\ c = "body" => sent = Asked /\ verdict = "serve" /\ taken \in 1..(Answer - 1)

\* The server decides after the header, and answers what it serves, or
\* refuses for a lock, after the payload.
ServerInv ==
  /\ verdict = "none" => wrote = 0
  /\ verdict # "none" => read >= req.header
  /\ s \in {"idle", "header", "decide"} => verdict = "none"
  /\ s \in {"idle", "header"} => read < req.header
  /\ s = "decide" => read = req.header
  /\ s = "receive" => verdict = "serve" /\ wrote = 0
  /\ s = "discard" => \/ verdict = "locked" /\ wrote = 0
                      \/ verdict = "binding" /\ wrote = Answer
  /\ s = "answer" => /\ verdict # "none"
                     /\ verdict \in {"serve", "locked"} => read = Asked
  /\ verdict \in {"serve", "locked"} /\ wrote > 0 => read = Asked

\* While the caller waits, a connection is closed after the whole answer and
\* reset only with an excuse, unless something else failed.
ClosedInv ==
  /\ dropped => reset
  /\ s = "gone" => fault
  /\ ~fault /\ c \notin Ended /\ reset => Excused
  /\ ~fault /\ c \notin Ended /\ s = "closed" => Excused \/ (wrote = Answer /\ read = Asked)

\* What the properties say, of any request.
CallPromises ==
  /\ c = "ok" => verdict = "serve" /\ read = Asked /\ taken = Answer
  /\ c = "lost" /\ ~fault => Excused
  /\ clock <= ConnectTimeout
  /\ open = IF c \in {"trying", "handshake", "send", "reply", "body"} THEN 1 ELSE 0

CallInv == CallTypes /\ CallPromises /\ ConnectInv /\ CallerInv /\ ServerInv /\ ClosedInv

\* The request is one that the program which runs can make.
RequestInv == req \in IF part = "admin call" THEN AdminRequests ELSE FileRequests

-----------------------------------------------------------------------------
(* The alerts *)

\* Identifiers are given in the order in which alerts are raised, and never
\* twice: what a restarted server counts from is not less than any of the file.
AlertsInOrder ==
  /\ \A j, k \in 1..Len(alerts) :
       j < k => alerts[j].id < alerts[k].id /\ alerts[j].n < alerts[k].n
  /\ \A k \in 1..Len(alerts) : alerts[k].id < nextId /\ alerts[k].n <= raised
  /\ nextId <= raised + 1

\* A console stands at a line of the file, or at its beginning, and shows
\* nothing from behind it.
ConsoleAt(w) ==
  /\ lastId[w] = 0 \/ \E k \in 1..Len(alerts) : alerts[k].id = lastId[w]
  /\ \A i \in 1..Len(list[w]) : \E k \in 1..Len(alerts) :
       alerts[k].id <= lastId[w] /\ alerts[k].n = list[w][i]

PagingInv ==
  /\ Paging!TypeOK /\ Paging!AlertsOnce /\ Paging!OnlyOverflowSkips /\ Paging!OverflowIsOldest
  /\ AlertsInOrder
  /\ \A w \in Consoles : ConsoleAt(w)

-----------------------------------------------------------------------------
(* The proof for the process runner *)

\* What is assumed of its constants.
LEMMA Assumed == MaxTries \in Nat \ {0} /\ 0 \notin Pids
  BY LiveAssumption DEF LiveAssumption, Process!RunnerAssumption

\* run() begins: it looks whether the last command is over.
LEMMA ProcessRun ==
  ASSUME ProcessInv, Process!Run
  PROVE  ProcessInv'
  <1>1. Process!TypeOK'
    BY Assumed DEF Process!Run, ProcessInv, RunnerHolds, Process!TypeOK, Process!Phases
  <1>2. (Process!OnlyOwnKilled /\ OwnProcess /\ OwnKids)'
    BY Assumed DEF Process!Run, ProcessInv, Process!TypeOK, Process!OnlyOwnKilled,
           OwnProcess, OwnKids, RunnerHolds
  <1>3. (RunnerHolds /\ SuccessHeld)'
    BY Assumed DEF Process!Run, ProcessInv, Process!TypeOK, OwnProcess, RunnerHolds,
           SuccessHeld
  <1> QED BY <1>1, <1>2, <1>3 DEF ProcessInv

\* reap() asks whether the command is over.
LEMMA ProcessReapCheck ==
  ASSUME ProcessInv, Process!ReapCheck
  PROVE  ProcessInv'
  <1>1. Process!TypeOK'
    <2>1. tries' \in 0..MaxTries
      <3>1. tries \in 0..MaxTries /\ MaxTries \in Nat
        BY Assumed DEF ProcessInv, Process!TypeOK
      <3>2. tries' = tries \/ (tries' = tries + 1 /\ tries + 1 < MaxTries)
        <4>1. for \in {"busy", "loop", "stop", "tail"}
          BY DEF ProcessInv, Process!TypeOK
        <4> QED BY <4>1 DEF Process!ReapCheck, Process!Returns, Process!CheckAgain,
                            Process!Reaped, Process!NotReaped
      <3> QED BY <3>1, <3>2
    <2>2. /\ at' \in {"idle", "fork", "deadline", "check", "kill", "killall"}
          /\ for' \in {"busy", "loop", "stop", "tail"}
          /\ outcome' \in {"none", "Busy", "Success", "Failed", "TimedOut"}
      BY Assumed DEF Process!ReapCheck, Process!Returns, Process!CheckAgain, Process!Reaped,
             Process!NotReaped, ProcessInv, RunnerHolds, Process!TypeOK
    <2> QED BY <2>1, <2>2 DEF Process!ReapCheck, ProcessInv, Process!TypeOK
  <1>2. (Process!OnlyOwnKilled /\ OwnProcess /\ OwnKids)'
    BY Assumed DEF Process!ReapCheck, Process!Returns, Process!CheckAgain, Process!Reaped,
           Process!NotReaped, ProcessInv, Process!TypeOK, Process!OnlyOwnKilled,
           OwnProcess, OwnKids, RunnerHolds
  <1>3. (RunnerHolds /\ SuccessHeld)'
    BY Assumed DEF Process!ReapCheck, Process!Returns, Process!CheckAgain, Process!Reaped,
           Process!NotReaped, ProcessInv, Process!TypeOK, OwnProcess, RunnerHolds,
           SuccessHeld
  <1> QED BY <1>1, <1>2, <1>3 DEF ProcessInv

\* reap() kills what is left of the group, whose identifier the command holds.
LEMMA ProcessReapKill ==
  ASSUME ProcessInv, Process!ReapKill
  PROVE  ProcessInv'
  <1>1. Process!TypeOK'
    BY Assumed DEF Process!ReapKill, Process!KillGroup, ProcessInv, RunnerHolds,
           Process!TypeOK, Process!Phases
  <1>2. (Process!OnlyOwnKilled /\ OwnProcess /\ OwnKids)'
    BY Assumed DEF Process!ReapKill, Process!KillGroup, ProcessInv, Process!TypeOK,
           Process!OnlyOwnKilled, OwnProcess, OwnKids, RunnerHolds
  <1>3. (RunnerHolds /\ SuccessHeld)'
    BY Assumed DEF Process!ReapKill, Process!KillGroup, ProcessInv, Process!TypeOK,
           OwnProcess, RunnerHolds, SuccessHeld
  <1> QED BY <1>1, <1>2, <1>3 DEF ProcessInv

\* reap() gives the identifier back.
LEMMA ProcessReapWait ==
  ASSUME ProcessInv, Process!ReapWait
  PROVE  ProcessInv'
  <1>1. Process!TypeOK'
    BY Assumed DEF Process!ReapWait, Process!Returns, Process!Reaped, Process!Free,
           ProcessInv, RunnerHolds, Process!TypeOK, Process!Phases
  <1>2. (Process!OnlyOwnKilled /\ OwnProcess /\ OwnKids)'
    BY Assumed DEF Process!ReapWait, Process!Returns, Process!Reaped, Process!Free,
           ProcessInv, Process!TypeOK, Process!OnlyOwnKilled, OwnProcess, OwnKids,
           RunnerHolds
  <1>3. (RunnerHolds /\ SuccessHeld)'
    BY Assumed DEF Process!ReapWait, Process!Returns, Process!Reaped, Process!Free,
           ProcessInv, Process!TypeOK, OwnProcess, RunnerHolds, SuccessHeld
  <1> QED BY <1>1, <1>2, <1>3 DEF ProcessInv

\* The system gives the command a free identifier.
LEMMA ProcessFork ==
  ASSUME ProcessInv, Process!Fork
  PROVE  ProcessInv'
  <1>1. Process!TypeOK'
    <2>1. proc' \in [Pids -> [phase : Process!Phases, killed : BOOLEAN, stuck : BOOLEAN,
                        code : {"none", "zero", "other", "signal"}]]
      BY DEF Process!Fork, ProcessInv, Process!TypeOK, Process!Phases
    <2> QED BY <2>1 DEF Process!Fork, ProcessInv, Process!TypeOK
  <1>2. (Process!OnlyOwnKilled /\ OwnProcess /\ OwnKids)'
    BY Assumed DEF Process!Fork, ProcessInv, Process!TypeOK, Process!OnlyOwnKilled,
           OwnProcess, OwnKids, RunnerHolds
  <1>3. (RunnerHolds /\ SuccessHeld)'
    BY Assumed DEF Process!Fork, ProcessInv, Process!TypeOK, OwnProcess, RunnerHolds,
           SuccessHeld
  <1> QED BY <1>1, <1>2, <1>3 DEF ProcessInv

\* The parent's setpgid().
LEMMA ProcessSetGroup ==
  ASSUME ProcessInv, Process!SetGroup
  PROVE  ProcessInv'
  <1>1. Process!TypeOK'
    BY Assumed DEF Process!SetGroup, ProcessInv, RunnerHolds, Process!TypeOK,
           Process!Phases
  <1>2. (Process!OnlyOwnKilled /\ OwnProcess /\ OwnKids)'
    BY Assumed DEF Process!SetGroup, ProcessInv, Process!TypeOK, Process!OnlyOwnKilled,
           OwnProcess, OwnKids, RunnerHolds
  <1>3. (RunnerHolds /\ SuccessHeld)'
    BY Assumed DEF Process!SetGroup, ProcessInv, Process!TypeOK, OwnProcess, RunnerHolds,
           SuccessHeld
  <1> QED BY <1>1, <1>2, <1>3 DEF ProcessInv

\* A turn of the loop of run().
LEMMA ProcessDeadline ==
  ASSUME ProcessInv, Process!Deadline
  PROVE  ProcessInv'
  <1>1. Process!TypeOK'
    BY Assumed DEF Process!Deadline, Process!CheckAgain, ProcessInv, RunnerHolds,
           Process!TypeOK, Process!Phases
  <1>2. (Process!OnlyOwnKilled /\ OwnProcess /\ OwnKids)'
    BY Assumed DEF Process!Deadline, Process!CheckAgain, ProcessInv, Process!TypeOK,
           Process!OnlyOwnKilled, OwnProcess, OwnKids, RunnerHolds
  <1>3. (RunnerHolds /\ SuccessHeld)'
    BY Assumed DEF Process!Deadline, Process!CheckAgain, ProcessInv, Process!TypeOK,
           OwnProcess, RunnerHolds, SuccessHeld
  <1> QED BY <1>1, <1>2, <1>3 DEF ProcessInv

\* stop() kills the group and the command.
LEMMA ProcessKillAll ==
  ASSUME ProcessInv, Process!KillAll
  PROVE  ProcessInv'
  <1>1. Process!TypeOK'
    <2>1. pid \in Pids
      BY DEF Process!KillAll, ProcessInv, RunnerHolds, Process!TypeOK
    <2>2. proc' \in [Pids -> [phase : Process!Phases, killed : BOOLEAN, stuck : BOOLEAN,
                        code : {"none", "zero", "other", "signal"}]]
      <3>1. CASE Process!Live(pid)
        <4>1. proc' = [proc EXCEPT ![pid].killed = TRUE]
          BY <3>1 DEF Process!KillAll
        <4>2. Process!TypeOK
          BY DEF ProcessInv
        <4> QED BY ONLY <2>1, <4>1, <4>2 DEF Process!TypeOK
      <3>2. CASE ~Process!Live(pid)
        <4>1. PICK k \in BOOLEAN : k = (proc[pid].killed \/ proc[pid].phase \in {"grouped", "exec"})
          OBVIOUS
        <4>2. proc' = [proc EXCEPT ![pid].killed = k]
          BY <3>2, <4>1 DEF Process!KillAll, Process!KillGroup
        <4> QED BY <2>1, <4>2 DEF ProcessInv, Process!TypeOK
      <3> QED BY <3>1, <3>2
    <2>3. kids' \in [Pids -> BOOLEAN] /\ victim' \in BOOLEAN
      BY <2>1 DEF Process!KillAll, Process!KillGroup, ProcessInv, Process!TypeOK
    <2> QED BY Assumed, <2>2, <2>3 DEF Process!KillAll, Process!CheckAgain, ProcessInv,
                                       Process!TypeOK
  <1>2. (Process!OnlyOwnKilled /\ OwnProcess /\ OwnKids)'
    BY Assumed DEF Process!KillAll, Process!Live, Process!KillGroup, Process!CheckAgain,
           ProcessInv, Process!TypeOK, Process!OnlyOwnKilled, OwnProcess, OwnKids,
           RunnerHolds
  <1>3. (RunnerHolds /\ SuccessHeld)'
    BY Assumed DEF Process!KillAll, Process!Live, Process!KillGroup, Process!CheckAgain,
           ProcessInv, Process!TypeOK, OwnProcess, RunnerHolds, SuccessHeld
  <1> QED BY <1>1, <1>2, <1>3 DEF ProcessInv

\* The deadline passes.
LEMMA ProcessExpire ==
  ASSUME ProcessInv, Process!Expire
  PROVE  ProcessInv'
  <1>1. Process!TypeOK'
    BY Assumed DEF Process!Expire, ProcessInv, RunnerHolds, Process!TypeOK, Process!Phases
  <1>2. (Process!OnlyOwnKilled /\ OwnProcess /\ OwnKids)'
    BY Assumed DEF Process!Expire, ProcessInv, Process!TypeOK, Process!OnlyOwnKilled,
           OwnProcess, OwnKids, RunnerHolds
  <1>3. (RunnerHolds /\ SuccessHeld)'
    BY Assumed DEF Process!Expire, ProcessInv, Process!TypeOK, OwnProcess, RunnerHolds,
           SuccessHeld
  <1> QED BY <1>1, <1>2, <1>3 DEF ProcessInv

\* The command's own setpgid().
LEMMA ProcessChildGroup ==
  ASSUME ProcessInv, NEW p \in Pids, Process!ChildGroup(p)
  PROVE  ProcessInv'
  <1>1. Process!TypeOK'
    BY Assumed DEF Process!ChildGroup, Process!Becomes, Process!Runs, Process!runner,
           ProcessInv, RunnerHolds, Process!TypeOK, Process!Phases
  <1>2. (Process!OnlyOwnKilled /\ OwnProcess /\ OwnKids)'
    BY Assumed DEF Process!ChildGroup, Process!Becomes, Process!Runs, Process!runner,
           ProcessInv, Process!TypeOK, Process!OnlyOwnKilled, OwnProcess, OwnKids,
           RunnerHolds
  <1>3. (RunnerHolds /\ SuccessHeld)'
    BY Assumed DEF Process!ChildGroup, Process!Becomes, Process!Runs, Process!runner,
           ProcessInv, Process!TypeOK, OwnProcess, RunnerHolds, SuccessHeld
  <1> QED BY <1>1, <1>2, <1>3 DEF ProcessInv

\* The command becomes its program.
LEMMA ProcessExec ==
  ASSUME ProcessInv, NEW p \in Pids, Process!Exec(p)
  PROVE  ProcessInv'
  <1>1. Process!TypeOK'
    BY Assumed DEF Process!Exec, Process!Becomes, Process!Runs, Process!runner, ProcessInv,
           RunnerHolds, Process!TypeOK, Process!Phases
  <1>2. (Process!OnlyOwnKilled /\ OwnProcess /\ OwnKids)'
    BY Assumed DEF Process!Exec, Process!Becomes, Process!Runs, Process!runner, ProcessInv,
           Process!TypeOK, Process!OnlyOwnKilled, OwnProcess, OwnKids, RunnerHolds
  <1>3. (RunnerHolds /\ SuccessHeld)'
    BY Assumed DEF Process!Exec, Process!Becomes, Process!Runs, Process!runner, ProcessInv,
           Process!TypeOK, OwnProcess, RunnerHolds, SuccessHeld
  <1> QED BY <1>1, <1>2, <1>3 DEF ProcessInv

\* The command gives up before it becomes its program.
LEMMA ProcessChildFails ==
  ASSUME ProcessInv, NEW p \in Pids, Process!ChildFails(p)
  PROVE  ProcessInv'
  <1>1. Process!TypeOK'
    BY Assumed DEF Process!ChildFails, Process!Ends, Process!Becomes, Process!Runs,
           Process!runner, ProcessInv, RunnerHolds, Process!TypeOK, Process!Phases
  <1>2. (Process!OnlyOwnKilled /\ OwnProcess /\ OwnKids)'
    BY Assumed DEF Process!ChildFails, Process!Ends, Process!Becomes, Process!Runs,
           Process!runner, ProcessInv, Process!TypeOK, Process!OnlyOwnKilled, OwnProcess,
           OwnKids, RunnerHolds
  <1>3. (RunnerHolds /\ SuccessHeld)'
    BY Assumed DEF Process!ChildFails, Process!Ends, Process!Becomes, Process!Runs,
           Process!runner, ProcessInv, Process!TypeOK, OwnProcess, RunnerHolds, SuccessHeld
  <1> QED BY <1>1, <1>2, <1>3 DEF ProcessInv

\* The command starts a process in its group.
LEMMA ProcessSpawn ==
  ASSUME ProcessInv, NEW p \in Pids, Process!Spawn(p)
  PROVE  ProcessInv'
  <1>1. Process!TypeOK'
    BY Assumed DEF Process!Spawn, Process!Runs, Process!runner, ProcessInv, RunnerHolds,
           Process!TypeOK, Process!Phases
  <1>2. (Process!OnlyOwnKilled /\ OwnProcess /\ OwnKids)'
    BY Assumed DEF Process!Spawn, Process!Runs, Process!runner, ProcessInv, Process!TypeOK,
           Process!OnlyOwnKilled, OwnProcess, OwnKids, RunnerHolds
  <1>3. (RunnerHolds /\ SuccessHeld)'
    BY Assumed DEF Process!Spawn, Process!Runs, Process!runner, ProcessInv, Process!TypeOK,
           OwnProcess, RunnerHolds, SuccessHeld
  <1> QED BY <1>1, <1>2, <1>3 DEF ProcessInv

\* The command ends.
LEMMA ProcessExit ==
  ASSUME ProcessInv, NEW p \in Pids, Process!Exit(p)
  PROVE  ProcessInv'
  <1>1. Process!TypeOK'
    BY Assumed DEF Process!Exit, Process!Ends, Process!Becomes, Process!Runs,
           Process!runner, ProcessInv, RunnerHolds, Process!TypeOK, Process!Phases
  <1>2. (Process!OnlyOwnKilled /\ OwnProcess /\ OwnKids)'
    BY Assumed DEF Process!Exit, Process!Ends, Process!Becomes, Process!Runs,
           Process!runner, ProcessInv, Process!TypeOK, Process!OnlyOwnKilled, OwnProcess,
           OwnKids, RunnerHolds
  <1>3. (RunnerHolds /\ SuccessHeld)'
    BY Assumed DEF Process!Exit, Process!Ends, Process!Becomes, Process!Runs,
           Process!runner, ProcessInv, Process!TypeOK, OwnProcess, RunnerHolds, SuccessHeld
  <1> QED BY <1>1, <1>2, <1>3 DEF ProcessInv

\* A killed command dies.
LEMMA ProcessDies ==
  ASSUME ProcessInv, NEW p \in Pids, Process!Dies(p)
  PROVE  ProcessInv'
  <1>1. Process!TypeOK'
    BY Assumed DEF Process!Dies, Process!Live, Process!Ends, Process!Becomes,
           Process!runner, ProcessInv, RunnerHolds, Process!TypeOK, Process!Phases
  <1>2. (Process!OnlyOwnKilled /\ OwnProcess /\ OwnKids)'
    BY Assumed DEF Process!Dies, Process!Live, Process!Ends, Process!Becomes,
           Process!runner, ProcessInv, Process!TypeOK, Process!OnlyOwnKilled, OwnProcess,
           OwnKids, RunnerHolds
  <1>3. (RunnerHolds /\ SuccessHeld)'
    BY Assumed DEF Process!Dies, Process!Live, Process!Ends, Process!Becomes,
           Process!runner, ProcessInv, Process!TypeOK, OwnProcess, RunnerHolds, SuccessHeld
  <1> QED BY <1>1, <1>2, <1>3 DEF ProcessInv

\* Somebody else kills the command.
LEMMA ProcessKilledOutside ==
  ASSUME ProcessInv, NEW p \in Pids, Process!KilledOutside(p)
  PROVE  ProcessInv'
  <1>1. Process!TypeOK'
    <2>1. proc' \in [Pids -> [phase : Process!Phases, killed : BOOLEAN, stuck : BOOLEAN,
                        code : {"none", "zero", "other", "signal"}]]
      BY DEF Process!KilledOutside, Process!Becomes, ProcessInv, Process!TypeOK, Process!Phases
    <2> QED BY <2>1 DEF Process!KilledOutside, Process!Becomes, Process!runner, ProcessInv,
                        Process!TypeOK
  <1>2. (Process!OnlyOwnKilled /\ OwnProcess /\ OwnKids)'
    BY Assumed DEF Process!KilledOutside, Process!Live, Process!Becomes, Process!runner,
           ProcessInv, Process!TypeOK, Process!OnlyOwnKilled, OwnProcess, OwnKids,
           RunnerHolds
  <1>3. (RunnerHolds /\ SuccessHeld)'
    BY Assumed DEF Process!KilledOutside, Process!Live, Process!Becomes, Process!runner,
           ProcessInv, Process!TypeOK, OwnProcess, RunnerHolds, SuccessHeld
  <1> QED BY <1>1, <1>2, <1>3 DEF ProcessInv

\* The command waits inside the kernel, or no longer.
LEMMA ProcessStick ==
  ASSUME ProcessInv, NEW p \in Pids, Process!Stick(p)
  PROVE  ProcessInv'
  <1>1. Process!TypeOK'
    <2>1. PICK k \in BOOLEAN : k = ~proc[p].stuck
      OBVIOUS
    <2>2. proc' = [proc EXCEPT ![p] = [proc[p] EXCEPT !.stuck = k]]
      BY <2>1 DEF Process!Stick, Process!Becomes
    <2>3. Process!TypeOK
      BY DEF ProcessInv
    <2>4. proc' \in [Pids -> [phase : Process!Phases, killed : BOOLEAN, stuck : BOOLEAN,
                            code : {"none", "zero", "other", "signal"}]]
      BY ONLY <2>2, <2>3 DEF Process!TypeOK
    <2> QED BY <2>3, <2>4 DEF Process!TypeOK, Process!Stick, Process!Becomes, Process!runner
  <1>2. (Process!OnlyOwnKilled /\ OwnProcess /\ OwnKids)'
    BY Assumed DEF Process!Stick, Process!Becomes, Process!runner, ProcessInv,
           Process!TypeOK, Process!OnlyOwnKilled, OwnProcess, OwnKids, RunnerHolds
  <1>3. (RunnerHolds /\ SuccessHeld)'
    BY Assumed DEF Process!Stick, Process!Becomes, Process!runner, ProcessInv,
           Process!TypeOK, OwnProcess, RunnerHolds, SuccessHeld
  <1> QED BY <1>1, <1>2, <1>3 DEF ProcessInv

\* The rest of the group ends.
LEMMA ProcessKidsEnd ==
  ASSUME ProcessInv, NEW p \in Pids, Process!KidsEnd(p)
  PROVE  ProcessInv'
  <1>1. Process!TypeOK'
    BY Assumed DEF Process!KidsEnd, Process!runner, ProcessInv, RunnerHolds,
           Process!TypeOK, Process!Phases
  <1>2. (Process!OnlyOwnKilled /\ OwnProcess /\ OwnKids)'
    BY Assumed DEF Process!KidsEnd, Process!runner, ProcessInv, Process!TypeOK,
           Process!OnlyOwnKilled, OwnProcess, OwnKids, RunnerHolds
  <1>3. (RunnerHolds /\ SuccessHeld)'
    BY Assumed DEF Process!KidsEnd, Process!runner, ProcessInv, Process!TypeOK, OwnProcess,
           RunnerHolds, SuccessHeld
  <1> QED BY <1>1, <1>2, <1>3 DEF ProcessInv

\* The system gives an identifier to somebody else, or takes it back.
LEMMA ProcessReuse ==
  ASSUME ProcessInv, NEW p \in Pids, Process!Reuse(p)
  PROVE  ProcessInv'
  <1>1. Process!TypeOK'
    <2>1. PICK f \in {"free", "other"} : proc' = [proc EXCEPT ![p] = [Process!Free EXCEPT !.phase = f]]
      BY DEF Process!Reuse, Process!Becomes
    <2>2. [Process!Free EXCEPT !.phase = f] \in
            [phase : Process!Phases, killed : BOOLEAN, stuck : BOOLEAN,
             code : {"none", "zero", "other", "signal"}]
      BY ONLY DEF Process!Free, Process!Phases
    <2>3. Process!TypeOK
      BY DEF ProcessInv
    <2>4. proc' \in [Pids -> [phase : Process!Phases, killed : BOOLEAN, stuck : BOOLEAN,
                            code : {"none", "zero", "other", "signal"}]]
      BY ONLY <2>1, <2>2, <2>3 DEF Process!TypeOK
    <2> QED BY <2>3, <2>4 DEF Process!TypeOK, Process!Reuse, Process!Becomes, Process!runner
  <1>2. (Process!OnlyOwnKilled /\ OwnProcess /\ OwnKids)'
    BY Assumed DEF Process!Reuse, Process!Becomes, Process!runner, Process!Free,
           ProcessInv, Process!TypeOK, Process!OnlyOwnKilled, OwnProcess, OwnKids,
           RunnerHolds
  <1>3. (RunnerHolds /\ SuccessHeld)'
    BY Assumed DEF Process!Reuse, Process!Becomes, Process!runner, Process!Free,
           ProcessInv, Process!TypeOK, OwnProcess, RunnerHolds, SuccessHeld
  <1> QED BY <1>1, <1>2, <1>3 DEF ProcessInv

\* The runner starts without a command.
LEMMA ProcessInit == Init => ProcessInv
  <1> SUFFICES ASSUME Init PROVE ProcessInv
    OBVIOUS
  <1>1. Process!Init
    BY DEF Init
  <1>2. \A p \in Pids : proc[p] = Process!Free /\ ~kids[p]
    BY <1>1 DEF Process!Init
  <1>3. Process!TypeOK
    <2>1. Process!Free \in [phase : Process!Phases, killed : BOOLEAN, stuck : BOOLEAN,
                             code : {"none", "zero", "other", "signal"}]
      BY DEF Process!Free, Process!Phases
    <2>2. kids \in [Pids -> BOOLEAN]
      BY <1>1 DEF Process!Init
    <2>3. proc \in [Pids -> [phase : Process!Phases, killed : BOOLEAN, stuck : BOOLEAN,
                             code : {"none", "zero", "other", "signal"}]]
      BY <1>1, <2>1 DEF Process!Init
    <2>4. 0 \in 0..MaxTries
      BY Assumed
    <2> QED BY <1>1, <2>2, <2>3, <2>4 DEF Process!Init, Process!TypeOK
  <1>4. OwnProcess
    BY <1>1, <1>2 DEF Process!Init, Process!Free, OwnProcess
  <1> QED BY <1>1, <1>2, <1>3, <1>4 DEF Process!Init, ProcessInv, Process!OnlyOwnKilled, OwnKids,
                                        RunnerHolds, SuccessHeld

\* Every step of the runner, of its command and of the system keeps the
\* invariant.
LEMMA ProcessNext ==
  ASSUME ProcessInv, Process!Next
  PROVE  ProcessInv'
  <1>1. CASE Process!Runner
    BY <1>1, ProcessReapCheck, ProcessReapKill, ProcessReapWait, ProcessFork, ProcessSetGroup,
       ProcessDeadline, ProcessKillAll DEF Process!Runner
  <1>2. ASSUME NEW p \in Pids, Process!Command(p)
        PROVE  ProcessInv'
    BY <1>2, ProcessChildGroup, ProcessExec, ProcessChildFails, ProcessSpawn, ProcessExit,
       ProcessDies, ProcessKilledOutside, ProcessStick, ProcessKidsEnd, ProcessReuse
       DEF Process!Command
  <1> QED BY <1>1, <1>2, ProcessRun, ProcessExpire DEF Process!Next

\* The invariant is about the runner's variables only.
LEMMA ProcessQuiet ==
  ASSUME ProcessInv, UNCHANGED runner
  PROVE  ProcessInv'
  BY DEF ProcessInv, runner, Process!TypeOK, Process!OnlyOwnKilled, OwnProcess, OwnKids,
         RunnerHolds, SuccessHeld

\* The process runner signals nobody but its own command and leaves nobody of
\* its group behind, runs one command at a time, and reports success only of
\* a command that ended by itself with code 0, however the command, its
\* children and the reuse of identifiers interleave with its system calls.
THEOREM ProcessCorrect == LiveSpec => []ProcessSafe
  <1>1. ProcessInv /\ [Next]_vars => ProcessInv'
    <2> SUFFICES ASSUME ProcessInv, [Next]_vars PROVE ProcessInv'
      OBVIOUS
    <2>1. CASE ProcessStep
      BY <2>1, ProcessNext DEF ProcessStep
    <2>2. CASE UNCHANGED runner
      BY <2>2, ProcessQuiet
    <2>3. ProcessStep \/ UNCHANGED runner
      BY DEF Next, vars, FileCallStep, AdminCallStep, MigrationStep, KilledMigrationStep,
             PagingStep, BindingStep, WindowStep, SearchStep
    <2> QED BY <2>1, <2>2, <2>3
  <1>2. ProcessInv => ProcessSafe
    <2> SUFFICES ASSUME ProcessInv PROVE ProcessSafe
      OBVIOUS
    <2>1. Process!NoSurvivors
      BY Assumed DEF ProcessInv, OwnKids, Process!NoSurvivors
    <2>2. Process!OneCommand
      <3> DEFINE live == {p \in Pids : Process!Live(p)}
      <3>1. live \subseteq {pid}
        BY DEF ProcessInv, OwnProcess, Process!Live
      <3>2. IsFiniteSet({pid}) /\ Cardinality({pid}) = 1
        BY FS_Singleton
      <3>3. Cardinality(live) <= 1
        BY <3>1, <3>2, FS_Subset
      <3> QED BY <3>3 DEF Process!OneCommand, Process!Cardinality, Cardinality
    <2>3. Process!SuccessIsTrue
      BY DEF ProcessInv, SuccessHeld, Process!SuccessIsTrue
    <2> QED BY <2>1, <2>2, <2>3 DEF ProcessInv, ProcessSafe
  <1> QED BY <1>1, <1>2, ProcessInit, PTL DEF LiveSpec

-----------------------------------------------------------------------------
(* The proof for the migration *)

\* The timer is armed, or the script fails before anything is changed.
LEMMA MigrationArm ==
  ASSUME MigrationInv, Migration!Arm
  PROVE  MigrationInv'
  <1> USE DEF Migration!Arm, Migration!Go, Migration!files, Migration!services,
      Migration!Procs
  <1>1. Migration!TypeOK'
    BY DEF MigrationInv, Migration!TypeOK, Migration!ApplySteps, Migration!RollbackSteps,
           Migration!LockedSteps
  <1>2. (Migration!FilesFollowPhase /\ Migration!CommittedStays /\ Migration!RestoredRuns)'
    BY DEF MigrationInv, PhaseInv, FilesInv, MigratedInv, ServiceInv, Unlocked, Restoring,
           Migrated, Migration!TypeOK, Migration!ApplySteps, Migration!RollbackSteps,
           Migration!LockedSteps, Migration!FilesFollowPhase, Migration!CommittedStays,
           Migration!RestoredRuns
  <1>3. (PhaseInv /\ FilesInv)'
    BY DEF MigrationInv, PhaseInv, FilesInv, Unlocked, Restoring, Migration!TypeOK,
           Migration!ApplySteps, Migration!LockedSteps, Migration!FilesFollowPhase,
           Migration!CommittedStays
  <1>4. (MigratedInv /\ StageInv /\ TimerInv)'
    BY DEF MigrationInv, PhaseInv, FilesInv, MigratedInv, StageInv, TimerInv, Unlocked,
           Restoring, Migrated, Migration!TypeOK, Migration!ApplySteps,
           Migration!LockedSteps
  <1>5. ServiceInv'
    BY DEF MigrationInv, PhaseInv, ServiceInv, Unlocked, Restoring, Migration!TypeOK,
           Migration!FilesFollowPhase, Migration!ApplySteps, Migration!LockedSteps
  <1> QED BY <1>1, <1>2, <1>3, <1>4, <1>5 DEF MigrationInv

\* The script reads the phase under the lock.
LEMMA MigrationApplyLock ==
  ASSUME MigrationInv, Migration!ApplyLock
  PROVE  MigrationInv'
  <1> USE DEF Migration!ApplyLock, Migration!Go, Migration!files, Migration!services,
      Migration!Procs
  <1>1. Migration!TypeOK'
    BY DEF MigrationInv, Migration!TypeOK, Migration!ApplySteps, Migration!RollbackSteps,
           Migration!LockedSteps
  <1>2. (Migration!FilesFollowPhase /\ Migration!CommittedStays /\ Migration!RestoredRuns)'
    BY DEF MigrationInv, PhaseInv, FilesInv, MigratedInv, ServiceInv, Unlocked, Restoring,
           Migrated, Migration!TypeOK, Migration!ApplySteps, Migration!RollbackSteps,
           Migration!LockedSteps, Migration!FilesFollowPhase, Migration!CommittedStays,
           Migration!RestoredRuns
  <1>3. (PhaseInv /\ FilesInv)'
    BY DEF MigrationInv, PhaseInv, FilesInv, Unlocked, Restoring, Migration!TypeOK,
           Migration!ApplySteps, Migration!LockedSteps, Migration!FilesFollowPhase,
           Migration!CommittedStays
  <1>4. (MigratedInv /\ StageInv /\ TimerInv)'
    BY DEF MigrationInv, PhaseInv, FilesInv, MigratedInv, StageInv, TimerInv, Unlocked,
           Restoring, Migrated, Migration!TypeOK, Migration!ApplySteps,
           Migration!LockedSteps
  <1>5. ServiceInv'
    BY DEF MigrationInv, PhaseInv, ServiceInv, Unlocked, Restoring, Migration!TypeOK,
           Migration!FilesFollowPhase, Migration!ApplySteps, Migration!LockedSteps
  <1> QED BY <1>1, <1>2, <1>3, <1>4, <1>5 DEF MigrationInv

\* It writes the new profile ...
LEMMA MigrationPutNew ==
  ASSUME MigrationInv, Migration!PutNew
  PROVE  MigrationInv'
  <1> USE DEF Migration!PutNew, Migration!Go, Migration!services, Migration!Procs
  <1>1. Migration!TypeOK'
    BY DEF MigrationInv, Migration!TypeOK, Migration!ApplySteps, Migration!RollbackSteps,
           Migration!LockedSteps
  <1>2. (Migration!FilesFollowPhase /\ Migration!CommittedStays /\ Migration!RestoredRuns)'
    BY DEF MigrationInv, PhaseInv, FilesInv, MigratedInv, ServiceInv, Unlocked, Restoring,
           Migrated, Migration!TypeOK, Migration!ApplySteps, Migration!RollbackSteps,
           Migration!LockedSteps, Migration!FilesFollowPhase, Migration!CommittedStays,
           Migration!RestoredRuns
  <1>3. (PhaseInv /\ FilesInv)'
    BY DEF MigrationInv, PhaseInv, FilesInv, Unlocked, Restoring, Migration!TypeOK,
           Migration!ApplySteps, Migration!LockedSteps, Migration!FilesFollowPhase,
           Migration!CommittedStays
  <1>4. (MigratedInv /\ StageInv /\ TimerInv)'
    BY DEF MigrationInv, PhaseInv, FilesInv, MigratedInv, StageInv, TimerInv, Unlocked,
           Restoring, Migrated, Migration!TypeOK, Migration!ApplySteps,
           Migration!LockedSteps
  <1>5. ServiceInv'
    BY DEF MigrationInv, PhaseInv, ServiceInv, Unlocked, Restoring, Migration!TypeOK,
           Migration!FilesFollowPhase, Migration!ApplySteps, Migration!LockedSteps
  <1> QED BY <1>1, <1>2, <1>3, <1>4, <1>5 DEF MigrationInv

\* ... removes the old one ...
LEMMA MigrationUnlinkOld ==
  ASSUME MigrationInv, Migration!UnlinkOld
  PROVE  MigrationInv'
  <1> USE DEF Migration!UnlinkOld, Migration!Go, Migration!services, Migration!Procs
  <1>1. Migration!TypeOK'
    BY DEF MigrationInv, Migration!TypeOK, Migration!ApplySteps, Migration!RollbackSteps,
           Migration!LockedSteps
  <1>2. (Migration!FilesFollowPhase /\ Migration!CommittedStays /\ Migration!RestoredRuns)'
    BY DEF MigrationInv, PhaseInv, FilesInv, MigratedInv, ServiceInv, Unlocked, Restoring,
           Migrated, Migration!TypeOK, Migration!ApplySteps, Migration!RollbackSteps,
           Migration!LockedSteps, Migration!FilesFollowPhase, Migration!CommittedStays,
           Migration!RestoredRuns
  <1>3. (PhaseInv /\ FilesInv)'
    BY DEF MigrationInv, PhaseInv, FilesInv, Unlocked, Restoring, Migration!TypeOK,
           Migration!ApplySteps, Migration!LockedSteps, Migration!FilesFollowPhase,
           Migration!CommittedStays
  <1>4. (MigratedInv /\ StageInv /\ TimerInv)'
    BY DEF MigrationInv, PhaseInv, FilesInv, MigratedInv, StageInv, TimerInv, Unlocked,
           Restoring, Migrated, Migration!TypeOK, Migration!ApplySteps,
           Migration!LockedSteps
  <1>5. ServiceInv'
    BY DEF MigrationInv, PhaseInv, ServiceInv, Unlocked, Restoring, Migration!TypeOK,
           Migration!FilesFollowPhase, Migration!ApplySteps, Migration!LockedSteps
  <1> QED BY <1>1, <1>2, <1>3, <1>4, <1>5 DEF MigrationInv

\* ... writes the override and releases the lock.
LEMMA MigrationPutOverride ==
  ASSUME MigrationInv, Migration!PutOverride
  PROVE  MigrationInv'
  <1> USE DEF Migration!PutOverride, Migration!Go, Migration!services, Migration!Procs
  <1>1. Migration!TypeOK'
    BY DEF MigrationInv, Migration!TypeOK, Migration!ApplySteps, Migration!RollbackSteps,
           Migration!LockedSteps
  <1>2. (Migration!FilesFollowPhase /\ Migration!CommittedStays /\ Migration!RestoredRuns)'
    BY DEF MigrationInv, PhaseInv, FilesInv, MigratedInv, ServiceInv, Unlocked, Restoring,
           Migrated, Migration!TypeOK, Migration!ApplySteps, Migration!RollbackSteps,
           Migration!LockedSteps, Migration!FilesFollowPhase, Migration!CommittedStays,
           Migration!RestoredRuns
  <1>3. (PhaseInv /\ FilesInv)'
    BY DEF MigrationInv, PhaseInv, FilesInv, Unlocked, Restoring, Migration!TypeOK,
           Migration!ApplySteps, Migration!LockedSteps, Migration!FilesFollowPhase,
           Migration!CommittedStays
  <1>4. (MigratedInv /\ StageInv /\ TimerInv)'
    BY DEF MigrationInv, PhaseInv, FilesInv, MigratedInv, StageInv, TimerInv, Unlocked,
           Restoring, Migrated, Migration!TypeOK, Migration!ApplySteps,
           Migration!LockedSteps
  <1>5. ServiceInv'
    BY DEF MigrationInv, PhaseInv, ServiceInv, Unlocked, Restoring, Migration!TypeOK,
           Migration!FilesFollowPhase, Migration!ApplySteps, Migration!LockedSteps
  <1> QED BY <1>1, <1>2, <1>3, <1>4, <1>5 DEF MigrationInv

\* The policy guard is asked.
LEMMA MigrationCheck ==
  ASSUME MigrationInv, Migration!Check
  PROVE  MigrationInv'
  <1> USE DEF Migration!Check, Migration!Go, Migration!files, Migration!services,
      Migration!Procs
  <1>1. Migration!TypeOK'
    BY DEF MigrationInv, Migration!TypeOK, Migration!ApplySteps, Migration!RollbackSteps,
           Migration!LockedSteps
  <1>2. (Migration!FilesFollowPhase /\ Migration!CommittedStays /\ Migration!RestoredRuns)'
    BY DEF MigrationInv, PhaseInv, FilesInv, MigratedInv, ServiceInv, Unlocked, Restoring,
           Migrated, Migration!TypeOK, Migration!ApplySteps, Migration!RollbackSteps,
           Migration!LockedSteps, Migration!FilesFollowPhase, Migration!CommittedStays,
           Migration!RestoredRuns
  <1>3. (PhaseInv /\ FilesInv)'
    BY DEF MigrationInv, PhaseInv, FilesInv, Unlocked, Restoring, Migration!TypeOK,
           Migration!ApplySteps, Migration!LockedSteps, Migration!FilesFollowPhase,
           Migration!CommittedStays
  <1>4. (MigratedInv /\ StageInv /\ TimerInv)'
    BY DEF MigrationInv, PhaseInv, FilesInv, MigratedInv, StageInv, TimerInv, Unlocked,
           Restoring, Migrated, Migration!TypeOK, Migration!ApplySteps,
           Migration!LockedSteps
  <1>5. ServiceInv'
    BY DEF MigrationInv, PhaseInv, ServiceInv, Unlocked, Restoring, Migration!TypeOK,
           Migration!FilesFollowPhase, Migration!ApplySteps, Migration!LockedSteps
  <1> QED BY <1>1, <1>2, <1>3, <1>4, <1>5 DEF MigrationInv

\* The script reloads systemd.
LEMMA MigrationApplyReload ==
  ASSUME MigrationInv, Migration!Reload("apply", "reload", "restart")
  PROVE  MigrationInv'
  <1> USE DEF Migration!Reload, Migration!Go, Migration!files, Migration!Procs
  <1>1. Migration!TypeOK'
    BY DEF MigrationInv, Migration!TypeOK, Migration!ApplySteps, Migration!RollbackSteps,
           Migration!LockedSteps
  <1>2. (Migration!FilesFollowPhase /\ Migration!CommittedStays /\ Migration!RestoredRuns)'
    BY DEF MigrationInv, PhaseInv, FilesInv, MigratedInv, ServiceInv, Unlocked, Restoring,
           Migrated, Migration!TypeOK, Migration!ApplySteps, Migration!RollbackSteps,
           Migration!LockedSteps, Migration!FilesFollowPhase, Migration!CommittedStays,
           Migration!RestoredRuns
  <1>3. (PhaseInv /\ FilesInv)'
    BY DEF MigrationInv, PhaseInv, FilesInv, Unlocked, Restoring, Migration!TypeOK,
           Migration!ApplySteps, Migration!LockedSteps, Migration!FilesFollowPhase,
           Migration!CommittedStays
  <1>4. (MigratedInv /\ StageInv /\ TimerInv)'
    BY DEF MigrationInv, PhaseInv, FilesInv, MigratedInv, StageInv, TimerInv, Unlocked,
           Restoring, Migrated, Migration!TypeOK, Migration!ApplySteps,
           Migration!LockedSteps
  <1>5. ServiceInv'
    BY DEF MigrationInv, PhaseInv, ServiceInv, Unlocked, Restoring, Migration!TypeOK,
           Migration!FilesFollowPhase, Migration!ApplySteps, Migration!LockedSteps
  <1> QED BY <1>1, <1>2, <1>3, <1>4, <1>5 DEF MigrationInv

\* The script restarts the service.
LEMMA MigrationApplyRestart ==
  ASSUME MigrationInv, Migration!Restart("apply", "restart", "probe")
  PROVE  MigrationInv'
  <1> USE DEF Migration!Restart, Migration!Go, Migration!files, Migration!Procs
  <1>1. Migration!TypeOK'
    BY DEF MigrationInv, Migration!TypeOK, Migration!ApplySteps, Migration!RollbackSteps,
           Migration!LockedSteps
  <1>2. (Migration!FilesFollowPhase /\ Migration!CommittedStays /\ Migration!RestoredRuns)'
    BY DEF MigrationInv, PhaseInv, FilesInv, MigratedInv, ServiceInv, Unlocked, Restoring,
           Migrated, Migration!TypeOK, Migration!ApplySteps, Migration!RollbackSteps,
           Migration!LockedSteps, Migration!FilesFollowPhase, Migration!CommittedStays,
           Migration!RestoredRuns
  <1>3. (PhaseInv /\ FilesInv)'
    BY DEF MigrationInv, PhaseInv, FilesInv, Unlocked, Restoring, Migration!TypeOK,
           Migration!ApplySteps, Migration!LockedSteps, Migration!FilesFollowPhase,
           Migration!CommittedStays
  <1>4. (MigratedInv /\ StageInv /\ TimerInv)'
    BY DEF MigrationInv, PhaseInv, FilesInv, MigratedInv, StageInv, TimerInv, Unlocked,
           Restoring, Migrated, Migration!TypeOK, Migration!ApplySteps,
           Migration!LockedSteps
  <1>5. ServiceInv'
    BY DEF MigrationInv, PhaseInv, ServiceInv, Unlocked, Restoring, Migration!TypeOK,
           Migration!FilesFollowPhase, Migration!ApplySteps, Migration!LockedSteps
  <1> QED BY <1>1, <1>2, <1>3, <1>4, <1>5 DEF MigrationInv

\* The link is up.
LEMMA MigrationProbe ==
  ASSUME MigrationInv, Migration!Probe
  PROVE  MigrationInv'
  <1> USE DEF Migration!Probe, Migration!Go, Migration!files, Migration!services,
      Migration!Procs
  <1>1. Migration!TypeOK'
    BY DEF MigrationInv, Migration!TypeOK, Migration!ApplySteps, Migration!RollbackSteps,
           Migration!LockedSteps
  <1>2. (Migration!FilesFollowPhase /\ Migration!CommittedStays /\ Migration!RestoredRuns)'
    BY DEF MigrationInv, PhaseInv, FilesInv, MigratedInv, ServiceInv, Unlocked, Restoring,
           Migrated, Migration!TypeOK, Migration!ApplySteps, Migration!RollbackSteps,
           Migration!LockedSteps, Migration!FilesFollowPhase, Migration!CommittedStays,
           Migration!RestoredRuns
  <1>3. (PhaseInv /\ FilesInv)'
    BY DEF MigrationInv, PhaseInv, FilesInv, Unlocked, Restoring, Migration!TypeOK,
           Migration!ApplySteps, Migration!LockedSteps, Migration!FilesFollowPhase,
           Migration!CommittedStays
  <1>4. (MigratedInv /\ StageInv /\ TimerInv)'
    BY DEF MigrationInv, PhaseInv, FilesInv, MigratedInv, StageInv, TimerInv, Unlocked,
           Restoring, Migrated, Migration!TypeOK, Migration!ApplySteps,
           Migration!LockedSteps
  <1>5. ServiceInv'
    BY DEF MigrationInv, PhaseInv, ServiceInv, Unlocked, Restoring, Migration!TypeOK,
           Migration!FilesFollowPhase, Migration!ApplySteps, Migration!LockedSteps
  <1> QED BY <1>1, <1>2, <1>3, <1>4, <1>5 DEF MigrationInv

\* The recovery service is enabled.
LEMMA MigrationEnableRecovery ==
  ASSUME MigrationInv, Migration!EnableRecovery
  PROVE  MigrationInv'
  <1> USE DEF Migration!EnableRecovery, Migration!Go, Migration!files, Migration!Procs
  <1>1. Migration!TypeOK'
    BY DEF MigrationInv, Migration!TypeOK, Migration!ApplySteps, Migration!RollbackSteps,
           Migration!LockedSteps
  <1>2. (Migration!FilesFollowPhase /\ Migration!CommittedStays /\ Migration!RestoredRuns)'
    BY DEF MigrationInv, PhaseInv, FilesInv, MigratedInv, ServiceInv, Unlocked, Restoring,
           Migrated, Migration!TypeOK, Migration!ApplySteps, Migration!RollbackSteps,
           Migration!LockedSteps, Migration!FilesFollowPhase, Migration!CommittedStays,
           Migration!RestoredRuns
  <1>3. (PhaseInv /\ FilesInv)'
    BY DEF MigrationInv, PhaseInv, FilesInv, Unlocked, Restoring, Migration!TypeOK,
           Migration!ApplySteps, Migration!LockedSteps, Migration!FilesFollowPhase,
           Migration!CommittedStays
  <1>4. (MigratedInv /\ StageInv /\ TimerInv)'
    BY DEF MigrationInv, PhaseInv, FilesInv, MigratedInv, StageInv, TimerInv, Unlocked,
           Restoring, Migrated, Migration!TypeOK, Migration!ApplySteps,
           Migration!LockedSteps
  <1>5. ServiceInv'
    BY DEF MigrationInv, PhaseInv, ServiceInv, Unlocked, Restoring, Migration!TypeOK,
           Migration!FilesFollowPhase, Migration!ApplySteps, Migration!LockedSteps
  <1> QED BY <1>1, <1>2, <1>3, <1>4, <1>5 DEF MigrationInv

\* The script reads the phase again before it commits.
LEMMA MigrationCommitLock ==
  ASSUME MigrationInv, Migration!CommitLock
  PROVE  MigrationInv'
  <1> USE DEF Migration!CommitLock, Migration!Go, Migration!files, Migration!services,
      Migration!Procs
  <1>1. Migration!TypeOK'
    BY DEF MigrationInv, Migration!TypeOK, Migration!ApplySteps, Migration!RollbackSteps,
           Migration!LockedSteps
  <1>2. (Migration!FilesFollowPhase /\ Migration!CommittedStays /\ Migration!RestoredRuns)'
    BY DEF MigrationInv, PhaseInv, FilesInv, MigratedInv, ServiceInv, Unlocked, Restoring,
           Migrated, Migration!TypeOK, Migration!ApplySteps, Migration!RollbackSteps,
           Migration!LockedSteps, Migration!FilesFollowPhase, Migration!CommittedStays,
           Migration!RestoredRuns
  <1>3. (PhaseInv /\ FilesInv)'
    BY DEF MigrationInv, PhaseInv, FilesInv, Unlocked, Restoring, Migration!TypeOK,
           Migration!ApplySteps, Migration!LockedSteps, Migration!FilesFollowPhase,
           Migration!CommittedStays
  <1>4. (MigratedInv /\ StageInv /\ TimerInv)'
    BY DEF MigrationInv, PhaseInv, FilesInv, MigratedInv, StageInv, TimerInv, Unlocked,
           Restoring, Migrated, Migration!TypeOK, Migration!ApplySteps,
           Migration!LockedSteps
  <1>5. ServiceInv'
    BY DEF MigrationInv, PhaseInv, ServiceInv, Unlocked, Restoring, Migration!TypeOK,
           Migration!FilesFollowPhase, Migration!ApplySteps, Migration!LockedSteps
  <1> QED BY <1>1, <1>2, <1>3, <1>4, <1>5 DEF MigrationInv

\* The commit is staged.
LEMMA MigrationCommitStage ==
  ASSUME MigrationInv, Migration!CommitStage
  PROVE  MigrationInv'
  <1> USE DEF Migration!CommitStage, Migration!Stage, Migration!StageRefused, Migration!Go,
      Migration!files, Migration!services, Migration!Procs
  <1>1. Migration!TypeOK'
    <2>1. migPc' \in [Migration!Procs -> Steps]
      BY DEF MigrationInv, Steps, Migration!TypeOK, Migration!ApplySteps,
             Migration!RollbackSteps
    <2>2. \A q \in Migration!Procs : lock' = q <=> migPc'[q] \in Migration!LockedSteps
      BY DEF MigrationInv, Migration!TypeOK, Migration!ApplySteps, Migration!LockedSteps
    <2>3. lock' \in Migration!Procs \cup {"nobody"}
      BY DEF MigrationInv, Migration!TypeOK
    <2>4. staged' \subseteq {"phase", "old"}
      BY DEF MigrationInv, Migration!TypeOK
    <2> QED BY <2>1, <2>2, <2>3, <2>4 DEF MigrationInv, Steps, Migration!TypeOK
  <1>2. (Migration!FilesFollowPhase /\ Migration!CommittedStays /\ Migration!RestoredRuns)'
    BY DEF MigrationInv, PhaseInv, FilesInv, MigratedInv, ServiceInv, Unlocked, Restoring,
           Migrated, Migration!TypeOK, Migration!ApplySteps, Migration!RollbackSteps,
           Migration!LockedSteps, Migration!FilesFollowPhase, Migration!CommittedStays,
           Migration!RestoredRuns
  <1>3. (PhaseInv /\ FilesInv)'
    BY DEF MigrationInv, PhaseInv, FilesInv, Unlocked, Restoring, Migration!TypeOK,
           Migration!ApplySteps, Migration!LockedSteps, Migration!FilesFollowPhase,
           Migration!CommittedStays
  <1>4. (MigratedInv /\ StageInv /\ TimerInv)'
    BY DEF MigrationInv, PhaseInv, FilesInv, MigratedInv, StageInv, TimerInv, Unlocked,
           Restoring, Migrated, Migration!TypeOK, Migration!ApplySteps,
           Migration!LockedSteps
  <1>5. ServiceInv'
    BY DEF MigrationInv, PhaseInv, ServiceInv, Unlocked, Restoring, Migration!TypeOK,
           Migration!FilesFollowPhase, Migration!ApplySteps, Migration!LockedSteps
  <1> QED BY <1>1, <1>2, <1>3, <1>4, <1>5 DEF MigrationInv

\* The commit: no rollback is past the lock, and the files are the migrated ones.
LEMMA MigrationCommitPut ==
  ASSUME MigrationInv, Migration!CommitPut
  PROVE  MigrationInv'
  <1> USE DEF Migration!CommitPut, Migration!Go, Migration!files, Migration!services,
      Migration!Procs
  <1>1. Migration!TypeOK'
    BY DEF MigrationInv, Migration!TypeOK, Migration!ApplySteps, Migration!RollbackSteps,
           Migration!LockedSteps
  <1>2. (Migration!FilesFollowPhase /\ Migration!CommittedStays /\ Migration!RestoredRuns)'
    BY DEF MigrationInv, PhaseInv, FilesInv, MigratedInv, ServiceInv, Unlocked, Restoring,
           Migrated, Migration!TypeOK, Migration!ApplySteps, Migration!RollbackSteps,
           Migration!LockedSteps, Migration!FilesFollowPhase, Migration!CommittedStays,
           Migration!RestoredRuns
  <1>3. (PhaseInv /\ FilesInv)'
    BY DEF MigrationInv, PhaseInv, FilesInv, Unlocked, Restoring, Migration!TypeOK,
           Migration!ApplySteps, Migration!LockedSteps, Migration!FilesFollowPhase,
           Migration!CommittedStays
  <1>4. (MigratedInv /\ StageInv /\ TimerInv)'
    BY DEF MigrationInv, PhaseInv, FilesInv, MigratedInv, StageInv, TimerInv, Unlocked,
           Restoring, Migrated, Migration!TypeOK, Migration!ApplySteps,
           Migration!LockedSteps
  <1>5. ServiceInv'
    BY DEF MigrationInv, PhaseInv, ServiceInv, Unlocked, Restoring, Migration!TypeOK,
           Migration!FilesFollowPhase, Migration!ApplySteps, Migration!LockedSteps
  <1> QED BY <1>1, <1>2, <1>3, <1>4, <1>5 DEF MigrationInv

\* The timer is stopped.
LEMMA MigrationStopTimer ==
  ASSUME MigrationInv, Migration!StopTimer
  PROVE  MigrationInv'
  <1> USE DEF Migration!StopTimer, Migration!Go, Migration!files, Migration!services,
      Migration!Procs
  <1>1. Migration!TypeOK'
    BY DEF MigrationInv, Migration!TypeOK, Migration!ApplySteps, Migration!RollbackSteps,
           Migration!LockedSteps
  <1>2. (Migration!FilesFollowPhase /\ Migration!CommittedStays /\ Migration!RestoredRuns)'
    BY DEF MigrationInv, PhaseInv, FilesInv, MigratedInv, ServiceInv, Unlocked, Restoring,
           Migrated, Migration!TypeOK, Migration!ApplySteps, Migration!RollbackSteps,
           Migration!LockedSteps, Migration!FilesFollowPhase, Migration!CommittedStays,
           Migration!RestoredRuns
  <1>3. (PhaseInv /\ FilesInv)'
    BY DEF MigrationInv, PhaseInv, FilesInv, Unlocked, Restoring, Migration!TypeOK,
           Migration!ApplySteps, Migration!LockedSteps, Migration!FilesFollowPhase,
           Migration!CommittedStays
  <1>4. (MigratedInv /\ StageInv /\ TimerInv)'
    BY DEF MigrationInv, PhaseInv, FilesInv, MigratedInv, StageInv, TimerInv, Unlocked,
           Restoring, Migrated, Migration!TypeOK, Migration!ApplySteps,
           Migration!LockedSteps
  <1>5. ServiceInv'
    BY DEF MigrationInv, PhaseInv, ServiceInv, Unlocked, Restoring, Migration!TypeOK,
           Migration!FilesFollowPhase, Migration!ApplySteps, Migration!LockedSteps
  <1> QED BY <1>1, <1>2, <1>3, <1>4, <1>5 DEF MigrationInv

\* The script fails and goes into its handler.
LEMMA MigrationApplyFails ==
  ASSUME MigrationInv, Migration!ApplyFails
  PROVE  MigrationInv'
  <1> USE DEF Migration!ApplyFails, Migration!files, Migration!services, Migration!Procs
  <1>1. Migration!TypeOK'
    BY DEF MigrationInv, Migration!TypeOK, Migration!ApplySteps, Migration!RollbackSteps,
           Migration!LockedSteps
  <1>2. (Migration!FilesFollowPhase /\ Migration!CommittedStays /\ Migration!RestoredRuns)'
    BY DEF MigrationInv, PhaseInv, FilesInv, MigratedInv, ServiceInv, Unlocked, Restoring,
           Migrated, Migration!TypeOK, Migration!ApplySteps, Migration!RollbackSteps,
           Migration!LockedSteps, Migration!FilesFollowPhase, Migration!CommittedStays,
           Migration!RestoredRuns
  <1>3. (PhaseInv /\ FilesInv)'
    BY DEF MigrationInv, PhaseInv, FilesInv, Unlocked, Restoring, Migration!TypeOK,
           Migration!ApplySteps, Migration!LockedSteps, Migration!FilesFollowPhase,
           Migration!CommittedStays
  <1>4. (MigratedInv /\ StageInv /\ TimerInv)'
    BY DEF MigrationInv, PhaseInv, FilesInv, MigratedInv, StageInv, TimerInv, Unlocked,
           Restoring, Migrated, Migration!TypeOK, Migration!ApplySteps,
           Migration!LockedSteps
  <1>5. ServiceInv'
    BY DEF MigrationInv, PhaseInv, ServiceInv, Unlocked, Restoring, Migration!TypeOK,
           Migration!FilesFollowPhase, Migration!ApplySteps, Migration!LockedSteps
  <1> QED BY <1>1, <1>2, <1>3, <1>4, <1>5 DEF MigrationInv

\* A rollback reads the phase under the lock.
LEMMA MigrationRollbackLock ==
  ASSUME MigrationInv, NEW p \in Migration!Procs, Migration!RollbackLock(p)
  PROVE  MigrationInv'
  <1> USE DEF Migration!RollbackLock, Migration!Go, Migration!files, Migration!services,
      Migration!Procs
  <1>1. Migration!TypeOK'
    BY DEF MigrationInv, Migration!TypeOK, Migration!ApplySteps, Migration!RollbackSteps,
           Migration!LockedSteps
  <1>2. (Migration!FilesFollowPhase /\ Migration!CommittedStays /\ Migration!RestoredRuns)'
    BY DEF MigrationInv, PhaseInv, FilesInv, MigratedInv, ServiceInv, Unlocked, Restoring,
           Migrated, Migration!TypeOK, Migration!ApplySteps, Migration!RollbackSteps,
           Migration!LockedSteps, Migration!FilesFollowPhase, Migration!CommittedStays,
           Migration!RestoredRuns
  <1>3. (PhaseInv /\ FilesInv)'
    BY DEF MigrationInv, PhaseInv, FilesInv, Unlocked, Restoring, Migration!TypeOK,
           Migration!ApplySteps, Migration!LockedSteps, Migration!FilesFollowPhase,
           Migration!CommittedStays
  <1>4. (MigratedInv /\ StageInv /\ TimerInv)'
    BY DEF MigrationInv, PhaseInv, FilesInv, MigratedInv, StageInv, TimerInv, Unlocked,
           Restoring, Migrated, Migration!TypeOK, Migration!ApplySteps,
           Migration!LockedSteps
  <1>5. ServiceInv'
    BY DEF MigrationInv, PhaseInv, ServiceInv, Unlocked, Restoring, Migration!TypeOK,
           Migration!FilesFollowPhase, Migration!ApplySteps, Migration!LockedSteps
  <1> QED BY <1>1, <1>2, <1>3, <1>4, <1>5 DEF MigrationInv

\* It stages the original profile ...
LEMMA MigrationRestoreOldStage ==
  ASSUME MigrationInv, NEW p \in Migration!Procs, Migration!RestoreOldStage(p)
  PROVE  MigrationInv'
  <1> USE DEF Migration!RestoreOldStage, Migration!Stage, Migration!StageRefused,
      Migration!Go, Migration!files, Migration!services, Migration!Procs
  <1>1. Migration!TypeOK'
    <2>1. migPc' \in [Migration!Procs -> Steps]
      BY DEF MigrationInv, Steps, Migration!TypeOK, Migration!ApplySteps,
             Migration!RollbackSteps
    <2>2. \A q \in Migration!Procs : lock' = q <=> migPc'[q] \in Migration!LockedSteps
      BY DEF MigrationInv, Migration!TypeOK, Migration!ApplySteps, Migration!LockedSteps
    <2>3. lock' \in Migration!Procs \cup {"nobody"}
      BY DEF MigrationInv, Migration!TypeOK
    <2>4. staged' \subseteq {"phase", "old"}
      BY DEF MigrationInv, Migration!TypeOK
    <2> QED BY <2>1, <2>2, <2>3, <2>4 DEF MigrationInv, Steps, Migration!TypeOK
  <1>2. (Migration!FilesFollowPhase /\ Migration!CommittedStays /\ Migration!RestoredRuns)'
    BY DEF MigrationInv, PhaseInv, FilesInv, MigratedInv, ServiceInv, Unlocked, Restoring,
           Migrated, Migration!TypeOK, Migration!ApplySteps, Migration!RollbackSteps,
           Migration!LockedSteps, Migration!FilesFollowPhase, Migration!CommittedStays,
           Migration!RestoredRuns
  <1>3. (PhaseInv /\ FilesInv)'
    BY DEF MigrationInv, PhaseInv, FilesInv, Unlocked, Restoring, Migration!TypeOK,
           Migration!ApplySteps, Migration!LockedSteps, Migration!FilesFollowPhase,
           Migration!CommittedStays
  <1>4. (MigratedInv /\ StageInv /\ TimerInv)'
    BY DEF MigrationInv, PhaseInv, FilesInv, MigratedInv, StageInv, TimerInv, Unlocked,
           Restoring, Migrated, Migration!TypeOK, Migration!ApplySteps,
           Migration!LockedSteps
  <1>5. ServiceInv'
    BY DEF MigrationInv, PhaseInv, ServiceInv, Unlocked, Restoring, Migration!TypeOK,
           Migration!FilesFollowPhase, Migration!ApplySteps, Migration!LockedSteps
  <1> QED BY <1>1, <1>2, <1>3, <1>4, <1>5 DEF MigrationInv

\* ... puts it in place ...
LEMMA MigrationRestoreOldPut ==
  ASSUME MigrationInv, NEW p \in Migration!Procs, Migration!RestoreOldPut(p)
  PROVE  MigrationInv'
  <1> USE DEF Migration!RestoreOldPut, Migration!Go, Migration!services, Migration!Procs
  <1>1. Migration!TypeOK'
    BY DEF MigrationInv, Migration!TypeOK, Migration!ApplySteps, Migration!RollbackSteps,
           Migration!LockedSteps
  <1>2. (Migration!FilesFollowPhase /\ Migration!CommittedStays /\ Migration!RestoredRuns)'
    BY DEF MigrationInv, PhaseInv, FilesInv, MigratedInv, ServiceInv, Unlocked, Restoring,
           Migrated, Migration!TypeOK, Migration!ApplySteps, Migration!RollbackSteps,
           Migration!LockedSteps, Migration!FilesFollowPhase, Migration!CommittedStays,
           Migration!RestoredRuns
  <1>3. (PhaseInv /\ FilesInv)'
    BY DEF MigrationInv, PhaseInv, FilesInv, Unlocked, Restoring, Migration!TypeOK,
           Migration!ApplySteps, Migration!LockedSteps, Migration!FilesFollowPhase,
           Migration!CommittedStays
  <1>4. (MigratedInv /\ StageInv /\ TimerInv)'
    BY DEF MigrationInv, PhaseInv, FilesInv, MigratedInv, StageInv, TimerInv, Unlocked,
           Restoring, Migrated, Migration!TypeOK, Migration!ApplySteps,
           Migration!LockedSteps
  <1>5. ServiceInv'
    BY DEF MigrationInv, PhaseInv, ServiceInv, Unlocked, Restoring, Migration!TypeOK,
           Migration!FilesFollowPhase, Migration!ApplySteps, Migration!LockedSteps
  <1> QED BY <1>1, <1>2, <1>3, <1>4, <1>5 DEF MigrationInv

\* ... and removes the new files.
LEMMA MigrationUnlinkNew ==
  ASSUME MigrationInv, NEW p \in Migration!Procs, Migration!UnlinkNew(p)
  PROVE  MigrationInv'
  <1> USE DEF Migration!UnlinkNew, Migration!Go, Migration!services, Migration!Procs
  <1>1. Migration!TypeOK'
    BY DEF MigrationInv, Migration!TypeOK, Migration!ApplySteps, Migration!RollbackSteps,
           Migration!LockedSteps
  <1>2. (Migration!FilesFollowPhase /\ Migration!CommittedStays /\ Migration!RestoredRuns)'
    BY DEF MigrationInv, PhaseInv, FilesInv, MigratedInv, ServiceInv, Unlocked, Restoring,
           Migrated, Migration!TypeOK, Migration!ApplySteps, Migration!RollbackSteps,
           Migration!LockedSteps, Migration!FilesFollowPhase, Migration!CommittedStays,
           Migration!RestoredRuns
  <1>3. (PhaseInv /\ FilesInv)'
    BY DEF MigrationInv, PhaseInv, FilesInv, Unlocked, Restoring, Migration!TypeOK,
           Migration!ApplySteps, Migration!LockedSteps, Migration!FilesFollowPhase,
           Migration!CommittedStays
  <1>4. (MigratedInv /\ StageInv /\ TimerInv)'
    BY DEF MigrationInv, PhaseInv, FilesInv, MigratedInv, StageInv, TimerInv, Unlocked,
           Restoring, Migrated, Migration!TypeOK, Migration!ApplySteps,
           Migration!LockedSteps
  <1>5. ServiceInv'
    BY DEF MigrationInv, PhaseInv, ServiceInv, Unlocked, Restoring, Migration!TypeOK,
           Migration!FilesFollowPhase, Migration!ApplySteps, Migration!LockedSteps
  <1> QED BY <1>1, <1>2, <1>3, <1>4, <1>5 DEF MigrationInv

\* Its phase is staged: only a script that cannot commit any more left one behind.
LEMMA MigrationRestoringStage ==
  ASSUME MigrationInv, NEW p \in Migration!Procs, Migration!RestoringStage(p)
  PROVE  MigrationInv'
  <1> USE DEF Migration!RestoringStage, Migration!Stage, Migration!StageRefused,
      Migration!Go, Migration!files, Migration!services, Migration!Procs
  <1>1. Migration!TypeOK'
    <2>1. migPc' \in [Migration!Procs -> Steps]
      BY DEF MigrationInv, Steps, Migration!TypeOK, Migration!ApplySteps,
             Migration!RollbackSteps
    <2>2. \A q \in Migration!Procs : lock' = q <=> migPc'[q] \in Migration!LockedSteps
      BY DEF MigrationInv, Migration!TypeOK, Migration!ApplySteps, Migration!LockedSteps
    <2>3. lock' \in Migration!Procs \cup {"nobody"}
      BY DEF MigrationInv, Migration!TypeOK
    <2>4. staged' \subseteq {"phase", "old"}
      BY DEF MigrationInv, Migration!TypeOK
    <2> QED BY <2>1, <2>2, <2>3, <2>4 DEF MigrationInv, Steps, Migration!TypeOK
  <1>2. (Migration!FilesFollowPhase /\ Migration!CommittedStays /\ Migration!RestoredRuns)'
    BY DEF MigrationInv, PhaseInv, FilesInv, MigratedInv, ServiceInv, Unlocked, Restoring,
           Migrated, Migration!TypeOK, Migration!ApplySteps, Migration!RollbackSteps,
           Migration!LockedSteps, Migration!FilesFollowPhase, Migration!CommittedStays,
           Migration!RestoredRuns
  <1>3. (PhaseInv /\ FilesInv)'
    BY DEF MigrationInv, PhaseInv, FilesInv, Unlocked, Restoring, Migration!TypeOK,
           Migration!ApplySteps, Migration!LockedSteps, Migration!FilesFollowPhase,
           Migration!CommittedStays
  <1>4. (MigratedInv /\ StageInv /\ TimerInv)'
    BY DEF MigrationInv, PhaseInv, FilesInv, MigratedInv, StageInv, TimerInv, Unlocked,
           Restoring, Migrated, Migration!TypeOK, Migration!ApplySteps,
           Migration!LockedSteps
  <1>5. ServiceInv'
    BY DEF MigrationInv, PhaseInv, ServiceInv, Unlocked, Restoring, Migration!TypeOK,
           Migration!FilesFollowPhase, Migration!ApplySteps, Migration!LockedSteps
  <1> QED BY <1>1, <1>2, <1>3, <1>4, <1>5 DEF MigrationInv

\* It names its phase and releases the lock.
LEMMA MigrationRestoringPut ==
  ASSUME MigrationInv, NEW p \in Migration!Procs, Migration!RestoringPut(p)
  PROVE  MigrationInv'
  <1> USE DEF Migration!RestoringPut, Migration!Go, Migration!files, Migration!services,
      Migration!Procs
  <1>1. Migration!TypeOK'
    BY DEF MigrationInv, Migration!TypeOK, Migration!ApplySteps, Migration!RollbackSteps,
           Migration!LockedSteps
  <1>2. (Migration!FilesFollowPhase /\ Migration!CommittedStays /\ Migration!RestoredRuns)'
    BY DEF MigrationInv, PhaseInv, FilesInv, MigratedInv, ServiceInv, Unlocked, Restoring,
           Migrated, Migration!TypeOK, Migration!ApplySteps, Migration!RollbackSteps,
           Migration!LockedSteps, Migration!FilesFollowPhase, Migration!CommittedStays,
           Migration!RestoredRuns
  <1>3. (PhaseInv /\ FilesInv)'
    BY DEF MigrationInv, PhaseInv, FilesInv, Unlocked, Restoring, Migration!TypeOK,
           Migration!ApplySteps, Migration!LockedSteps, Migration!FilesFollowPhase,
           Migration!CommittedStays
  <1>4. (MigratedInv /\ StageInv /\ TimerInv)'
    BY DEF MigrationInv, PhaseInv, FilesInv, MigratedInv, StageInv, TimerInv, Unlocked,
           Restoring, Migrated, Migration!TypeOK, Migration!ApplySteps,
           Migration!LockedSteps
  <1>5. ServiceInv'
    BY DEF MigrationInv, PhaseInv, ServiceInv, Unlocked, Restoring, Migration!TypeOK,
           Migration!FilesFollowPhase, Migration!ApplySteps, Migration!LockedSteps
  <1> QED BY <1>1, <1>2, <1>3, <1>4, <1>5 DEF MigrationInv

\* The recovery service is disabled.
LEMMA MigrationDisableRecovery ==
  ASSUME MigrationInv, NEW p \in Migration!Procs, Migration!DisableRecovery(p)
  PROVE  MigrationInv'
  <1> USE DEF Migration!DisableRecovery, Migration!Go, Migration!files, Migration!Procs
  <1>1. Migration!TypeOK'
    <2>1. Migration!TypeOK /\ migPc[p] = "rbDisable" /\ migPc' = [migPc EXCEPT ![p] = "rbReload"]
      BY DEF MigrationInv
    <2>2. /\ migPc' \in [Migration!Procs -> Migration!ApplySteps \cup Migration!RollbackSteps
                                              \cup {"off", "end", "failed", "killed"}]
          /\ \A q \in Migration!Procs : migPc'[q] \in Migration!LockedSteps <=> migPc[q] \in Migration!LockedSteps
      BY <2>1 DEF Migration!TypeOK, Migration!RollbackSteps, Migration!LockedSteps
    <2> QED BY <2>1, <2>2, ZenonT(30) DEF Migration!TypeOK
  <1>2. (Migration!FilesFollowPhase /\ Migration!CommittedStays /\ Migration!RestoredRuns)'
    BY DEF MigrationInv, PhaseInv, FilesInv, MigratedInv, ServiceInv, Unlocked, Restoring,
           Migrated, Migration!TypeOK, Migration!ApplySteps, Migration!RollbackSteps,
           Migration!LockedSteps, Migration!FilesFollowPhase, Migration!CommittedStays,
           Migration!RestoredRuns
  <1>3. (PhaseInv /\ FilesInv)'
    BY DEF MigrationInv, PhaseInv, FilesInv, Unlocked, Restoring, Migration!TypeOK,
           Migration!ApplySteps, Migration!LockedSteps, Migration!FilesFollowPhase,
           Migration!CommittedStays
  <1>4. (MigratedInv /\ StageInv /\ TimerInv)'
    BY DEF MigrationInv, PhaseInv, FilesInv, MigratedInv, StageInv, TimerInv, Unlocked,
           Restoring, Migrated, Migration!TypeOK, Migration!ApplySteps,
           Migration!LockedSteps
  <1>5. ServiceInv'
    BY DEF MigrationInv, PhaseInv, ServiceInv, Unlocked, Restoring, Migration!TypeOK,
           Migration!FilesFollowPhase, Migration!ApplySteps, Migration!LockedSteps
  <1> QED BY <1>1, <1>2, <1>3, <1>4, <1>5 DEF MigrationInv

\* A rollback reloads systemd: the override is gone for good.
LEMMA MigrationRollbackReload ==
  ASSUME MigrationInv, NEW p \in Migration!Procs, Migration!Reload(p, "rbReload", "rbRestart")
  PROVE  MigrationInv'
  <1> USE DEF Migration!Reload, Migration!Go, Migration!files, Migration!Procs
  <1>1. Migration!TypeOK'
    BY DEF MigrationInv, Migration!TypeOK, Migration!ApplySteps, Migration!RollbackSteps,
           Migration!LockedSteps
  <1>2. (Migration!FilesFollowPhase /\ Migration!CommittedStays /\ Migration!RestoredRuns)'
    BY DEF MigrationInv, PhaseInv, FilesInv, MigratedInv, ServiceInv, Unlocked, Restoring,
           Migrated, Migration!TypeOK, Migration!ApplySteps, Migration!RollbackSteps,
           Migration!LockedSteps, Migration!FilesFollowPhase, Migration!CommittedStays,
           Migration!RestoredRuns
  <1>3. (PhaseInv /\ FilesInv)'
    BY DEF MigrationInv, PhaseInv, FilesInv, Unlocked, Restoring, Migration!TypeOK,
           Migration!ApplySteps, Migration!LockedSteps, Migration!FilesFollowPhase,
           Migration!CommittedStays
  <1>4. (MigratedInv /\ StageInv /\ TimerInv)'
    BY DEF MigrationInv, PhaseInv, FilesInv, MigratedInv, StageInv, TimerInv, Unlocked,
           Restoring, Migrated, Migration!TypeOK, Migration!ApplySteps,
           Migration!LockedSteps
  <1>5. ServiceInv'
    BY DEF MigrationInv, PhaseInv, ServiceInv, Unlocked, Restoring, Migration!TypeOK,
           Migration!FilesFollowPhase, Migration!ApplySteps, Migration!LockedSteps
  <1> QED BY <1>1, <1>2, <1>3, <1>4, <1>5 DEF MigrationInv

\* It restarts the service, on the original profile.
LEMMA MigrationRollbackRestart ==
  ASSUME MigrationInv, NEW p \in Migration!Procs, Migration!Restart(p, "rbRestart", "rbDoneStage")
  PROVE  MigrationInv'
  <1> USE DEF Migration!Restart, Migration!Go, Migration!files, Migration!Procs
  <1>1. Migration!TypeOK'
    BY DEF MigrationInv, Migration!TypeOK, Migration!ApplySteps, Migration!RollbackSteps,
           Migration!LockedSteps
  <1>2. (Migration!FilesFollowPhase /\ Migration!CommittedStays /\ Migration!RestoredRuns)'
    BY DEF MigrationInv, PhaseInv, FilesInv, MigratedInv, ServiceInv, Unlocked, Restoring,
           Migrated, Migration!TypeOK, Migration!ApplySteps, Migration!RollbackSteps,
           Migration!LockedSteps, Migration!FilesFollowPhase, Migration!CommittedStays,
           Migration!RestoredRuns
  <1>3. (PhaseInv /\ FilesInv)'
    BY DEF MigrationInv, PhaseInv, FilesInv, Unlocked, Restoring, Migration!TypeOK,
           Migration!ApplySteps, Migration!LockedSteps, Migration!FilesFollowPhase,
           Migration!CommittedStays
  <1>4. (MigratedInv /\ StageInv /\ TimerInv)'
    BY DEF MigrationInv, PhaseInv, FilesInv, MigratedInv, StageInv, TimerInv, Unlocked,
           Restoring, Migrated, Migration!TypeOK, Migration!ApplySteps,
           Migration!LockedSteps
  <1>5. ServiceInv'
    BY DEF MigrationInv, PhaseInv, ServiceInv, Unlocked, Restoring, Migration!TypeOK,
           Migration!FilesFollowPhase, Migration!ApplySteps, Migration!LockedSteps
  <1> QED BY <1>1, <1>2, <1>3, <1>4, <1>5 DEF MigrationInv

\* The end of the rollback is staged ...
LEMMA MigrationRestoredStage ==
  ASSUME MigrationInv, NEW p \in Migration!Procs, Migration!RestoredStage(p)
  PROVE  MigrationInv'
  <1> USE DEF Migration!RestoredStage, Migration!Stage, Migration!StageRefused,
      Migration!Go, Migration!files, Migration!services, Migration!Procs
  <1>1. Migration!TypeOK'
    <2>1. migPc' \in [Migration!Procs -> Steps]
      BY DEF MigrationInv, Steps, Migration!TypeOK, Migration!ApplySteps,
             Migration!RollbackSteps
    <2>2. \A q \in Migration!Procs : lock' = q <=> migPc'[q] \in Migration!LockedSteps
      BY DEF MigrationInv, Migration!TypeOK, Migration!ApplySteps, Migration!LockedSteps
    <2>3. lock' \in Migration!Procs \cup {"nobody"}
      BY DEF MigrationInv, Migration!TypeOK
    <2>4. staged' \subseteq {"phase", "old"}
      BY DEF MigrationInv, Migration!TypeOK
    <2> QED BY <2>1, <2>2, <2>3, <2>4 DEF MigrationInv, Steps, Migration!TypeOK
  <1>2. (Migration!FilesFollowPhase /\ Migration!CommittedStays /\ Migration!RestoredRuns)'
    BY DEF MigrationInv, PhaseInv, FilesInv, MigratedInv, ServiceInv, Unlocked, Restoring,
           Migrated, Migration!TypeOK, Migration!ApplySteps, Migration!RollbackSteps,
           Migration!LockedSteps, Migration!FilesFollowPhase, Migration!CommittedStays,
           Migration!RestoredRuns
  <1>3. (PhaseInv /\ FilesInv)'
    BY DEF MigrationInv, PhaseInv, FilesInv, Unlocked, Restoring, Migration!TypeOK,
           Migration!ApplySteps, Migration!LockedSteps, Migration!FilesFollowPhase,
           Migration!CommittedStays
  <1>4. (MigratedInv /\ StageInv /\ TimerInv)'
    BY DEF MigrationInv, PhaseInv, FilesInv, MigratedInv, StageInv, TimerInv, Unlocked,
           Restoring, Migrated, Migration!TypeOK, Migration!ApplySteps,
           Migration!LockedSteps
  <1>5. ServiceInv'
    BY DEF MigrationInv, PhaseInv, ServiceInv, Unlocked, Restoring, Migration!TypeOK,
           Migration!FilesFollowPhase, Migration!ApplySteps, Migration!LockedSteps
  <1> QED BY <1>1, <1>2, <1>3, <1>4, <1>5 DEF MigrationInv

\* ... and named.
LEMMA MigrationRestoredPut ==
  ASSUME MigrationInv, NEW p \in Migration!Procs, Migration!RestoredPut(p)
  PROVE  MigrationInv'
  <1> USE DEF Migration!RestoredPut, Migration!Go, Migration!files, Migration!services,
      Migration!Procs
  <1>1. Migration!TypeOK'
    BY DEF MigrationInv, Migration!TypeOK, Migration!ApplySteps, Migration!RollbackSteps,
           Migration!LockedSteps
  <1>2. (Migration!FilesFollowPhase /\ Migration!CommittedStays /\ Migration!RestoredRuns)'
    BY DEF MigrationInv, PhaseInv, FilesInv, MigratedInv, ServiceInv, Unlocked, Restoring,
           Migrated, Migration!TypeOK, Migration!ApplySteps, Migration!RollbackSteps,
           Migration!LockedSteps, Migration!FilesFollowPhase, Migration!CommittedStays,
           Migration!RestoredRuns
  <1>3. (PhaseInv /\ FilesInv)'
    BY DEF MigrationInv, PhaseInv, FilesInv, Unlocked, Restoring, Migration!TypeOK,
           Migration!ApplySteps, Migration!LockedSteps, Migration!FilesFollowPhase,
           Migration!CommittedStays
  <1>4. (MigratedInv /\ StageInv /\ TimerInv)'
    BY DEF MigrationInv, PhaseInv, FilesInv, MigratedInv, StageInv, TimerInv, Unlocked,
           Restoring, Migrated, Migration!TypeOK, Migration!ApplySteps,
           Migration!LockedSteps
  <1>5. ServiceInv'
    BY DEF MigrationInv, PhaseInv, ServiceInv, Unlocked, Restoring, Migration!TypeOK,
           Migration!FilesFollowPhase, Migration!ApplySteps, Migration!LockedSteps
  <1> QED BY <1>1, <1>2, <1>3, <1>4, <1>5 DEF MigrationInv

\* A command of the rollback fails.
LEMMA MigrationRollbackFails ==
  ASSUME MigrationInv, NEW p \in Migration!Procs, Migration!RollbackFails(p)
  PROVE  MigrationInv'
  <1> USE DEF Migration!RollbackFails, Migration!files, Migration!services, Migration!Procs
  <1>1. Migration!TypeOK'
    BY DEF MigrationInv, Migration!TypeOK, Migration!ApplySteps, Migration!RollbackSteps,
           Migration!LockedSteps
  <1>2. (Migration!FilesFollowPhase /\ Migration!CommittedStays /\ Migration!RestoredRuns)'
    BY DEF MigrationInv, PhaseInv, FilesInv, MigratedInv, ServiceInv, Unlocked, Restoring,
           Migrated, Migration!TypeOK, Migration!ApplySteps, Migration!RollbackSteps,
           Migration!LockedSteps, Migration!FilesFollowPhase, Migration!CommittedStays,
           Migration!RestoredRuns
  <1>3. (PhaseInv /\ FilesInv)'
    BY DEF MigrationInv, PhaseInv, FilesInv, Unlocked, Restoring, Migration!TypeOK,
           Migration!ApplySteps, Migration!LockedSteps, Migration!FilesFollowPhase,
           Migration!CommittedStays
  <1>4. (MigratedInv /\ StageInv /\ TimerInv)'
    BY DEF MigrationInv, PhaseInv, FilesInv, MigratedInv, StageInv, TimerInv, Unlocked,
           Restoring, Migrated, Migration!TypeOK, Migration!ApplySteps,
           Migration!LockedSteps
  <1>5. ServiceInv'
    BY DEF MigrationInv, PhaseInv, ServiceInv, Unlocked, Restoring, Migration!TypeOK,
           Migration!FilesFollowPhase, Migration!ApplySteps, Migration!LockedSteps
  <1> QED BY <1>1, <1>2, <1>3, <1>4, <1>5 DEF MigrationInv

\* The timer starts its rollback.
LEMMA MigrationTimerFires ==
  ASSUME MigrationInv, Migration!TimerFires
  PROVE  MigrationInv'
  <1> USE DEF Migration!TimerFires, Migration!files, Migration!services, Migration!Working,
      Migration!Procs
  <1>1. Migration!TypeOK'
    BY DEF MigrationInv, TimerInv, Migration!TypeOK, Migration!ApplySteps,
           Migration!RollbackSteps, Migration!LockedSteps
  <1>2. (Migration!FilesFollowPhase /\ Migration!CommittedStays /\ Migration!RestoredRuns)'
    BY DEF MigrationInv, PhaseInv, FilesInv, MigratedInv, ServiceInv, Unlocked, Restoring,
           Migrated, Migration!TypeOK, Migration!ApplySteps, Migration!RollbackSteps,
           Migration!LockedSteps, Migration!FilesFollowPhase, Migration!CommittedStays,
           Migration!RestoredRuns
  <1>3. (PhaseInv /\ FilesInv)'
    BY DEF MigrationInv, PhaseInv, FilesInv, Unlocked, Restoring, Migration!TypeOK,
           Migration!ApplySteps, Migration!LockedSteps, Migration!FilesFollowPhase,
           Migration!CommittedStays
  <1>4. (MigratedInv /\ StageInv /\ TimerInv)'
    BY DEF MigrationInv, PhaseInv, FilesInv, MigratedInv, StageInv, TimerInv, Unlocked,
           Restoring, Migrated, Migration!TypeOK, Migration!ApplySteps,
           Migration!LockedSteps
  <1>5. ServiceInv'
    BY DEF MigrationInv, PhaseInv, ServiceInv, Unlocked, Restoring, Migration!TypeOK,
           Migration!FilesFollowPhase, Migration!ApplySteps, Migration!LockedSteps
  <1> QED BY <1>1, <1>2, <1>3, <1>4, <1>5 DEF MigrationInv

\* The script is killed.
LEMMA MigrationKill ==
  ASSUME MigrationInv, Migration!Kill
  PROVE  MigrationInv'
  <1> USE DEF Migration!Kill, Migration!files, Migration!services, Migration!Working,
      Migration!Procs
  <1>1. Migration!TypeOK'
    BY DEF MigrationInv, Migration!TypeOK, Migration!ApplySteps, Migration!RollbackSteps,
           Migration!LockedSteps
  <1>2. (Migration!FilesFollowPhase /\ Migration!CommittedStays /\ Migration!RestoredRuns)'
    BY DEF MigrationInv, PhaseInv, FilesInv, MigratedInv, ServiceInv, Unlocked, Restoring,
           Migrated, Migration!TypeOK, Migration!ApplySteps, Migration!RollbackSteps,
           Migration!LockedSteps, Migration!FilesFollowPhase, Migration!CommittedStays,
           Migration!RestoredRuns
  <1>3. (PhaseInv /\ FilesInv)'
    BY DEF MigrationInv, PhaseInv, FilesInv, Unlocked, Restoring, Migration!TypeOK,
           Migration!ApplySteps, Migration!LockedSteps, Migration!FilesFollowPhase,
           Migration!CommittedStays
  <1>4. (MigratedInv /\ StageInv /\ TimerInv)'
    BY DEF MigrationInv, PhaseInv, FilesInv, MigratedInv, StageInv, TimerInv, Unlocked,
           Restoring, Migrated, Migration!TypeOK, Migration!ApplySteps,
           Migration!LockedSteps
  <1>5. ServiceInv'
    BY DEF MigrationInv, PhaseInv, ServiceInv, Unlocked, Restoring, Migration!TypeOK,
           Migration!FilesFollowPhase, Migration!ApplySteps, Migration!LockedSteps
  <1> QED BY <1>1, <1>2, <1>3, <1>4, <1>5 DEF MigrationInv

\* The script starts with the board as it is.
LEMMA MigrationInit == Init => MigrationInv
  <1> SUFFICES ASSUME Init PROVE MigrationInv
    OBVIOUS
  <1>1. Migration!Init
    BY DEF Init
  <1>2. Migration!TypeOK
    BY <1>1 DEF Migration!Init, Migration!TypeOK, Migration!Procs, Migration!ApplySteps,
                Migration!LockedSteps
  <1> QED BY <1>1, <1>2 DEF Migration!Init, MigrationInv, Migration!Procs, PhaseInv, FilesInv,
                            MigratedInv, StageInv, ServiceInv, TimerInv, Unlocked, Migrated,
                            Migration!FilesFollowPhase, Migration!CommittedStays,
                            Migration!RestoredRuns

\* Every step of the script, of either rollback, of the timer and of whoever
\* kills the script keeps the invariant.
LEMMA MigrationNext ==
  ASSUME MigrationInv, Migration!Next
  PROVE  MigrationInv'
  <1>1. CASE Migration!Apply
    BY <1>1, MigrationArm, MigrationApplyLock, MigrationPutNew, MigrationUnlinkOld,
       MigrationPutOverride, MigrationCheck, MigrationApplyReload, MigrationApplyRestart,
       MigrationProbe, MigrationEnableRecovery, MigrationCommitLock, MigrationCommitStage,
       MigrationCommitPut, MigrationStopTimer, MigrationApplyFails DEF Migration!Apply
  <1>2. ASSUME NEW p \in Migration!Procs, Migration!Rollback(p)
        PROVE  MigrationInv'
    BY <1>2, MigrationRollbackLock, MigrationRestoreOldStage, MigrationRestoreOldPut,
       MigrationUnlinkNew, MigrationRestoringStage, MigrationRestoringPut,
       MigrationDisableRecovery, MigrationRollbackReload, MigrationRollbackRestart,
       MigrationRestoredStage, MigrationRestoredPut, MigrationRollbackFails DEF
       Migration!Rollback
  <1> QED BY <1>1, <1>2, MigrationTimerFires, MigrationKill DEF Migration!Next

\* A step of the migration whose script is killed only outside put(), and
\* whose commands do not fail, is one of the migration where all may happen.
LEMMA KilledIsMigration == KilledMigration!Next => Migration!Next
  <1> USE DEF KilledMigration!Go, Migration!Go, KilledMigration!files, Migration!files,
              KilledMigration!services, Migration!services
  <1>1. KilledMigration!Reload("apply", "reload", "restart") =>
          Migration!Reload("apply", "reload", "restart")
    BY DEF KilledMigration!Reload, Migration!Reload
  <1>2. KilledMigration!Restart("apply", "restart", "probe") =>
          Migration!Restart("apply", "restart", "probe")
    BY DEF KilledMigration!Restart, Migration!Restart
  <1>3. KilledMigration!Arm => Migration!Arm
    BY DEF KilledMigration!Arm, Migration!Arm
  <1>4. KilledMigration!ApplyLock => Migration!ApplyLock
    BY DEF KilledMigration!ApplyLock, Migration!ApplyLock
  <1>5. KilledMigration!PutNew => Migration!PutNew
    BY DEF KilledMigration!PutNew, Migration!PutNew
  <1>6. KilledMigration!UnlinkOld => Migration!UnlinkOld
    BY DEF KilledMigration!UnlinkOld, Migration!UnlinkOld
  <1>7. KilledMigration!PutOverride => Migration!PutOverride
    BY DEF KilledMigration!PutOverride, Migration!PutOverride
  <1>8. KilledMigration!Check => Migration!Check
    BY DEF KilledMigration!Check, Migration!Check
  <1>9. KilledMigration!Probe => Migration!Probe
    BY DEF KilledMigration!Probe, Migration!Probe
  <1>10. KilledMigration!EnableRecovery => Migration!EnableRecovery
    BY DEF KilledMigration!EnableRecovery, Migration!EnableRecovery
  <1>11. KilledMigration!CommitLock => Migration!CommitLock
    BY DEF KilledMigration!CommitLock, Migration!CommitLock
  <1>12. KilledMigration!CommitStage => Migration!CommitStage
    BY DEF KilledMigration!CommitStage, Migration!CommitStage, KilledMigration!Stage,
           Migration!Stage, KilledMigration!StageRefused, Migration!StageRefused,
           KilledMigration!ApplySteps, Migration!ApplySteps
  <1>13. KilledMigration!CommitPut => Migration!CommitPut
    BY DEF KilledMigration!CommitPut, Migration!CommitPut
  <1>14. KilledMigration!StopTimer => Migration!StopTimer
    BY DEF KilledMigration!StopTimer, Migration!StopTimer
  <1>15. KilledMigration!ApplyFails => Migration!ApplyFails
    BY DEF KilledMigration!ApplyFails, Migration!ApplyFails, KilledMigration!ApplySteps,
           Migration!ApplySteps
  <1>16. KilledMigration!Apply => Migration!Apply
    BY <1>1, <1>2, <1>3, <1>4, <1>5, <1>6, <1>7, <1>8, <1>9, <1>10, <1>11, <1>12, <1>13,
       <1>14, <1>15 DEF KilledMigration!Apply, Migration!Apply
  <1>17. ASSUME NEW p \in Migration!Procs, KilledMigration!Rollback(p)
         PROVE  Migration!Rollback(p)
    <2>1. KilledMigration!Reload(p, "rbReload", "rbRestart") =>
            Migration!Reload(p, "rbReload", "rbRestart")
      BY DEF KilledMigration!Reload, Migration!Reload
    <2>2. KilledMigration!Restart(p, "rbRestart", "rbDoneStage") =>
            Migration!Restart(p, "rbRestart", "rbDoneStage")
      BY DEF KilledMigration!Restart, Migration!Restart
    <2>3. KilledMigration!RollbackLock(p) => Migration!RollbackLock(p)
      BY DEF KilledMigration!RollbackLock, Migration!RollbackLock
    <2>4. KilledMigration!RestoreOldStage(p) => Migration!RestoreOldStage(p)
      BY DEF KilledMigration!RestoreOldStage, Migration!RestoreOldStage,
             KilledMigration!Stage, Migration!Stage, KilledMigration!StageRefused,
             Migration!StageRefused, KilledMigration!ApplySteps, Migration!ApplySteps
    <2>5. KilledMigration!RestoreOldPut(p) => Migration!RestoreOldPut(p)
      BY DEF KilledMigration!RestoreOldPut, Migration!RestoreOldPut
    <2>6. KilledMigration!UnlinkNew(p) => Migration!UnlinkNew(p)
      BY DEF KilledMigration!UnlinkNew, Migration!UnlinkNew
    <2>7. KilledMigration!RestoringStage(p) => Migration!RestoringStage(p)
      BY DEF KilledMigration!RestoringStage, Migration!RestoringStage,
             KilledMigration!Stage, Migration!Stage, KilledMigration!StageRefused,
             Migration!StageRefused, KilledMigration!ApplySteps, Migration!ApplySteps
    <2>8. KilledMigration!RestoringPut(p) => Migration!RestoringPut(p)
      BY DEF KilledMigration!RestoringPut, Migration!RestoringPut
    <2>9. KilledMigration!DisableRecovery(p) => Migration!DisableRecovery(p)
      BY DEF KilledMigration!DisableRecovery, Migration!DisableRecovery
    <2>10. KilledMigration!RestoredStage(p) => Migration!RestoredStage(p)
      BY DEF KilledMigration!RestoredStage, Migration!RestoredStage, KilledMigration!Stage,
             Migration!Stage, KilledMigration!StageRefused, Migration!StageRefused,
             KilledMigration!ApplySteps, Migration!ApplySteps
    <2>11. KilledMigration!RestoredPut(p) => Migration!RestoredPut(p)
      BY DEF KilledMigration!RestoredPut, Migration!RestoredPut
    <2>12. KilledMigration!RollbackFails(p) => Migration!RollbackFails(p)
      BY DEF KilledMigration!RollbackFails, Migration!RollbackFails
    <2> QED BY <1>17, <2>1, <2>2, <2>3, <2>4, <2>5, <2>6, <2>7, <2>8, <2>9, <2>10, <2>11,
          <2>12 DEF KilledMigration!Rollback, Migration!Rollback
  <1>18. KilledMigration!TimerFires => Migration!TimerFires
    BY DEF KilledMigration!TimerFires, Migration!TimerFires
  <1>19. KilledMigration!Kill => Migration!Kill
    BY DEF KilledMigration!Kill, Migration!Kill, KilledMigration!Working, Migration!Working
  <1> QED BY <1>16, <1>17, <1>18, <1>19 DEF KilledMigration!Next, Migration!Next,
                                        KilledMigration!Procs, Migration!Procs

\* The invariant is about the migration's variables only.
LEMMA MigrationQuiet ==
  ASSUME MigrationInv, UNCHANGED migration
  PROVE  MigrationInv'
  BY DEF MigrationInv, migration, Migration!TypeOK, Migration!FilesFollowPhase,
         Migration!CommittedStays, Migration!RestoredRuns, PhaseInv, FilesInv, MigratedInv,
         StageInv, ServiceInv, TimerInv

\* Wherever the script or a rollback is killed, fails or is overtaken by the
\* other: a rollback that has named its phase has put the original profile in
\* place for good, a commit and a rollback never both happen, and "restored"
\* means that the service runs the original profile.
THEOREM MigrationCorrect == LiveSpec => []MigrationSafe
  <1>1. MigrationInv /\ [Next]_vars => MigrationInv'
    <2> SUFFICES ASSUME MigrationInv, [Next]_vars PROVE MigrationInv'
      OBVIOUS
    <2>1. CASE MigrationStep
      BY <2>1, MigrationNext DEF MigrationStep
    <2>2. CASE KilledMigrationStep
      BY <2>2, KilledIsMigration, MigrationNext DEF KilledMigrationStep
    <2>3. CASE UNCHANGED migration
      BY <2>3, MigrationQuiet
    <2>4. MigrationStep \/ KilledMigrationStep \/ UNCHANGED migration
      BY DEF Next, vars, FileCallStep, AdminCallStep, ProcessStep, PagingStep, BindingStep,
             WindowStep, SearchStep
    <2> QED BY <2>1, <2>2, <2>3, <2>4
  <1>2. MigrationInv => MigrationSafe
    BY DEF MigrationInv, MigrationSafe
  <1> QED BY <1>1, <1>2, MigrationInit, PTL DEF LiveSpec

-----------------------------------------------------------------------------
(* The proof for a call *)

\* What is assumed of its constants.
LEMMA CallAssumed ==
  /\ Cap \in Nat \ {0} /\ Addresses \in Nat \ {0} /\ ConnectTimeout \in Nat \ {0}
  /\ {HeaderMax, FileMax, FileReplyMax, AdminReplyMax} \subseteq Nat
  /\ FileRequests \subseteq AnyRequest /\ AdminRequests \subseteq AnyRequest
  BY LiveAssumption DEF LiveAssumption, FileCall!ExchangeAssumption,
       AdminCall!ExchangeAssumption, AnyRequest

\* The sizes of a request are numbers.
LEMMA RequestSizes ==
  ASSUME CallTypes
  PROVE  /\ req.header \in Nat \ {0} /\ req.payload \in Nat /\ req.body \in Nat
         /\ Asked \in Nat /\ Answer \in Nat \ {0}
  BY DEF CallTypes, AnyRequest, Asked, Answer

\* connect_to takes the next address.
LEMMA CallTryAddress ==
  ASSUME NEW m \in Nat, CallInv, AnyCall(m)!TryAddress
  PROVE  CallInv'
  <1> USE RequestSizes, CallAssumed
          DEF AnyCall!TryAddress, AnyCall!request, AnyCall!answer, AnyCall!network, CallInv
  <1>1. CallTypes'
    BY DEF CallTypes, CallPromises, ConnectInv, CallerInv, ServerInv, Asked, Answer, Ended
  <1>2. CallPromises'
    BY DEF CallTypes, CallPromises, ConnectInv, CallerInv, ServerInv, ClosedInv, Excused,
           Asked, Answer, Ended
  <1>3. ConnectInv' /\ CallerInv'
    BY DEF CallTypes, ConnectInv, CallerInv, ServerInv, Asked, Answer, Ended
  <1>4. ServerInv'
    BY DEF CallTypes, ConnectInv, CallerInv, ServerInv, Asked, Answer, Ended
  <1>5. ClosedInv'
    BY DEF CallTypes, ConnectInv, CallerInv, ServerInv, ClosedInv, Excused, Asked, Answer,
           Ended
  <1> QED BY <1>1, <1>2, <1>3, <1>4, <1>5 DEF CallInv

\* An attempt fails, after at most the time that remains.
LEMMA CallAttemptFails ==
  ASSUME NEW m \in Nat, CallInv, AnyCall(m)!AttemptFails
  PROVE  CallInv'
  <1> USE RequestSizes, CallAssumed
          DEF AnyCall!AttemptFails, AnyCall!Remaining, AnyCall!request, AnyCall!answer, AnyCall!network, CallInv
  <1>1. CallTypes'
    BY DEF CallTypes, CallPromises, ConnectInv, CallerInv, ServerInv, Asked, Answer, Ended
  <1>2. CallPromises'
    BY DEF CallTypes, CallPromises, ConnectInv, CallerInv, ServerInv, ClosedInv, Excused,
           Asked, Answer, Ended
  <1>3. ConnectInv' /\ CallerInv'
    BY DEF CallTypes, ConnectInv, CallerInv, ServerInv, Asked, Answer, Ended
  <1>4. ServerInv'
    BY DEF CallTypes, ConnectInv, CallerInv, ServerInv, Asked, Answer, Ended
  <1>5. ClosedInv'
    BY DEF CallTypes, ConnectInv, CallerInv, ServerInv, ClosedInv, Excused, Asked, Answer,
           Ended
  <1> QED BY <1>1, <1>2, <1>3, <1>4, <1>5 DEF CallInv

\* An attempt succeeds, within the time that remains.
LEMMA CallConnected ==
  ASSUME NEW m \in Nat, CallInv, AnyCall(m)!Connected
  PROVE  CallInv'
  <1> USE RequestSizes, CallAssumed
          DEF AnyCall!Connected, AnyCall!Remaining, AnyCall!request, AnyCall!answer, AnyCall!network, CallInv
  <1>1. CallTypes'
    BY DEF CallTypes, CallPromises, ConnectInv, CallerInv, ServerInv, Asked, Answer, Ended
  <1>2. CallPromises'
    BY DEF CallTypes, CallPromises, ConnectInv, CallerInv, ServerInv, ClosedInv, Excused,
           Asked, Answer, Ended
  <1>3. ConnectInv' /\ CallerInv'
    BY DEF CallTypes, ConnectInv, CallerInv, ServerInv, Asked, Answer, Ended
  <1>4. ServerInv'
    BY DEF CallTypes, ConnectInv, CallerInv, ServerInv, Asked, Answer, Ended
  <1>5. ClosedInv'
    BY DEF CallTypes, ConnectInv, CallerInv, ServerInv, ClosedInv, Excused, Asked, Answer,
           Ended
  <1> QED BY <1>1, <1>2, <1>3, <1>4, <1>5 DEF CallInv

\* connect_to gives up.
LEMMA CallConnectFails ==
  ASSUME NEW m \in Nat, CallInv, AnyCall(m)!ConnectFails
  PROVE  CallInv'
  <1> USE RequestSizes, CallAssumed
          DEF AnyCall!ConnectFails, AnyCall!connecting, AnyCall!request, AnyCall!answer, AnyCall!network, CallInv
  <1>1. CallTypes'
    BY DEF CallTypes, CallPromises, ConnectInv, CallerInv, ServerInv, Asked, Answer, Ended
  <1>2. CallPromises'
    BY DEF CallTypes, CallPromises, ConnectInv, CallerInv, ServerInv, ClosedInv, Excused,
           Asked, Answer, Ended
  <1>3. ConnectInv' /\ CallerInv'
    BY DEF CallTypes, ConnectInv, CallerInv, ServerInv, Asked, Answer, Ended
  <1>4. ServerInv'
    BY DEF CallTypes, ConnectInv, CallerInv, ServerInv, Asked, Answer, Ended
  <1>5. ClosedInv'
    BY DEF CallTypes, ConnectInv, CallerInv, ServerInv, ClosedInv, Excused, Asked, Answer,
           Ended
  <1> QED BY <1>1, <1>2, <1>3, <1>4, <1>5 DEF CallInv

\* The handshake, which may fail.
LEMMA CallHandshake ==
  ASSUME NEW m \in Nat, CallInv, AnyCall(m)!Handshake
  PROVE  CallInv'
  <1> USE RequestSizes, CallAssumed
          DEF AnyCall!Handshake, AnyCall!Return, AnyCall!connecting, AnyCall!request, AnyCall!answer, AnyCall!network, CallInv
  <1>1. CallTypes'
    BY DEF CallTypes, CallPromises, ConnectInv, CallerInv, ServerInv, Asked, Answer, Ended
  <1>2. CallPromises'
    BY DEF CallTypes, CallPromises, ConnectInv, CallerInv, ServerInv, ClosedInv, Excused,
           Asked, Answer, Ended
  <1>3. ConnectInv' /\ CallerInv'
    BY DEF CallTypes, ConnectInv, CallerInv, ServerInv, Asked, Answer, Ended
  <1>4. ServerInv'
    BY DEF CallTypes, ConnectInv, CallerInv, ServerInv, Asked, Answer, Ended
  <1>5. ClosedInv'
    BY DEF CallTypes, ConnectInv, CallerInv, ServerInv, ClosedInv, Excused, Asked, Answer,
           Ended
  <1> QED BY <1>1, <1>2, <1>3, <1>4, <1>5 DEF CallInv

\* A unit of the request is sent.
LEMMA CallSend ==
  ASSUME NEW m \in Nat, CallInv, AnyCall(m)!Send
  PROVE  CallInv'
  <1> USE RequestSizes, CallAssumed
          DEF AnyCall!Send, AnyCall!Total, AnyCall!connecting, AnyCall!answer, AnyCall!network, CallInv
  <1>1. CallTypes'
    BY DEF CallTypes, CallPromises, ConnectInv, CallerInv, ServerInv, Asked, Answer, Ended
  <1>2. CallPromises'
    BY DEF CallTypes, CallPromises, ConnectInv, CallerInv, ServerInv, ClosedInv, Excused,
           Asked, Answer, Ended
  <1>3. ConnectInv' /\ CallerInv'
    <2>1. Answer' = Answer /\ Asked' = Asked
      BY DEF Answer, Asked
    <2>2. ConnectInv'
      BY DEF CallTypes, ConnectInv, Ended
    <2>3. sent' = sent + 1 /\ c' \in {"send", "reply"} /\ taken' = 0
      BY DEF CallerInv
    <2>4. c' = "reply" => sent' = Asked
      BY DEF Asked
    <2>5. c' = "send" => sent' < Asked
      BY <2>3 DEF CallTypes, CallerInv, Asked
    <2> QED BY <2>1, <2>2, <2>3, <2>4, <2>5 DEF CallerInv
  <1>4. ServerInv'
    BY DEF CallTypes, ConnectInv, CallerInv, ServerInv, Asked, Answer, Ended
  <1>5. ClosedInv'
    BY DEF CallTypes, ConnectInv, CallerInv, ServerInv, ClosedInv, Excused, Asked, Answer,
           Ended
  <1> QED BY <1>1, <1>2, <1>3, <1>4, <1>5 DEF CallInv

\* The connection was reset while the caller sends.
LEMMA CallSendFails ==
  ASSUME NEW m \in Nat, CallInv, AnyCall(m)!SendFails
  PROVE  CallInv'
  <1> USE RequestSizes, CallAssumed
          DEF AnyCall!SendFails, AnyCall!Return, AnyCall!connecting, AnyCall!request, AnyCall!answer, AnyCall!network, CallInv
  <1>1. CallTypes'
    BY DEF CallTypes, CallPromises, ConnectInv, CallerInv, ServerInv, Asked, Answer, Ended
  <1>2. CallPromises'
    BY DEF CallTypes, CallPromises, ConnectInv, CallerInv, ServerInv, ClosedInv, Excused,
           Asked, Answer, Ended
  <1>3. ConnectInv' /\ CallerInv'
    BY DEF CallTypes, ConnectInv, CallerInv, ServerInv, Asked, Answer, Ended
  <1>4. ServerInv'
    BY DEF CallTypes, ConnectInv, CallerInv, ServerInv, Asked, Answer, Ended
  <1>5. ClosedInv'
    BY DEF CallTypes, ConnectInv, CallerInv, ServerInv, ClosedInv, Excused, Asked, Answer,
           Ended
  <1> QED BY <1>1, <1>2, <1>3, <1>4, <1>5 DEF CallInv

\* The caller reads the header of the answer.
LEMMA CallReadReply ==
  ASSUME NEW m \in Nat, CallInv, AnyCall(m)!ReadReply
  PROVE  CallInv'
  <1> USE RequestSizes, CallAssumed
          DEF AnyCall!ReadReply, AnyCall!Readable, AnyCall!Return, AnyCall!connecting, AnyCall!request, AnyCall!network, CallInv
  <1>1. CallTypes'
    BY DEF CallTypes, CallPromises, ConnectInv, CallerInv, ServerInv, Asked, Answer, Ended
  <1>2. CallPromises'
    <2>1. CASE c' \in {"refused", "rejected"} /\ open' = 0
      BY <2>1 DEF CallPromises
    <2>2. CASE c' = "body" /\ open' = open
      BY <2>2 DEF CallPromises
    <2>3. CASE c' = "ok" /\ open' = 0
      <3>1. verdict = "serve" /\ req.body = 0
        <4>1. verdict = "serve"
          BY <2>3
        <4>2. req.body = 0
          BY <2>3, <4>1
        <4> QED BY <4>1, <4>2
      <3>2. taken' = Answer' /\ wrote > 0
        BY <3>1 DEF CallTypes, CallerInv, Answer
      <3>3. read' = Asked'
        BY <3>1, <3>2 DEF ServerInv, Asked
      <3> QED BY <2>3, <3>1, <3>2, <3>3 DEF CallPromises
    <2> QED BY <2>1, <2>2, <2>3
  <1>3. ConnectInv' /\ CallerInv'
    <2>1. s # "idle"
      BY DEF CallTypes, ConnectInv, CallerInv, ServerInv, Ended
    <2>2. c' = "body" => verdict = "serve" /\ req.body > 0 /\ taken' = 1 /\ sent = Asked
      BY DEF CallerInv
    <2>3. c' \in Ended \cup {"body"}
      BY DEF Ended
    <2>4. ConnectInv'
      BY <2>1, <2>3 DEF ConnectInv, Ended
    <2>5. CallerInv'
      BY <2>2, <2>3 DEF CallerInv, Asked, Answer, Ended
    <2> QED BY <2>4, <2>5
  <1>4. ServerInv'
    BY DEF CallTypes, ConnectInv, CallerInv, ServerInv, Asked, Answer, Ended
  <1>5. ClosedInv'
    BY DEF CallTypes, ConnectInv, CallerInv, ServerInv, ClosedInv, Excused, Asked, Answer,
           Ended
  <1> QED BY <1>1, <1>2, <1>3, <1>4, <1>5 DEF CallInv

\* The caller reads a unit of the body.
LEMMA CallReadBody ==
  ASSUME NEW m \in Nat, CallInv, AnyCall(m)!ReadBody
  PROVE  CallInv'
  <1> USE RequestSizes, CallAssumed
          DEF AnyCall!ReadBody, AnyCall!Readable, AnyCall!Return, AnyCall!Reply, AnyCall!connecting, AnyCall!request, AnyCall!network, CallInv
  <1>1. CallTypes'
    BY DEF CallTypes, CallPromises, ConnectInv, CallerInv, ServerInv, Asked, Answer, Ended
  <1>2. CallPromises'
    BY DEF CallTypes, CallPromises, ConnectInv, CallerInv, ServerInv, ClosedInv, Excused,
           Asked, Answer, Ended
  <1>3. ConnectInv' /\ CallerInv'
    BY DEF CallTypes, ConnectInv, CallerInv, ServerInv, Asked, Answer, Ended
  <1>4. ServerInv'
    BY DEF CallTypes, ConnectInv, CallerInv, ServerInv, Asked, Answer, Ended
  <1>5. ClosedInv'
    BY DEF CallTypes, ConnectInv, CallerInv, ServerInv, ClosedInv, Excused, Asked, Answer,
           Ended
  <1> QED BY <1>1, <1>2, <1>3, <1>4, <1>5 DEF CallInv

\* The connection ends before the answer does.
LEMMA CallReadFails ==
  ASSUME NEW m \in Nat, CallInv, AnyCall(m)!ReadFails
  PROVE  CallInv'
  <1> USE RequestSizes, CallAssumed
          DEF AnyCall!ReadFails, AnyCall!Readable, AnyCall!Return, AnyCall!connecting, AnyCall!request, AnyCall!answer, AnyCall!network, CallInv
  <1>1. CallTypes'
    BY DEF CallTypes, CallPromises, ConnectInv, CallerInv, ServerInv, Asked, Answer, Ended
  <1>2. CallPromises'
    BY DEF CallTypes, CallPromises, ConnectInv, CallerInv, ServerInv, ClosedInv, Excused,
           Asked, Answer, Ended
  <1>3. ConnectInv' /\ CallerInv'
    BY DEF CallTypes, ConnectInv, CallerInv, ServerInv, Asked, Answer, Ended
  <1>4. ServerInv'
    BY DEF CallTypes, ConnectInv, CallerInv, ServerInv, Asked, Answer, Ended
  <1>5. ClosedInv'
    BY DEF CallTypes, ConnectInv, CallerInv, ServerInv, ClosedInv, Excused, Asked, Answer,
           Ended
  <1> QED BY <1>1, <1>2, <1>3, <1>4, <1>5 DEF CallInv

\* The I/O time-out.
LEMMA CallTimedOut ==
  ASSUME NEW m \in Nat, CallInv, AnyCall(m)!TimedOut
  PROVE  CallInv'
  <1> USE RequestSizes, CallAssumed
          DEF AnyCall!TimedOut, AnyCall!Return, AnyCall!connecting, AnyCall!request, AnyCall!answer, CallInv
  <1>1. CallTypes'
    BY DEF CallTypes, CallPromises, ConnectInv, CallerInv, ServerInv, Asked, Answer, Ended
  <1>2. CallPromises'
    BY DEF CallTypes, CallPromises, ConnectInv, CallerInv, ServerInv, ClosedInv, Excused,
           Asked, Answer, Ended
  <1>3. ConnectInv' /\ CallerInv'
    BY DEF CallTypes, ConnectInv, CallerInv, ServerInv, Asked, Answer, Ended
  <1>4. ServerInv'
    BY DEF CallTypes, ConnectInv, CallerInv, ServerInv, Asked, Answer, Ended
  <1>5. ClosedInv'
    BY DEF CallTypes, ConnectInv, CallerInv, ServerInv, ClosedInv, Excused, Asked, Answer,
           Ended
  <1> QED BY <1>1, <1>2, <1>3, <1>4, <1>5 DEF CallInv

\* The server reads a unit of the header.
LEMMA CallReadHeader ==
  ASSUME NEW m \in Nat, CallInv, AnyCall(m)!ReadHeader
  PROVE  CallInv'
  <1> USE RequestSizes, CallAssumed
          DEF AnyCall!ReadHeader, AnyCall!Close, AnyCall!Goto, AnyCall!connecting, AnyCall!answer, CallInv
  <1>1. CallTypes'
    <2>1. read' \in 0..sent /\ sent - read' <= Cap
      BY DEF CallTypes
    <2>2. Answer' = Answer /\ Asked' = Asked
      BY DEF Answer, Asked
    <2>3. s' \in {"header", "decide", "closed"} /\ reset' \in BOOLEAN
      BY DEF CallTypes
    <2> QED BY <2>1, <2>2, <2>3 DEF CallTypes
  <1>2. CallPromises'
    BY DEF CallTypes, CallPromises, ConnectInv, CallerInv, ServerInv, ClosedInv, Excused,
           Asked, Answer, Ended
  <1>3. ConnectInv' /\ CallerInv'
    BY DEF CallTypes, ConnectInv, CallerInv, ServerInv, Asked, Answer, Ended
  <1>4. ServerInv'
    BY DEF CallTypes, ConnectInv, CallerInv, ServerInv, Asked, Answer, Ended
  <1>5. ClosedInv'
    BY DEF CallTypes, ConnectInv, CallerInv, ServerInv, ClosedInv, Excused, Asked, Answer,
           Ended
  <1> QED BY <1>1, <1>2, <1>3, <1>4, <1>5 DEF CallInv

\* The server checks the request.
LEMMA CallDecide ==
  ASSUME NEW m \in Nat, CallInv, AnyCall(m)!Decide
  PROVE  CallInv'
  <1> USE RequestSizes, CallAssumed
          DEF AnyCall!Decide, AnyCall!Goto, AnyCall!connecting, AnyCall!request, AnyCall!answer, CallInv
  <1>1. CallTypes'
    BY DEF CallTypes, CallPromises, ConnectInv, CallerInv, ServerInv, Asked, Answer, Ended
  <1>2. CallPromises'
    BY DEF CallTypes, CallPromises, ConnectInv, CallerInv, ServerInv, ClosedInv, Excused,
           Asked, Answer, Ended
  <1>3. ConnectInv' /\ CallerInv'
    BY DEF CallTypes, ConnectInv, CallerInv, ServerInv, Asked, Answer, Ended
  <1>4. ServerInv'
    BY DEF CallTypes, ConnectInv, CallerInv, ServerInv, Asked, Answer, Ended
  <1>5. ClosedInv'
    BY DEF CallTypes, ConnectInv, CallerInv, ServerInv, ClosedInv, Excused, Asked, Answer,
           Ended
  <1> QED BY <1>1, <1>2, <1>3, <1>4, <1>5 DEF CallInv

\* The server reads the payload, or discards it.
LEMMA CallReadExact ==
  ASSUME NEW m \in Nat, CallInv, AnyCall(m)!ReadExact
  PROVE  CallInv'
  <1> USE RequestSizes, CallAssumed
          DEF AnyCall!ReadExact, AnyCall!Close, AnyCall!Goto, AnyCall!Total, AnyCall!connecting, AnyCall!answer, CallInv
  <1>1. CallTypes'
    BY DEF CallTypes, CallPromises, ConnectInv, CallerInv, ServerInv, Asked, Answer, Ended
  <1>2. CallPromises'
    BY DEF CallTypes, CallPromises, ConnectInv, CallerInv, ServerInv, ClosedInv, Excused,
           Asked, Answer, Ended
  <1>3. ConnectInv' /\ CallerInv'
    BY DEF CallTypes, ConnectInv, CallerInv, ServerInv, Asked, Answer, Ended
  <1>4. ServerInv'
    BY DEF CallTypes, ConnectInv, CallerInv, ServerInv, Asked, Answer, Ended
  <1>5. ClosedInv'
    BY DEF CallTypes, ConnectInv, CallerInv, ServerInv, ClosedInv, Excused, Asked, Answer,
           Ended
  <1> QED BY <1>1, <1>2, <1>3, <1>4, <1>5 DEF CallInv

\* The server writes its answer.
LEMMA CallWriteAnswer ==
  ASSUME NEW m \in Nat, CallInv, AnyCall(m)!WriteAnswer
  PROVE  CallInv'
  <1> USE RequestSizes, CallAssumed
          DEF AnyCall!WriteAnswer, AnyCall!Close, AnyCall!Goto, AnyCall!Ended, AnyCall!Reply, AnyCall!connecting, CallInv
  <1>1. CallTypes'
    <2>1. wrote' \in 0..Answer /\ taken' = taken /\ wrote' >= wrote /\ wrote' - taken <= Cap
      BY DEF CallTypes, Answer
    <2>2. Answer' = Answer /\ Asked' = Asked
      BY DEF Answer, Asked
    <2>3. wrote' \in 0..Answer' /\ taken' \in 0..wrote' /\ wrote' - taken' <= Cap
      <3> HIDE DEF AnyCall!WriteAnswer, CallInv
      <3> DEFINE w == wrote'
      <3>1. w \in 0..Answer /\ w >= wrote /\ w - taken <= Cap /\ taken' = taken
        BY <2>1
      <3>2. taken \in 0..wrote /\ wrote \in Nat /\ Answer \in Nat
        BY RequestSizes DEF CallInv, CallTypes
      <3> HIDE DEF w
      <3>3. taken \in 0..w
        BY <3>1, <3>2
      <3> QED BY <3>1, <3>3, <2>2 DEF w
    <2>4. s' \in {"answer", "discard", "closed"} /\ reset' \in BOOLEAN
      BY DEF CallTypes
    <2> QED BY <2>2, <2>3, <2>4 DEF CallTypes
  <1>2. CallPromises'
    BY DEF CallTypes, CallPromises, ConnectInv, CallerInv, ServerInv, ClosedInv, Excused,
           Asked, Answer, Ended
  <1>3. ConnectInv' /\ CallerInv'
    BY DEF CallTypes, ConnectInv, CallerInv, ServerInv, Asked, Answer, Ended
  <1>4. ServerInv'
    BY DEF CallTypes, ConnectInv, CallerInv, ServerInv, Asked, Answer, Ended
  <1>5. ClosedInv'
    BY DEF CallTypes, ConnectInv, CallerInv, ServerInv, ClosedInv, Excused, Asked, Answer,
           Ended
  <1> QED BY <1>1, <1>2, <1>3, <1>4, <1>5 DEF CallInv

\* The caller has gone.
LEMMA CallPeerGone ==
  ASSUME NEW m \in Nat, CallInv, AnyCall(m)!PeerGone
  PROVE  CallInv'
  <1> USE RequestSizes, CallAssumed
          DEF AnyCall!PeerGone, AnyCall!Close, AnyCall!Ended, AnyCall!connecting, AnyCall!answer, CallInv
  <1>1. CallTypes'
    BY DEF CallTypes, CallPromises, ConnectInv, CallerInv, ServerInv, Asked, Answer, Ended
  <1>2. CallPromises'
    BY DEF CallTypes, CallPromises, ConnectInv, CallerInv, ServerInv, ClosedInv, Excused,
           Asked, Answer, Ended
  <1>3. ConnectInv' /\ CallerInv'
    BY DEF CallTypes, ConnectInv, CallerInv, ServerInv, Asked, Answer, Ended
  <1>4. ServerInv'
    BY DEF CallTypes, ConnectInv, CallerInv, ServerInv, Asked, Answer, Ended
  <1>5. ClosedInv'
    BY DEF CallTypes, ConnectInv, CallerInv, ServerInv, ClosedInv, Excused, Asked, Answer,
           Ended
  <1> QED BY <1>1, <1>2, <1>3, <1>4, <1>5 DEF CallInv

\* Data arrives for a closed connection.
LEMMA CallResetArrives ==
  ASSUME NEW m \in Nat, CallInv, AnyCall(m)!ResetArrives
  PROVE  CallInv'
  <1> USE RequestSizes, CallAssumed
          DEF AnyCall!ResetArrives, AnyCall!connecting, AnyCall!request, AnyCall!answer, CallInv
  <1>1. CallTypes'
    BY DEF CallTypes, CallPromises, ConnectInv, CallerInv, ServerInv, Asked, Answer, Ended
  <1>2. CallPromises'
    BY DEF CallTypes, CallPromises, ConnectInv, CallerInv, ServerInv, ClosedInv, Excused,
           Asked, Answer, Ended
  <1>3. ConnectInv' /\ CallerInv'
    BY DEF CallTypes, ConnectInv, CallerInv, ServerInv, Asked, Answer, Ended
  <1>4. ServerInv'
    BY DEF CallTypes, ConnectInv, CallerInv, ServerInv, Asked, Answer, Ended
  <1>5. ClosedInv'
    BY DEF CallTypes, ConnectInv, CallerInv, ServerInv, ClosedInv, Excused, Asked, Answer,
           Ended
  <1> QED BY <1>1, <1>2, <1>3, <1>4, <1>5 DEF CallInv

\* A reset takes the unread answer with it.
LEMMA CallResetDrops ==
  ASSUME NEW m \in Nat, CallInv, AnyCall(m)!ResetDrops
  PROVE  CallInv'
  <1> USE RequestSizes, CallAssumed
          DEF AnyCall!ResetDrops, AnyCall!connecting, AnyCall!request, AnyCall!answer, CallInv
  <1>1. CallTypes'
    BY DEF CallTypes, CallPromises, ConnectInv, CallerInv, ServerInv, Asked, Answer, Ended
  <1>2. CallPromises'
    BY DEF CallTypes, CallPromises, ConnectInv, CallerInv, ServerInv, ClosedInv, Excused,
           Asked, Answer, Ended
  <1>3. ConnectInv' /\ CallerInv'
    BY DEF CallTypes, ConnectInv, CallerInv, ServerInv, Asked, Answer, Ended
  <1>4. ServerInv'
    BY DEF CallTypes, ConnectInv, CallerInv, ServerInv, Asked, Answer, Ended
  <1>5. ClosedInv'
    BY DEF CallTypes, ConnectInv, CallerInv, ServerInv, ClosedInv, Excused, Asked, Answer,
           Ended
  <1> QED BY <1>1, <1>2, <1>3, <1>4, <1>5 DEF CallInv

\* The server's process dies.
LEMMA CallServerDies ==
  ASSUME NEW m \in Nat, CallInv, AnyCall(m)!ServerDies
  PROVE  CallInv'
  <1> USE RequestSizes, CallAssumed
          DEF AnyCall!ServerDies, AnyCall!Close, AnyCall!connecting, AnyCall!answer, CallInv
  <1>1. CallTypes'
    BY DEF CallTypes, CallPromises, ConnectInv, CallerInv, ServerInv, Asked, Answer, Ended
  <1>2. CallPromises'
    BY DEF CallTypes, CallPromises, ConnectInv, CallerInv, ServerInv, ClosedInv, Excused,
           Asked, Answer, Ended
  <1>3. ConnectInv' /\ CallerInv'
    BY DEF CallTypes, ConnectInv, CallerInv, ServerInv, Asked, Answer, Ended
  <1>4. ServerInv'
    BY DEF CallTypes, ConnectInv, CallerInv, ServerInv, Asked, Answer, Ended
  <1>5. ClosedInv'
    BY DEF CallTypes, ConnectInv, CallerInv, ServerInv, ClosedInv, Excused, Asked, Answer,
           Ended
  <1> QED BY <1>1, <1>2, <1>3, <1>4, <1>5 DEF CallInv

\* The server's host vanishes.
LEMMA CallHostVanishes ==
  ASSUME NEW m \in Nat, CallInv, AnyCall(m)!HostVanishes
  PROVE  CallInv'
  <1> USE RequestSizes, CallAssumed
          DEF AnyCall!HostVanishes, AnyCall!connecting, AnyCall!request, AnyCall!answer, CallInv
  <1>1. CallTypes'
    BY DEF CallTypes, CallPromises, ConnectInv, CallerInv, ServerInv, Asked, Answer, Ended
  <1>2. CallPromises'
    BY DEF CallTypes, CallPromises, ConnectInv, CallerInv, ServerInv, ClosedInv, Excused,
           Asked, Answer, Ended
  <1>3. ConnectInv' /\ CallerInv'
    BY DEF CallTypes, ConnectInv, CallerInv, ServerInv, Asked, Answer, Ended
  <1>4. ServerInv'
    BY DEF CallTypes, ConnectInv, CallerInv, ServerInv, Asked, Answer, Ended
  <1>5. ClosedInv'
    BY DEF CallTypes, ConnectInv, CallerInv, ServerInv, ClosedInv, Excused, Asked, Answer,
           Ended
  <1> QED BY <1>1, <1>2, <1>3, <1>4, <1>5 DEF CallInv

\* A step of a call keeps the invariant.
LEMMA CallStep ==
  ASSUME NEW m \in Nat, CallInv, AnyCall(m)!Next
  PROVE  CallInv'
  BY CallTryAddress, CallAttemptFails, CallConnected, CallConnectFails, CallHandshake,
     CallSend, CallSendFails, CallReadReply, CallReadBody, CallReadFails, CallTimedOut,
     CallReadHeader, CallDecide, CallReadExact, CallWriteAnswer, CallPeerGone,
     CallResetArrives, CallResetDrops, CallServerDies, CallHostVanishes
  DEF AnyCall!Next, AnyCall!Caller, AnyCall!Server

\* A step of the file client's call is a step of any call, with its limit.
LEMMA FileCallIsCall ==
  ASSUME FileCall!Next
  PROVE  AnyCall(FileReplyMax)!Next /\ req' = req
  BY DEF
      FileCall!Next, FileCall!Caller, FileCall!Server, FileCall!TryAddress,
      FileCall!AttemptFails, FileCall!Connected, FileCall!ConnectFails,
      FileCall!Handshake, FileCall!Send, FileCall!SendFails,
      FileCall!ReadReply, FileCall!ReadBody, FileCall!ReadFails,
      FileCall!TimedOut, FileCall!ReadHeader, FileCall!Decide,
      FileCall!ReadExact, FileCall!WriteAnswer, FileCall!PeerGone,
      FileCall!ResetArrives, FileCall!ResetDrops, FileCall!ServerDies,
      FileCall!HostVanishes, FileCall!connecting, FileCall!request,
      FileCall!answer, FileCall!network, FileCall!Ended, FileCall!Total,
      FileCall!Reply, FileCall!Return, FileCall!Remaining, FileCall!Readable,
      FileCall!Close, FileCall!Goto, AnyCall!Next, AnyCall!Caller,
      AnyCall!Server, AnyCall!TryAddress, AnyCall!AttemptFails,
      AnyCall!Connected, AnyCall!ConnectFails, AnyCall!Handshake,
      AnyCall!Send, AnyCall!SendFails, AnyCall!ReadReply, AnyCall!ReadBody,
      AnyCall!ReadFails, AnyCall!TimedOut, AnyCall!ReadHeader, AnyCall!Decide,
      AnyCall!ReadExact, AnyCall!WriteAnswer, AnyCall!PeerGone,
      AnyCall!ResetArrives, AnyCall!ResetDrops, AnyCall!ServerDies,
      AnyCall!HostVanishes, AnyCall!connecting, AnyCall!request,
      AnyCall!answer, AnyCall!network, AnyCall!Ended, AnyCall!Total,
      AnyCall!Reply, AnyCall!Return, AnyCall!Remaining, AnyCall!Readable,
      AnyCall!Close, AnyCall!Goto

\* So is a step of the administrator's.
LEMMA AdminCallIsCall ==
  ASSUME AdminCall!Next
  PROVE  AnyCall(AdminReplyMax)!Next /\ req' = req
  BY DEF
      AdminCall!Next, AdminCall!Caller, AdminCall!Server,
      AdminCall!TryAddress, AdminCall!AttemptFails, AdminCall!Connected,
      AdminCall!ConnectFails, AdminCall!Handshake, AdminCall!Send,
      AdminCall!SendFails, AdminCall!ReadReply, AdminCall!ReadBody,
      AdminCall!ReadFails, AdminCall!TimedOut, AdminCall!ReadHeader,
      AdminCall!Decide, AdminCall!ReadExact, AdminCall!WriteAnswer,
      AdminCall!PeerGone, AdminCall!ResetArrives, AdminCall!ResetDrops,
      AdminCall!ServerDies, AdminCall!HostVanishes, AdminCall!connecting,
      AdminCall!request, AdminCall!answer, AdminCall!network, AdminCall!Ended,
      AdminCall!Total, AdminCall!Reply, AdminCall!Return, AdminCall!Remaining,
      AdminCall!Readable, AdminCall!Close, AdminCall!Goto, AnyCall!Next,
      AnyCall!Caller, AnyCall!Server, AnyCall!TryAddress,
      AnyCall!AttemptFails, AnyCall!Connected, AnyCall!ConnectFails,
      AnyCall!Handshake, AnyCall!Send, AnyCall!SendFails, AnyCall!ReadReply,
      AnyCall!ReadBody, AnyCall!ReadFails, AnyCall!TimedOut,
      AnyCall!ReadHeader, AnyCall!Decide, AnyCall!ReadExact,
      AnyCall!WriteAnswer, AnyCall!PeerGone, AnyCall!ResetArrives,
      AnyCall!ResetDrops, AnyCall!ServerDies, AnyCall!HostVanishes,
      AnyCall!connecting, AnyCall!request, AnyCall!answer, AnyCall!network,
      AnyCall!Ended, AnyCall!Total, AnyCall!Reply, AnyCall!Return,
      AnyCall!Remaining, AnyCall!Readable, AnyCall!Close, AnyCall!Goto

\* A call begins before anything was sent.
LEMMA CallInit == Init => CallInv /\ RequestInv
  <1> SUFFICES ASSUME Init PROVE CallInv /\ RequestInv
    OBVIOUS
  <1>1. RequestInv /\ (FileCall!Init \/ AdminCall!Init)
    <2>1. CASE part = "file call"
      <3>1. FileCall!Init
        BY <2>1 DEF Init
      <3> QED BY <2>1, <3>1 DEF FileCall!Init, RequestInv
    <2>2. CASE part = "admin call"
      BY <2>2 DEF Init, AdminCall!Init, RequestInv
    <2>3. CASE part \notin {"file call", "admin call"}
      <3>1. FileCall!Init
        BY <2>3 DEF Init
      <3> QED BY <2>3, <3>1 DEF FileCall!Init, RequestInv
    <2> QED BY <2>1, <2>2, <2>3
  <1>2. req \in AnyRequest
    BY <1>1, CallAssumed DEF RequestInv
  <1>3. /\ c = "connect" /\ s = "idle" /\ attempt = 1 /\ clock = 0 /\ open = 0
        /\ sent = 0 /\ read = 0 /\ verdict = "none" /\ wrote = 0 /\ taken = 0
        /\ reset = FALSE /\ dropped = FALSE /\ fault = FALSE
    BY <1>1 DEF FileCall!Init, AdminCall!Init
  <1>4. req.header \in Nat \ {0} /\ req.payload \in Nat
    BY <1>2 DEF AnyRequest
  <1>5. CallTypes /\ CallPromises
    <2>1. 0 \in 0..Asked /\ 0 \in 0..Answer /\ 1 \in 1..(Addresses + 1) /\ 0 - 0 <= Cap
      BY <1>3, <1>4, CallAssumed DEF Asked, Answer
    <2>2. 0 <= ConnectTimeout /\ 0 \in 0..0
      BY CallAssumed
    <2> QED BY <1>2, <1>3, <2>1, <2>2 DEF CallTypes, CallPromises, Ended
  <1>6. ConnectInv /\ CallerInv /\ ServerInv /\ ClosedInv
    BY <1>3, <1>4 DEF ConnectInv, CallerInv, ServerInv, ClosedInv
  <1> QED BY <1>1, <1>5, <1>6 DEF CallInv

\* The invariant is about the call's variables only.
LEMMA CallQuiet ==
  ASSUME CallInv, UNCHANGED call
  PROVE  CallInv' /\ req' = req
  BY DEF CallInv, call, CallTypes, CallPromises, ConnectInv, CallerInv, ServerInv, ClosedInv,
         Asked, Answer, Excused

\* A call reports success only of a whole answer to a whole payload; without a
\* fault it is told of a refusal, but for a header too long or a payload left
\* unread; it connects within one time-out, and closes every socket: for all
\* sizes and limits, wherever the connection fills up, is reset or dies.
THEOREM CallCorrect == LiveSpec => []CallSafe
  <1>1. CallInv /\ RequestInv /\ [Next]_vars => (CallInv /\ RequestInv)'
    <2> SUFFICES ASSUME CallInv, RequestInv, [Next]_vars
                 PROVE  CallInv' /\ RequestInv'
      OBVIOUS
    <2>1. CASE FileCallStep
      BY <2>1, FileCallIsCall, CallStep, CallAssumed DEF FileCallStep, RequestInv
    <2>2. CASE AdminCallStep
      BY <2>2, AdminCallIsCall, CallStep, CallAssumed DEF AdminCallStep, RequestInv
    <2>3. CASE UNCHANGED <<part, call>>
      BY <2>3, CallQuiet DEF RequestInv
    <2>4. FileCallStep \/ AdminCallStep \/ UNCHANGED <<part, call>>
      BY DEF Next, vars, ProcessStep, MigrationStep, KilledMigrationStep, PagingStep,
             BindingStep, WindowStep, SearchStep
    <2> QED BY <2>1, <2>2, <2>3, <2>4
  <1>2. CallInv /\ RequestInv => CallSafe
    <2> SUFFICES ASSUME CallInv, RequestInv PROVE CallSafe
      OBVIOUS
    <2>1. /\ part = "admin call" => AdminCall!TypeOK
          /\ part # "admin call" => FileCall!TypeOK
      BY DEF CallInv, CallTypes, RequestInv, AdminCall!TypeOK, AdminCall!Ended,
             AdminCall!Total, AdminCall!Reply, FileCall!TypeOK, FileCall!Ended,
             FileCall!Total, FileCall!Reply, Asked, Answer, Ended
    <2>2. FileCall!OkIsWhole /\ FileCall!RefusalTold
      BY DEF CallInv, CallPromises, Excused, Asked, Answer, FileCall!OkIsWhole,
             FileCall!RefusalTold, FileCall!Total, FileCall!Reply
    <2>3. FileCall!ConnectBounded /\ FileCall!SocketsClosed
      BY DEF CallInv, CallPromises, FileCall!ConnectBounded, FileCall!SocketsClosed
    <2> QED BY <2>1, <2>2, <2>3 DEF CallSafe
  <1> QED BY <1>1, <1>2, CallInit, PTL DEF LiveSpec

-----------------------------------------------------------------------------
(* The proof for the alerts *)

\* What is assumed of the constants.
LEMMA PagingAssumed == Limit \in Nat /\ MaxAlerts \in Nat
  BY LiveAssumption DEF LiveAssumption, Paging!PagingAssumption

\* The instance counts as FiniteSets does.
LEMMA PagingCardinality ==
  ASSUME NEW S
  PROVE  Paging!Cardinality(S) = Cardinality(S)
  BY DEF Paging!Cardinality, Cardinality

\* The end of a file, line by line.
LEMMA LinesAtEnd ==
  ASSUME alerts \in Seq(Paging!Lines), NEW a \in 1..(Len(alerts) + 1)
  PROVE  Paging!LinesAt(a..Len(alerts)) =
           [i \in 1..(Len(alerts) + 1 - a) |-> alerts[a + i - 1]]
  <1> DEFINE L == Len(alerts)
             P == a..L
  <1>0. L \in Nat
    OBVIOUS
  <1>1. Paging!Cardinality(P) = L + 1 - a
    <2>1. CASE a = L + 1
      <3>1. P = {}
        BY <1>0, <2>1
      <3> QED BY <1>0, <2>1, <3>1, FS_EmptySet, PagingCardinality
    <2>2. CASE a <= L
      BY <1>0, <2>2, FS_Interval, PagingCardinality
    <2> QED BY <1>0, <2>1, <2>2
  <1>2. ASSUME NEW k \in P
        PROVE  Paging!Cardinality({j \in P : j <= k}) = k + 1 - a
    <2>1. {j \in P : j <= k} = a..k
      BY <1>0
    <2>2. Paging!Cardinality(a..k) = k - a + 1
      BY <1>0, FS_Interval, PagingCardinality
    <2>3. Paging!Cardinality({j \in P : j <= k}) = k - a + 1
      BY <2>1, <2>2, Zenon
    <2> QED BY <1>0, <2>3
  <1>3. ASSUME NEW i \in 1..(L + 1 - a)
        PROVE  (CHOOSE k \in P : Paging!Cardinality({j \in P : j <= k}) = i) = a + i - 1
    <2>1. a + i - 1 \in P
      BY <1>0
    <2>2. \A k \in P : Paging!Cardinality({j \in P : j <= k}) = i <=> k = a + i - 1
      <3> SUFFICES ASSUME NEW k \in P
                   PROVE  Paging!Cardinality({j \in P : j <= k}) = i <=> k = a + i - 1
        OBVIOUS
      <3> HIDE DEF P
      <3>1. Paging!Cardinality({j \in P : j <= k}) = k + 1 - a
        BY <1>2
      <3>2. k \in Int
        BY DEF P
      <3> QED BY <1>0, <3>1, <3>2
    <2> HIDE DEF P
    <2> QED BY <2>1, <2>2
  <1> HIDE DEF L, P
  <1>4. Paging!LinesAt(P) =
          [i \in 1..Paging!Cardinality(P) |->
             alerts[CHOOSE k \in P : Paging!Cardinality({j \in P : j <= k}) = i]]
    BY DEF Paging!LinesAt
  <1> QED BY <1>1, <1>3, <1>4 DEF L, P

\* The lines from position a on.
TailFrom(a) == [i \in 1..(Len(alerts) + 1 - a) |-> alerts[a + i - 1]]

\* An answer is the end of the file from position b on; what was fresh and is
\* not in it are the lines from a to b, and then the answer is full.
AnswerFrom(w, a, b) ==
  /\ a \in 1..(Len(alerts) + 1) /\ b \in a..(Len(alerts) + 1)
  /\ \A k \in 1..Len(alerts) : k < a <=> alerts[k].id <= lastId[w]
  /\ b = a \/ (Limit > 0 /\ Len(alerts) + 1 - b = Limit)
  /\ Paging!Fresh(lastId[w]) = TailFrom(a)
  /\ Paging!GetAlertsSince(lastId[w]) = TailFrom(b)
  /\ Paging!LastId(lastId[w], TailFrom(b)) =
       IF b = Len(alerts) + 1 THEN lastId[w] ELSE alerts[Len(alerts)].id

\* The fields of a line.
LEMMA LineFields ==
  ASSUME PagingInv, NEW k \in 1..Len(alerts)
  PROVE  alerts[k].id \in 1..MaxAlerts /\ alerts[k].n \in 1..MaxAlerts
  <1>1. alerts \in Seq(Paging!Lines)
    BY DEF PagingInv, Paging!TypeOK
  <1>2. alerts[k] \in Paging!Lines
    BY <1>1
  <1> QED BY <1>2 DEF Paging!Lines

\* Every refresh is answered so.
LEMMA AnswerIsEnd ==
  ASSUME PagingInv, NEW w \in Consoles
  PROVE  \E a, b \in Nat : AnswerFrom(w, a, b)
  <1> USE PagingAssumed
  <1> DEFINE L == Len(alerts)
             since == lastId[w]
  <1>1. alerts \in Seq(Paging!Lines) /\ L \in Nat /\ since \in 0..MaxAlerts
    BY DEF PagingInv, Paging!TypeOK
  <1>2. \A k \in 1..L : alerts[k].id \in 1..MaxAlerts
    BY LineFields
  <1>3. \A j, k \in 1..L : j < k => alerts[j].id < alerts[k].id
    BY DEF PagingInv, AlertsInOrder
  <1>4. PICK a \in 1..(L + 1) : \A k \in 1..L : k < a <=> alerts[k].id <= since
    <2>1. CASE since = 0
      <3>1. \A k \in 1..L : k < 1 <=> alerts[k].id <= since
        BY <1>1, <1>2, <2>1
      <3>2. 1 \in 1..(L + 1)
        BY <1>1
      <3> QED BY <3>1, <3>2
    <2>2. CASE since # 0
      <3>1. PICK m \in 1..L : alerts[m].id = since
        BY <2>2 DEF PagingInv, ConsoleAt
      <3>2. ASSUME NEW k \in 1..L
            PROVE  k < m + 1 <=> alerts[k].id <= since
        <4>1. alerts[k].id \in Nat /\ alerts[m].id \in Nat /\ k \in Int /\ m \in Int
          BY <1>1, <1>2
        <4>2. CASE k < m
          BY <1>3, <3>1, <4>1, <4>2
        <4>3. CASE k = m
          BY <3>1, <4>1, <4>3
        <4>4. CASE m < k
          BY <1>3, <3>1, <4>1, <4>4
        <4> QED BY <4>1, <4>2, <4>3, <4>4
      <3>3. m + 1 \in 1..(L + 1)
        BY <1>1
      <3> QED BY <3>2, <3>3
    <2> QED BY <2>1, <2>2
  <1>5. Paging!Fresh(since) = TailFrom(a)
    <2>1. {k \in DOMAIN alerts : alerts[k].id > since} = a..L
      <3>1. DOMAIN alerts = 1..L
        BY <1>1
      <3>2. ASSUME NEW k \in 1..L
            PROVE  alerts[k].id > since <=> k \in a..L
        <4>1. alerts[k].id \in Nat /\ since \in Nat /\ k \in Int /\ a \in Int
          BY <1>1, <1>2
        <4>2. alerts[k].id > since <=> ~(alerts[k].id <= since)
          BY <4>1
        <4> QED BY <1>1, <1>4, <4>1, <4>2
      <3>3. a..L \subseteq 1..L
        BY <1>1
      <3> QED BY <3>1, <3>2, <3>3
    <2>2. Paging!Fresh(since) = Paging!LinesAt(a..L)
      BY <2>1, Zenon DEF Paging!Fresh
    <2> QED BY <1>1, <2>2, LinesAtEnd DEF TailFrom
  <1>6. Len(TailFrom(a)) = L + 1 - a /\ TailFrom(a) \in Seq(Paging!Lines)
    <2>1. L + 1 - a \in Nat
      BY <1>1
    <2>2. \A i \in 1..(L + 1 - a) : alerts[a + i - 1] \in Paging!Lines
      BY <1>1
    <2> QED BY <2>1, <2>2 DEF TailFrom
  <1>7. PICK b \in a..(L + 1) :
          /\ b = a \/ (Limit > 0 /\ L + 1 - b = Limit)
          /\ Paging!GetAlertsSince(since) = TailFrom(b)
    <2>1. CASE Limit > 0 /\ L + 1 - a > Limit
      <3> DEFINE b == L + 1 - Limit
      <3>1. b \in a..(L + 1) /\ L + 1 - b = Limit
        BY <1>1, <2>1
      <3>2. Paging!GetAlertsSince(since) =
              SubSeq(TailFrom(a), L + 1 - a - Limit + 1, L + 1 - a)
        BY <1>5, <1>6, <2>1 DEF Paging!GetAlertsSince
      <3>3. SubSeq(TailFrom(a), L + 1 - a - Limit + 1, L + 1 - a) =
              [i \in 1..Limit |-> TailFrom(a)[L + 1 - a - Limit + i]]
        BY <1>1, <1>6, <2>1
      <3>4. \A i \in 1..Limit : TailFrom(a)[L + 1 - a - Limit + i] = alerts[b + i - 1]
        BY <1>1, <2>1 DEF TailFrom
      <3>5. TailFrom(b) = [i \in 1..Limit |-> alerts[b + i - 1]]
        BY <3>1 DEF TailFrom
      <3>6. Paging!GetAlertsSince(since) = TailFrom(b)
        BY <3>2, <3>3, <3>4, <3>5
      <3> QED BY <2>1, <3>1, <3>6
    <2>2. CASE ~(Limit > 0 /\ L + 1 - a > Limit)
      <3>1. Paging!GetAlertsSince(since) = TailFrom(a)
        BY <1>5, <1>6, <2>2 DEF Paging!GetAlertsSince
      <3>2. a \in a..(L + 1)
        BY <1>1
      <3> QED BY <3>1, <3>2
    <2> QED BY <2>1, <2>2
  <1>8. Paging!LastId(since, TailFrom(b)) =
          IF b = L + 1 THEN since ELSE alerts[L].id
    <2>1. DOMAIN TailFrom(b) = 1..(L + 1 - b)
      BY DEF TailFrom
    <2>2. \A i \in 1..(L + 1 - b) : TailFrom(b)[i] = alerts[b + i - 1]
      BY DEF TailFrom
    <2> DEFINE S == {since} \cup {TailFrom(b)[k].id : k \in DOMAIN TailFrom(b)}
               Top(m) == m >= since /\ \A k \in DOMAIN TailFrom(b) : TailFrom(b)[k].id <= m
    <2>3. Paging!LastId(since, TailFrom(b)) = CHOOSE m \in S : Top(m)
      BY DEF Paging!LastId
    <2>4. CASE b = L + 1
      <3>1. DOMAIN TailFrom(b) = {}
        BY <1>1, <2>1, <2>4
      <3>2. S = {since} /\ Top(since)
        BY <1>1, <3>1
      <3> HIDE DEF S, Top
      <3> QED BY <2>3, <2>4, <3>2
    <2>5. CASE b # L + 1
      <3>1. b \in 1..L /\ L + 1 - b \in 1..L /\ b + (L + 1 - b) - 1 = L /\ L \in 1..L
        BY <1>1, <2>5
      <3>2. TailFrom(b)[L + 1 - b] = alerts[L]
        <4>1. L + 1 - b \in 1..(L + 1 - b)
          BY <1>1, <3>1
        <4> QED BY <2>2, <3>1, <4>1
      <3>3. alerts[L].id \in S
        BY <2>1, <3>1, <3>2
      <3>4. Top(alerts[L].id)
        <4>1. alerts[L].id >= since
          <5>1. ~(L < a)
            BY <1>1, <3>1
          <5>2. ~(alerts[L].id <= since)
            BY <1>4, <3>1, <5>1
          <5> QED BY <1>1, <1>2, <3>1, <5>2
        <4>2. ASSUME NEW k \in DOMAIN TailFrom(b)
              PROVE  TailFrom(b)[k].id <= alerts[L].id
          <5>1. b + k - 1 \in 1..L /\ TailFrom(b)[k] = alerts[b + k - 1]
            BY <1>1, <2>1, <2>2, <3>1, SMTT(30)
          <5>2. b + k - 1 = L \/ b + k - 1 < L
            BY <1>1, <5>1
          <5>3. alerts[b + k - 1].id \in Nat /\ alerts[L].id \in Nat
            BY <1>2, <3>1, <5>1
          <5> QED BY <1>3, <3>1, <5>1, <5>2, <5>3
        <4> QED BY <4>1, <4>2
      <3>5. ASSUME NEW m \in S, Top(m)
            PROVE  m = alerts[L].id
        <4>1. alerts[L].id <= m
          <5>1. L + 1 - b \in DOMAIN TailFrom(b)
            BY <1>1, <2>1, <3>1
          <5>2. TailFrom(b)[L + 1 - b].id <= m
            BY <3>5, <5>1
          <5> QED BY <3>2, <5>2
        <4>2. m <= alerts[L].id
          <5>1. CASE m = since
            BY <3>4, <5>1, <1>1, <1>2, <3>1
          <5>2. CASE m # since
            <6>1. PICK k \in DOMAIN TailFrom(b) : m = TailFrom(b)[k].id
              BY <5>2
            <6> QED BY <3>4, <6>1
          <5> QED BY <5>1, <5>2
        <4>3. m \in Nat
          <5>1. CASE m = since
            BY <1>1, <5>1
          <5>2. CASE m # since
            <6>1. PICK k \in DOMAIN TailFrom(b) : m = TailFrom(b)[k].id
              BY <5>2
            <6>2. b + k - 1 \in 1..L /\ TailFrom(b)[k] = alerts[b + k - 1]
              BY <1>1, <2>1, <2>2, <3>1, SMTT(30)
            <6> QED BY <1>2, <6>1, <6>2
          <5> QED BY <5>1, <5>2
        <4>4. alerts[L].id \in Nat
          BY <1>2, <3>1
        <4> QED BY <4>1, <4>2, <4>3, <4>4
      <3> HIDE DEF S, Top
      <3>6. (CHOOSE m \in S : Top(m)) = alerts[L].id
        BY <3>3, <3>4, <3>5
      <3> QED BY <2>3, <2>5, <3>6
    <2> QED BY <2>4, <2>5
  <1> QED BY <1>1, <1>4, <1>5, <1>7, <1>8 DEF AnswerFrom

\* Counting the entries of a list.
LEMMA ListCount ==
  ASSUME NEW S, NEW q \in Seq(S), NEW P, NEW Q, P \subseteq Q, Q \subseteq DOMAIN q
  PROVE  /\ Paging!Cardinality(P) \in Nat /\ Paging!Cardinality(Q) \in Nat
         /\ Paging!Cardinality(P) <= Paging!Cardinality(Q)
  <1>1. Len(q) \in Nat /\ DOMAIN q = 1..Len(q)
    OBVIOUS
  <1>2. IsFiniteSet(1..Len(q))
    BY <1>1, FS_Interval
  <1>3. IsFiniteSet(Q)
    BY <1>1, <1>2, FS_Subset
  <1>4. IsFiniteSet(P) /\ Cardinality(P) <= Cardinality(Q)
    BY <1>3, FS_Subset
  <1>5. Cardinality(P) \in Nat /\ Cardinality(Q) \in Nat
    BY <1>3, <1>4, FS_CardinalityType
  <1> QED BY <1>4, <1>5, PagingCardinality

\* A refresh of console w with the answer from b on, of which a is the first
\* fresh line.
LEMMA PagingRefresh ==
  ASSUME PagingInv, NEW w \in Consoles, Paging!OnRefreshAlerts(w)
  PROVE  PagingInv'
  <1> USE PagingAssumed
  <1> DEFINE L == Len(alerts)
             N == Len(list[w])
  <1>1. PICK a, b \in Nat : AnswerFrom(w, a, b)
    BY AnswerIsEnd
  <1> DEFINE m == L + 1 - b
             answer == TailFrom(b)
             added == [k \in DOMAIN answer |-> answer[k].n]
             left == {TailFrom(a)[k].n : k \in DOMAIN TailFrom(a)}
                       \ {answer[k].n : k \in DOMAIN answer}
  <1>2. /\ list' = [list EXCEPT ![w] = @ \o added]
        /\ lastId' = [lastId EXCEPT ![w] = IF b = L + 1 THEN lastId[w] ELSE alerts[L].id]
        /\ passed' = [passed EXCEPT ![w] = @ \cup left]
        /\ UNCHANGED <<alerts, nextId, raised>>
    BY <1>1 DEF Paging!OnRefreshAlerts, AnswerFrom, Paging!serverVars
  <1>3. /\ alerts \in Seq(Paging!Lines) /\ L \in Nat /\ N \in Nat
        /\ lastId \in [Consoles -> 0..MaxAlerts]
        /\ list \in [Consoles -> Seq(1..MaxAlerts)]
        /\ passed \in [Consoles -> SUBSET (1..MaxAlerts)]
    BY DEF PagingInv, Paging!TypeOK
  <1>4. \A k \in 1..L : /\ alerts[k].id \in 1..MaxAlerts /\ alerts[k].n \in 1..MaxAlerts
                       /\ alerts[k].id \in Nat /\ alerts[k].n \in Nat
    BY LineFields
  <1>5. /\ a \in 1..(L + 1) /\ b \in a..(L + 1) /\ m \in 0..L /\ m \in Nat /\ m = L + 1 - b
        /\ \A k \in 1..L : k < a <=> alerts[k].id <= lastId[w]
        /\ b = a \/ (Limit > 0 /\ m = Limit)
    BY <1>1, <1>3 DEF AnswerFrom
  <1>6. /\ DOMAIN answer = 1..m /\ \A i \in 1..m : answer[i] = alerts[b + i - 1]
        /\ DOMAIN TailFrom(a) = 1..(L + 1 - a)
        /\ \A i \in 1..(L + 1 - a) : TailFrom(a)[i] = alerts[a + i - 1]
    BY DEF TailFrom
  <1> HIDE DEF answer, m, N
  <1>7. \A i \in 1..m : b + i - 1 \in 1..L
    BY <1>3, <1>5
  <1>8. added \in Seq(1..MaxAlerts) /\ Len(added) = m /\ \A i \in 1..m : added[i] = alerts[b + i - 1].n
    <2>1. added = [k \in 1..m |-> answer[k].n]
      BY <1>6
    <2>2. \A i \in 1..m : answer[i].n \in 1..MaxAlerts
      BY <1>4, <1>6, <1>7
    <2>3. added \in [1..m -> 1..MaxAlerts]
      BY <2>1, <2>2
    <2>4. \A i \in 1..m : added[i] = alerts[b + i - 1].n
      BY <1>6, <2>1
    <2> HIDE DEF added
    <2>5. m \in Nat
      BY <1>5
    <2>6. added \in Seq(1..MaxAlerts)
      BY <2>3, <2>5, SeqDef
    <2>7. Len(added) = m
      BY <2>3, <2>5, <2>6
    <2> QED BY <2>4, <2>6, <2>7
  <1> HIDE DEF added
  <1>9. /\ N \in Nat /\ m \in Nat /\ list[w] \in Seq(1..MaxAlerts) /\ list'[w] = list[w] \o added
        /\ list'[w] \in Seq(1..MaxAlerts) /\ Len(list'[w]) = N + m
        /\ DOMAIN list[w] = 1..N /\ DOMAIN list'[w] = 1..(N + m)
        /\ \A i \in 1..N : list'[w][i] = list[w][i]
        /\ \A i \in 1..m : list'[w][N + i] = alerts[b + i - 1].n
    <2>1. list[w] \in Seq(1..MaxAlerts) /\ list'[w] = list[w] \o added
      BY <1>2, <1>3
    <2>2. list'[w] \in Seq(1..MaxAlerts) /\ Len(list'[w]) = N + m
      <3>1. list[w] \o added \in Seq(1..MaxAlerts) /\ Len(list[w] \o added) = N + Len(added)
        BY <1>8, <2>1, ConcatProperties DEF N
      <3> QED BY <1>8, <2>1, <3>1
    <2>3. \A i \in 1..N : list'[w][i] = list[w][i]
      BY <1>3, <1>5, <1>8, <2>1, ConcatProperties DEF N
    <2>4. \A i \in 1..m : list'[w][N + i] = alerts[b + i - 1].n
      <3> SUFFICES ASSUME NEW i \in 1..m PROVE list'[w][N + i] = added[i]
        BY <1>8
      <3>1. N + i \in 1..(N + m) /\ N + i > N /\ (N + i) - N = i
        BY <1>3, <1>5
      <3> QED BY <1>3, <1>5, <1>8, <2>1, <3>1, ConcatProperties DEF N
    <2>5. DOMAIN list[w] = 1..N /\ DOMAIN list'[w] = 1..(N + m)
      BY <2>1, <2>2 DEF N
    <2> QED BY <1>3, <1>5, <2>1, <2>2, <2>3, <2>4, <2>5
  <1>10. \A v \in Consoles : v # w => list'[v] = list[v] /\ lastId'[v] = lastId[v] /\ passed'[v] = passed[v]
    BY <1>2, <1>3
  <1>11. lastId'[w] = (IF b = L + 1 THEN lastId[w] ELSE alerts[L].id) /\ passed'[w] = passed[w] \cup left
    BY <1>2, <1>3
  <1>12. \A j, k \in 1..L : j < k => alerts[j].id < alerts[k].id /\ alerts[j].n < alerts[k].n
    BY DEF PagingInv, AlertsInOrder
  <1>13. lastId'[w] \in 0..MaxAlerts /\ lastId[w] <= lastId'[w] /\ \A k \in b..L : alerts[k].id <= lastId'[w]
    <2>1. CASE b = L + 1
      BY <1>3, <1>11, <2>1
    <2>2. CASE b # L + 1
      <3>1. L \in 1..L /\ ~(L < a) /\ b \in 1..L
        BY <1>3, <1>5, <2>2
      <3>2. lastId'[w] = alerts[L].id /\ alerts[L].id \in 1..MaxAlerts /\ lastId[w] \in Nat
        BY <1>3, <1>4, <1>11, <2>2, <3>1
      <3>3. ~(alerts[L].id <= lastId[w])
        BY <1>5, <3>1
      <3>4. ASSUME NEW k \in b..L
            PROVE  alerts[k].id <= alerts[L].id
        <4>1. k \in 1..L /\ (k = L \/ k < L)
          BY <1>3, <1>5
        <4>2. alerts[k].id \in Nat /\ alerts[L].id \in Nat
          BY <1>4, <3>1, <4>1
        <4> QED BY <1>12, <3>1, <4>1, <4>2
      <3> QED BY <3>2, <3>3, <3>4
    <2> QED BY <2>1, <2>2
  <1>14. left \subseteq 1..MaxAlerts
    <2>1. \A i \in 1..(L + 1 - a) : a + i - 1 \in 1..L
      BY <1>3, <1>5
    <2> QED BY <1>4, <1>6, <2>1
  <1>15. Paging!TypeOK'
    <2>1. list' \in [Consoles -> Seq(1..MaxAlerts)]
      BY <1>2, <1>3, <1>9
    <2>2. lastId' \in [Consoles -> 0..MaxAlerts]
      BY <1>2, <1>3, <1>11, <1>13
    <2>3. passed' \in [Consoles -> SUBSET (1..MaxAlerts)]
      BY <1>2, <1>3, <1>14
    <2>4. alerts' = alerts /\ nextId' = nextId /\ raised' = raised
      BY <1>2
    <2> QED BY <2>1, <2>2, <2>3, <2>4 DEF PagingInv, Paging!TypeOK
  <1>16. AlertsInOrder'
    BY <1>2 DEF PagingInv, AlertsInOrder
  <1>17. \A i \in 1..N : \E k \in 1..L : k < a /\ alerts[k].n = list[w][i]
    BY <1>5 DEF PagingInv, ConsoleAt, N
  <1>18. ASSUME NEW v \in Consoles
         PROVE  ConsoleAt(v)'
    <2>1. CASE v # w
      BY <1>2, <1>10, <2>1 DEF PagingInv, ConsoleAt
    <2>2. CASE v = w
      <3>1. lastId'[w] = 0 \/ \E k \in 1..L : alerts[k].id = lastId'[w]
        <4>1. CASE b = L + 1
          BY <1>11, <4>1 DEF PagingInv, ConsoleAt
        <4>2. CASE b # L + 1
          <5>1. L \in 1..L
            BY <1>3, <1>5, <4>2
          <5> QED BY <1>11, <4>2, <5>1
        <4> QED BY <4>1, <4>2
      <3>2. ASSUME NEW i \in 1..(N + m)
            PROVE  \E k \in 1..L : alerts[k].id <= lastId'[w] /\ alerts[k].n = list'[w][i]
        <4>1. CASE i \in 1..N
          <5>1. PICK k \in 1..L : k < a /\ alerts[k].n = list[w][i]
            BY <1>17, <4>1
          <5>2. alerts[k].id <= lastId[w]
            BY <1>5, <5>1
          <5>3. alerts[k].id <= lastId'[w]
            BY <1>3, <1>4, <1>13, <5>2
          <5> QED BY <1>9, <4>1, <5>1, <5>3
        <4>2. CASE i \notin 1..N
          <5>1. i - N \in 1..m /\ N + (i - N) = i
            BY <1>3, <1>5, <4>2
          <5>2. b + (i - N) - 1 \in 1..L /\ b + (i - N) - 1 \in b..L
            BY <1>3, <1>5, <5>1
          <5>3. list'[w][i] = alerts[b + (i - N) - 1].n
            BY <1>9, <5>1
          <5> QED BY <1>13, <5>2, <5>3
        <4> QED BY <4>1, <4>2
      <3>3. \A i \in 1..Len(list'[w]) : \E k \in 1..L : alerts[k].id <= lastId'[w] /\ alerts[k].n = list'[w][i]
        BY <1>9, <3>2
      <3> QED BY <1>2, <2>2, <3>1, <3>3 DEF ConsoleAt
    <2> QED BY <2>1, <2>2
  <1>19. Paging!AlertsOnce'
    <2> SUFFICES ASSUME NEW v \in Consoles, NEW i \in DOMAIN list'[v], NEW j \in DOMAIN list'[v], i < j
                 PROVE  list'[v][i] < list'[v][j]
      BY DEF Paging!AlertsOnce
    <2>1. CASE v # w
      BY <1>10, <2>1 DEF PagingInv, Paging!AlertsOnce
    <2>2. CASE v = w
      <3>1. i \in 1..(N + m) /\ j \in 1..(N + m)
        BY <1>9, <2>2
      <3>2. CASE j \in 1..N
        <4>1. i \in 1..N /\ DOMAIN list[w] = 1..N
          BY <1>3, <1>9, <3>1, <3>2
        <4> QED BY <1>9, <2>2, <3>2, <4>1 DEF PagingInv, Paging!AlertsOnce
      <3>3. CASE j \notin 1..N
        <4>1. j - N \in 1..m /\ N + (j - N) = j
          BY <1>9, <3>1, <3>3
        <4>2. b + (j - N) - 1 \in b..L /\ b + (j - N) - 1 \in 1..L
          BY <1>3, <1>5, <4>1, SMTT(30)
        <4>3. list'[w][j] = alerts[b + (j - N) - 1].n
          BY <1>9, <4>1
        <4>4. CASE i \in 1..N
          <5>1. PICK k \in 1..L : k < a /\ alerts[k].n = list[w][i]
            BY <1>17, <4>4
          <5>2. k < b + (j - N) - 1
            BY <1>3, <1>5, <4>2, <5>1
          <5> QED BY <1>9, <1>12, <2>2, <4>2, <4>3, <4>4, <5>1, <5>2
        <4>5. CASE i \notin 1..N
          <5>1. i - N \in 1..m /\ N + (i - N) = i
            BY <1>9, <3>1, <4>5
          <5>2. b + (i - N) - 1 \in 1..L /\ b + (i - N) - 1 < b + (j - N) - 1
            BY <1>3, <1>5, <1>9, <3>1, <5>1
          <5>3. list'[w][i] = alerts[b + (i - N) - 1].n
            BY <1>9, <5>1
          <5> QED BY <1>12, <2>2, <4>2, <4>3, <5>2, <5>3
        <4> QED BY <4>4, <4>5
      <3> QED BY <3>2, <3>3
    <2> QED BY <2>1, <2>2
  <1>20. ASSUME NEW n, \E i \in DOMAIN list[w] : list[w][i] = n
         PROVE  \E i \in DOMAIN list'[w] : list'[w][i] = n
    <2>1. PICK i \in 1..N : list[w][i] = n
      BY <1>9, <1>20
    <2>2. i \in DOMAIN list'[w]
      BY <1>3, <1>5, <1>9
    <2> QED BY <1>9, <2>1, <2>2
  <1>21. ASSUME NEW k \in b..L
         PROVE  \E i \in DOMAIN list'[w] : list'[w][i] = alerts[k].n
    <2>1. k - b + 1 \in 1..m /\ b + (k - b + 1) - 1 = k /\ N + (k - b + 1) \in 1..(N + m)
      BY <1>3, <1>5
    <2>2. list'[w][N + (k - b + 1)] = alerts[k].n
      BY <1>9, <2>1
    <2>3. DOMAIN list'[w] = 1..(N + m)
      BY <1>9
    <2> QED BY <2>1, <2>2, <2>3
  <1>22. Paging!OnlyOverflowSkips'
    <2> SUFFICES ASSUME NEW v \in Consoles, NEW k \in 1..L, alerts[k].id <= lastId'[v]
                 PROVE  (\E i \in DOMAIN list'[v] : list'[v][i] = alerts[k].n) \/ alerts[k].n \in passed'[v]
      <3>1. alerts' = alerts /\ DOMAIN alerts = 1..L
        BY <1>2, <1>3
      <3> QED BY <3>1 DEF Paging!OnlyOverflowSkips, Paging!Shown
    <2>1. k \in DOMAIN alerts
      BY <1>3
    <2>2. CASE v # w
      BY <1>10, <2>1, <2>2 DEF PagingInv, Paging!OnlyOverflowSkips, Paging!Shown
    <2>3. CASE v = w
      <3>1. CASE k < a
        <4>1. (\E i \in DOMAIN list[w] : list[w][i] = alerts[k].n) \/ alerts[k].n \in passed[w]
          BY <1>5, <2>1, <3>1 DEF PagingInv, Paging!OnlyOverflowSkips, Paging!Shown
        <4> QED BY <1>11, <1>20, <2>3, <4>1
      <3>2. CASE ~(k < a) /\ k < b
        <4>1. k - a + 1 \in 1..(L + 1 - a) /\ a + (k - a + 1) - 1 = k
          <5>1. a \in Int /\ b \in Int /\ L \in Int /\ k \in 1..L
            BY ONLY <1>3, <1>5, k \in 1..L
          <5> QED BY ONLY <3>2, <5>1
        <4>2. TailFrom(a)[k - a + 1] = alerts[k] /\ k - a + 1 \in DOMAIN TailFrom(a)
          BY <1>6, <4>1
        <4>3. CASE alerts[k].n \in left
          BY <1>11, <2>3, <4>3
        <4>4. CASE alerts[k].n \notin left
          <5>1. PICK i \in 1..m : alerts[k].n = answer[i].n
            BY <1>6, <4>2, <4>4
          <5>2. b + i - 1 \in b..L /\ answer[i] = alerts[b + i - 1]
            BY <1>3, <1>5, <1>6, SMTT(30)
          <5> QED BY <1>21, <2>3, <5>1, <5>2
        <4> QED BY <4>3, <4>4
      <3>3. CASE ~(k < b)
        <4>1. k \in b..L
          BY <1>3, <1>5, <3>3
        <4> QED BY <1>21, <2>3, <4>1
      <3> QED BY <3>1, <3>2, <3>3
    <2> QED BY <2>2, <2>3
  <1>23. Paging!OverflowIsOldest'
    <2> SUFFICES ASSUME NEW v \in Consoles, NEW n \in passed'[v]
                 PROVE  Paging!Cardinality({j \in DOMAIN list'[v] : list'[v][j] > n}) >= Limit
      BY DEF Paging!OverflowIsOldest
    <2>1. CASE v # w
      BY <1>10, <2>1 DEF PagingInv, Paging!OverflowIsOldest
    <2>2. CASE v = w /\ n \in passed[w]
      <3> DEFINE P == {j \in DOMAIN list[w] : list[w][j] > n}
                 Q == {j \in DOMAIN list'[w] : list'[w][j] > n}
      <3>1. DOMAIN list[w] = 1..N /\ DOMAIN list'[w] = 1..(N + m)
        BY <1>9
      <3>2. P \subseteq Q /\ Q \subseteq DOMAIN list'[w]
        BY <1>3, <1>5, <1>9, <3>1, SMTT(30)
      <3>3. Paging!Cardinality(P) >= Limit
        BY <2>2 DEF PagingInv, Paging!OverflowIsOldest
      <3> HIDE DEF P, Q
      <3>4. /\ Paging!Cardinality(P) \in Nat /\ Paging!Cardinality(Q) \in Nat
            /\ Paging!Cardinality(P) <= Paging!Cardinality(Q)
        BY <1>9, <3>2, ListCount
      <3>5. Paging!Cardinality(Q) >= Limit
        BY <3>3, <3>4
      <3> QED BY <2>2, <3>5 DEF Q
    <2>3. CASE v = w /\ n \notin passed[w]
      <3>1. n \in left
        BY <1>11, <2>3
      <3>2. PICK i \in 1..(L + 1 - a) : n = alerts[a + i - 1].n
        <4>1. PICK k \in DOMAIN TailFrom(a) : n = TailFrom(a)[k].n
          BY <3>1
        <4> QED BY <1>6, <4>1
      <3>3. a + i - 1 \in 1..L
        BY <1>3, <1>5
      <3>4. a + i - 1 < b
        <4> SUFFICES ASSUME ~(a + i - 1 < b) PROVE FALSE
          OBVIOUS
        <4>1. a + i - 1 - b + 1 \in 1..m /\ b + (a + i - 1 - b + 1) - 1 = a + i - 1
          BY <1>3, <1>5, <3>3
        <4>2. answer[a + i - 1 - b + 1].n = n /\ a + i - 1 - b + 1 \in DOMAIN answer
          BY <1>6, <3>2, <4>1
        <4> QED BY <3>1, <4>2
      <3>5. m = Limit
        BY <1>3, <1>5, <3>4
      <3> DEFINE P == (N + 1)..(N + m)
                 Q == {j \in DOMAIN list'[w] : list'[w][j] > n}
      <3>6. P \subseteq Q
        <4> SUFFICES ASSUME NEW j \in P PROVE j \in DOMAIN list'[w] /\ list'[w][j] > n
          OBVIOUS
        <4>1. j - N \in 1..m /\ N + (j - N) = j /\ j \in 1..(N + m)
          BY <1>3, <1>5
        <4>2. list'[w][j] = alerts[b + (j - N) - 1].n /\ j \in DOMAIN list'[w]
          BY <1>9, <4>1
        <4>3. b + (j - N) - 1 \in 1..L /\ a + i - 1 < b + (j - N) - 1
          BY <1>3, <1>5, <3>4, <4>1
        <4>4. alerts[a + i - 1].n < alerts[b + (j - N) - 1].n
          BY <1>12, <3>3, <4>3
        <4>5. alerts[a + i - 1].n \in Nat /\ alerts[b + (j - N) - 1].n \in Nat
          BY <1>4, <3>3, <4>3
        <4> QED BY <3>2, <4>2, <4>4, <4>5
      <3>7. Paging!Cardinality(P) = Limit
        <4>1. CASE m = 0
          <5>1. P = {}
            BY <1>3, <4>1
          <5> QED BY <3>5, <4>1, <5>1, FS_EmptySet, PagingCardinality
        <4>2. CASE m # 0
          <5>1. Cardinality((N + 1)..(N + m)) = (N + m) - (N + 1) + 1
            BY <1>9, <4>2, FS_Interval
          <5>2. (N + m) - (N + 1) + 1 = m
            BY <1>9
          <5> QED BY <3>5, <5>1, <5>2, PagingCardinality
        <4> QED BY <4>1, <4>2
      <3>8. Q \subseteq DOMAIN list'[w]
        OBVIOUS
      <3> HIDE DEF P, Q
      <3>9. /\ Paging!Cardinality(Q) \in Nat
            /\ Paging!Cardinality(P) <= Paging!Cardinality(Q)
        BY <1>9, <3>6, <3>8, ListCount
      <3>10. Paging!Cardinality(Q) >= Limit
        BY <3>7, <3>9
      <3> QED BY <2>3, <3>10 DEF Q
    <2> QED BY <2>1, <2>2, <2>3
  <1> QED BY <1>15, <1>16, <1>18, <1>19, <1>22, <1>23 DEF PagingInv

\* A new line has an identifier and a number larger than all before it.
LEMMA PagingLogAlert ==
  ASSUME PagingInv, Paging!LogAlert
  PROVE  PagingInv'
  <1> USE PagingAssumed
  <1> DEFINE L == Len(alerts)
  <1>1. /\ raised < MaxAlerts /\ raised' = raised + 1 /\ nextId' = nextId + 1
        /\ UNCHANGED <<lastId, list, passed>>
    BY DEF Paging!LogAlert, Paging!consoleVars
  <1>2. /\ alerts \in Seq(Paging!Lines) /\ L \in Nat /\ raised \in 0..MaxAlerts
        /\ nextId \in 1..(MaxAlerts + 1) /\ nextId <= raised + 1
    BY DEF PagingInv, Paging!TypeOK, AlertsInOrder
  <1>3. \A k \in 1..L : alerts[k].id \in Nat /\ alerts[k].n \in Nat
    BY LineFields
  <1>4. CASE alerts' = alerts
    <2>1. Paging!TypeOK'
      BY <1>1, <1>2, <1>4 DEF PagingInv, Paging!TypeOK
    <2>2. AlertsInOrder'
      BY <1>1, <1>2, <1>3, <1>4 DEF PagingInv, AlertsInOrder
    <2> QED BY <1>1, <1>4, <2>1, <2>2 DEF PagingInv, Paging!AlertsOnce,
               Paging!OnlyOverflowSkips, Paging!OverflowIsOldest, Paging!Shown, ConsoleAt
  <1>5. CASE alerts' = Append(alerts, [id |-> nextId, n |-> raised + 1])
    <2> DEFINE line == [id |-> nextId, n |-> raised + 1]
    <2>1. line \in Paging!Lines /\ line.id = nextId /\ line.n = raised + 1
      BY <1>1, <1>2 DEF Paging!Lines
    <2> HIDE DEF line
    <2>2. /\ alerts' \in Seq(Paging!Lines) /\ Len(alerts') = L + 1
          /\ \A k \in 1..L : alerts'[k] = alerts[k]
          /\ alerts'[L + 1] = line
          /\ DOMAIN alerts' = 1..(L + 1) /\ DOMAIN alerts = 1..L
      BY <1>2, <1>5, <2>1, AppendProperties DEF line
    <2>3. Paging!TypeOK'
      BY <1>1, <1>2, <2>2 DEF PagingInv, Paging!TypeOK
    <2>4. AlertsInOrder'
      <3>1. \A k \in 1..L : alerts[k].id < nextId /\ alerts[k].n <= raised
        BY DEF PagingInv, AlertsInOrder
      <3>2. ASSUME NEW j \in 1..(L + 1), NEW k \in 1..(L + 1), j < k
            PROVE  alerts'[j].id < alerts'[k].id /\ alerts'[j].n < alerts'[k].n
        <4>1. j \in 1..L
          BY <1>2, <3>2
        <4>2. CASE k \in 1..L
          BY <2>2, <3>2, <4>1, <4>2 DEF PagingInv, AlertsInOrder
        <4>3. CASE k = L + 1
          BY <1>2, <1>3, <2>1, <2>2, <3>1, <4>1, <4>3
        <4> QED BY <1>2, <4>2, <4>3
      <3>3. ASSUME NEW k \in 1..(L + 1)
            PROVE  alerts'[k].id < nextId' /\ alerts'[k].n <= raised'
        <4>1. CASE k \in 1..L
          BY <1>1, <1>2, <1>3, <2>2, <3>1, <4>1
        <4>2. CASE k = L + 1
          BY <1>1, <1>2, <2>1, <2>2, <4>2
        <4> QED BY <1>2, <4>1, <4>2
      <3>4. nextId' <= raised' + 1
        BY <1>1, <1>2
      <3> QED BY <2>2, <3>2, <3>3, <3>4 DEF AlertsInOrder
    <2>5. ASSUME NEW w \in Consoles
          PROVE  ConsoleAt(w)' /\ lastId[w] < nextId
      <3>1. ConsoleAt(w)
        BY DEF PagingInv
      <3>2. 1..L \subseteq 1..(L + 1)
        BY <1>2
      <3>3. lastId'[w] = 0 \/ \E k \in 1..(L + 1) : alerts'[k].id = lastId'[w]
        BY <1>1, <2>2, <3>1, <3>2 DEF ConsoleAt
      <3>4. \A i \in 1..Len(list'[w]) : \E k \in 1..(L + 1) :
               alerts'[k].id <= lastId'[w] /\ alerts'[k].n = list'[w][i]
        <4> SUFFICES ASSUME NEW i \in 1..Len(list[w])
                     PROVE  \E k \in 1..(L + 1) : alerts'[k].id <= lastId[w] /\ alerts'[k].n = list[w][i]
          BY <1>1
        <4>1. PICK k \in 1..L : alerts[k].id <= lastId[w] /\ alerts[k].n = list[w][i]
          BY <3>1 DEF ConsoleAt
        <4> QED BY <2>2, <3>2, <4>1
      <3>5. lastId[w] < nextId
        BY <1>2, <3>1 DEF ConsoleAt, PagingInv, AlertsInOrder
      <3> QED BY <2>2, <3>3, <3>4, <3>5 DEF ConsoleAt
    <2>6. Paging!OnlyOverflowSkips'
      <3> SUFFICES ASSUME NEW w \in Consoles, NEW k \in 1..(L + 1), alerts'[k].id <= lastId[w]
                   PROVE  (\E i \in DOMAIN list[w] : list[w][i] = alerts'[k].n) \/ alerts'[k].n \in passed[w]
        BY <1>1, <2>2 DEF Paging!OnlyOverflowSkips, Paging!Shown
      <3>1. k # L + 1
        <4>1. lastId[w] \in Nat
          BY DEF PagingInv, Paging!TypeOK
        <4>2. lastId[w] < nextId
          BY <2>5
        <4>3. k = L + 1 => nextId <= lastId[w]
          BY <2>1, <2>2
        <4> QED BY <1>2, <4>1, <4>2, <4>3
      <3>2. k \in 1..L
        BY <1>2, <3>1
      <3> QED BY <2>2, <3>2 DEF PagingInv, Paging!OnlyOverflowSkips, Paging!Shown
    <2>7. Paging!AlertsOnce' /\ Paging!OverflowIsOldest'
      BY <1>1 DEF PagingInv, Paging!AlertsOnce, Paging!OverflowIsOldest
    <2> QED BY <2>3, <2>4, <2>5, <2>6, <2>7 DEF PagingInv
  <1> QED BY <1>4, <1>5 DEF Paging!LogAlert

\* A server that starts again counts on from the last line.
LEMMA PagingServerRestart ==
  ASSUME PagingInv, Paging!ServerRestart
  PROVE  PagingInv'
  <1> USE PagingAssumed
  <1> DEFINE L == Len(alerts)
  <1>1. /\ nextId' = Paging!LoadLastAlertId + 1
        /\ UNCHANGED <<alerts, raised, lastId, list, passed>>
    BY DEF Paging!ServerRestart, Paging!consoleVars
  <1>2. /\ alerts \in Seq(Paging!Lines) /\ L \in Nat /\ DOMAIN alerts = 1..L
        /\ raised \in 0..MaxAlerts /\ nextId \in 1..(MaxAlerts + 1) /\ nextId <= raised + 1
    BY DEF PagingInv, Paging!TypeOK, AlertsInOrder
  <1>3. \A k \in 1..L : alerts[k].id \in Nat /\ alerts[k].n \in Nat /\ alerts[k].id < nextId
    BY LineFields DEF PagingInv, AlertsInOrder
  <1> DEFINE S == {0} \cup {alerts[k].id : k \in DOMAIN alerts}
             Top(t) == \A k \in DOMAIN alerts : alerts[k].id <= t
  <1>4. Paging!LoadLastAlertId = CHOOSE t \in S : Top(t)
    BY DEF Paging!LoadLastAlertId
  <1>5. \E t \in S : Top(t)
    <2>1. CASE L = 0
      BY <1>2, <2>1
    <2>2. CASE L # 0
      <3>1. L \in 1..L
        BY <1>2, <2>2
      <3>2. ASSUME NEW k \in 1..L
            PROVE  alerts[k].id <= alerts[L].id
        <4>0. k \in Int /\ L \in Int /\ k <= L
          BY <1>2
        <4>1. k = L \/ k < L
          BY <4>0
        <4> QED BY <1>3, <3>1, <4>1 DEF PagingInv, AlertsInOrder
      <3> QED BY <1>2, <3>1, <3>2
    <2> QED BY <2>1, <2>2
  <1>6. \A t \in S : t \in Nat /\ t < nextId
    BY <1>2, <1>3
  <1>7. PICK t : t = Paging!LoadLastAlertId
    OBVIOUS
  <1>8. t \in S /\ Top(t)
    <2> HIDE DEF S, Top
    <2> QED BY <1>4, <1>5, <1>7
  <1>9. /\ t \in Nat /\ nextId' = t + 1 /\ nextId' <= nextId
        /\ \A k \in 1..L : alerts[k].id < nextId'
    <2>1. t \in Nat /\ t < nextId
      BY <1>6, <1>8
    <2>2. nextId' = t + 1
      BY <1>1, <1>7
    <2>3. \A k \in 1..L : alerts[k].id <= t
      BY <1>2, <1>8
    <2> QED BY <1>2, <1>3, <2>1, <2>2, <2>3
  <1>10. Paging!TypeOK'
    <2>1. nextId' \in 1..(MaxAlerts + 1)
      BY <1>2, <1>9
    <2> QED BY <1>1, <2>1 DEF PagingInv, Paging!TypeOK
  <1>11. AlertsInOrder'
    <2>1. nextId' <= raised + 1
      BY <1>2, <1>9
    <2> QED BY <1>1, <1>9, <2>1 DEF PagingInv, AlertsInOrder
  <1> QED BY <1>1, <1>10, <1>11 DEF PagingInv, Paging!AlertsOnce, Paging!OnlyOverflowSkips,
             Paging!OverflowIsOldest, Paging!Shown, ConsoleAt

\* A console that starts again has nothing.
LEMMA PagingConsoleRestart ==
  ASSUME PagingInv, NEW w \in Consoles, Paging!ConsoleRestart(w)
  PROVE  PagingInv'
  <1> USE PagingAssumed
  <1>1. /\ lastId' = [lastId EXCEPT ![w] = 0] /\ list' = [list EXCEPT ![w] = <<>>]
        /\ passed' = [passed EXCEPT ![w] = {}] /\ UNCHANGED <<alerts, nextId, raised>>
    BY DEF Paging!ConsoleRestart, Paging!serverVars
  <1>2. Paging!TypeOK
    BY DEF PagingInv
  <1>3. /\ lastId'[w] = 0 /\ list'[w] = <<>> /\ passed'[w] = {}
        /\ \A v \in Consoles : v # w => lastId'[v] = lastId[v] /\ list'[v] = list[v] /\ passed'[v] = passed[v]
    BY <1>1, <1>2 DEF Paging!TypeOK
  <1>4. Paging!TypeOK'
    BY <1>1, <1>2 DEF Paging!TypeOK
  <1>5. AlertsInOrder'
    BY <1>1 DEF PagingInv, AlertsInOrder
  <1>6. \A v \in Consoles : ConsoleAt(v)'
    BY <1>1, <1>3 DEF PagingInv, ConsoleAt
  <1>7. Paging!AlertsOnce'
    BY <1>3 DEF PagingInv, Paging!AlertsOnce
  <1>8. Paging!OverflowIsOldest'
    BY <1>3 DEF PagingInv, Paging!OverflowIsOldest
  <1>9. Paging!OnlyOverflowSkips'
    <2> SUFFICES ASSUME NEW v \in Consoles, NEW k \in DOMAIN alerts, alerts[k].id <= lastId'[v]
                 PROVE  (\E i \in DOMAIN list'[v] : list'[v][i] = alerts[k].n) \/ alerts[k].n \in passed'[v]
      BY <1>1 DEF Paging!OnlyOverflowSkips, Paging!Shown
    <2>1. v # w
      <3>1. k \in 1..Len(alerts)
        BY <1>2 DEF Paging!TypeOK
      <3> QED BY <1>3, <3>1, LineFields
    <2> QED BY <1>3, <2>1 DEF PagingInv, Paging!OnlyOverflowSkips, Paging!Shown
  <1> QED BY <1>4, <1>5, <1>6, <1>7, <1>8, <1>9 DEF PagingInv

\* Every step keeps the invariant of the alerts.
LEMMA PagingNext ==
  ASSUME PagingInv, Paging!Next
  PROVE  PagingInv'
  BY PagingLogAlert, PagingServerRestart, PagingRefresh, PagingConsoleRestart DEF Paging!Next

\* There are no alerts at first.
LEMMA PagingInit == Init => PagingInv
  <1> SUFFICES ASSUME Init PROVE PagingInv
    OBVIOUS
  <1> USE PagingAssumed
  <1>1. Paging!Init
    BY DEF Init
  <1>2. Paging!TypeOK
    BY <1>1 DEF Paging!Init, Paging!TypeOK
  <1>3. AlertsInOrder /\ \A w \in Consoles : ConsoleAt(w)
    BY <1>1 DEF Paging!Init, AlertsInOrder, ConsoleAt
  <1>4. Paging!AlertsOnce /\ Paging!OnlyOverflowSkips /\ Paging!OverflowIsOldest
    BY <1>1 DEF Paging!Init, Paging!AlertsOnce, Paging!OnlyOverflowSkips, Paging!OverflowIsOldest
  <1> QED BY <1>2, <1>3, <1>4 DEF PagingInv

\* The invariant is about the variables of the alerts only.
LEMMA PagingQuiet ==
  ASSUME PagingInv, UNCHANGED paging
  PROVE  PagingInv'
  BY DEF PagingInv, paging, Paging!TypeOK, Paging!AlertsOnce, Paging!OnlyOverflowSkips,
     Paging!OverflowIsOldest, Paging!Shown, AlertsInOrder, ConsoleAt

-----------------------------------------------------------------------------
(* The proof for the panels *)

\* The panels keep their types.
LEMMA BindingNext ==
  ASSUME Binding!TypeOK, Binding!Next
  PROVE  Binding!TypeOK'
  <1> USE DEF Binding!Policies, Binding!NoClients, Binding!NoView, Binding!At,
              Binding!policyVars, Binding!panelVars
  <1>1. ASSUME NEW k \in Clients, Binding!RegisterClient(k)
        PROVE  Binding!TypeOK'
    BY <1>1 DEF Binding!RegisterClient, Binding!TypeOK
  <1>2. ASSUME NEW u \in Users, Binding!LockChange(u)
        PROVE  Binding!TypeOK'
    BY <1>2 DEF Binding!LockChange, Binding!TypeOK
  <1>3. ASSUME NEW w \in Consoles, Binding!ConsoleRestart(w)
        PROVE  Binding!TypeOK'
    BY <1>3 DEF Binding!ConsoleRestart, Binding!TypeOK
  <1>4. ASSUME NEW w \in Consoles, Binding!OnRefreshBinding(w)
        PROVE  Binding!TypeOK'
    BY <1>4 DEF Binding!OnRefreshBinding, Binding!TypeOK
  <1>5. ASSUME NEW w \in Consoles, Binding!GetBindingList(w)
        PROVE  Binding!TypeOK'
    BY <1>5 DEF Binding!GetBindingList, Binding!TypeOK
  <1>6. ASSUME NEW w \in Consoles, Binding!GetBindingFlag(w)
        PROVE  Binding!TypeOK'
    BY <1>6 DEF Binding!GetBindingFlag, Binding!TypeOK
  <1>7. ASSUME NEW w \in Consoles, Binding!RequestFails(w)
        PROVE  Binding!TypeOK'
    BY <1>7 DEF Binding!RequestFails, Binding!TypeOK
  <1>8. ASSUME NEW w \in Consoles, Binding!OnToggleBinding(w)
        PROVE  Binding!TypeOK'
    BY <1>8 DEF Binding!OnToggleBinding, Binding!TypeOK
  <1>9. ASSUME NEW w \in Consoles, Binding!ToggleFetched(w)
        PROVE  Binding!TypeOK'
    BY <1>9 DEF Binding!ToggleFetched, Binding!TypeOK
  <1>10. ASSUME NEW w \in Consoles, Binding!SetBinding(w)
        PROVE  Binding!TypeOK'
    BY <1>10 DEF Binding!SetBinding, Binding!TypeOK
  <1>11. ASSUME NEW w \in Consoles, Binding!OnRefreshStats(w)
        PROVE  Binding!TypeOK'
    BY <1>11 DEF Binding!OnRefreshStats, Binding!TypeOK
  <1>12. ASSUME NEW w \in Consoles, NEW k \in Clients, NEW v \in {"allowed", "blocked"},
                Binding!SetClientAllowed(w, k, v)
        PROVE  Binding!TypeOK'
    BY <1>12 DEF Binding!SetClientAllowed, Binding!TypeOK
  <1>13. ASSUME NEW w \in Consoles, NEW u \in Users, Binding!OnUnlockUser(w, u)
        PROVE  Binding!TypeOK'
    BY <1>13 DEF Binding!OnUnlockUser, Binding!TypeOK
  <1> QED BY <1>1, <1>2, <1>3, <1>4, <1>5, <1>6, <1>7, <1>8, <1>9, <1>10, <1>11, <1>12, <1>13
      DEF Binding!Next

\* No console has asked for anything at first.
LEMMA BindingInit == Init => Binding!TypeOK
  <1> SUFFICES ASSUME Init PROVE Binding!TypeOK
    OBVIOUS
  <1>1. Binding!Init
    BY DEF Init
  <1>2. Binding!NoClients \in Binding!Policies
    BY DEF Binding!Policies, Binding!NoClients
  <1>3. Binding!NoView \in [known : BOOLEAN, on : BOOLEAN, clients : Binding!Policies]
    BY <1>2 DEF Binding!NoView
  <1> QED BY <1>1, <1>2, <1>3 DEF Binding!Init, Binding!TypeOK

-----------------------------------------------------------------------------
\* A console shows no alert twice and all in the order in which they were
\* raised, and passes over an alert of the file only when Limit newer ones are
\* shown instead, for any number of consoles and alerts, whatever lines are lost
\* and whenever the server or a console is started again.
THEOREM ConsolesCorrect == LiveSpec => []ConsolesSafe
  <1>1. PagingInv /\ [Next]_vars => PagingInv'
    <2> SUFFICES ASSUME PagingInv, [Next]_vars PROVE PagingInv'
      OBVIOUS
    <2>1. CASE PagingStep
      BY <2>1, PagingNext DEF PagingStep
    <2>2. CASE UNCHANGED paging
      BY <2>2, PagingQuiet
    <2>3. PagingStep \/ UNCHANGED paging
      BY DEF Next, vars, FileCallStep, AdminCallStep, ProcessStep, MigrationStep,
         KilledMigrationStep, BindingStep, WindowStep, SearchStep
    <2> QED BY <2>1, <2>2, <2>3
  <1>2. Binding!TypeOK /\ [Next]_vars => Binding!TypeOK'
    <2> SUFFICES ASSUME Binding!TypeOK, [Next]_vars PROVE Binding!TypeOK'
      OBVIOUS
    <2>1. CASE BindingStep
      BY <2>1, BindingNext DEF BindingStep
    <2>2. CASE UNCHANGED panels
      BY <2>2 DEF panels, Binding!TypeOK
    <2>3. BindingStep \/ UNCHANGED panels
      BY DEF Next, vars, FileCallStep, AdminCallStep, ProcessStep, MigrationStep,
         KilledMigrationStep, PagingStep, WindowStep, SearchStep
    <2> QED BY <2>1, <2>2, <2>3
  <1>3. PagingInv /\ Binding!TypeOK => ConsolesSafe
    BY DEF PagingInv, ConsolesSafe
  <1> QED BY <1>1, <1>2, <1>3, PagingInit, BindingInit, PTL DEF LiveSpec
=============================================================================
