----------------------------- MODULE ProcessRunner -----------------------------
(***************************************************************************)
(* WifiProcessRunner (server/src/wifi_process.cpp): one command at a time, *)
(* in a process group of its own, with a deadline.  The runner's system    *)
(* calls interleave with the command, with the processes the command       *)
(* starts and with the system, which gives a process identifier to another *)
(* process once nothing of the old one is left.                            *)
(*                                                                         *)
(* A process that is killed runs no more code, but one that waits inside   *)
(* the kernel ends only when that wait does.                               *)
(***************************************************************************)
EXTENDS Naturals, FiniteSets

CONSTANTS
  Pids,
  MaxTries      \* attempts of stop() to reap a killed command

RunnerAssumption == MaxTries \in Nat \ {0} /\ 0 \notin Pids

VARIABLES
  at,        \* next call of the runner
  for,       \* who called reap(): busy(), the loop of run(), or stop()
  pid,       \* pid_, 0 for none
  expired,   \* the deadline has passed
  tries,
  outcome,   \* of the last run()
  proc,      \* the process with each identifier
  kids,      \* processes of its group that the command started are alive
  last,      \* history: how the last command ended
  victim     \* history: a process of somebody else was killed

vars   == <<at, for, pid, expired, tries, outcome, proc, kids, last, victim>>
runner == <<at, for, pid, expired, tries, outcome>>

Phases == {"free", "forked", "grouped", "exec", "zombie", "other"}
Free   == [phase |-> "free", killed |-> FALSE, stuck |-> FALSE, code |-> "none"]
Live(p) == proc[p].phase \in {"forked", "grouped", "exec"}

\* Every variable keeps its type.
TypeOK ==
  /\ at \in {"idle", "fork", "setpgid", "deadline", "check", "kill", "wait", "killall"}
  /\ for \in {"busy", "loop", "stop", "tail"} /\ pid \in Pids \cup {0}
  /\ expired \in BOOLEAN /\ tries \in 0..MaxTries
  /\ outcome \in {"none", "Busy", "Success", "Failed", "TimedOut"}
  /\ proc \in [Pids -> [phase : Phases, killed : BOOLEAN, stuck : BOOLEAN,
                        code : {"none", "zero", "other", "signal"}]]
  /\ kids \in [Pids -> BOOLEAN]
  /\ victim \in BOOLEAN /\ last \in {"none", "zero", "other", "signal"}

Init ==
  /\ at = "idle" /\ for = "busy" /\ pid = 0 /\ expired = FALSE /\ tries = 0 /\ outcome = "none"
  /\ proc = [p \in Pids |-> Free] /\ kids = [p \in Pids |-> FALSE]
  /\ last = "none" /\ victim = FALSE

-----------------------------------------------------------------------------
(* Signals. *)

\* kill(-p): everybody in group p, which exists once setpgid() has made it.
KillGroup(p) ==
  /\ proc' = [proc EXCEPT ![p].killed = @ \/ proc[p].phase \in {"grouped", "exec"}]
  /\ kids' = [kids EXCEPT ![p] = FALSE]
  /\ victim' = (victim \/ proc[p].phase = "other")

-----------------------------------------------------------------------------
(* reap(), in three calls, and where its callers go on. *)

Returns(what) == at' = "idle" /\ outcome' = what /\ UNCHANGED <<for, tries>>
CheckAgain(who, n) == at' = "check" /\ for' = who /\ tries' = n /\ UNCHANGED outcome

\* Wrong on purpose: stop() waits until the command is gone.
NotReaped_Bug ==
  CASE for = "busy" -> Returns("Busy")
    [] for = "loop" -> at' = "deadline" /\ UNCHANGED <<for, tries, outcome>>
    [] for = "stop" -> at' = "killall" /\ UNCHANGED <<for, tries, outcome>>
    [] for = "tail" -> CheckAgain("tail", tries)

\* reap() said no.
NotReaped ==
  CASE for = "busy" -> Returns("Busy")
    [] for = "loop" -> at' = "deadline" /\ UNCHANGED <<for, tries, outcome>>
    [] for = "stop" -> at' = "killall" /\ UNCHANGED <<for, tries, outcome>>
    [] for = "tail" -> IF tries + 1 < MaxTries THEN CheckAgain("tail", tries + 1) ELSE Returns("TimedOut")

\* reap() said yes.
Reaped(code) ==
  CASE for = "busy" -> at' = "fork" /\ UNCHANGED <<for, tries, outcome>>
    [] for = "loop" -> Returns(IF code = "zero" THEN "Success" ELSE "Failed")
    [] OTHER        -> Returns("TimedOut")

\* Wrong on purpose: the command is reaped before its group is killed.
ReapCheck_Bug ==
  /\ at = "check"
  /\ IF pid = 0 THEN Reaped("none") /\ UNCHANGED proc
     ELSE IF proc[pid].phase = "zombie"
       THEN at' = "kill" /\ proc' = [proc EXCEPT ![pid] = Free] /\ UNCHANGED <<for, tries, outcome>>
     ELSE NotReaped /\ UNCHANGED proc
  /\ UNCHANGED <<pid, expired, kids, last, victim>>

\* waitid() with WNOWAIT: is the command over?
ReapCheck ==
  /\ at = "check"
  /\ IF pid = 0 THEN Reaped("none")
     ELSE IF proc[pid].phase = "zombie" THEN at' = "kill" /\ UNCHANGED <<for, tries, outcome>>
     ELSE NotReaped
  /\ UNCHANGED <<pid, expired, proc, kids, last, victim>>

\* Wrong on purpose: only the leader is waited for.
ReapKill_Bug ==
  /\ at = "kill" /\ at' = "wait"
  /\ UNCHANGED <<for, pid, expired, tries, outcome, proc, kids, last, victim>>

ReapKill ==
  /\ at = "kill" /\ at' = "wait"
  /\ KillGroup(pid)
  /\ UNCHANGED <<for, pid, expired, tries, outcome, last>>

\* Wrong on purpose: the status is read without asking whether the command exited.
ReapWait_Bug ==
  /\ at = "wait"
  /\ Reaped(IF proc[pid].code = "signal" THEN "zero" ELSE proc[pid].code)
  /\ pid' = 0 /\ proc' = [proc EXCEPT ![pid] = Free]
  /\ UNCHANGED <<expired, kids, last, victim>>

\* waitpid(): the identifier is given back.
ReapWait ==
  /\ at = "wait"
  /\ Reaped(proc[pid].code)
  /\ pid' = 0 /\ proc' = [proc EXCEPT ![pid] = Free]
  /\ UNCHANGED <<expired, kids, last, victim>>

-----------------------------------------------------------------------------
(* run() and stop() *)

\* Wrong on purpose: a command that could not be reaped is forgotten.
Run_Bug ==
  /\ at = "idle" /\ at' = "fork" /\ for' = "busy" /\ outcome' = "none"
  /\ UNCHANGED <<pid, expired, tries, proc, kids, last, victim>>

Run ==
  /\ at = "idle" /\ at' = "check" /\ for' = "busy" /\ outcome' = "none"
  /\ UNCHANGED <<pid, expired, tries, proc, kids, last, victim>>

Fork ==
  /\ at = "fork"
  /\ \/ /\ \E p \in Pids : /\ proc[p].phase = "free" /\ ~kids[p]
                           /\ pid' = p /\ proc' = [proc EXCEPT ![p].phase = "forked"]
        /\ at' = "setpgid" /\ expired' = FALSE /\ last' = "none" /\ UNCHANGED outcome
     \/ at' = "idle" /\ outcome' = "Failed" /\ UNCHANGED <<pid, proc, expired, last>>
  /\ UNCHANGED <<for, tries, kids, victim>>

\* The parent's setpgid(): too late, and not needed, once the command has.
SetGroup ==
  /\ at = "setpgid" /\ at' = "deadline"
  /\ proc' = [proc EXCEPT ![pid].phase = IF @ = "forked" THEN "grouped" ELSE @]
  /\ UNCHANGED <<for, pid, expired, tries, outcome, kids, last, victim>>

\* A turn of the loop: stop() after the deadline, reap() before it.
Deadline ==
  /\ at = "deadline"
  /\ CheckAgain(IF expired THEN "stop" ELSE "loop", 0)
  /\ UNCHANGED <<pid, expired, proc, kids, last, victim>>

\* kill(-pid_) and kill(pid_), and up to MaxTries times reap().
KillAll ==
  /\ at = "killall"
  /\ IF Live(pid) THEN /\ proc' = [proc EXCEPT ![pid].killed = TRUE]
                       /\ kids' = [kids EXCEPT ![pid] = FALSE] /\ UNCHANGED victim
     ELSE KillGroup(pid)
  /\ CheckAgain("tail", 0)
  /\ UNCHANGED <<pid, expired, last>>

Expire ==
  /\ at \notin {"idle", "fork"} /\ ~expired /\ expired' = TRUE
  /\ UNCHANGED <<at, for, pid, tries, outcome, proc, kids, last, victim>>

-----------------------------------------------------------------------------
(* The command. *)

Becomes(p, r) == proc' = [proc EXCEPT ![p] = r] /\ UNCHANGED <<runner, kids, victim>>
Ends(p, code) ==
  Becomes(p, [phase |-> "zombie", killed |-> FALSE, stuck |-> FALSE, code |-> code]) /\ last' = code
Runs(p) == ~proc[p].killed /\ ~proc[p].stuck

\* Its own setpgid() and what follows before execve().
ChildGroup(p) ==
  /\ proc[p].phase = "forked" /\ Runs(p)
  /\ Becomes(p, [proc[p] EXCEPT !.phase = "grouped"]) /\ UNCHANGED last

Exec(p) ==
  /\ proc[p].phase = "grouped" /\ Runs(p)
  /\ Becomes(p, [proc[p] EXCEPT !.phase = "exec"]) /\ UNCHANGED last

\* _exit(126) or _exit(127).
ChildFails(p) == proc[p].phase \in {"forked", "grouped"} /\ Runs(p) /\ Ends(p, "other")

Spawn(p) ==
  /\ proc[p].phase = "exec" /\ Runs(p) /\ ~kids[p]
  /\ kids' = [kids EXCEPT ![p] = TRUE] /\ UNCHANGED <<runner, proc, last, victim>>

Exit(p) == proc[p].phase = "exec" /\ Runs(p) /\ \E code \in {"zero", "other"} : Ends(p, code)

\* A kill takes effect.
Dies(p) == Live(p) /\ proc[p].killed /\ ~proc[p].stuck /\ Ends(p, "signal")

\* Somebody else kills the command, for want of memory for instance.
KilledOutside(p) ==
  Live(p) /\ ~proc[p].killed /\ Becomes(p, [proc[p] EXCEPT !.killed = TRUE]) /\ UNCHANGED last

\* It enters and leaves a wait inside the kernel.
Stick(p) ==
  /\ proc[p].phase = "exec" /\ Becomes(p, [proc[p] EXCEPT !.stuck = ~@]) /\ UNCHANGED last

KidsEnd(p) ==
  /\ kids[p] /\ kids' = [kids EXCEPT ![p] = FALSE] /\ UNCHANGED <<runner, proc, last, victim>>

\* The system gives a free identifier to another process, which later ends.
Reuse(p) ==
  /\ proc[p].phase \in {"free", "other"} /\ ~kids[p]
  /\ Becomes(p, [Free EXCEPT !.phase = IF proc[p].phase = "free" THEN "other" ELSE "free"])
  /\ UNCHANGED last

-----------------------------------------------------------------------------
Runner == ReapCheck \/ ReapKill \/ ReapWait \/ Fork \/ SetGroup \/ Deadline \/ KillAll

Command(p) ==
  ChildGroup(p) \/ Exec(p) \/ ChildFails(p) \/ Spawn(p) \/ Exit(p) \/ Dies(p)
    \/ KilledOutside(p) \/ Stick(p) \/ KidsEnd(p) \/ Reuse(p)

Next == Run \/ Runner \/ Expire \/ \E p \in Pids : Command(p)

Spec == Init /\ [][Next]_vars

\* The runner goes on and time passes; the command owes nothing.
Fairness == WF_vars(Runner) /\ WF_vars(Expire)

LiveSpec == Spec /\ Fairness

-----------------------------------------------------------------------------
(* Properties. *)

\* "its PID cannot be reused for an unrelated process group in this interval"
\* (reap): no process but the command's own is ever killed.
OnlyOwnKilled == ~victim

\* A command the runner has done with left nobody of its group running.
NoSurvivors == at = "idle" /\ pid = 0 => \A p \in Pids : ~kids[p]

\* A command that cannot be killed keeps the runner busy: two never run at once.
OneCommand == Cardinality({p \in Pids : Live(p)}) <= 1

\* Success is reported only of a command that ended by itself with code zero.
SuccessIsTrue == outcome = "Success" => last = "zero"

\* run() returns, even when the command cannot be killed.
RunReturns == at # "idle" ~> at = "idle"
===============================================================================
