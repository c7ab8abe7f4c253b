------------------------------ MODULE Launcher ------------------------------
(***************************************************************************)
(* The EDEN OS launcher (src/eden_core/cli.py): commands that start, stop  *)
(* and restart one background server and know it by a pid file only.       *)
(*                                                                         *)
(* Every command is a process of its own, and so is the server it starts,  *)
(* which is in a session of its own and outlives it.  Each look at the pid *)
(* file or the process table, and each change of them, is a step; between  *)
(* two steps a server can boot, fail to bind the port, die or be reaped,   *)
(* and other commands can run.                                             *)
(*                                                                         *)
(* Abstractions.  All commands use one host, port and state directory.     *)
(* Pids are written with the same number of digits.  A pid is given to     *)
(* another program only while no command remembers it: the kernel hands    *)
(* out pids in turn and a command lasts seconds.                           *)
(***************************************************************************)
EXTENDS Naturals

CONSTANTS
  Shells,       \* where commands are run; a shell runs one at a time
  Pids,         \* process ids of servers and unrelated programs
  Commands,     \* the commands that are run
  Foreground,   \* TRUE: "eden serve" is run by hand as well
  Abandonment,  \* TRUE: a command may be interrupted
  MaxCommands,  \* bound: commands run
  MaxFaults,    \* bound: deaths of servers and pids reused by other programs
  Absent,       \* the pid file does not exist; no pid
  Blank         \* the pid file is empty: opened for writing, not yet written

ASSUME CommandsAssumption ==
  Commands \subseteq {"start", "stop", "launch", "restart", "status"}
ASSUME ModesAssumption == Foreground \in BOOLEAN /\ Abandonment \in BOOLEAN
ASSUME BoundsAssumption == MaxCommands \in Nat /\ MaxFaults \in Nat
ASSUME PidsAssumption == Absent \notin Pids /\ Blank \notin Pids /\ Absent # Blank

VARIABLES
  pidfile,   \* content of eden-core.pid
  proc,      \* what runs under each pid
  port,      \* the pid that has bound the port
  pc,        \* what each shell's command does next
  command,
  pid,       \* the pid the command has read
  child,     \* the server the command has started
  attached,  \* its open pid file is still the one of that name
  exit,      \* exit status of the shell's last command
  online,    \* the pid the last command reported ONLINE
  unrecorded,  \* history: pids of servers that no command recorded
  issued, faults

shell == <<pc, command, pid, child, attached, exit, online>>
bounds == <<issued, faults>>
vars == <<pidfile, proc, port, shell, unrecorded, bounds>>

StartLabels ==
  {"read", "check", "clear", "unlink", "spawn", "open", "record", "poll"}
StopLabels ==
  {"stop", "alive", "eden", "signal", "wait", "stale", "refuse", "stopped"}

TypeOK ==
  /\ pidfile \in Pids \union {Absent, Blank}
  /\ proc \in [Pids -> {"free", "booting", "serving", "ending", "zombie",
                        "other"}]
  /\ port \in Pids \union {Absent}
  /\ pc \in [Shells -> {"idle", "preflight", "status", "ask"}
                         \union StartLabels \union StopLabels]
  /\ command \in [Shells -> {"start", "stop", "launch", "restart", "status"}]
  /\ pid \in [Shells -> Pids \union {Absent}]
  /\ child \in [Shells -> Pids \union {Absent}]
  /\ attached \in [Shells -> BOOLEAN]
  /\ exit \in [Shells -> 0 .. 2]
  /\ online \in [Shells -> Pids \union {Absent}]
  /\ unrecorded \subseteq Pids
  /\ issued \in 0 .. MaxCommands
  /\ faults \in 0 .. MaxFaults

Init ==
  /\ pidfile = Absent
  /\ proc = [p \in Pids |-> "free"]
  /\ port = Absent
  /\ pc = [s \in Shells |-> "idle"]
  /\ command = [s \in Shells |-> "status"]
  /\ pid = [s \in Shells |-> Absent]
  /\ child = [s \in Shells |-> Absent]
  /\ attached = [s \in Shells |-> FALSE]
  /\ exit = [s \in Shells |-> 0]
  /\ online = [s \in Shells |-> Absent]
  /\ unrecorded = {}
  /\ issued = 0
  /\ faults = 0

-----------------------------------------------------------------------------
(* The pid file and the process table                                      *)

\* A file that is missing or empty gives no pid.
ReadPid == IF pidfile = Blank THEN Absent ELSE pidfile

\* kill(pid, 0) succeeds for a dead process nobody has waited for ...
IsAlive(p) == p # Absent /\ proc[p] # "free"

\* ... but its command line is empty.
IsEdenCore(p) == p # Absent /\ proc[p] \in {"booting", "serving", "ending"}

Healthy == port # Absent /\ proc[port] = "serving"

Goto(s, label) == pc' = [pc EXCEPT ![s] = label]

\* unlink: writers that have the file open lose it.
Unlink ==
  /\ pidfile' = Absent
  /\ attached' = [t \in Shells |-> FALSE]

\* The command returns, and with it goes all it knows.
End(s, code) ==
  /\ Goto(s, "idle")
  /\ exit' = [exit EXCEPT ![s] = code]
  /\ pid' = [pid EXCEPT ![s] = Absent]
  /\ child' = [child EXCEPT ![s] = Absent]

\* start returns to launch, stop to restart, when they succeed.
StartReturns(s, code) ==
  IF code = 0 /\ command[s] \in {"launch", "restart"}
    THEN Goto(s, "status") /\ UNCHANGED <<exit, pid, child>>
    ELSE End(s, code)

StopReturns(s, code) ==
  IF code = 0 /\ command[s] = "restart"
    THEN Goto(s, "preflight") /\ UNCHANGED <<exit, pid, child>>
    ELSE End(s, code)

Issue(s, c) ==
  /\ pc[s] = "idle"
  /\ issued < MaxCommands
  /\ issued' = issued + 1
  /\ command' = [command EXCEPT ![s] = c]
  /\ online' = [online EXCEPT ![s] = Absent]
  /\ Goto(s, CASE c = "start" -> "read"
               [] c = "launch" -> "preflight"
               [] c = "status" -> "status"
               [] OTHER -> "stop")
  /\ UNCHANGED <<pidfile, proc, port, pid, child, attached, exit,
                 unrecorded, faults>>

\* The command is interrupted, or its terminal closed.  The server of a start
\* that has not recorded it yet goes on.
Abandon(s) ==
  /\ Abandonment
  /\ pc[s] # "idle"
  /\ End(s, 1)
  /\ unrecorded' = IF pc[s] \in {"open", "record"}
                     THEN unrecorded \union {child[s]}
                     ELSE unrecorded
  /\ attached' = [attached EXCEPT ![s] = FALSE]
  /\ UNCHANGED <<pidfile, proc, port, command, online, bounds>>

-----------------------------------------------------------------------------
(* launch, start and status                                                *)

\* A missing package or a read-only state directory blocks the launch.
Preflight(s) ==
  /\ pc[s] = "preflight"
  /\ UNCHANGED <<pidfile, proc, port, command, attached, online, unrecorded,
                 bounds>>
  /\ \/ Goto(s, "read") /\ UNCHANGED <<exit, pid, child>>
     \/ End(s, 2)

StartRead(s) ==
  /\ pc[s] = "read"
  /\ pid' = [pid EXCEPT ![s] = ReadPid]
  /\ Goto(s, "check")
  /\ UNCHANGED <<pidfile, proc, port, command, child, attached, exit, online,
                 unrecorded, bounds>>

\* Mutation: a start does not look for a running server.
StartUnchecked(s) ==
  /\ pc[s] = "check"
  /\ Goto(s, "clear")
  /\ UNCHANGED <<pidfile, proc, port, command, pid, child, attached, exit,
                 online, unrecorded, bounds>>

StartCheck(s) ==
  /\ pc[s] = "check"
  /\ IF IsEdenCore(pid[s])
       THEN StartReturns(s, 0)
       ELSE Goto(s, "clear") /\ UNCHANGED <<exit, pid, child>>
  /\ UNCHANGED <<pidfile, proc, port, command, attached, online, unrecorded,
                 bounds>>

\* clear_stale_pid reads the file again ...
ClearStalePid(s) ==
  /\ pc[s] = "clear"
  /\ Goto(s, IF ReadPid # Absent /\ ~IsEdenCore(ReadPid) THEN "unlink"
                                                         ELSE "spawn")
  /\ UNCHANGED <<pidfile, proc, port, command, pid, child, attached, exit,
                 online, unrecorded, bounds>>

\* ... and removes what is there by then.
UnlinkStale(s) ==
  /\ pc[s] = "unlink"
  /\ Unlink
  /\ Goto(s, "spawn")
  /\ UNCHANGED <<proc, port, command, pid, child, exit, online, unrecorded,
                 bounds>>

Remembered == {pid[s] : s \in Shells} \union {child[s] : s \in Shells}

Spawn(s) ==
  /\ pc[s] = "spawn"
  /\ \E p \in Pids :
       /\ proc[p] = "free"
       /\ p \notin Remembered
       /\ proc' = [proc EXCEPT ![p] = "booting"]
       /\ child' = [child EXCEPT ![s] = p]
       /\ unrecorded' = unrecorded \ {p}
  /\ Goto(s, "open")
  /\ UNCHANGED <<pidfile, port, command, pid, attached, exit, online, bounds>>

\* write_text: opening the file empties it, then the pid is written to the
\* file that was opened.
OpenPidFile(s) ==
  /\ pc[s] = "open"
  /\ pidfile' = Blank
  /\ attached' = [attached EXCEPT ![s] = TRUE]
  /\ Goto(s, "record")
  /\ UNCHANGED <<proc, port, command, pid, child, exit, online, unrecorded,
                 bounds>>

Record(s) ==
  /\ pc[s] = "record"
  /\ pidfile' = IF attached[s] THEN child[s] ELSE pidfile
  /\ attached' = [attached EXCEPT ![s] = FALSE]
  /\ Goto(s, "poll")
  /\ UNCHANGED <<proc, port, command, pid, child, exit, online, unrecorded,
                 bounds>>

\* The health endpoint answers: whoever has the port.
Online(s) ==
  /\ pc[s] = "poll"
  /\ Healthy
  /\ online' = [online EXCEPT ![s] = child[s]]
  /\ StartReturns(s, 0)
  /\ UNCHANGED <<pidfile, proc, port, command, attached, unrecorded, bounds>>

\* Mutation: a start that gives up clears the pid file in any case.
GiveUpAndClear(s) ==
  /\ pc[s] = "poll"
  /\ IF proc[child[s]] = "zombie"
       THEN proc' = [proc EXCEPT ![child[s]] = "free"] /\ StartReturns(s, 1)
       ELSE StartReturns(s, 0) /\ UNCHANGED proc
  /\ Unlink
  /\ UNCHANGED <<port, command, online, unrecorded, bounds>>

\* It has not answered 30 times: the fate of the child decides, and poll
\* reaps it if it is dead.
GiveUp(s) ==
  /\ pc[s] = "poll"
  /\ IF proc[child[s]] = "zombie"
       THEN /\ proc' = [proc EXCEPT ![child[s]] = "free"]
            /\ Unlink
            /\ StartReturns(s, 1)
       ELSE /\ StartReturns(s, 0)
            /\ UNCHANGED <<pidfile, proc, attached>>
  /\ UNCHANGED <<port, command, online, unrecorded, bounds>>

StatusRead(s) ==
  /\ pc[s] = "status"
  /\ pid' = [pid EXCEPT ![s] = ReadPid]
  /\ Goto(s, "ask")
  /\ UNCHANGED <<pidfile, proc, port, command, child, attached, exit, online,
                 unrecorded, bounds>>

StatusAsk(s) ==
  /\ pc[s] = "ask"
  /\ End(s, IF Healthy THEN 0
            ELSE IF IsAlive(pid[s]) /\ ~IsEdenCore(pid[s]) THEN 2 ELSE 1)
  /\ UNCHANGED <<pidfile, proc, port, command, attached, online, unrecorded,
                 bounds>>

-----------------------------------------------------------------------------
(* stop                                                                    *)

StopRead(s) ==
  /\ pc[s] = "stop"
  /\ IF ReadPid = Absent
       THEN StopReturns(s, 0)
       ELSE /\ pid' = [pid EXCEPT ![s] = ReadPid]
            /\ Goto(s, "alive")
            /\ UNCHANGED <<exit, child>>
  /\ UNCHANGED <<pidfile, proc, port, command, attached, online, unrecorded,
                 bounds>>

StopAlive(s) ==
  /\ pc[s] = "alive"
  /\ Goto(s, IF IsAlive(pid[s]) THEN "eden" ELSE "stale")
  /\ UNCHANGED <<pidfile, proc, port, command, pid, child, attached, exit,
                 online, unrecorded, bounds>>

\* Mutation: any live process of the recorded pid is signalled.
StopAnyProcess(s) ==
  /\ pc[s] = "eden"
  /\ Goto(s, "signal")
  /\ UNCHANGED <<pidfile, proc, port, command, pid, child, attached, exit,
                 online, unrecorded, bounds>>

StopEden(s) ==
  /\ pc[s] = "eden"
  /\ Goto(s, IF IsEdenCore(pid[s]) THEN "signal" ELSE "refuse")
  /\ UNCHANGED <<pidfile, proc, port, command, pid, child, attached, exit,
                 online, unrecorded, bounds>>

\* SIGTERM; without a process it is an exception, and status 1.
Signal(s) ==
  /\ pc[s] = "signal"
  /\ IF proc[pid[s]] = "free"
       THEN End(s, 1)
       ELSE Goto(s, "wait") /\ UNCHANGED <<exit, pid, child>>
  /\ proc' = [proc EXCEPT ![pid[s]] =
                CASE IsEdenCore(pid[s]) -> "ending"
                  [] @ = "other" -> "zombie"
                  [] OTHER -> @]
  /\ UNCHANGED <<pidfile, port, command, attached, online, unrecorded,
                 bounds>>

\* Mutation: stop trusts the signal.
WaitNoLonger(s) ==
  /\ pc[s] = "wait"
  /\ Goto(s, "stopped")
  /\ UNCHANGED <<pidfile, proc, port, command, pid, child, attached, exit,
                 online, unrecorded, bounds>>

\* The process is gone, or 30 looks have found it alive.
Wait(s) ==
  /\ pc[s] = "wait"
  /\ \/ ~IsAlive(pid[s]) /\ Goto(s, "stopped") /\ UNCHANGED <<exit, pid, child>>
     \/ IsAlive(pid[s]) /\ End(s, 1)
  /\ UNCHANGED <<pidfile, proc, port, command, attached, online, unrecorded,
                 bounds>>

\* The three ends of stop that remove the pid file.
Remove(s) ==
  /\ pc[s] \in {"stale", "refuse", "stopped"}
  /\ Unlink
  /\ StopReturns(s, IF pc[s] = "refuse" THEN 2 ELSE 0)
  /\ UNCHANGED <<proc, port, command, online, unrecorded, bounds>>

-----------------------------------------------------------------------------
(* Servers and other programs                                              *)

\* serve: the server starts listening, or the port is taken.
Bind(p) ==
  /\ proc[p] = "booting"
  /\ IF port = Absent
       THEN port' = p /\ proc' = [proc EXCEPT ![p] = "serving"]
       ELSE proc' = [proc EXCEPT ![p] = "zombie"] /\ UNCHANGED port
  /\ UNCHANGED <<pidfile, shell, unrecorded, bounds>>

Dies(p) ==
  /\ proc' = [proc EXCEPT ![p] = "zombie"]
  /\ port' = IF port = p THEN Absent ELSE port

Terminates(p) ==
  /\ proc[p] = "ending"
  /\ Dies(p)
  /\ UNCHANGED <<pidfile, shell, unrecorded, bounds>>

Fails(p) ==
  /\ proc[p] \in {"booting", "serving"}
  /\ faults < MaxFaults
  /\ Dies(p)
  /\ faults' = faults + 1
  /\ UNCHANGED <<pidfile, shell, unrecorded, issued>>

\* A command does not wait for its child before it gives up; when it has
\* returned, init does.
Reap(p) ==
  /\ proc[p] = "zombie"
  /\ \A s \in Shells : child[s] # p
  /\ proc' = [proc EXCEPT ![p] = "free"]
  /\ UNCHANGED <<pidfile, port, shell, unrecorded, bounds>>

\* Another program gets the pid, and ends.
Reuse(p) ==
  /\ proc[p] = "free"
  /\ p \notin Remembered
  /\ faults < MaxFaults
  /\ proc' = [proc EXCEPT ![p] = "other"]
  /\ faults' = faults + 1
  /\ UNCHANGED <<pidfile, port, shell, unrecorded, issued>>

OtherEnds(p) ==
  /\ proc[p] = "other"
  /\ proc' = [proc EXCEPT ![p] = "free"]
  /\ UNCHANGED <<pidfile, port, shell, unrecorded, bounds>>

\* "eden serve" in the foreground; it is not in the pid file.
Serve(p) ==
  /\ Foreground
  /\ proc[p] = "free"
  /\ p \notin Remembered
  /\ issued < MaxCommands
  /\ issued' = issued + 1
  /\ proc' = [proc EXCEPT ![p] = "booting"]
  /\ unrecorded' = unrecorded \union {p}
  /\ UNCHANGED <<pidfile, port, shell, faults>>

-----------------------------------------------------------------------------

CommandStep(s) ==
  \/ Preflight(s) \/ StartRead(s) \/ StartCheck(s) \/ ClearStalePid(s)
  \/ UnlinkStale(s) \/ Spawn(s) \/ OpenPidFile(s) \/ Record(s)
  \/ Online(s) \/ GiveUp(s) \/ StatusRead(s) \/ StatusAsk(s)
  \/ StopRead(s) \/ StopAlive(s) \/ StopEden(s) \/ Signal(s) \/ Wait(s)
  \/ Remove(s)

ServerStep(p) == Bind(p) \/ Terminates(p) \/ Reap(p)

Next ==
  \/ \E s \in Shells :
       CommandStep(s) \/ Abandon(s) \/ \E c \in Commands : Issue(s, c)
  \/ \E p \in Pids :
       ServerStep(p) \/ Fails(p) \/ Reuse(p) \/ OtherEnds(p) \/ Serve(p)

Spec == Init /\ [][Next]_vars

\* A command and a server that can take a step take it; nobody has to issue
\* a command, and nothing has to fail.
FairSpec ==
  /\ Spec
  /\ \A s \in Shells : WF_vars(CommandStep(s))
  /\ \A p \in Pids : WF_vars(ServerStep(p))

-----------------------------------------------------------------------------
(* Safety                                                                  *)

Quiet == \A s \in Shells : pc[s] = "idle"

Returned(s, cs) == pc[s] = "idle" /\ command[s] \in cs /\ exit[s] = 0

\* With one operator, a server that runs while no command does is the one in
\* the pid file: none is orphaned by a failed start, a stop that gives up, a
\* crash or a reused pid.  So when stop has succeeded ("safe shutdown"), nothing
\* that was recorded runs any more.  Only a server started by hand, or by a
\* start that was interrupted between starting and recording it, is in no file.
NoOrphan ==
  /\ Quiet => \A p \in Pids : IsEdenCore(p) => pidfile = p \/ p \in unrecorded
  /\ \A s \in Shells :
       Returned(s, {"stop"}) =>
         \A p \in Pids : IsEdenCore(p) => p \in unrecorded

\* The pid a start reports ONLINE is the server that answers, as the pid file
\* says, until it dies ...
OnlineIsRecorded ==
  \A s \in Shells :
    online[s] # Absent =>
      /\ proc[online[s]] # "serving" => port = Absent
      /\ pidfile = online[s]

\* ... with one operator, unless a server that is in no file runs besides.
OnlineUnlessRival ==
  (\A p \in unrecorded : ~IsEdenCore(p)) => OnlineIsRecorded

\* A signal reaches EDEN servers only, and only one that the pid file named,
\* whatever commands overlap and whichever pids other programs have inherited
\* (EDEN_OS_LAUNCHER.md:38).
UnrelatedUntouched ==
  [][\A p \in Pids :
       proc[p] = "other" => proc'[p] \in {"other", "free"}]_vars

\* A server that a start has brought up serves, also when the start is
\* interrupted, and in a restart, where the old one has to release the port
\* first; or another answers, the operator stops it, or a server dies.
SpawnedServes ==
  \A s \in Shells :
    pc[s] = "open" ~> Healthy \/ pc[s] = "signal" \/ faults > 0
=============================================================================
