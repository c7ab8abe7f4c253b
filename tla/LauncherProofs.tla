--------------------------- MODULE LauncherProofs ---------------------------
(***************************************************************************)
(* Proofs about Launcher.                                                  *)
(*                                                                         *)
(* For every set of shells and pids a signal never reaches an unrelated    *)
(* program.  It rests on one fact, that a pid some command remembers is    *)
(* given to nobody else, which Safe turns into what a pid can still be     *)
(* once it has been looked at.                                             *)
(*                                                                         *)
(* For one shell no recorded server is orphaned, and the pid reported      *)
(* ONLINE is that of the server that answers, unless one that is in no     *)
(* file runs; also when commands are interrupted and servers are started   *)
(* by hand.  Neither is inductive: Accounts says for each place in a       *)
(* command which servers can be running there and what the pid file has    *)
(* to do with them.                                                        *)
(***************************************************************************)
EXTENDS Launcher, TLAPS

Labels ==
  {"idle", "preflight", "status", "ask"} \union StartLabels \union StopLabels

\* What a stop is about to signal was an EDEN server when it was looked at; it
\* may be dead by now, but is nobody else.
SignalsServer ==
  \A s \in Shells :
    pc[s] = "signal" => pid[s] \in Pids /\ proc[pid[s]] # "other"

\* A command that has started a server, or has a pid to look at, knows it.
Known ==
  \A s \in Shells :
    /\ pc[s] \in {"open", "record", "poll"} => child[s] \in Pids
    /\ pc[s] \in {"alive", "eden", "signal", "wait"} => pid[s] \in Pids

\* A stop that is about to report "stopped" has outlived the process.
StoppedIsGone ==
  \A s \in Shells : pc[s] = "stopped" => ~IsAlive(pid[s])

\* The port belongs to a server that runs.
PortHeld == port # Absent => proc[port] \in {"serving", "ending"}

Safe == TypeOK /\ Known /\ PortHeld /\ SignalsServer /\ StoppedIsGone

\* Places in a command where no server can be running, and where the only one
\* is the one just started, which is not in the pid file yet.
NoServerAt == {"clear", "unlink", "spawn", "stale", "refuse", "stopped"}
UnrecordedAt == {"open", "record"}

\* The single operator: one shell.
SingleOperator == \E s : Shells = {s}

\* Which servers run, and what the pid file has to do with them.
ServersKnown ==
  \A s \in Shells, p \in Pids \ unrecorded : IsEdenCore(p) =>
    /\ pc[s] \notin NoServerAt
    /\ pc[s] \in UnrecordedAt => p = child[s]
    /\ pc[s] \notin UnrecordedAt => p = pidfile
    /\ ~Returned(s, {"stop"})

\* What the command has read or written is what the file still says, and
\* nobody has signalled the server it has just started.
FileAsRead ==
  \A s \in Shells :
    /\ pc[s] = "check" => pid[s] = ReadPid
    /\ pc[s] \in {"alive", "eden", "signal", "wait"} => pid[s] = pidfile
    /\ pc[s] = "record" => attached[s]
    /\ pc[s] = "poll" => pidfile = child[s]
    /\ pc[s] \in {"open", "record", "poll"} => proc[child[s]] # "ending"
    /\ pc[s] \in StartLabels \union {"preflight", "status", "ask"}
         => command[s] # "stop"

\* The server reported ONLINE stays in the pid file, and nobody signals it,
\* until the next command.
OnlineKept ==
  \A s \in Shells : online[s] # Absent =>
    /\ pc[s] \in {"idle", "status", "ask"}
    /\ pidfile = online[s]
    /\ proc[online[s]] # "ending"

Accounts == ServersKnown /\ FileAsRead /\ OnlineKept

-----------------------------------------------------------------------------
(* Types                                                                   *)

\* A command that returns ends, or goes on with its next part.
LEMMA ReturnFacts ==
  ASSUME TypeOK, NEW s \in Shells, NEW code \in 0 .. 2,
         StartReturns(s, code) \/ StopReturns(s, code) \/ End(s, code)
  PROVE  /\ \E label \in {"idle", "status", "preflight"} :
              pc' = [pc EXCEPT ![s] = label]
         /\ exit' \in [Shells -> 0 .. 2]
         /\ pid' = pid \/ pid' = [pid EXCEPT ![s] = Absent]
         /\ child' = child \/ child' = [child EXCEPT ![s] = Absent]
  BY DEF TypeOK, StartReturns, StopReturns, End, Goto

\* SIGTERM to the pid that was looked at.
LEMMA SignalFacts ==
  ASSUME TypeOK, Known, NEW s \in Shells, Signal(s)
  PROVE  /\ pc[s] = "signal" /\ pid[s] \in Pids
         /\ \/ proc[pid[s]] = "free" /\ End(s, 1)
            \/ /\ proc[pid[s]] # "free"
               /\ pc' = [pc EXCEPT ![s] = "wait"]
               /\ UNCHANGED <<exit, pid, child>>
         /\ \E state \in {"ending", "zombie", proc[pid[s]]} :
              /\ proc' = [proc EXCEPT ![pid[s]] = state]
              /\ state = "ending" <=> IsEdenCore(pid[s])
              /\ proc[pid[s]] # "other" /\ ~IsEdenCore(pid[s])
                   => state = proc[pid[s]]
         /\ UNCHANGED <<pidfile, port, command, attached, online, unrecorded,
                        issued, faults>>
<1> DEFINE state == CASE IsEdenCore(pid[s]) -> "ending"
                      [] proc[pid[s]] = "other" -> "zombie"
                      [] OTHER -> proc[pid[s]]
<1>1. pc[s] = "signal" /\ pid[s] \in Pids
  BY Zenon DEF Signal, Known
<1>2. proc' = [proc EXCEPT ![pid[s]] = state]
  BY Zenon DEF Signal
<1>3. /\ state \in {"ending", "zombie", proc[pid[s]]}
      /\ state = "ending" <=> IsEdenCore(pid[s])
      /\ proc[pid[s]] # "other" /\ ~IsEdenCore(pid[s])
           => state = proc[pid[s]]
  BY <1>1, PidsAssumption DEF IsEdenCore
<1>4. /\ IF proc[pid[s]] = "free"
            THEN End(s, 1)
            ELSE Goto(s, "wait") /\ UNCHANGED <<exit, pid, child>>
      /\ UNCHANGED <<pidfile, port, command, attached, online, unrecorded, bounds>>
  BY Zenon DEF Signal
<1> HIDE DEF state
<1> QED
  BY <1>1, <1>2, <1>3, <1>4 DEF Goto, bounds

LEMMA TypeInit == Init => TypeOK
  BY BoundsAssumption DEF Init, TypeOK

LEMMA TypeStep == TypeOK /\ Known /\ [Next]_vars => TypeOK'
<1> SUFFICES ASSUME TypeOK, Known, [Next]_vars PROVE TypeOK'
  OBVIOUS
<1> USE BoundsAssumption, PidsAssumption DEF shell, bounds, Goto
<1>0. /\ pidfile \in Pids \union {Absent, Blank}
      /\ ReadPid \in Pids \union {Absent}
      /\ proc \in [Pids -> {"free", "booting", "serving", "ending", "zombie",
                            "other"}]
      /\ pc \in [Shells -> Labels]
      /\ StartLabels \subseteq Labels /\ StopLabels \subseteq Labels
      /\ {"idle", "preflight", "status", "ask"} \subseteq Labels
  BY DEF TypeOK, Labels, ReadPid
<1>1. ASSUME NEW s \in Shells, NEW c \in Commands, Issue(s, c) PROVE TypeOK'
  <2>1. c \in {"start", "stop", "launch", "restart", "status"}
    BY CommandsAssumption
  <2>2. pc' \in [Shells -> Labels]
    BY <1>0, <1>1, <2>1 DEF Issue, StartLabels, StopLabels
  <2> QED
    BY <1>1, <2>1, <2>2 DEF Issue, TypeOK, Labels
<1>2. ASSUME NEW s \in Shells,
             \/ Preflight(s) \/ StartCheck(s) \/ Online(s)
             \/ StatusAsk(s) \/ Wait(s)
      PROVE  TypeOK'
  <2>1. \/ \E code \in 0 .. 2 : StartReturns(s, code) \/ End(s, code)
        \/ /\ \E label \in Labels : pc' = [pc EXCEPT ![s] = label]
           /\ UNCHANGED <<exit, pid, child>>
    BY <1>0, <1>2 DEF Preflight, StartCheck, Online, StatusAsk, Wait, StartLabels,
                      StopLabels
  <2>2. /\ pc' \in [Shells -> Labels]
        /\ exit' \in [Shells -> 0 .. 2]
        /\ pid' \in [Shells -> Pids \union {Absent}]
        /\ child' \in [Shells -> Pids \union {Absent}]
    BY <1>0, <2>1, ReturnFacts DEF TypeOK
  <2>3. /\ UNCHANGED <<pidfile, proc, port, command, attached, unrecorded,
                        issued, faults>>
        /\ online' = online \/ online' = [online EXCEPT ![s] = child[s]]
    BY <1>2 DEF Preflight, StartCheck, Online, StatusAsk, Wait
  <2> QED
    BY <2>2, <2>3 DEF TypeOK, Labels
<1>3. ASSUME NEW s \in Shells, StartRead(s) \/ StatusRead(s) PROVE TypeOK'
  BY <1>0, <1>3 DEF StartRead, StatusRead, TypeOK, StartLabels
<1>4. ASSUME NEW s \in Shells,
             ClearStalePid(s) \/ UnlinkStale(s) \/ OpenPidFile(s)
      PROVE  TypeOK'
  <2>1. \E label \in {"unlink", "spawn", "record"} :
          pc' = [pc EXCEPT ![s] = label]
    BY <1>4 DEF ClearStalePid, UnlinkStale, OpenPidFile
  <2>2. pc' \in [Shells -> Labels]
    BY <1>0, <2>1 DEF StartLabels
  <2>3. /\ pidfile' \in Pids \union {Absent, Blank}
        /\ attached' \in [Shells -> BOOLEAN]
        /\ UNCHANGED <<proc, port, command, pid, child, exit, online,
                      unrecorded, issued, faults>>
    BY <1>0, <1>4 DEF ClearStalePid, UnlinkStale, OpenPidFile, Unlink, TypeOK
  <2> QED
    BY <2>2, <2>3 DEF TypeOK, Labels
<1>5. ASSUME NEW s \in Shells, Spawn(s) PROVE TypeOK'
  BY <1>0, <1>5 DEF Spawn, TypeOK, StartLabels
<1>13. ASSUME NEW s \in Shells, Record(s) PROVE TypeOK'
  <2>1. child[s] \in Pids
    BY <1>13 DEF Record, Known
  <2> QED
    BY <1>0, <1>13, <2>1 DEF Record, TypeOK, StartLabels
<1>6. ASSUME NEW s \in Shells, GiveUp(s) \/ Remove(s) PROVE TypeOK'
  <2>1. \E code \in 0 .. 2 : StartReturns(s, code) \/ StopReturns(s, code)
    BY <1>6 DEF GiveUp, Remove
  <2>2. /\ pc' \in [Shells -> Labels]
        /\ exit' \in [Shells -> 0 .. 2]
        /\ pid' \in [Shells -> Pids \union {Absent}]
        /\ child' \in [Shells -> Pids \union {Absent}]
    BY <1>0, <2>1, ReturnFacts DEF TypeOK
  <2>3. /\ proc' \in [Pids -> {"free", "booting", "serving", "ending",
                               "zombie", "other"}]
        /\ pidfile' \in Pids \union {Absent, Blank}
        /\ attached' \in [Shells -> BOOLEAN]
    BY <1>0, <1>6 DEF GiveUp, Remove, Unlink, TypeOK
  <2> QED
    BY <1>6, <2>2, <2>3 DEF GiveUp, Remove, TypeOK, Labels
<1>7. ASSUME NEW s \in Shells, StopRead(s) PROVE TypeOK'
  <2>1. \/ StopReturns(s, 0)
        \/ /\ ReadPid \in Pids
           /\ pid' = [pid EXCEPT ![s] = ReadPid]
           /\ pc' = [pc EXCEPT ![s] = "alive"]
           /\ UNCHANGED <<exit, child>>
    BY <1>0, <1>7 DEF StopRead
  <2>2. /\ pc' \in [Shells -> Labels]
        /\ exit' \in [Shells -> 0 .. 2]
        /\ pid' \in [Shells -> Pids \union {Absent}]
        /\ child' \in [Shells -> Pids \union {Absent}]
    BY <1>0, <2>1, ReturnFacts DEF TypeOK, StopLabels
  <2> QED
    BY <1>7, <2>2 DEF StopRead, TypeOK, Labels
<1>8. ASSUME NEW s \in Shells, StopAlive(s) \/ StopEden(s) PROVE TypeOK'
  BY <1>0, <1>8 DEF StopAlive, StopEden, TypeOK, StopLabels
<1>9. ASSUME NEW s \in Shells, Signal(s) PROVE TypeOK'
  <2>1. /\ pc' \in [Shells -> Labels]
        /\ exit' \in [Shells -> 0 .. 2]
        /\ pid' \in [Shells -> Pids \union {Absent}]
        /\ child' \in [Shells -> Pids \union {Absent}]
    BY <1>0, <1>9, SignalFacts, ReturnFacts DEF TypeOK, StopLabels
  <2>2. proc' \in [Pids -> {"free", "booting", "serving", "ending", "zombie",
                            "other"}]
    BY <1>0, <1>9, SignalFacts
  <2>3. UNCHANGED <<pidfile, port, command, attached, online, unrecorded,
                        issued, faults>>
    BY <1>9, SignalFacts
  <2> QED
    BY <2>1, <2>2, <2>3 DEF TypeOK, Labels
<1>10. ASSUME NEW s \in Shells, Abandon(s) PROVE TypeOK'
  BY <1>0, <1>10 DEF Abandon, End, TypeOK, Known
<1>11. ASSUME NEW p \in Pids,
              \/ Bind(p) \/ Terminates(p) \/ Fails(p) \/ Reap(p)
              \/ Reuse(p) \/ OtherEnds(p) \/ Serve(p)
       PROVE  TypeOK'
  BY <1>0, <1>11
  DEF Bind, Terminates, Fails, Dies, Reap, Reuse, OtherEnds, Serve, TypeOK
<1>12. CASE UNCHANGED vars
  BY <1>12 DEF vars, TypeOK
<1> HIDE DEF shell, bounds, Goto
<1> QED
  BY <1>1, <1>2, <1>3, <1>4, <1>5, <1>6, <1>7, <1>8, <1>9, <1>10, <1>11, <1>12,
     <1>13
  DEF Next, CommandStep, ServerStep

-----------------------------------------------------------------------------
(* Any number of shells                                                    *)

\* A pid that a command remembers is given to nobody else, and what has the
\* port goes on until it dies.
LEMMA ProcessFacts ==
  ASSUME Safe, [Next]_vars
  PROVE  /\ \A p \in Remembered \ {Absent} :
              /\ proc[p] = "free" => proc'[p] = "free"
              /\ proc[p] # "other" => proc'[p] # "other"
         /\ PortHeld'
<1> DEFINE Goal ==
         /\ \A p \in Remembered \ {Absent} :
              /\ proc[p] = "free" => proc'[p] = "free"
              /\ proc[p] # "other" => proc'[p] # "other"
         /\ PortHeld'
<1> SUFFICES Goal
  OBVIOUS
<1> USE PidsAssumption DEF PortHeld, shell, bounds
<1>0. /\ proc \in [Pids -> {"free", "booting", "serving", "ending", "zombie",
                            "other"}]
      /\ port \in Pids \union {Absent}
      /\ Remembered \subseteq Pids \union {Absent}
      /\ PortHeld
  BY DEF Safe, TypeOK, Remembered
<1>1. CASE UNCHANGED <<proc, port>>
  BY <1>0, <1>1
<1>2. ASSUME NEW s \in Shells, Spawn(s) PROVE Goal
  BY <1>0, <1>2 DEF Spawn
<1>3. ASSUME NEW s \in Shells, GiveUp(s) PROVE Goal
  <2>1. child[s] \in Pids
    BY <1>3 DEF GiveUp, Safe, Known
  <2> QED
    BY <1>0, <1>3, <2>1 DEF GiveUp
<1>4. ASSUME NEW s \in Shells, Signal(s) PROVE Goal
  <2>1. PICK state \in {"ending", "zombie", proc[pid[s]]} :
          /\ proc' = [proc EXCEPT ![pid[s]] = state]
          /\ state = "ending" <=> IsEdenCore(pid[s])
          /\ proc[pid[s]] # "other" /\ ~IsEdenCore(pid[s])
               => state = proc[pid[s]]
    BY <1>4, SignalFacts DEF Safe
  <2>2. /\ pid[s] \in Pids /\ proc[pid[s]] # "other"
        /\ port' = port
    BY <1>4, SignalFacts DEF Safe, SignalsServer
  <2> QED
    BY <1>0, <2>1, <2>2 DEF IsEdenCore
<1>5. ASSUME NEW p \in Pids, Bind(p) \/ Terminates(p) \/ Fails(p)
      PROVE  Goal
  BY <1>0, <1>5 DEF Bind, Terminates, Fails, Dies
<1>6. ASSUME NEW p \in Pids, Reap(p) \/ Reuse(p) \/ OtherEnds(p) \/ Serve(p)
      PROVE  Goal
  BY <1>0, <1>6 DEF Reap, Reuse, OtherEnds, Serve
<1> HIDE DEF Goal, PortHeld, shell, bounds
<1>7. ASSUME NEW s \in Shells, NEW c \in Commands, Issue(s, c)
      PROVE  Goal
  BY <1>1, <1>7 DEF Issue
<1>8. ASSUME NEW s \in Shells,
             \/ Preflight(s) \/ StartRead(s) \/ StartCheck(s)
             \/ ClearStalePid(s) \/ UnlinkStale(s) \/ OpenPidFile(s)
             \/ Record(s) \/ Online(s) \/ StatusRead(s) \/ StatusAsk(s)
             \/ StopRead(s) \/ StopAlive(s) \/ StopEden(s) \/ Wait(s)
             \/ Remove(s)
      PROVE  Goal
  BY <1>1, <1>8
  DEF Preflight, StartRead, StartCheck, ClearStalePid, UnlinkStale,
      OpenPidFile, Record, Online, StatusRead, StatusAsk, StopRead, StopAlive,
      StopEden, Wait, Remove
<1>9. CASE UNCHANGED vars
  BY <1>1, <1>9 DEF vars
<1>10. ASSUME NEW s \in Shells, Abandon(s) PROVE Goal
  BY <1>1, <1>10 DEF Abandon
<1> QED
  BY <1>2, <1>3, <1>4, <1>5, <1>6, <1>7, <1>8, <1>9, <1>10
  DEF Next, CommandStep, ServerStep

LEMMA SafeStep == Safe /\ [Next]_vars => Safe'
<1> SUFFICES ASSUME Safe, [Next]_vars PROVE Safe'
  OBVIOUS
<1> DEFINE Goal == Known' /\ SignalsServer' /\ StoppedIsGone'
<1> USE PidsAssumption
    DEF Known, SignalsServer, StoppedIsGone, IsAlive, shell, bounds, Goto
<1>0. /\ pc \in [Shells -> Labels]
      /\ pid \in [Shells -> Pids \union {Absent}]
      /\ child \in [Shells -> Pids \union {Absent}]
      /\ ReadPid \in Pids \union {Absent}
      /\ Known /\ SignalsServer /\ StoppedIsGone
  BY DEF Safe, TypeOK, Labels, ReadPid
\* What the process table may do to a pid that is remembered.
<1>a. \A s \in Shells :
        /\ pid[s] # Absent /\ proc[pid[s]] = "free" => proc'[pid[s]] = "free"
        /\ pid[s] # Absent /\ proc[pid[s]] # "other" => proc'[pid[s]] # "other"
  BY ProcessFacts DEF Remembered
<1>1. ASSUME NEW s \in Shells, NEW c \in Commands, Issue(s, c) PROVE Goal
  <2>1. /\ pc[s] = "idle" /\ UNCHANGED <<pid, child>>
        /\ \E label \in {"read", "preflight", "status", "stop"} :
             pc' = [pc EXCEPT ![s] = label]
    BY <1>1 DEF Issue
  <2> QED
    BY <1>0, <1>a, <2>1
<1>2. ASSUME NEW s \in Shells, NEW code \in 0 .. 2,
             StartReturns(s, code) \/ StopReturns(s, code) \/ End(s, code)
      PROVE  Goal
  BY <1>0, <1>a, <1>2, ReturnFacts DEF Safe
<1>3. ASSUME NEW s \in Shells,
             \/ Preflight(s) \/ StartRead(s) \/ StartCheck(s)
             \/ ClearStalePid(s) \/ UnlinkStale(s)
      PROVE  Goal
  <2>1. CASE \E code \in 0 .. 2 : StartReturns(s, code) \/ End(s, code)
    BY <1>2, <2>1
  <2>2. CASE /\ \E label \in {"read", "check", "clear", "unlink", "spawn"} :
                  pc' = [pc EXCEPT ![s] = label]
             /\ pid' = pid \/ pid' = [pid EXCEPT ![s] = ReadPid]
             /\ child' = child
    BY <1>0, <1>a, <2>2
  <2> QED
    BY <1>3, <2>1, <2>2
    DEF Preflight, StartRead, StartCheck, ClearStalePid, UnlinkStale
<1>4. ASSUME NEW s \in Shells, Spawn(s) \/ OpenPidFile(s) \/ Record(s)
      PROVE  Goal
  BY <1>0, <1>a, <1>4 DEF Spawn, OpenPidFile, Record
<1>5. ASSUME NEW s \in Shells, Online(s) \/ GiveUp(s) \/ StatusAsk(s) \/ Remove(s)
      PROVE  Goal
  <2>1. \E code \in 0 .. 2 :
          StartReturns(s, code) \/ StopReturns(s, code) \/ End(s, code)
    BY <1>5 DEF Online, GiveUp, StatusAsk, Remove
  <2> QED
    BY <1>2, <2>1
<1>6. ASSUME NEW s \in Shells, StatusRead(s) PROVE Goal
  BY <1>0, <1>a, <1>6 DEF StatusRead
<1>7. ASSUME NEW s \in Shells, StopRead(s) PROVE Goal
  <2>1. CASE StopReturns(s, 0)
    BY <1>2, <2>1
  <2>2. CASE ReadPid # Absent
    BY <1>0, <1>a, <1>7, <2>2 DEF StopRead
  <2> QED
    BY <1>7, <2>1, <2>2 DEF StopRead
<1>8. ASSUME NEW s \in Shells, StopAlive(s) \/ StopEden(s) PROVE Goal
  BY <1>0, <1>a, <1>8 DEF StopAlive, StopEden, IsEdenCore
<1>9. ASSUME NEW s \in Shells, Signal(s) PROVE Goal
  <2>1. CASE End(s, 1)
    BY <1>2, <2>1
  <2>2. CASE pc' = [pc EXCEPT ![s] = "wait"] /\ UNCHANGED <<pid, child>>
    <3>1. pid[s] \in Pids
      BY <1>9, SignalFacts DEF Safe
    <3> QED
      BY <1>0, <1>a, <2>2, <3>1
  <2> QED
    BY <1>9, <2>1, <2>2, SignalFacts DEF Safe
<1>10. ASSUME NEW s \in Shells, Wait(s) PROVE Goal
  <2>1. CASE End(s, 1)
    BY <1>2, <2>1
  <2>2. CASE /\ pc' = [pc EXCEPT ![s] = "stopped"] /\ UNCHANGED <<pid, child>>
             /\ ~IsAlive(pid[s])
    BY <1>0, <1>a, <2>2
  <2> QED
    BY <1>10, <2>1, <2>2 DEF Wait
<1>11. ASSUME NEW s \in Shells, Abandon(s) PROVE Goal
  BY <1>2, <1>11 DEF Abandon
<1>12. UNCHANGED <<pc, pid, child>> => Goal
  BY <1>0, <1>a
<1>13. ASSUME NEW p \in Pids,
              \/ Bind(p) \/ Terminates(p) \/ Fails(p) \/ Reap(p)
              \/ Reuse(p) \/ OtherEnds(p) \/ Serve(p)
       PROVE  Goal
  <2>1. UNCHANGED <<pc, pid, child>>
    BY <1>13 DEF Bind, Terminates, Fails, Reap, Reuse, OtherEnds, Serve
  <2> QED
    BY <1>12, <2>1
<1>14. ASSUME UNCHANGED vars PROVE Goal
  <2>1. UNCHANGED <<pc, pid, child>>
    BY <1>14 DEF vars
  <2> QED
    BY <1>12, <2>1
<1> HIDE DEF Goal, Known, SignalsServer, StoppedIsGone, IsAlive, shell, bounds,
             Goto
<1>15. Goal
  BY <1>1, <1>3, <1>4, <1>5, <1>6, <1>7, <1>8, <1>9, <1>10, <1>11, <1>13,
     <1>14 DEF Next, CommandStep, ServerStep
<1> QED
  BY <1>15, ProcessFacts, TypeStep DEF Safe, Goal

LEMMA SafeHolds == Spec => []Safe
<1>1. Init => Safe
  BY TypeInit
  DEF Init, Safe, Known, PortHeld, SignalsServer, StoppedIsGone
<1> QED
  BY <1>1, SafeStep, PTL DEF Spec

\* Every variable keeps to its type, for any shells and pids.
THEOREM TypeCorrect == Spec => []TypeOK
<1>1. Safe => TypeOK
  BY DEF Safe
<1> QED
  BY <1>1, SafeHolds, PTL

\* No step of any command ends an unrelated program (stop_runtime asks
\* is_eden_core before it signals).
THEOREM OnlyServersAreSignalled == Spec => UnrelatedUntouched
<1> DEFINE A == \A p \in Pids : proc[p] = "other" => proc'[p] \in {"other", "free"}
<1>1. Safe /\ [Next]_vars => [A]_vars
  <2> SUFFICES ASSUME Safe, Next PROVE A
    OBVIOUS
  <2>0. /\ proc \in [Pids -> {"free", "booting", "serving", "ending", "zombie",
                              "other"}]
    BY DEF Safe, TypeOK
  <2>1. ASSUME NEW s \in Shells, Spawn(s) PROVE A
    BY <2>0, <2>1 DEF Spawn
  <2>2. ASSUME NEW s \in Shells, GiveUp(s) PROVE A
    BY <2>0, <2>2 DEF GiveUp
  <2>3. ASSUME NEW s \in Shells, Signal(s) PROVE A
    BY <2>0, <2>3, SignalFacts DEF Safe, SignalsServer
  <2>4. ASSUME NEW p \in Pids,
               \/ Bind(p) \/ Terminates(p) \/ Fails(p) \/ Reap(p)
               \/ Reuse(p) \/ OtherEnds(p) \/ Serve(p)
        PROVE  A
    BY <2>0, <2>4 DEF Bind, Terminates, Fails, Dies, Reap, Reuse, OtherEnds, Serve
  <2>5. CASE UNCHANGED proc
    BY <2>5
  <2> HIDE DEF A
  <2> QED
    BY <2>1, <2>2, <2>3, <2>4, <2>5
    DEF Next, CommandStep, ServerStep, Preflight, StartRead, StartCheck,
        ClearStalePid, UnlinkStale, OpenPidFile, Record, Online, StatusRead,
        StatusAsk, StopRead, StopAlive, StopEden, Wait, Remove, Issue, Abandon
<1> QED
  BY <1>1, SafeHolds, PTL DEF Spec, UnrelatedUntouched

-----------------------------------------------------------------------------
(* The single operator                                                     *)

LEMMA AccountsStep ==
  ASSUME SingleOperator, Safe, Accounts, [Next]_vars
  PROVE  Accounts'
<1> PICK s : Shells = {s}
  BY DEF SingleOperator
<1> DEFINE Goal == Accounts'
<1> USE PidsAssumption
    DEF Accounts, ServersKnown, FileAsRead, OnlineKept, Returned, IsEdenCore,
        ReadPid, NoServerAt, UnrecordedAt, StartLabels, shell, bounds, Goto
<1>0. /\ pidfile \in Pids \union {Absent, Blank}
      /\ proc \in [Pids -> {"free", "booting", "serving", "ending", "zombie",
                            "other"}]
      /\ port \in Pids \union {Absent}
      /\ DOMAIN pc = Shells /\ DOMAIN command = Shells /\ DOMAIN exit = Shells
      /\ pid \in [Shells -> Pids \union {Absent}]
      /\ child \in [Shells -> Pids \union {Absent}]
      /\ online \in [Shells -> Pids \union {Absent}]
      /\ attached \in [Shells -> BOOLEAN]
  BY DEF Safe, TypeOK
<1>1. ASSUME NEW c \in Commands, Issue(s, c) PROVE Goal
  <2>1. c \in {"start", "stop", "launch", "restart", "status"}
    BY CommandsAssumption
  <2> QED
    BY <1>0, <1>1, <2>1 DEF Issue
<1>2. CASE Preflight(s) \/ StartRead(s) \/ ClearStalePid(s) \/ UnlinkStale(s)
  BY <1>0, <1>2
  DEF Preflight, StartRead, ClearStalePid, UnlinkStale, Unlink, End
<1>3. CASE StartCheck(s)
  BY <1>0, <1>3 DEF StartCheck, StartReturns, End
<1>4. CASE Spawn(s)
  BY <1>0, <1>4 DEF Spawn
<1>5. CASE OpenPidFile(s) \/ Record(s)
  BY <1>0, <1>5 DEF OpenPidFile, Record, Safe, Known
<1>6. CASE Online(s)
  BY <1>0, <1>6 DEF Online, StartReturns, End, Healthy, Safe, Known
<1>7. CASE GiveUp(s)
  BY <1>0, <1>7 DEF GiveUp, StartReturns, End, Unlink, Safe, Known
<1>8. CASE StatusRead(s) \/ StatusAsk(s)
  BY <1>0, <1>8 DEF StatusRead, StatusAsk, End
<1>9. CASE StopRead(s)
  BY <1>0, <1>9 DEF StopRead, StopReturns, End
<1>10. CASE StopAlive(s) \/ StopEden(s)
  BY <1>0, <1>10 DEF StopAlive, StopEden, IsAlive, Safe, Known
<1>11. CASE Signal(s)
  BY <1>0, <1>11, SignalFacts DEF End, Safe
<1>12. CASE Wait(s)
  BY <1>0, <1>12 DEF Wait, IsAlive, End, Safe, Known
<1>13. CASE Remove(s)
  BY <1>0, <1>13 DEF Remove, Unlink, StopReturns, End
<1>14. ASSUME NEW p \in Pids,
              \/ Bind(p) \/ Terminates(p) \/ Fails(p) \/ Reap(p)
              \/ Reuse(p) \/ OtherEnds(p)
       PROVE  Goal
  BY <1>0, <1>14
  DEF Bind, Terminates, Fails, Dies, Reap, Reuse, OtherEnds, Safe, Known
<1>17. ASSUME NEW p \in Pids, Serve(p) PROVE Goal
  BY <1>0, <1>17 DEF Serve, Safe, Known
<1>15. CASE UNCHANGED vars
  BY <1>15 DEF vars
<1>16. CASE Abandon(s)
  BY <1>0, <1>16 DEF Abandon, End, Safe, Known
<1> HIDE DEF Accounts, ServersKnown, FileAsRead, OnlineKept, Returned,
             IsEdenCore, ReadPid, NoServerAt, UnrecordedAt, StartLabels, shell,
             bounds, Goto
<1> QED
  BY <1>1, <1>2, <1>3, <1>4, <1>5, <1>6, <1>7, <1>8, <1>9, <1>10, <1>11, <1>12,
     <1>13, <1>14, <1>15, <1>16, <1>17 DEF Next, CommandStep, ServerStep

LEMMA AccountsHold ==
  ASSUME SingleOperator
  PROVE  Spec => []Accounts
<1>1. Init => Accounts
  BY PidsAssumption
  DEF Init, Accounts, ServersKnown, FileAsRead, OnlineKept, IsEdenCore,
      StartLabels
<1>2. Safe /\ Accounts /\ [Next]_vars => Accounts'
  BY AccountsStep
<1> QED
  BY <1>1, <1>2, SafeHolds, PTL DEF Spec

\* A single operator loses no server but those started by hand or by a start
\* interrupted before it recorded them: between two commands a server that runs
\* is the one in the pid file, and after a successful stop there is none,
\* whatever died, was interrupted or was reused meanwhile (start_runtime,
\* stop_runtime, clear_stale_pid).
THEOREM NoServerIsOrphaned ==
  ASSUME SingleOperator
  PROVE  Spec => []NoOrphan
<1>1. Accounts => NoOrphan
  <2> SUFFICES ASSUME Accounts PROVE NoOrphan
    OBVIOUS
  <2>1. PICK s : Shells = {s}
    BY DEF SingleOperator
  <2> QED
    BY <2>1 DEF Accounts, ServersKnown, NoOrphan, Quiet, UnrecordedAt
<1> QED
  BY <1>1, AccountsHold, PTL

\* ... and the pid that a start reports ONLINE is the one that answers and that
\* the pid file has, until that server dies, unless one that is in no file runs
\* (start_runtime, health).
THEOREM OnlineStaysRecorded ==
  ASSUME SingleOperator
  PROVE  Spec => []OnlineUnlessRival
<1>1. Safe /\ Accounts => OnlineUnlessRival
  <2> SUFFICES ASSUME Safe, Accounts, \A p \in unrecorded : ~IsEdenCore(p),
                      NEW s \in Shells, online[s] # Absent
               PROVE  /\ proc[online[s]] # "serving" => port = Absent
                      /\ pidfile = online[s]
    BY DEF OnlineUnlessRival, OnlineIsRecorded
  <2>1. /\ pc[s] \in {"idle", "status", "ask"}
        /\ pidfile = online[s]
        /\ proc[online[s]] # "ending"
    BY DEF Accounts, OnlineKept
  <2>2. ASSUME port # Absent PROVE port = online[s] /\ proc[port] = "serving"
    <3>1. port \in Pids \ unrecorded /\ IsEdenCore(port)
      BY <2>2 DEF Safe, TypeOK, PortHeld, IsEdenCore
    <3>2. port = pidfile
      BY <2>1, <3>1 DEF Accounts, ServersKnown, UnrecordedAt
    <3> QED
      BY <2>1, <2>2, <3>2 DEF Safe, PortHeld
  <2> QED
    BY <2>1, <2>2
<1> QED
  BY <1>1, SafeHolds, AccountsHold, PTL
=============================================================================
