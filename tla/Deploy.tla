------------------------------- MODULE Deploy -------------------------------
(***************************************************************************)
(* Start-ObfuScan.ps1 and Stop-ObfuScan.ps1: scripts an operator runs, one *)
(* after another or at once, that share a state file with the process id   *)
(* of the server, the table of processes of the machine, whose identifiers *)
(* are used again, and the port.                                           *)
(*                                                                         *)
(* The checks of the configuration (lines 29 to 91) end a script before it *)
(* has done anything and are left out.  A process that is ended is gone at *)
(* once, and the state file is written in one step.                        *)
(***************************************************************************)
EXTENDS Naturals, FiniteSets

CONSTANTS
    Scripts,      \* places in which a script may run
    Pids,         \* process identifiers
    None,         \* no process, no state file
    MaxRuns,      \* bound: scripts run in all
    MaxMishaps    \* bound: scripts interrupted, queries that fail and
                  \* servers that die, each

ASSUME DeployAssumption ==
    /\ None \notin Pids
    /\ IsFiniteSet(Pids)
    /\ MaxRuns \in Nat
    /\ MaxMishaps \in Nat

VARIABLES
    running,      \* pid -> "starting" or "serving": a server of ours; "namesake":
                  \* another program with web_server.py in its command line;
                  \* "other": any other program.  No entry: no process
    port,         \* the process that listens, a server or not
    stateFile,    \* ProcessId in obfuscan.process.json
    pc,           \* where each script is, or how its last run ended
    seen,         \* per script: the process id it holds
    runs,         \* scripts begun
    interrupted,  \* scripts stopped half way
    misread,      \* process queries of Stop that failed
    died,         \* servers that ended by themselves
    overlapped,   \* two scripts have run at the same time
    reissued      \* scripts whose target ended after they had looked at it,
                  \* and left its identifier to another program

deploy_vars == <<running, port, stateFile, pc, seen, runs, interrupted, misread, died,
                 overlapped, reissued>>
tally == <<runs, interrupted, misread, died, overlapped, reissued>>

Live == DOMAIN running
Servers == {p \in Live : running[p] \in {"starting", "serving"}}
Strangers == Live \ Servers
Unrelated == {p \in Live : running[p] = "other"}

Ended == {"idle", "healthy", "unhealthy", "refused", "failed", "stopped", "interrupted"}
\* Start holds the Process object that Start-Process returned, and with it the
\* identifier, from line 127 to its end. Stop has the number only.
Holding == {"record", "exited?", "probe", "kill", "unrecord"}
Held == {seen[s] : s \in {t \in Scripts : pc[t] \in Holding}}
Free == Pids \ (Live \cup Held)

Without(p) == [q \in Live \ {p} |-> running[q]]
With(p, as) == [q \in Live \cup {p} |-> IF q = p THEN as ELSE running[q]]
\* A process ends; the port it had is free.
Gone(p) ==
    /\ running' = Without(p)
    /\ port' = IF port = p THEN None ELSE port

Move(s, from, to) == pc[s] = from /\ pc' = [pc EXCEPT ![s] = to]

-----------------------------------------------------------------------------
DeployInit ==
    /\ running = [p \in {} |-> "other"]
    /\ port = None
    /\ stateFile = None
    /\ pc = [s \in Scripts |-> "idle"]
    /\ seen = [s \in Scripts |-> None]
    /\ runs = 0
    /\ interrupted = 0
    /\ misread = 0
    /\ died = 0
    /\ overlapped = FALSE
    /\ reissued = {}

\* The operator runs a script, perhaps while another one runs.
Run(s, first) ==
    /\ pc[s] \in Ended
    /\ runs < MaxRuns
    /\ runs' = runs + 1
    /\ pc' = [pc EXCEPT ![s] = first]
    /\ overlapped' = (overlapped \/ \E t \in Scripts \ {s} : pc[t] \notin Ended)
    /\ seen' = [seen EXCEPT ![s] = None]
    /\ reissued' = reissued \ {s}
    /\ UNCHANGED <<running, port, stateFile, interrupted, misread, died>>

(***************************************************************************)
(* Start-ObfuScan.ps1                                                      *)
(***************************************************************************)
RunStart(s) == Run(s, "read")

\* Mutant: the state file is not looked at before a start.
ReadNothing(s) ==
    /\ Move(s, "read", "spawn")
    /\ UNCHANGED <<running, port, stateFile, seen, tally>>

\* Test-Path and Get-Content of the state file.
ReadState(s) ==
    /\ Move(s, "read", IF stateFile = None THEN "spawn" ELSE "look")
    /\ seen' = [seen EXCEPT ![s] = stateFile]
    /\ UNCHANGED <<running, port, stateFile, tally>>

\* Get-Process finds whatever runs under that id: the start is refused.
LookUp(s) ==
    /\ Move(s, "look", IF seen[s] \in Live THEN "refused" ELSE "clear")
    /\ UNCHANGED <<running, port, stateFile, seen, tally>>

\* Remove-Item of what is taken for a stale file; it raises if it is gone.
ClearStale(s) ==
    /\ Move(s, "clear", IF stateFile = None THEN "failed" ELSE "spawn")
    /\ stateFile' = None
    /\ UNCHANGED <<running, port, seen, tally>>

\* Start-Process.
Spawn(s) ==
    /\ Move(s, "spawn", "record")
    /\ \E p \in Free :
        /\ running' = With(p, "starting")
        /\ seen' = [seen EXCEPT ![s] = p]
    /\ UNCHANGED <<port, stateFile, tally>>

\* Set-Content, over whatever the file said.
Record(s) ==
    /\ Move(s, "record", "exited?")
    /\ stateFile' = seen[s]
    /\ UNCHANGED <<running, port, seen, tally>>

\* The loop of the health check: first the process ...
CheckExited(s) ==
    /\ Move(s, "exited?", IF seen[s] \in Live THEN "probe" ELSE "kill")
    /\ UNCHANGED <<running, port, stateFile, seen, tally>>

\* ... then the port: 200 from any listener. An answer that fails or is late
\* means another round, until the deadline.
Probe(s) ==
    /\ \/ port # None /\ Move(s, "probe", "healthy")
       \/ Move(s, "probe", "exited?")
       \/ Move(s, "probe", "kill")
    /\ UNCHANGED <<running, port, stateFile, seen, tally>>

\* Mutant: a start that gives up leaves its process behind.
LeaveUnhealthy(s) ==
    /\ Move(s, "kill", "unrecord")
    /\ UNCHANGED <<running, port, stateFile, seen, tally>>

\* Not healthy: Stop-Process unless it has exited, ...
KillUnhealthy(s) ==
    /\ Move(s, "kill", "unrecord")
    /\ IF seen[s] \in Live THEN Gone(seen[s]) ELSE UNCHANGED <<running, port>>
    /\ UNCHANGED <<stateFile, seen, tally>>

\* ... and Remove-Item, whatever the file says by now, errors ignored.
Unrecord(s) ==
    /\ Move(s, "unrecord", "unhealthy")
    /\ stateFile' = None
    /\ UNCHANGED <<running, port, seen, tally>>

(***************************************************************************)
(* Stop-ObfuScan.ps1                                                       *)
(***************************************************************************)
RunStop(s) == Run(s, "stop read")

ReadTarget(s) ==
    /\ Move(s, "stop read", IF stateFile = None THEN "stopped" ELSE "query")
    /\ seen' = [seen EXCEPT ![s] = stateFile]
    /\ UNCHANGED <<running, port, stateFile, tally>>

\* Mutant: the process id is trusted without a look at the command line.
QueryTrustsId(s) ==
    /\ \/ seen[s] \notin Live /\ Move(s, "query", "remove")
       \/ seen[s] \in Live /\ Move(s, "query", "stop")
    /\ UNCHANGED <<running, port, stateFile, seen, tally>>

\* Win32_Process by id: gone; of a command line that cannot be read, or is
\* another one; or of one that has the path of web_server.py somewhere in it.
Query(s) ==
    /\ \/ seen[s] \notin Live /\ Move(s, "query", "remove")
       \/ seen[s] \in Live /\ Move(s, "query", "refused")
       \/ seen[s] \in Live \ Unrelated /\ Move(s, "query", "stop")
    /\ UNCHANGED <<running, port, stateFile, seen, tally>>

\* A query that fails is taken for one that found no process.
QueryFails(s) ==
    /\ misread < MaxMishaps
    /\ misread' = misread + 1
    /\ Move(s, "query", "remove")
    /\ UNCHANGED <<running, port, stateFile, seen, runs, interrupted, died, overlapped, reissued>>

\* ShouldProcess: the operator is asked, and says no.
Decline(s) ==
    /\ Move(s, "stop", "stopped")
    /\ UNCHANGED <<running, port, stateFile, seen, tally>>

\* Stop-Process by id, whoever has it by now; it raises if there is no such
\* process any more, or it may not be ended.
StopProcess(s) ==
    /\ \/ seen[s] \in Live /\ Move(s, "stop", "remove") /\ Gone(seen[s])
       \/ Move(s, "stop", "failed") /\ UNCHANGED <<running, port>>
    /\ UNCHANGED <<stateFile, seen, tally>>

\* Remove-Item; it raises if the file is gone.
RemoveState(s) ==
    /\ Move(s, "remove", IF stateFile = None THEN "failed" ELSE "stopped")
    /\ stateFile' = None
    /\ UNCHANGED <<running, port, seen, tally>>

-----------------------------------------------------------------------------
\* Ctrl+C, a closed window, a statement that raises.
Interrupt(s) ==
    /\ pc[s] \notin Ended
    /\ interrupted < MaxMishaps
    /\ interrupted' = interrupted + 1
    /\ pc' = [pc EXCEPT ![s] = "interrupted"]
    /\ UNCHANGED <<running, port, stateFile, seen, runs, misread, died, overlapped, reissued>>

\* server_bind is exclusive: who comes second raises, and the process ends.
Bind(p) ==
    /\ p \in Live /\ running[p] = "starting"
    /\ IF port = None
       THEN running' = With(p, "serving") /\ port' = p
       ELSE Gone(p)
    /\ UNCHANGED <<stateFile, pc, seen, tally>>

ServerEnds(p) ==
    /\ p \in Servers
    /\ died < MaxMishaps
    /\ died' = died + 1
    /\ Gone(p)
    /\ UNCHANGED <<stateFile, pc, seen, runs, interrupted, misread, overlapped, reissued>>

\* Other programs of the machine: they begin, under any free identifier, ...
Begins(p, as) ==
    /\ p \in Free
    /\ running' = With(p, as)
    /\ reissued' = reissued \cup {s \in Scripts : pc[s] = "stop" /\ seen[s] = p}
    /\ UNCHANGED <<port, stateFile, pc, seen, runs, interrupted, misread, died, overlapped>>
OtherBegins(p) == Begins(p, "other")
NamesakeBegins(p) == Begins(p, "namesake")
\* ... may listen on the port for a while ...
OtherListens(p) ==
    /\ p \in Strangers
    /\ \/ port = None /\ port' = p
       \/ port = p /\ port' = None
    /\ UNCHANGED <<running, stateFile, pc, seen, tally>>
\* ... and end.
OtherEnds(p) ==
    /\ p \in Strangers
    /\ Gone(p)
    /\ UNCHANGED <<stateFile, pc, seen, tally>>

StartStep(s) ==
    \/ ReadState(s) \/ LookUp(s) \/ ClearStale(s) \/ Spawn(s) \/ Record(s)
    \/ CheckExited(s) \/ Probe(s) \/ KillUnhealthy(s) \/ Unrecord(s)
StopStep(s) ==
    ReadTarget(s) \/ Query(s) \/ QueryFails(s) \/ Decline(s) \/ StopProcess(s) \/ RemoveState(s)
OtherProcess(p) == OtherBegins(p) \/ NamesakeBegins(p) \/ OtherListens(p) \/ OtherEnds(p)

DeployNext ==
    \/ \E s \in Scripts : RunStart(s) \/ RunStop(s) \/ StartStep(s) \/ StopStep(s) \/ Interrupt(s)
    \/ \E p \in Pids : Bind(p) \/ ServerEnds(p) \/ OtherProcess(p)

DeploySpec == DeployInit /\ [][DeployNext]_deploy_vars

-----------------------------------------------------------------------------
States == Ended \cup Holding \cup
          {"read", "look", "clear", "spawn", "stop read", "query", "stop", "remove"}

\* The process table, the port and the places in the scripts.
DeployTypeOK ==
    /\ Live \subseteq Pids
    /\ \A p \in Live : running[p] \in {"starting", "serving", "namesake", "other"}
    /\ running = [p \in Live |-> running[p]]
    /\ port \in {p \in Live : running[p] # "starting"} \cup {None}
    /\ stateFile \in Pids \cup {None}
    /\ pc \in [Scripts -> States]
    /\ seen \in [Scripts -> Pids \cup {None}]
    /\ runs \in 0..MaxRuns
    /\ interrupted \in 0..MaxMishaps
    /\ misread \in 0..MaxMishaps
    /\ died \in 0..MaxMishaps
    /\ overlapped \in BOOLEAN
    /\ reissued \subseteq Scripts

\* Servers that Stop-ObfuScan.ps1 would not find, and no start is busy with.
Lost == Servers \ (Held \cup {stateFile})

\* Scripts that run one at a time lose at most one server for each of them that
\* is stopped half way or whose process query fails: a start that gives up takes
\* its server with it, and but for such a query a state file is never replaced
\* or removed while what it names still serves.
LostOnlyByMishaps == overlapped \/ Cardinality(Lost) <= interrupted + misread

\* The server that Start reports as healthy is the one it has recorded, and no
\* other server of ours answers in its place, although it asks the port and not
\* the process: if the server does not answer itself, a stranger does. This is
\* so as long as scripts run to their end, one at a time, and see the processes.
HealthyIsRecorded ==
    [][\A s \in Scripts :
         pc[s] = "probe" /\ pc'[s] = "healthy" =>
         \/ overlapped \/ interrupted > 0 \/ misread > 0
         \/ stateFile = seen[s] /\ port \in {seen[s]} \cup Strangers]_deploy_vars

\* Neither script ends a program with another command line, although the state
\* file may name an identifier that was given to it, but in one case: Stop has
\* looked at a process, this one has ended, and the other program has got its
\* identifier before Stop-Process. A start never ends another program.
OthersOnlyByReissue ==
    [][\A s \in Scripts : pc'[s] # pc[s] =>
         \A p \in Unrelated : p \notin DOMAIN running' =>
           pc[s] = "stop" /\ seen[s] = p /\ s \in reissued]_deploy_vars
=============================================================================
