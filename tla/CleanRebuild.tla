----------------------------- MODULE CleanRebuild -----------------------------
(***************************************************************************)
(* Clean rebuilds of the BH-01 baseline.  A run works in a source tree, an *)
(* archive of one commit, with caches of its own: it builds, starts the    *)
(* profile server, replays the browser scenarios against it, stops it,     *)
(* regenerates the reports, breaks and restores the profile and writes its *)
(* record.  Runs share the host: its ports, its directories and whatever   *)
(* an interrupted run left there.                                          *)
(***************************************************************************)
EXTENDS Naturals, Sequences

CONSTANTS
  Contexts,       \* the environments, A and B
  Trees,          \* source directories, each unpacked from the archive once
  Ports,
  MaxRuns,        \* runs started in all
  MaxFaults,      \* interrupted runs and servers that die by themselves
  BuildSteps, BrowserSteps, ReportSteps \* commands of a stage

\* A stage has commands, or nothing would stand between the ones around it.
ASSUME StepsAssumption == {BuildSteps, BrowserSteps, ReportSteps} \subseteq Nat \ {0}
ASSUME BoundsAssumption == {MaxRuns, MaxFaults} \subseteq Nat

VARIABLES run,      \* of a context: the run at work there, or the last one
          tree,     \* of a source: what it holds
          homes,    \* the caches made so far, named after source and context
          server,   \* of a run, by its number: its server process
          started,  \* how many runs were started
          faults,
          records   \* the records written

vars == <<run, tree, homes, server, started, faults, records>>

\* The dependencies, the probe, the profile, its audit and the static files.
BuildStage == [i \in 1..BuildSteps |-> "build"]
\* The scenarios, one server under all of them.
BrowserStage == [i \in 1..BrowserSteps |-> "browser"]
\* Schemas, the reports of Phase 9 and their comparison with the retained ones.
ReportStage == [i \in 1..ReportSteps |-> "report"]
\* The profile is damaged, rebuilt and verified.
RecoveryStage == <<"tamper", "restore", "verify">>

\* The commands of a run in their order.
Program == BuildStage \o <<"server">> \o BrowserStage \o ReportStage \o RecoveryStage

Ended == {"idle", "done", "failed", "killed"}
IsActive(c) == run[c].at \notin Ended
NextKind(c) == Program[Len(run[c].commands) + 1]
Server(c) == server[run[c].number]

\* A log is known by its number in the run and by how much was written to it.
Digest(log, lines) == <<log, lines>>
Pending == Digest(0, 0)

Idle == [at |-> "idle", number |-> 0, source |-> CHOOSE s \in Trees : TRUE,
         commands |-> <<>>, serverLog |-> 0]
NoServer == [state |-> "none", port |-> CHOOSE p \in Ports : TRUE, lines |-> 0, told |-> FALSE]

Init ==
  /\ run = [c \in Contexts |-> Idle]
  /\ tree = [s \in Trees |-> [holds |-> "archive", builders |-> {}]]
  /\ homes = {}
  /\ server = [n \in 1..MaxRuns |-> NoServer]
  /\ started = 0 /\ faults = 0
  /\ records = {}

-----------------------------------------------------------------------------
(* Starting a run.                                                         *)
MutantIsClean(s) == tree[s].holds # "tampered"

\* execute/0 looks for generated state before it does anything.
IsClean(s) == tree[s].holds = "archive"

\* The runner makes its directories, which must be new, and looks at the
\* source.  No two runs are given one source at the same time.
Launch(c, s, p) ==
  /\ ~ IsActive(c) /\ started < MaxRuns
  /\ \A d \in Contexts : IsActive(d) => run[d].source # s
  /\ <<s, c>> \notin homes
  /\ started' = started + 1
  /\ homes' = homes \cup {<<s, c>>}
  /\ run' = [run EXCEPT ![c] = [Idle EXCEPT
               !.at = IF IsClean(s) THEN "command" ELSE "failed",
               !.number = started', !.source = s]]
  /\ server' = [server EXCEPT ![started'].port = p]
  /\ UNCHANGED <<tree, faults, records>>

-----------------------------------------------------------------------------
(* One command after the other.                                            *)
\* What a command leaves in the source, whatever its status.  The first commands of a run only
\* fill its caches, and a source they worked in is still clean; here it is not.  (A second
\* run then may take a source that nobody built in, which changes nothing for TreeIsOwn.)
Touched(c) ==
  tree' = [tree EXCEPT ![run[c].source] =
    [holds |-> CASE NextKind(c) \in {"build", "restore"} -> "built"
                 [] NextKind(c) = "tamper" -> "tampered"
                 [] OTHER -> @.holds,
     builders |-> @.builders \cup {run[c].number}]]

\* Whoever holds the port answers.
Answering(c) ==
  {n \in 1..started : server[n].state = "up" /\ server[n].port = Server(c).port}

\* The status of a command is taken only when it is the one expected; its log
\* has been written by then.
Logged(c) ==
  LET log == Len(run[c].commands) + 1
  IN Append(run[c].commands, [kind |-> NextKind(c), hash |-> Digest(log, 1)])

Command(c) ==
  /\ run[c].at = "command" /\ NextKind(c) # "server"
  /\ NextKind(c) = "browser" => Answering(c) # {}
  /\ Touched(c)
  /\ LET after == Logged(c)
         next == IF Len(after) = Len(Program) THEN "record"
                 ELSE IF NextKind(c) = "browser" /\ Program[Len(after) + 1] # "browser"
                      THEN "stopping" ELSE "command"
     IN run' = [run EXCEPT ![c].commands = after, ![c].at = next]
  /\ server' = [n \in 1..MaxRuns |->
                 IF NextKind(c) = "browser" /\ n \in Answering(c) /\ ~ server[n].told
                 THEN [server[n] EXCEPT !.lines = @ + 1] ELSE server[n]]
  /\ UNCHANGED <<homes, started, faults, records>>

MutantAfterFailure(kind) == "failed"

\* Where a failed command leads: past the server only through the finally clause.
AfterFailure(kind) == IF kind = "browser" THEN "failing" ELSE "failed"

\* Another status, a time-out, an identity that drifted or a report that differs.
CommandFails(c) ==
  /\ run[c].at = "command" /\ NextKind(c) # "server"
  /\ Touched(c)
  /\ run' = [run EXCEPT ![c].at = AfterFailure(NextKind(c))]
  /\ UNCHANGED <<homes, server, started, faults, records>>

-----------------------------------------------------------------------------
(* The server.                                                             *)
StartServer(c) ==
  /\ run[c].at = "command" /\ NextKind(c) = "server"
  /\ run' = [run EXCEPT ![c].at = "poll", ![c].serverLog = Len(run[c].commands) + 1]
  /\ server' = [server EXCEPT ![run[c].number].state = "booting"]
  /\ UNCHANGED <<tree, homes, started, faults, records>>

\* The process binds its port, or ends because another one has it.
Boot(n) ==
  /\ server[n].state = "booting"
  /\ server' = [server EXCEPT ![n].state =
       IF \E k \in 1..MaxRuns : server[k].state = "up" /\ server[k].port = server[n].port
       THEN "dead" ELSE "up"]
  /\ UNCHANGED <<run, tree, homes, started, faults, records>>

ServerDies(n) ==
  /\ server[n].state \in {"booting", "up"} /\ faults < MaxFaults
  /\ server' = [server EXCEPT ![n].state = "dead"]
  /\ faults' = faults + 1
  /\ UNCHANGED <<run, tree, homes, started, records>>

\* A server that was told to end ends.
ServerEnds(n) ==
  /\ server[n].told /\ server[n].state \in {"booting", "up"}
  /\ server' = [server EXCEPT ![n].state = "dead"]
  /\ UNCHANGED <<run, tree, homes, started, faults, records>>

Told(n) == [server EXCEPT ![n].told = TRUE]

\* process.poll() of the readiness loop.
Poll(c) ==
  /\ run[c].at = "poll"
  /\ IF Server(c).state = "dead"
     THEN run' = [run EXCEPT ![c].at = "failed"] /\ server' = Told(run[c].number)
     ELSE run' = [run EXCEPT ![c].at = "ask"] /\ UNCHANGED server
  /\ UNCHANGED <<tree, homes, started, faults, records>>

\* The health page: any answer on the port is taken, none sleeps and goes round.
Ask(c) ==
  /\ run[c].at = "ask"
  /\ run' = IF Answering(c) = {} THEN [run EXCEPT ![c].at = "poll"]
            ELSE [run EXCEPT ![c].at = "command",
                             ![c].commands = Append(@, [kind |-> "server", hash |-> Pending])]
  /\ UNCHANGED <<tree, homes, server, started, faults, records>>

MutantIsLate(c) == run[c].at = "poll" /\ Server(c).state = "dead"

\* Ninety seconds are over when the loop looks again.
IsLate(c) == run[c].at = "poll"

ReadinessEnds(c) ==
  /\ IsLate(c)
  /\ run' = [run EXCEPT ![c].at = "failed"]
  /\ server' = Told(run[c].number)
  /\ UNCHANGED <<tree, homes, started, faults, records>>

\* As it was until attempt 3: the digest went to the last command.
MutantFinalised(c) ==
  [run[c].commands EXCEPT ![Len(run[c].commands)].hash = Digest(run[c].serverLog, Server(c).lines)]

\* The record of the server gets the digest of its closed log.
Finalised(c) ==
  LET commands == run[c].commands
      i == CHOOSE k \in 1..Len(commands) : commands[k].hash = Pending
  IN [commands EXCEPT ![i].hash = Digest(run[c].serverLog, Server(c).lines)]

\* terminate/0, ten seconds, then kill/0, which ends the client of the container
\* and may leave the container.
StopServer(c) ==
  /\ run[c].at \in {"stopping", "failing"}
  /\ \E state \in {"dead"} \cup (IF Server(c).state = "up" THEN {"up"} ELSE {}) :
       server' = [server EXCEPT ![run[c].number].state = state, ![run[c].number].told = TRUE]
  /\ run' = [run EXCEPT ![c].commands = Finalised(c),
                        ![c].at = IF @ = "failing" THEN "failed" ELSE "command"]
  /\ UNCHANGED <<tree, homes, started, faults, records>>

\* The client does not end in ten seconds after kill/0 either: the error leaves the
\* record of the server as it is, and ends the run.
StopFails(c) ==
  /\ run[c].at \in {"stopping", "failing"} /\ Server(c).state # "dead"
  /\ run' = [run EXCEPT ![c].at = "failed"]
  /\ server' = Told(run[c].number)
  /\ UNCHANGED <<tree, homes, started, faults, records>>

-----------------------------------------------------------------------------
(* The record, and a run that is killed.                                   *)
WriteRecord(c) ==
  /\ run[c].at = "record"
  /\ records' = records \cup
       {[context |-> c, number |-> run[c].number, source |-> run[c].source,
         commands |-> run[c].commands, serverLines |-> Server(c).lines]}
  /\ run' = [run EXCEPT ![c].at = "done"]
  /\ UNCHANGED <<tree, homes, server, started, faults>>

\* The runner is killed; nobody tells its server.
Interrupt(c) ==
  /\ IsActive(c) /\ faults < MaxFaults
  /\ run' = [run EXCEPT ![c].at = "killed"]
  /\ faults' = faults + 1
  /\ UNCHANGED <<tree, homes, server, started, records>>

Step(c) == Command(c) \/ CommandFails(c) \/ StartServer(c) \/ Poll(c) \/ Ask(c)
             \/ ReadinessEnds(c) \/ StopServer(c) \/ StopFails(c) \/ WriteRecord(c)

Next ==
  \/ \E c \in Contexts : Step(c) \/ Interrupt(c)
  \/ \E c \in Contexts, s \in Trees, p \in Ports : Launch(c, s, p)
  \/ \E n \in 1..MaxRuns : Boot(n) \/ ServerDies(n) \/ ServerEnds(n)

\* A runner goes on, and the clock of the readiness loop does so whatever the loop sees.
Fairness ==
  \A c \in Contexts : WF_vars(Step(c)) /\ SF_vars(ReadinessEnds(c))

Spec == Init /\ [][Next]_vars /\ Fairness

-----------------------------------------------------------------------------
\* A record has every command of the program in order, each with the digest of
\* its own finished log: two failed attempts of the repository had not
\* (stop_server/1 of run_clean_rebuild.py).
RecordIsWhole ==
  \A r \in records :
    /\ [i \in DOMAIN r.commands |-> r.commands[i].kind] = Program
    /\ \A i \in DOMAIN r.commands :
         r.commands[i].hash =
           Digest(i, IF r.commands[i].kind = "server" THEN r.serverLines ELSE 1)

\* Nobody else ever built in the source of a record, whatever runs failed, were
\* killed or were started with an old source before (execute/0).
TreeIsOwn == \A r \in records : tree[r.source].builders = {r.number}

\* A run that ended by itself has told its server to end: a failed scenario, a
\* server that is not ready in time and the normal end all do (the finally
\* clause of browser_runs/0, the except clause of server/0).
ServerIsTold ==
  \A c \in Contexts :
    run[c].at \in {"done", "failed"} =>
      Server(c).told \/ Server(c).state \in {"none", "dead"}

\* A run ends, although its server may hang before it is ready.
RunEnds == \A c \in Contexts : IsActive(c) ~> ~ IsActive(c)
=============================================================================
