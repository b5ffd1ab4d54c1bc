---------------------------- MODULE EvidenceProofs ----------------------------
(***************************************************************************)
(* The evidence of BH-01 Phases 9 and 10: the clean rebuilds, and the      *)
(* programs and gates of the records that follow from one another.         *)
(*                                                                         *)
(* CleanRebuild, for any number of runs, contexts, sources, commands and   *)
(* faults: what a record says is whole, nobody else built in its source,   *)
(* and a run that ended has told its server to end.                        *)
(* None of the three is inductive.  The record is written at the end of a  *)
(* run, so the invariant follows the run through its program: which of its *)
(* commands are done, which digest is still owed and that the server whose *)
(* log it is takes no more lines once it has been told.  The source is its *)
(* own because a clean source has no builders and every first command      *)
(* makes it unclean.                                                       *)
(*                                                                         *)
(* EvidenceChain, for any files edited and any number of edits, stops and  *)
(* jumps: one pass of all programs repairs everything, and the two gates   *)
(* find whatever is stale.  The files stand in an order in which each      *)
(* follows from those before it (Rank), and the invariant (ChainInv) looks *)
(* at a program that nobody disturbs through the files as it will leave    *)
(* them (Target): those it has in memory make them up to date.             *)
(***************************************************************************)
EXTENDS CleanRebuild, EvidenceChain, SequenceTheorems, TLAPS

-----------------------------------------------------------------------------
(* The inductive invariant. *)

Kinds == {"build", "server", "browser", "report", "tamper", "restore", "verify"}

(* Where the server and the last scenario stand in the program. *)
ServerAt == BuildSteps + 1
ScenariosEnd == ServerAt + BrowserSteps

(* A command of a record, with the digest of its log. *)
Digests == Nat \X Nat

Entry == [kind : Kinds, hash : Digests]

Run ==
  [at : Ended \cup {"command", "poll", "ask", "stopping", "failing", "record"},
   number : 0 .. MaxRuns, source : Trees \cup {Idle.source},
   commands : Seq(Entry), serverLog : Nat]

Process == [state : {"none", "booting", "up", "dead"}, port : Ports \cup {NoServer.port},
            lines : Nat, told : BOOLEAN]

Source == [holds : {"archive", "built", "tampered"}, builders : SUBSET (1 .. MaxRuns)]

Types ==
  /\ run \in [Contexts -> Run]
  /\ tree \in [Trees -> Source]
  /\ server \in [1 .. MaxRuns -> Process]
  /\ started \in 0 .. MaxRuns

(* Runs are numbered as they start, and a server waits for its run to start it. *)
NumbersFit ==
  /\ \A c \in Contexts : run[c].at # "idle" => run[c].number \in 1 .. started
  /\ \A c, d \in Contexts :
       c # d /\ run[c].at # "idle" /\ run[d].at # "idle" => run[c].number # run[d].number
  /\ \A n \in 1 .. MaxRuns : n > started => server[n].state = "none"

(* The digest of the server's log is owed from its start to its stop. *)
Owes(r) ==
  \/ r.at \in {"stopping", "failing"}
  \/ r.at = "command" /\ Len(r.commands) \in ServerAt .. (ScenariosEnd - 1)

(* Where a run stands in its program. *)
ProgressFits(r) ==
  /\ \A i \in 1 .. Len(r.commands) : r.commands[i].kind = Program[i]
  /\ r.at \in {"command", "poll", "ask", "stopping", "failing"} => Len(r.commands) < Len(Program)
  /\ r.at = "record" => Len(r.commands) = Len(Program)
  /\ r.at \in {"poll", "ask"} => Len(r.commands) = ServerAt - 1 /\ r.serverLog = ServerAt
  /\ r.at = "stopping" => Len(r.commands) = ScenariosEnd
  /\ r.at = "failing" => Len(r.commands) \in ServerAt .. (ScenariosEnd - 1)
  /\ Owes(r) => r.serverLog = ServerAt

(* The digests of a run and its server p. *)
DigestsFit(r, p) ==
  r.at \notin Ended =>
    /\ \A i \in 1 .. Len(r.commands) : i # ServerAt => r.commands[i].hash = Digest(i, 1)
    /\ Owes(r) => r.commands[ServerAt].hash = Pending
    /\ ~Owes(r) /\ ServerAt <= Len(r.commands) =>
         p.told /\ r.commands[ServerAt].hash = Digest(ServerAt, p.lines)

(* A server was not started, or is told when its run ends. *)
ServerFits(r, p) ==
  /\ r.at = "command" /\ Len(r.commands) < ServerAt => p.state = "none"
  /\ r.at \in {"done", "failed"} => p.told \/ p.state \in {"none", "dead"}

RunFits(c) ==
  run[c].at # "idle" =>
    /\ ProgressFits(run[c])
    /\ DigestsFit(run[c], Server(c))
    /\ ServerFits(run[c], Server(c))

(* A source at work has one builder, and one that was not built in has none. *)
SourcesFit ==
  /\ \A s \in Trees : tree[s].holds = "archive" => tree[s].builders = {}
  /\ \A c \in Contexts : IsActive(c) =>
       /\ run[c].source \in Trees
       /\ IF run[c].commands = <<>>
          THEN run[c].at = "command" /\ tree[run[c].source].holds = "archive"
          ELSE /\ tree[run[c].source].holds # "archive"
               /\ tree[run[c].source].builders = {run[c].number}
       /\ \A d \in Contexts : d # c /\ IsActive(d) => run[d].source # run[c].source

(* What was written stays true: the source is no longer clean and nobody works in it. *)
RecordsFit ==
  /\ RecordIsWhole
  /\ TreeIsOwn
  /\ \A r \in records :
       /\ r.source \in Trees /\ tree[r.source].holds # "archive"
       /\ \A c \in Contexts : IsActive(c) => run[c].source # r.source

IInv ==
  /\ Types
  /\ NumbersFit
  /\ \A c \in Contexts : RunFits(c)
  /\ SourcesFit
  /\ RecordsFit

(* What may happen to a server that is not being started. *)
Goes(p, q) ==
  /\ p.told => q.told /\ q.lines = p.lines
  /\ p.state = "none" => q.state = "none"
  /\ p.state = "dead" => q.state = "dead"

(* u is s and then t. *)
Joined(u, s, t) ==
  /\ u \in Seq(Kinds) /\ Len(u) = Len(s) + Len(t)
  /\ \A i \in 1 .. Len(s) : u[i] = s[i]
  /\ \A i \in Len(s) + 1 .. Len(s) + Len(t) : i - Len(s) \in 1 .. Len(t) /\ u[i] = t[i - Len(s)]

-----------------------------------------------------------------------------
(* The program. *)

LEMMA Steps == /\ BuildSteps \in Nat \ {0} /\ BrowserSteps \in Nat \ {0} /\ ReportSteps \in Nat \ {0}
               /\ MaxRuns \in Nat
BY StepsAssumption, BoundsAssumption

\* What a concatenation holds, read from its indices.
LEMMA JoinedIs ==
  ASSUME NEW s \in Seq(Kinds), NEW t \in Seq(Kinds)
  PROVE  Joined(s \o t, s, t)
<1>1. Len(s) \in Nat /\ Len(t) \in Nat
  OBVIOUS
<1>2. s \o t \in Seq(Kinds) /\ Len(s \o t) = Len(s) + Len(t)
  BY ConcatProperties
<1>3. \A i \in 1 .. Len(s) + Len(t) : (s \o t)[i] = IF i <= Len(s) THEN s[i] ELSE t[i - Len(s)]
  BY ConcatProperties
<1>4. QED
  BY <1>1, <1>2, <1>3 DEF Joined

\* The server's command and the scenarios stand where ServerAt and ScenariosEnd say.
LEMMA ProgramParts ==
  /\ Program \in Seq(Kinds)
  /\ Len(Program) \in Nat /\ Len(Program) > ScenariosEnd
  /\ \A i \in 1 .. Len(Program) :
       /\ i < ServerAt <=> Program[i] = "build"
       /\ i = ServerAt <=> Program[i] = "server"
       /\ i > ServerAt /\ i <= ScenariosEnd <=> Program[i] = "browser"
<1> DEFINE A == BuildStage \o <<"server">>
           B == A \o BrowserStage
           C == B \o ReportStage
<1>1. /\ BuildStage \in Seq(Kinds) /\ Len(BuildStage) = BuildSteps
      /\ BrowserStage \in Seq(Kinds) /\ Len(BrowserStage) = BrowserSteps
      /\ ReportStage \in Seq(Kinds) /\ Len(ReportStage) = ReportSteps
      /\ RecoveryStage \in Seq(Kinds) /\ Len(RecoveryStage) = 3
      /\ <<"server">> \in Seq(Kinds) /\ Len(<<"server">>) = 1
  BY Steps DEF BuildStage, BrowserStage, ReportStage, RecoveryStage, Kinds
<1>2. /\ \A i \in 1 .. BuildSteps : BuildStage[i] = "build"
      /\ \A i \in 1 .. BrowserSteps : BrowserStage[i] = "browser"
      /\ \A i \in 1 .. ReportSteps : ReportStage[i] = "report"
      /\ \A i \in 1 .. 3 : RecoveryStage[i] \in {"tamper", "restore", "verify"}
      /\ \A i \in 1 .. 1 : <<"server">>[i] = "server"
  BY DEF BuildStage, BrowserStage, ReportStage, RecoveryStage
<1>3. Joined(A, BuildStage, <<"server">>)
  BY <1>1, JoinedIs
<1>4. Joined(B, A, BrowserStage)
  <2> HIDE DEF A
  <2>1. A \in Seq(Kinds)
    BY <1>3 DEF Joined
  <2>2. QED
    BY <1>1, <2>1, JoinedIs
<1>5. Joined(C, B, ReportStage)
  <2> HIDE DEF B
  <2>1. B \in Seq(Kinds)
    BY <1>4 DEF Joined
  <2>2. QED
    BY <1>1, <2>1, JoinedIs
<1>6. Joined(Program, C, RecoveryStage)
  <2>1. Program = C \o RecoveryStage
    BY DEF Program
  <2> HIDE DEF C
  <2>2. C \in Seq(Kinds)
    BY <1>5 DEF Joined
  <2>3. QED
    BY <1>1, <2>1, <2>2, JoinedIs
<1> HIDE DEF A, B, C
<1>7. ServerAt = BuildSteps + 1 /\ ScenariosEnd = ServerAt + BrowserSteps
  BY DEF ServerAt, ScenariosEnd
<1>8. /\ Len(A) = ServerAt /\ A[ServerAt] = "server"
      /\ \A i \in 1 .. BuildSteps : A[i] = "build"
  BY <1>1, <1>2, <1>3, <1>7, Steps DEF Joined
<1>9. /\ Len(B) = ScenariosEnd
      /\ \A i \in 1 .. ServerAt : B[i] = A[i]
      /\ \A i \in ServerAt + 1 .. ScenariosEnd : B[i] = "browser"
  BY <1>1, <1>2, <1>4, <1>7, <1>8, Steps DEF Joined
<1>10. /\ Len(C) = ScenariosEnd + ReportSteps
       /\ \A i \in 1 .. ScenariosEnd : C[i] = B[i]
       /\ \A i \in ScenariosEnd + 1 .. ScenariosEnd + ReportSteps : C[i] = "report"
  BY <1>1, <1>2, <1>5, <1>7, <1>9, Steps DEF Joined
<1>11. /\ Program \in Seq(Kinds) /\ Len(Program) = ScenariosEnd + ReportSteps + 3
       /\ \A i \in 1 .. ScenariosEnd + ReportSteps : Program[i] = C[i]
       /\ \A i \in ScenariosEnd + ReportSteps + 1 .. ScenariosEnd + ReportSteps + 3 :
            Program[i] \in {"tamper", "restore", "verify"}
  BY <1>1, <1>2, <1>6, <1>7, <1>10, Steps DEF Joined
<1>12. ASSUME NEW i \in 1 .. Len(Program)
       PROVE  /\ i < ServerAt <=> Program[i] = "build"
              /\ i = ServerAt <=> Program[i] = "server"
              /\ i > ServerAt /\ i <= ScenariosEnd <=> Program[i] = "browser"
  <2>1. CASE i < ServerAt
    BY <2>1, <1>7, <1>8, <1>9, <1>10, <1>11, Steps
  <2>2. CASE i = ServerAt
    BY <2>2, <1>7, <1>8, <1>9, <1>10, <1>11, Steps
  <2>3. CASE i \in ServerAt + 1 .. ScenariosEnd
    BY <2>3, <1>7, <1>9, <1>10, <1>11, Steps
  <2>4. CASE i \in ScenariosEnd + 1 .. ScenariosEnd + ReportSteps
    BY <2>4, <1>7, <1>10, <1>11, Steps
  <2>5. CASE i \in ScenariosEnd + ReportSteps + 1 .. ScenariosEnd + ReportSteps + 3
    BY <2>5, <1>7, <1>11, Steps
  <2>6. QED
    BY <2>1, <2>2, <2>3, <2>4, <2>5, <1>7, <1>11, Steps
<1>13. QED
  BY <1>7, <1>11, <1>12, Steps

-----------------------------------------------------------------------------
(* What the actions meet. *)

\* The kind of the next command says where the run stands.
LEMMA KindOfNext ==
  ASSUME Types, NEW c \in Contexts, RunFits(c), run[c].at = "command"
  PROVE  /\ NextKind(c) \in Kinds
         /\ Len(run[c].commands) \in Nat /\ Len(run[c].commands) < Len(Program)
         /\ NextKind(c) = Program[Len(run[c].commands) + 1]
         /\ NextKind(c) = "build" <=> Len(run[c].commands) < ServerAt - 1
         /\ NextKind(c) = "server" <=> Len(run[c].commands) = ServerAt - 1
         /\ NextKind(c) = "browser" <=> Len(run[c].commands) \in ServerAt .. (ScenariosEnd - 1)
<1>1. Len(run[c].commands) \in Nat /\ Len(run[c].commands) < Len(Program)
  BY DEF Types, Run, RunFits, ProgressFits
<1>2. ServerAt \in Nat /\ ScenariosEnd \in Nat
  BY Steps DEF ServerAt, ScenariosEnd
<1>3. NextKind(c) = Program[Len(run[c].commands) + 1]
  BY DEF NextKind
<1>4. Len(run[c].commands) + 1 \in 1 .. Len(Program)
  BY <1>1, ProgramParts
<1>5. NextKind(c) \in Kinds
  BY <1>3, <1>4, ProgramParts
<1>6. QED
  BY <1>1, <1>2, <1>3, <1>4, <1>5, ProgramParts

\* The digest goes to the command of the server.
LEMMA FinalisedIs ==
  ASSUME Types, NEW c \in Contexts, RunFits(c), run[c].at \in {"stopping", "failing"}
  PROVE  /\ ServerAt \in 1 .. Len(run[c].commands)
         /\ Finalised(c) = [run[c].commands EXCEPT
                              ![ServerAt].hash = Digest(ServerAt, Server(c).lines)]
<1>1. /\ Len(run[c].commands) \in Nat /\ ServerAt \in Nat \ {0} /\ ScenariosEnd \in Nat
      /\ ScenariosEnd > ServerAt
  BY Steps DEF Types, Run, ServerAt, ScenariosEnd
<1>2. ServerAt \in 1 .. Len(run[c].commands) /\ run[c].serverLog = ServerAt
  BY <1>1 DEF RunFits, ProgressFits, Owes
<1>3. run[c].at \notin Ended /\ Owes(run[c])
  BY DEF Ended, Owes
<1>4. \A k \in 1 .. Len(run[c].commands) : run[c].commands[k].hash = Pending <=> k = ServerAt
  BY <1>2, <1>3 DEF RunFits, DigestsFit, Pending, Digest, Ended
<1>5. (CHOOSE k \in 1 .. Len(run[c].commands) : run[c].commands[k].hash = Pending) = ServerAt
  BY <1>2, <1>4
<1>6. QED
  BY <1>2, <1>5 DEF Finalised

\* Nobody but its own run starts or stops a server; whatever else happens to it, one that was
\* told takes no more lines.
LEMMA ServersGo ==
  ASSUME Types, NumbersFit, Next, NEW d \in Contexts, run[d].at # "idle", run'[d] = run[d]
  PROVE  Goes(Server(d), Server(d)')
<1> DEFINE n == run[d].number
<1>1. /\ n \in 1 .. MaxRuns /\ n <= started
      /\ Server(d) = server[n] /\ Server(d)' = server'[n]
  BY Steps DEF Types, NumbersFit, Server
<1>2. \A c \in Contexts : c # d /\ run[c].at # "idle" => run[c].number # n
  BY DEF NumbersFit
<1> HIDE DEF n
<1>3. ASSUME NEW c \in Contexts, Command(c)
      PROVE  Goes(server[n], server'[n])
  BY <1>1, <1>3 DEF Command, Goes, Types, Process
<1>4. ASSUME NEW c \in Contexts, run[c].at # "idle", run'[c].at # run[c].at,
             NEW p, server' = [server EXCEPT ![run[c].number] = p]
      PROVE  Goes(server[n], server'[n])
  <2>1. c # d
    BY <1>4
  <2>2. server'[n] = server[n]
    BY <1>1, <1>2, <1>4, <2>1 DEF Types
  <2>3. QED
    BY <2>2 DEF Goes
<1>5. ASSUME NEW c \in Contexts, StartServer(c)
      PROVE  Goes(server[n], server'[n])
  BY <1>4, <1>5 DEF StartServer, Types, Run
<1>6. ASSUME NEW c \in Contexts, Poll(c)
      PROVE  Goes(server[n], server'[n])
  <2>1. CASE UNCHANGED server
    BY <2>1 DEF Goes
  <2>2. CASE run' = [run EXCEPT ![c].at = "failed"] /\ server' = Told(run[c].number)
    BY <1>4, <1>6, <2>2 DEF Poll, Told, Types, Run
  <2>3. QED
    BY <1>6, <2>1, <2>2 DEF Poll
<1>7. ASSUME NEW c \in Contexts, ReadinessEnds(c) \/ StopFails(c)
      PROVE  Goes(server[n], server'[n])
  <2>1. /\ run[c].at # "idle" /\ run'[c].at # run[c].at
        /\ server' = [server EXCEPT ![run[c].number] = [server[run[c].number] EXCEPT !.told = TRUE]]
    <3>1. run[c].at # "idle" /\ run'[c].at # run[c].at
      BY <1>7 DEF ReadinessEnds, IsLate, StopFails, Types, Run
    <3>2. server' = Told(run[c].number)
      BY <1>7 DEF ReadinessEnds, StopFails
    <3>3. QED
      BY <3>1, <3>2 DEF Told
  <2>2. QED
    BY <1>4, <2>1
<1>8. ASSUME NEW c \in Contexts, StopServer(c)
      PROVE  Goes(server[n], server'[n])
  BY <1>4, <1>8 DEF StopServer, Types, Run
<1>9. ASSUME NEW c \in Contexts, NEW s \in Trees, NEW p \in Ports, Launch(c, s, p)
      PROVE  Goes(server[n], server'[n])
  BY <1>1, <1>9 DEF Launch, Goes, Types, Process
<1>10. ASSUME NEW k \in 1 .. MaxRuns, Boot(k) \/ ServerDies(k) \/ ServerEnds(k)
       PROVE  Goes(server[n], server'[n])
  <2>1. /\ server[k].state \in {"booting", "up"}
        /\ \E state \in {"up", "dead"} : server' = [server EXCEPT ![k].state = state]
    BY <1>10 DEF Boot, ServerDies, ServerEnds
  <2>2. QED
    BY <1>1, <2>1 DEF Goes, Types, Process
<1>11. ASSUME UNCHANGED server
       PROVE  Goes(server[n], server'[n])
  BY <1>11 DEF Goes
<1>12. QED
  BY <1>1, <1>3, <1>5, <1>6, <1>7, <1>8, <1>9, <1>10, <1>11
  DEF Next, Step, CommandFails, Ask, WriteRecord, Interrupt

-----------------------------------------------------------------------------
(* The steps. *)

\* A digest fits where a run keeps one.
LEMMA DigestIs ==
  ASSUME NEW log \in Nat, NEW lines \in Nat
  PROVE  Digest(log, lines) \in Digests
BY DEF Digest, Digests

\* What a command that is done leaves in the list of its run.
LEMMA LoggedIs ==
  ASSUME Types, NEW c \in Contexts, RunFits(c), run[c].at = "command"
  PROVE  /\ Logged(c) \in Seq(Entry)
         /\ Len(Logged(c)) = Len(run[c].commands) + 1
         /\ \A i \in 1 .. Len(run[c].commands) : Logged(c)[i] = run[c].commands[i]
         /\ Logged(c)[Len(Logged(c))] =
              [kind |-> NextKind(c), hash |-> Digest(Len(Logged(c)), 1)]
<1> DEFINE log == Len(run[c].commands) + 1
           done == [kind |-> NextKind(c), hash |-> Digest(log, 1)]
<1>1. /\ run[c].commands \in Seq(Entry)
      /\ log \in Nat
  BY DEF Types, Run
<1>2. done \in Entry
  BY <1>1, KindOfNext, DigestIs DEF Entry
<1>3. Logged(c) = Append(run[c].commands, done)
  BY DEF Logged
<1> HIDE DEF done
<1>4. /\ Logged(c) \in Seq(Entry)
      /\ Len(Logged(c)) = log
      /\ \A i \in 1 .. Len(run[c].commands) : Logged(c)[i] = run[c].commands[i]
      /\ Logged(c)[log] = done
  BY <1>1, <1>2, <1>3
<1>5. QED
  BY <1>4 DEF done

\* What a launch makes of its context.
LEMMA LaunchIs ==
  ASSUME Types, NEW c \in Contexts, NEW s \in Trees, NEW p \in Ports, Launch(c, s, p)
  PROVE  /\ started' = started + 1 /\ started' \in 1 .. MaxRuns
         /\ run'[c].at = (IF IsClean(s) THEN "command" ELSE "failed")
         /\ run'[c].number = started' /\ run'[c].source = s /\ run'[c].commands = <<>>
         /\ \A d \in Contexts : d # c => run'[d] = run[d]
<1>1. started' = started + 1 /\ started' \in 1 .. MaxRuns
  BY Steps DEF Launch, Types
<1>2. PICK at, n : /\ at = (IF IsClean(s) THEN "command" ELSE "failed") /\ n = started'
                   /\ run' = [run EXCEPT ![c] = [Idle EXCEPT !.at = at, !.number = n, !.source = s]]
  BY DEF Launch
<1>3. /\ run'[c] = [Idle EXCEPT !.at = at, !.number = n, !.source = s]
      /\ \A d \in Contexts : d # c => run'[d] = run[d]
  BY <1>2 DEF Types
<1>4. run'[c].at = at /\ run'[c].number = n /\ run'[c].source = s /\ run'[c].commands = <<>>
  BY <1>3 DEF Idle
<1>5. QED
  BY <1>1, <1>2, <1>3, <1>4

\* The state keeps its types.
LEMMA TypesStep ==
  ASSUME Types, NumbersFit, \A c \in Contexts : RunFits(c), [Next]_vars
  PROVE  Types'
<1> USE DEF Ended
<1>1. ASSUME NEW c \in Contexts, Touched(c), run[c].at # "idle"
      PROVE  tree' \in [Trees -> Source]
  <2>1. run[c].number \in 1 .. MaxRuns
    BY <1>1, Steps DEF Types, NumbersFit
  <2>2. QED
    BY <1>1, <2>1 DEF Touched, Types, Source
<1>2. ASSUME NEW c \in Contexts, Command(c)
      PROVE  Types'
  <2> DEFINE after == Logged(c)
  <2>4. PICK next \in {"record", "stopping", "command"} :
          run' = [run EXCEPT ![c].commands = after, ![c].at = next]
    BY <1>2 DEF Command
  <2>5. after \in Seq(Entry)
    BY <1>2, LoggedIs DEF Command
  <2> HIDE DEF after
  <2>1. run' \in [Contexts -> Run]
    BY <2>4, <2>5 DEF Types, Run
  <2>2. server' \in [1 .. MaxRuns -> Process]
    BY <1>2 DEF Command, Types, Process
  <2>3. QED
    BY <1>1, <1>2, <2>1, <2>2 DEF Command, Types
<1>3. ASSUME NEW c \in Contexts, CommandFails(c)
      PROVE  Types'
  <2>1. run' \in [Contexts -> Run]
    BY <1>3 DEF CommandFails, AfterFailure, Types, Run
  <2>2. QED
    BY <1>1, <1>3, <2>1 DEF CommandFails, Types
<1>4. ASSUME NEW c \in Contexts, StartServer(c)
      PROVE  Types'
  <2>1. Len(run[c].commands) + 1 \in Nat
    BY DEF Types, Run
  <2>2. run' \in [Contexts -> Run]
    BY <1>4, <2>1 DEF StartServer, Types, Run
  <2>3. server' \in [1 .. MaxRuns -> Process]
    BY <1>4 DEF StartServer, Types, Process
  <2>4. QED
    BY <1>4, <2>2, <2>3 DEF StartServer, Types
<1>5. ASSUME NEW c \in Contexts, Told(run[c].number) = server' \/ server' = server
      PROVE  server' \in [1 .. MaxRuns -> Process]
  BY <1>5 DEF Told, Types, Process
<1>6. ASSUME NEW c \in Contexts, Poll(c) \/ ReadinessEnds(c) \/ StopFails(c)
      PROVE  Types'
  <2>4. \E at \in {"failed", "ask"} : run' = [run EXCEPT ![c].at = at]
    BY <1>6 DEF Poll, ReadinessEnds, StopFails
  <2>1. run' \in [Contexts -> Run]
    BY <2>4 DEF Types, Run
  <2>2. server' \in [1 .. MaxRuns -> Process]
    BY <1>5, <1>6 DEF Poll, ReadinessEnds, StopFails
  <2>3. QED
    BY <1>6, <2>1, <2>2 DEF Poll, ReadinessEnds, StopFails, Types
<1>7. ASSUME NEW c \in Contexts, Ask(c)
      PROVE  Types'
  <2> DEFINE record == [kind |-> "server", hash |-> Pending]
  <2>1. record \in Entry
    BY DigestIs DEF Kinds, Pending, Entry
  <2>2. Append(run[c].commands, record) \in Seq(Entry)
    BY <2>1 DEF Types, Run
  <2> DEFINE after == Append(run[c].commands, record)
  <2>3. \/ run' = [run EXCEPT ![c].at = "poll"]
        \/ run' = [run EXCEPT ![c] = [run[c] EXCEPT !.at = "command", !.commands = after]]
    BY <1>7 DEF Ask, Types
  <2>7. after \in Seq(Entry)
    BY <2>2
  <2> HIDE DEF after
  <2>6. /\ [run[c] EXCEPT !.at = "command", !.commands = after] \in Run
        /\ [run[c] EXCEPT !.at = "poll"] \in Run
    BY <2>7 DEF Types, Run
  <2>4. run' \in [Contexts -> Run]
    BY <2>3, <2>6 DEF Types
  <2>5. QED
    BY <1>7, <2>4 DEF Ask, Types
<1>8. ASSUME NEW c \in Contexts, StopServer(c)
      PROVE  Types'
  <2>2. run[c].number \in 1 .. MaxRuns
    BY <1>8, Steps DEF StopServer, Types, NumbersFit
  <2>7. \E state \in {"dead", "up"} :
          server' = [server EXCEPT ![run[c].number] =
                       [Server(c) EXCEPT !.state = state, !.told = TRUE]]
    BY <1>8, <2>2 DEF StopServer, Types, Server
  <2>1. server' \in [1 .. MaxRuns -> Process]
    <3>1. \A state \in {"dead", "up"} : [Server(c) EXCEPT !.state = state, !.told = TRUE] \in Process
      BY <2>2 DEF Server, Types, Process
    <3>2. QED
      BY <2>7, <3>1 DEF Types
  <2>3. Digest(ServerAt, Server(c).lines) \in Digests
    BY <2>2, Steps, DigestIs DEF ServerAt, Server, Types, Process
  <2> DEFINE hash == Digest(ServerAt, Server(c).lines)
             entry == [run[c].commands[ServerAt] EXCEPT !.hash = hash]
             after == [run[c].commands EXCEPT ![ServerAt] = entry]
  <2>8. Finalised(c) = after /\ ServerAt \in 1 .. Len(run[c].commands)
    BY <1>8, FinalisedIs DEF StopServer
  <2>9. entry \in Entry
    <3> HIDE DEF hash
    <3>1. run[c].commands[ServerAt] \in Entry
      BY <2>8 DEF Types, Run
    <3>2. QED
      BY <2>3, <3>1 DEF Entry, hash
  <2>4. after \in Seq(Entry)
    <3> HIDE DEF entry
    <3>1. QED
      BY <2>8, <2>9 DEF Types, Run
  <2>10. \E at \in {"failed", "command"} :
           run' = [run EXCEPT ![c] = [run[c] EXCEPT !.commands = after, !.at = at]]
    BY <1>8, <2>8 DEF StopServer, Types, Run
  <2>5. run' \in [Contexts -> Run]
    <3> HIDE DEF after
    <3>1. \A at \in {"failed", "command"} :
            [run[c] EXCEPT !.commands = after, !.at = at] \in Run
      BY <2>4 DEF Types, Run
    <3>2. QED
      BY <2>10, <3>1 DEF Types
  <2>6. QED
    BY <1>8, <2>1, <2>5 DEF StopServer, Types
<1>9. ASSUME NEW c \in Contexts, WriteRecord(c) \/ Interrupt(c)
      PROVE  Types'
  BY <1>9 DEF WriteRecord, Interrupt, Types, Run
<1>10. ASSUME NEW c \in Contexts, NEW s \in Trees, NEW p \in Ports, Launch(c, s, p)
       PROVE  Types'
  <2>1. started' = started + 1 /\ started' \in 1 .. MaxRuns
    BY <1>10, Steps DEF Launch, Types
  <2>2. run' \in [Contexts -> Run]
    <3>1. <<>> \in Seq(Entry)
      OBVIOUS
    <3>2. Idle \in Run
      BY <3>1, Steps DEF Idle, Run
    <3>3. PICK r \in Run, at \in {"command", "failed"}, n \in 1 .. MaxRuns :
            run' = [run EXCEPT ![c] = [r EXCEPT !.at = at, !.number = n, !.source = s]]
      BY <1>10, <2>1, <3>2 DEF Launch
    <3>4. [r EXCEPT !.at = at, !.number = n, !.source = s] \in Run
      <4>1. n \in 0 .. MaxRuns
        BY Steps
      <4>2. QED
        BY <4>1 DEF Run
    <3>5. QED
      BY <3>3, <3>4 DEF Types
  <2>3. server' \in [1 .. MaxRuns -> Process]
    BY <1>10 DEF Launch, Types, Process
  <2>4. QED
    BY <1>10, <2>1, <2>2, <2>3, Steps DEF Launch, Types
<1>11. ASSUME NEW k \in 1 .. MaxRuns, Boot(k) \/ ServerDies(k) \/ ServerEnds(k)
       PROVE  Types'
  <2>1. \E state \in {"up", "dead"} : server' = [server EXCEPT ![k].state = state]
    BY <1>11 DEF Boot, ServerDies, ServerEnds
  <2>2. QED
    BY <1>11, <2>1 DEF Boot, ServerDies, ServerEnds, Types, Process
<1>12. CASE UNCHANGED vars
  BY <1>12 DEF vars, Types
<1>13. QED
  BY <1>2, <1>3, <1>4, <1>6, <1>7, <1>8, <1>9, <1>10, <1>11, <1>12 DEF Next, Step

\* A step of a run leaves its number, its source and the other runs alone.
LEMMA StepIs ==
  ASSUME Types, NEW c \in Contexts, Step(c) \/ Interrupt(c)
  PROVE  /\ run[c].at # "idle" /\ run'[c].at # "idle" /\ IsActive(c)
         /\ run'[c].number = run[c].number /\ run'[c].source = run[c].source
         /\ \A d \in Contexts : d # c => run'[d] = run[d]
         /\ started' = started
<1> USE DEF Types, Run, IsActive, Ended
<1>1. CASE Command(c)
  BY <1>1 DEF Command
<1>2. CASE CommandFails(c)
  BY <1>2 DEF CommandFails, AfterFailure
<1>3. CASE StartServer(c)
  BY <1>3 DEF StartServer
<1>4. CASE Poll(c)
  BY <1>4 DEF Poll
<1>5. CASE Ask(c)
  <2>1. CASE run' = [run EXCEPT ![c].at = "poll"]
    BY <1>5, <2>1 DEF Ask
  <2>2. CASE run' = [run EXCEPT ![c].at = "command",
                               ![c].commands = Append(@, [kind |-> "server", hash |-> Pending])]
    BY <1>5, <2>2 DEF Ask
  <2>3. QED
    BY <1>5, <2>1, <2>2 DEF Ask
<1>6. CASE ReadinessEnds(c)
  BY <1>6 DEF ReadinessEnds, IsLate
<1>7. CASE StopServer(c)
  BY <1>7 DEF StopServer
<1>8. CASE StopFails(c)
  BY <1>8 DEF StopFails
<1>9. CASE WriteRecord(c)
  BY <1>9 DEF WriteRecord
<1>10. CASE Interrupt(c)
  BY <1>10 DEF Interrupt
<1>11. QED
  BY <1>1, <1>2, <1>3, <1>4, <1>5, <1>6, <1>7, <1>8, <1>9, <1>10 DEF Step

\* Numbers stay distinct, and servers without a run stay as they are.
LEMMA NumbersStep ==
  ASSUME Types, NumbersFit, [Next]_vars
  PROVE  NumbersFit'
<1>1. ASSUME NEW c \in Contexts, run[c].at # "idle", run[c].number \in 1 .. started,
             started' = started,
             \A d \in Contexts : run'[d].at # "idle" => run[d].at # "idle" /\ run'[d].number = run[d].number,
             \A n \in 1 .. MaxRuns : n # run[c].number /\ server[n].state = "none" =>
                                       server'[n].state = "none"
      PROVE  NumbersFit'
  BY <1>1, Steps DEF NumbersFit, Types
<1>2. ASSUME NEW c \in Contexts, run[c].at # "idle"
      PROVE  run[c].number \in 1 .. started
  BY <1>2 DEF NumbersFit
<1>3. ASSUME NEW c \in Contexts, Command(c)
      PROVE  NumbersFit'
  <2>1. \A d \in Contexts : run'[d].at # "idle" => run[d].at # "idle" /\ run'[d].number = run[d].number
    BY <1>3 DEF Command, Types, Run
  <2>2. \A n \in 1 .. MaxRuns : server'[n].state = server[n].state
    BY <1>3 DEF Command, Types, Process
  <2>3. QED
    BY <1>1, <1>2, <1>3, <2>1, <2>2 DEF Command
<1>4. ASSUME NEW c \in Contexts, CommandFails(c) \/ Ask(c) \/ WriteRecord(c) \/ Interrupt(c)
      PROVE  NumbersFit'
  <2>1. \A d \in Contexts : run'[d].at # "idle" => run[d].at # "idle" /\ run'[d].number = run[d].number
    BY <1>4, StepIs DEF Step
  <2>2. run[c].at # "idle" /\ UNCHANGED <<server, started>>
    BY <1>4 DEF CommandFails, Ask, WriteRecord, Interrupt, IsActive, Ended
  <2>3. QED
    BY <1>1, <1>2, <2>1, <2>2
<1>5. ASSUME NEW c \in Contexts,
             StartServer(c) \/ Poll(c) \/ ReadinessEnds(c) \/ StopServer(c) \/ StopFails(c)
      PROVE  NumbersFit'
  <2>1. \A d \in Contexts : run'[d].at # "idle" => run[d].at # "idle" /\ run'[d].number = run[d].number
    BY <1>5, StepIs DEF Step
  <2>2. run[c].at # "idle" /\ UNCHANGED started
    BY <1>5 DEF StartServer, Poll, ReadinessEnds, IsLate, StopServer, StopFails
  <2>3. \A n \in 1 .. MaxRuns : n # run[c].number => server'[n] = server[n]
    BY <1>5 DEF StartServer, Poll, ReadinessEnds, StopServer, StopFails, Told, Types
  <2>4. QED
    BY <1>1, <1>2, <2>1, <2>2, <2>3
<1>6. ASSUME NEW c \in Contexts, NEW s \in Trees, NEW p \in Ports, Launch(c, s, p)
      PROVE  NumbersFit'
  <2>1. \A n \in 1 .. MaxRuns : server'[n].state = server[n].state
    BY <1>6 DEF Launch, Types, Process
  <2>2. QED
    BY <1>6, <2>1, LaunchIs, Steps DEF NumbersFit, Types
<1>7. ASSUME NEW k \in 1 .. MaxRuns, Boot(k) \/ ServerDies(k) \/ ServerEnds(k)
      PROVE  NumbersFit'
  <2>1. /\ server[k].state \in {"booting", "up"} /\ UNCHANGED <<run, started>>
        /\ \E state \in {"up", "dead"} : server' = [server EXCEPT ![k].state = state]
    BY <1>7 DEF Boot, ServerDies, ServerEnds
  <2>2. QED
    BY <2>1 DEF NumbersFit, Types
<1>8. CASE UNCHANGED vars
  BY <1>8 DEF vars, NumbersFit
<1>9. QED
  BY <1>3, <1>4, <1>5, <1>6, <1>7, <1>8 DEF Next, Step

\* A run that does not move keeps its digests: its server takes no more lines once told.
LEMMA RestsFit ==
  ASSUME NEW d \in Contexts, RunFits(d), run'[d] = run[d],
         run[d].at # "idle" => Goes(Server(d), Server(d)')
  PROVE  RunFits(d)'
<1> SUFFICES ASSUME run[d].at # "idle"
             PROVE  (ProgressFits(run[d]) /\ DigestsFit(run[d], Server(d))
                       /\ ServerFits(run[d], Server(d)))'
  BY DEF RunFits
<1>1. ProgressFits(run[d]) /\ DigestsFit(run[d], Server(d)) /\ ServerFits(run[d], Server(d))
  BY DEF RunFits
<1>2. ProgressFits(run[d])'
  BY <1>1 DEF ProgressFits, Owes
<1>3. DigestsFit(run[d], Server(d))'
  BY <1>1 DEF DigestsFit, Owes, Goes
<1>4. ServerFits(run[d], Server(d))'
  BY <1>1 DEF ServerFits, Goes
<1>5. QED
  BY <1>2, <1>3, <1>4

\* A command that is done takes its run one step further in its program.
LEMMA CommandFits ==
  ASSUME Types, NumbersFit, NEW c \in Contexts, RunFits(c), Command(c)
  PROVE  RunFits(c)'
<1> DEFINE n == Len(run[c].commands)
           after == Logged(c)
<1>1. /\ run[c].at = "command" /\ n \in Nat /\ n < Len(Program) /\ Len(Program) \in Nat
      /\ ServerAt \in Nat \ {0} /\ ScenariosEnd \in Nat /\ ServerAt < ScenariosEnd
      /\ ScenariosEnd < Len(Program)
      /\ n # ServerAt - 1
      /\ NextKind(c) = "browser" <=> n \in ServerAt .. (ScenariosEnd - 1)
      /\ NextKind(c) = Program[n + 1]
  BY KindOfNext, ProgramParts, Steps DEF Command, ServerAt, ScenariosEnd
<1>2. /\ Len(after) = n + 1
      /\ \A i \in 1 .. n : after[i] = run[c].commands[i]
      /\ after[n + 1].kind = Program[n + 1] /\ after[n + 1].hash = Digest(n + 1, 1)
  <2>1. /\ Len(after) = n + 1
        /\ \A i \in 1 .. n : after[i] = run[c].commands[i]
        /\ after[Len(after)] = [kind |-> NextKind(c), hash |-> Digest(Len(after), 1)]
    BY <1>1, LoggedIs
  <2> HIDE DEF n, after
  <2>2. QED
    BY <1>1, <2>1
<1>3. /\ run'[c].commands = after
      /\ run'[c].at = (IF n + 1 = Len(Program) THEN "record"
                       ELSE IF NextKind(c) = "browser" /\ Program[n + 2] # "browser"
                            THEN "stopping" ELSE "command")
      /\ run'[c].serverLog = run[c].serverLog /\ run'[c].number = run[c].number
  <2>1. Len(after) + 1 = n + 2
    BY <1>1, <1>2
  <2>2. QED
    BY <1>1, <1>2, <2>1 DEF Command, Types, Run
<1>4. /\ Server(c)'.told = Server(c).told /\ Server(c)'.state = Server(c).state
      /\ Server(c).told => Server(c)'.lines = Server(c).lines
  <2>1. run[c].number \in 1 .. MaxRuns
    BY <1>1, Steps DEF Types, NumbersFit
  <2>2. QED
    BY <1>3, <2>1 DEF Command, Server, Types, Process
<1> HIDE DEF n, after
<1>5. /\ ProgressFits(run[c]) /\ DigestsFit(run[c], Server(c)) /\ ServerFits(run[c], Server(c))
      /\ run[c].at \notin Ended /\ n = Len(run[c].commands)
  BY <1>1 DEF RunFits, Ended, n
<1>6. n + 1 = ScenariosEnd /\ n >= ServerAt => run'[c].at = "stopping"
  BY <1>1, <1>3, ProgramParts
<1>7. n >= ServerAt /\ n + 1 < ScenariosEnd => run'[c].at = "command"
  BY <1>1, <1>3, ProgramParts
<1>8. n < ServerAt => run'[c].at = "command"
  BY <1>1, <1>3
<1>9. n >= ScenariosEnd => run'[c].at = IF n + 1 = Len(Program) THEN "record" ELSE "command"
  BY <1>1, <1>3
<1>10. /\ Owes(run[c])' => Owes(run[c]) /\ n >= ServerAt
       /\ Owes(run[c]) => Owes(run[c])'
  BY <1>1, <1>2, <1>3, <1>5, <1>6, <1>7, <1>8, <1>9 DEF Owes
<1>11. ProgressFits(run[c])'
  <2>1. \A i \in 1 .. Len(run'[c].commands) : run'[c].commands[i].kind = Program[i]
    <3> SUFFICES ASSUME NEW i \in 1 .. n + 1
                 PROVE  after[i].kind = Program[i]
      BY <1>1, <1>2, <1>3
    <3>1. CASE i = n + 1
      BY <1>2, <3>1
    <3>2. CASE i # n + 1
      <4>1. i \in 1 .. n
        BY <1>1, <3>2
      <4>2. QED
        BY <1>2, <1>5, <4>1 DEF ProgressFits
    <3>3. QED
      BY <3>1, <3>2
  <2>2. QED
    BY <1>1, <1>2, <1>3, <1>5, <1>6, <1>7, <1>8, <1>9, <1>10, <2>1 DEF ProgressFits
<1>12. DigestsFit(run[c], Server(c))'
  <2>1. \A i \in 1 .. Len(run'[c].commands) : i # ServerAt => run'[c].commands[i].hash = Digest(i, 1)
    <3> SUFFICES ASSUME NEW i \in 1 .. n + 1, i # ServerAt
                 PROVE  after[i].hash = Digest(i, 1)
      BY <1>1, <1>2, <1>3
    <3>1. CASE i = n + 1
      BY <1>2, <3>1
    <3>2. CASE i # n + 1
      <4>1. i \in 1 .. n
        BY <1>1, <3>2
      <4>2. QED
        BY <1>2, <1>5, <4>1 DEF DigestsFit
    <3>3. QED
      BY <3>1, <3>2
  <2>2. n >= ServerAt => run'[c].commands[ServerAt] = run[c].commands[ServerAt]
    BY <1>1, <1>2, <1>3
  <2>3. ServerAt <= Len(run'[c].commands) => n >= ServerAt
    BY <1>1, <1>2, <1>3
  <2>4. QED
    BY <1>1, <1>4, <1>5, <1>10, <2>1, <2>2, <2>3 DEF DigestsFit
<1>13. ServerFits(run[c], Server(c))'
  BY <1>1, <1>2, <1>3, <1>4, <1>5, <1>6, <1>7, <1>8, <1>9 DEF ServerFits
<1>14. QED
  BY <1>11, <1>12, <1>13 DEF RunFits

\* Where a run stands, of a run whose commands stay as they are.
LEMMA StepsFit ==
  ASSUME Types, NumbersFit, NEW c \in Contexts, RunFits(c),
         \/ CommandFails(c) \/ StartServer(c) \/ Poll(c) \/ ReadinessEnds(c)
         \/ StopFails(c) \/ WriteRecord(c) \/ Interrupt(c)
  PROVE  RunFits(c)'
<1> DEFINE n == Len(run[c].commands)
<1>1. /\ run[c].at # "idle" /\ n \in Nat
      /\ run'[c].number = run[c].number /\ run[c].number \in 1 .. MaxRuns
      /\ ServerAt \in Nat \ {0} /\ ScenariosEnd \in Nat /\ ServerAt < ScenariosEnd
      /\ ScenariosEnd < Len(Program)
  BY StepIs, ProgramParts, Steps DEF Step, Types, NumbersFit, Run, ServerAt, ScenariosEnd
<1>2. /\ ProgressFits(run[c]) /\ DigestsFit(run[c], Server(c)) /\ ServerFits(run[c], Server(c))
  BY <1>1 DEF RunFits
<1>3. CASE CommandFails(c)
  <2>1. /\ run[c].at = "command" /\ n < Len(Program)
        /\ run'[c].at = AfterFailure(NextKind(c)) /\ run'[c].commands = run[c].commands
        /\ run'[c].serverLog = run[c].serverLog /\ UNCHANGED server
        /\ NextKind(c) = "browser" <=> n \in ServerAt .. (ScenariosEnd - 1)
        /\ n # ServerAt - 1
    BY <1>3, KindOfNext DEF CommandFails, Types, Run
  <2>2. Server(c)' = Server(c)
    BY <1>1, <2>1 DEF Server
  <2>3. CASE n \in ServerAt .. (ScenariosEnd - 1)
    <3>1. run'[c].at = "failing"
      BY <2>1, <2>3 DEF AfterFailure
    <3>2. Owes(run[c]) /\ Owes(run[c])'
      BY <2>1, <2>3, <3>1 DEF Owes
    <3>3. QED
      BY <1>1, <1>2, <2>1, <2>2, <2>3, <3>1, <3>2
      DEF RunFits, ProgressFits, DigestsFit, ServerFits, Ended
  <2>4. CASE n \notin ServerAt .. (ScenariosEnd - 1)
    <3>1. run'[c].at = "failed"
      BY <2>1, <2>4 DEF AfterFailure
    <3>2. ~Owes(run[c]) /\ ~Owes(run[c])'
      BY <2>1, <2>4, <3>1 DEF Owes
    <3>3. Server(c).told \/ Server(c).state = "none"
      BY <1>1, <1>2, <2>1, <3>2 DEF DigestsFit, ServerFits, Ended
    <3>4. QED
      BY <1>1, <1>2, <2>1, <2>2, <3>1, <3>2, <3>3
      DEF RunFits, ProgressFits, DigestsFit, ServerFits, Ended
  <2>5. QED
    BY <2>3, <2>4
<1>4. CASE StartServer(c)
  <2>1. /\ run[c].at = "command" /\ n = ServerAt - 1
        /\ run'[c].at = "poll" /\ run'[c].commands = run[c].commands
        /\ run'[c].serverLog = n + 1
    BY <1>4, KindOfNext DEF StartServer, Types, Run
  <2>2. ~Owes(run[c])' /\ ~Owes(run[c])
    BY <1>1, <2>1 DEF Owes
  <2>3. QED
    BY <1>1, <1>2, <2>1, <2>2 DEF RunFits, ProgressFits, DigestsFit, ServerFits, Ended
<1>5. CASE Poll(c) \/ ReadinessEnds(c)
  <2>1. /\ run[c].at = "poll" /\ run'[c].commands = run[c].commands
        /\ run'[c].serverLog = run[c].serverLog
        /\ \/ run'[c].at = "ask"
           \/ run'[c].at = "failed" /\ server' = Told(run[c].number)
    BY <1>5 DEF Poll, ReadinessEnds, IsLate, Types, Run
  <2>2. run'[c].at = "failed" => Server(c)'.told
    BY <1>1, <2>1 DEF Told, Server, Types, Process
  <2>3. ~Owes(run[c])' /\ ~Owes(run[c])
    BY <2>1 DEF Owes
  <2>4. QED
    BY <1>1, <1>2, <2>1, <2>2, <2>3 DEF RunFits, ProgressFits, DigestsFit, ServerFits, Ended
<1>6. CASE WriteRecord(c)
  <2>1. /\ run[c].at = "record" /\ run'[c].at = "done" /\ run'[c].commands = run[c].commands
        /\ run'[c].serverLog = run[c].serverLog /\ UNCHANGED server
    BY <1>6 DEF WriteRecord, Types, Run
  <2>2. ~Owes(run[c])' /\ ~Owes(run[c]) /\ n = Len(Program)
    BY <1>2, <2>1 DEF Owes, ProgressFits
  <2>3. Server(c)' = Server(c) /\ Server(c).told
    BY <1>1, <1>2, <2>1, <2>2 DEF Server, DigestsFit, Ended
  <2>4. QED
    BY <1>1, <1>2, <2>1, <2>2, <2>3 DEF RunFits, ProgressFits, DigestsFit, ServerFits, Ended
<1>7. CASE StopFails(c)
  <2>1. /\ run[c].at \in {"stopping", "failing"} /\ run'[c].at = "failed"
        /\ run'[c].commands = run[c].commands
    BY <1>7 DEF StopFails, Types, Run
  <2>2. Server(c)'.told
    BY <1>1, <1>7 DEF StopFails, Told, Server, Types, Process
  <2>3. ~Owes(run[c])'
    BY <2>1 DEF Owes
  <2>4. QED
    BY <1>1, <1>2, <2>1, <2>2, <2>3 DEF RunFits, ProgressFits, DigestsFit, ServerFits, Ended
<1>8. CASE Interrupt(c)
  <2>1. run'[c].at = "killed" /\ run'[c].commands = run[c].commands
    BY <1>8 DEF Interrupt, Types, Run
  <2>2. ~Owes(run[c])'
    BY <2>1 DEF Owes
  <2>3. QED
    BY <1>1, <1>2, <2>1, <2>2 DEF RunFits, ProgressFits, DigestsFit, ServerFits, Ended
<1>9. QED
  BY <1>3, <1>4, <1>5, <1>6, <1>7, <1>8

\* The server answers: its command stands in the list, its digest is owed.
LEMMA AskFits ==
  ASSUME Types, NumbersFit, NEW c \in Contexts, RunFits(c), Ask(c)
  PROVE  RunFits(c)'
<1> DEFINE n == Len(run[c].commands)
           record == [kind |-> "server", hash |-> Pending]
<1>1. /\ run[c].at = "ask" /\ n = ServerAt - 1 /\ run[c].serverLog = ServerAt
      /\ ServerAt \in Nat \ {0} /\ ScenariosEnd \in Nat /\ ServerAt < ScenariosEnd
      /\ ScenariosEnd < Len(Program) /\ Program[ServerAt] = "server"
      /\ run[c].commands \in Seq(Entry) /\ record \in Entry
  <2>1. run[c].at = "ask" /\ n = ServerAt - 1 /\ run[c].serverLog = ServerAt
    BY DEF Ask, RunFits, ProgressFits
  <2>2. /\ ServerAt \in Nat \ {0} /\ ScenariosEnd \in Nat /\ ServerAt < ScenariosEnd
        /\ ScenariosEnd < Len(Program) /\ Program[ServerAt] = "server"
    BY ProgramParts, Steps DEF ServerAt, ScenariosEnd
  <2>3. run[c].commands \in Seq(Entry) /\ record \in Entry
    BY DigestIs DEF Types, Run, Entry, Kinds, Pending
  <2>4. QED
    BY <2>1, <2>2, <2>3
<1>2. /\ ProgressFits(run[c]) /\ DigestsFit(run[c], Server(c)) /\ ServerFits(run[c], Server(c))
  BY <1>1 DEF RunFits
<1>3. CASE run' = [run EXCEPT ![c].at = "poll"]
  <2>1. /\ run'[c].at = "poll" /\ run'[c].commands = run[c].commands
        /\ run'[c].serverLog = run[c].serverLog
    BY <1>3 DEF Types, Run
  <2>2. ~Owes(run[c])' /\ ~Owes(run[c])
    BY <1>1, <2>1 DEF Owes
  <2>3. QED
    BY <1>1, <1>2, <2>1, <2>2 DEF RunFits, ProgressFits, DigestsFit, ServerFits, Ended
<1>4. CASE run' = [run EXCEPT ![c].at = "command", ![c].commands = Append(@, record)]
  <2>1. /\ run'[c].at = "command" /\ run'[c].commands = Append(run[c].commands, record)
        /\ run'[c].serverLog = run[c].serverLog
    <3> HIDE DEF record
    <3>1. QED
      BY <1>4 DEF Types, Run
  <2>2. /\ Len(run'[c].commands) = ServerAt
        /\ \A i \in 1 .. n : run'[c].commands[i] = run[c].commands[i]
        /\ run'[c].commands[ServerAt] = record
    <3> HIDE DEF record
    <3>1. QED
      BY <1>1, <2>1
  <2>3. run'[c].commands[ServerAt].kind = "server" /\ run'[c].commands[ServerAt].hash = Pending
    BY <2>2
  <2>4. Owes(run[c])'
    BY <1>1, <2>1, <2>2 DEF Owes
  <2> HIDE DEF record
  <2>5. \A i \in 1 .. n : /\ run'[c].commands[i].kind = Program[i]
                          /\ run'[c].commands[i].hash = Digest(i, 1)
    <3>1. \A i \in 1 .. n : i # ServerAt
      BY <1>1
    <3>2. run[c].at \notin Ended
      BY <1>1 DEF Ended
    <3>3. QED
      BY <1>2, <2>2, <3>1, <3>2 DEF ProgressFits, DigestsFit
  <2>6. \A i \in 1 .. ServerAt : i # ServerAt => i \in 1 .. n
    BY <1>1
  <2> HIDE DEF n
  <2>7. ProgressFits(run[c])'
    BY <1>1, <2>1, <2>2, <2>3, <2>4, <2>5, <2>6 DEF ProgressFits
  <2>8. DigestsFit(run[c], Server(c))'
    BY <2>2, <2>3, <2>4, <2>5, <2>6 DEF DigestsFit
  <2>9. ServerFits(run[c], Server(c))'
    BY <1>1, <2>1, <2>2 DEF ServerFits
  <2>10. QED
    BY <2>7, <2>8, <2>9 DEF RunFits
<1>5. QED
  BY <1>3, <1>4 DEF Ask

\* The server is told: its command gets the digest of the log that is closed.
LEMMA StopFits ==
  ASSUME Types, NumbersFit, NEW c \in Contexts, RunFits(c), StopServer(c)
  PROVE  RunFits(c)'
<1> DEFINE hash == Digest(ServerAt, Server(c).lines)
           after == [run[c].commands EXCEPT ![ServerAt].hash = hash]
<1>1. /\ run[c].at \in {"stopping", "failing"} /\ run[c].number \in 1 .. MaxRuns
      /\ ServerAt \in 1 .. Len(run[c].commands) /\ Finalised(c) = after
      /\ run[c].commands \in Seq(Entry)
      /\ ServerAt \in Nat \ {0} /\ ScenariosEnd \in Nat /\ ServerAt < ScenariosEnd
      /\ ScenariosEnd < Len(Program)
  <2>1. run[c].at \in {"stopping", "failing"} /\ run[c].number \in 1 .. MaxRuns
    BY Steps DEF StopServer, Types, NumbersFit
  <2>2. ServerAt \in 1 .. Len(run[c].commands) /\ Finalised(c) = after
    BY <2>1, FinalisedIs
  <2>3. /\ ServerAt \in Nat \ {0} /\ ScenariosEnd \in Nat /\ ServerAt < ScenariosEnd
        /\ ScenariosEnd < Len(Program)
    BY ProgramParts, Steps DEF ServerAt, ScenariosEnd
  <2>4. QED
    BY <2>1, <2>2, <2>3 DEF Types, Run
<1>2. /\ ProgressFits(run[c]) /\ DigestsFit(run[c], Server(c)) /\ Owes(run[c])
  BY <1>1 DEF RunFits, Owes
<1>3. /\ Len(after) = Len(run[c].commands)
      /\ \A i \in 1 .. Len(run[c].commands) : i # ServerAt => after[i] = run[c].commands[i]
      /\ after[ServerAt].kind = run[c].commands[ServerAt].kind /\ after[ServerAt].hash = hash
  <2>1. run[c].commands[ServerAt] \in Entry
    BY <1>1
  <2> HIDE DEF hash
  <2>2. QED
    BY <1>1, <2>1 DEF Entry
<1>4. /\ run'[c].commands = after
      /\ run'[c].at = IF run[c].at = "failing" THEN "failed" ELSE "command"
      /\ run'[c].number = run[c].number /\ run'[c].serverLog = run[c].serverLog
  <2> HIDE DEF after
  <2>1. QED
    BY <1>1 DEF StopServer, Types, Run
<1>5. Server(c)'.told /\ Server(c)'.lines = Server(c).lines
  <2>1. PICK state \in {"dead", "up"} :
          server' = [server EXCEPT ![run[c].number].state = state, ![run[c].number].told = TRUE]
    BY DEF StopServer
  <2>2. QED
    BY <1>1, <1>4, <2>1 DEF Server, Types, Process
<1>6. hash = Digest(ServerAt, Server(c)'.lines)
  BY <1>5
<1> HIDE DEF after, hash
<1>7. ~Owes(run[c])'
  BY <1>1, <1>2, <1>3, <1>4 DEF Owes, ProgressFits
<1>8. ProgressFits(run[c])'
  BY <1>1, <1>2, <1>3, <1>4, <1>7 DEF ProgressFits
<1>9. DigestsFit(run[c], Server(c))'
  <2>1. run[c].at \notin Ended
    BY <1>1 DEF Ended
  <2>2. QED
    BY <1>1, <1>2, <1>3, <1>4, <1>5, <1>6, <1>7, <2>1 DEF DigestsFit
<1>10. ServerFits(run[c], Server(c))'
  BY <1>1, <1>2, <1>3, <1>4, <1>5 DEF ServerFits, ProgressFits, Owes
<1>11. QED
  BY <1>8, <1>9, <1>10 DEF RunFits

\* A run begins with nothing done and a server that was not started.
LEMMA LaunchFits ==
  ASSUME Types, NumbersFit, NEW c \in Contexts, NEW s \in Trees, NEW p \in Ports, Launch(c, s, p)
  PROVE  RunFits(c)'
<1>1. /\ run'[c].at \in {"command", "failed"} /\ run'[c].number = started + 1
      /\ started + 1 \in 1 .. MaxRuns /\ run'[c].commands = <<>>
  BY LaunchIs
<1>2. Server(c)'.state = "none"
  <2>1. server[started + 1].state = "none"
    BY <1>1, Steps DEF NumbersFit, Types
  <2>2. server'[started + 1].state = server[started + 1].state
    BY <1>1 DEF Launch, Types, Process
  <2>3. QED
    BY <1>1, <2>1, <2>2 DEF Server
<1>3. /\ ServerAt \in Nat \ {0} /\ ServerAt > 0 /\ Len(Program) \in Nat /\ Len(Program) > 0
      /\ Len(run'[c].commands) = 0
  BY <1>1, ProgramParts, Steps DEF ServerAt, ScenariosEnd
<1>4. ~Owes(run[c])'
  BY <1>1, <1>3 DEF Owes
<1>5. QED
  BY <1>1, <1>2, <1>3, <1>4 DEF RunFits, ProgressFits, DigestsFit, ServerFits

\* Every step keeps every run where its program says.
LEMMA RunsStep ==
  ASSUME Types, NumbersFit, \A c \in Contexts : RunFits(c), [Next]_vars
  PROVE  \A c \in Contexts : RunFits(c)'
<1>1. ASSUME NEW c \in Contexts, Step(c) \/ Interrupt(c)
      PROVE  \A d \in Contexts : RunFits(d)'
  <2>1. RunFits(c)'
    BY <1>1, CommandFits, StepsFit, AskFits, StopFits DEF Step
  <2>2. ASSUME NEW d \in Contexts, d # c
        PROVE  RunFits(d)'
    <3>1. Next /\ run'[d] = run[d]
      BY <1>1, <2>2, StepIs DEF Next
    <3>2. QED
      BY <3>1, ServersGo, RestsFit
  <2>3. QED
    BY <2>1, <2>2
<1>2. ASSUME NEW c \in Contexts, NEW s \in Trees, NEW p \in Ports, Launch(c, s, p)
      PROVE  \A d \in Contexts : RunFits(d)'
  <2>1. RunFits(c)'
    BY <1>2, LaunchFits
  <2>2. ASSUME NEW d \in Contexts, d # c
        PROVE  RunFits(d)'
    <3>1. Next /\ run'[d] = run[d]
      BY <1>2, <2>2, LaunchIs DEF Next
    <3>2. QED
      BY <3>1, ServersGo, RestsFit
  <2>3. QED
    BY <2>1, <2>2
<1>3. ASSUME NEW k \in 1 .. MaxRuns, Boot(k) \/ ServerDies(k) \/ ServerEnds(k)
      PROVE  \A d \in Contexts : RunFits(d)'
  <2>1. Next /\ UNCHANGED run
    BY <1>3 DEF Next, Boot, ServerDies, ServerEnds
  <2>2. QED
    BY <2>1, ServersGo, RestsFit
<1>4. CASE UNCHANGED vars
  <2>1. ASSUME NEW d \in Contexts
        PROVE  RunFits(d)'
    <3>1. run' = run /\ server' = server
      BY <1>4 DEF vars
    <3>2. Goes(Server(d), Server(d)')
      BY <3>1 DEF Goes, Server
    <3>3. QED
      BY <3>1, <3>2, RestsFit
  <2>2. QED
    BY <2>1
<1>5. QED
  BY <1>1, <1>2, <1>3, <1>4 DEF Next

\* Every step keeps a source with one run to itself, and the first command of a run marks it.
LEMMA SourcesStep ==
  ASSUME Types, NumbersFit, \A c \in Contexts : RunFits(c), SourcesFit, [Next]_vars
  PROVE  SourcesFit'
<1>1. ASSUME NEW c \in Contexts, Step(c) \/ Interrupt(c), UNCHANGED tree,
             IsActive(c)' => (run'[c].commands = <<>> => run[c].commands = <<>> /\ run'[c].at = "command"),
             IsActive(c)' => (run[c].commands = <<>> => run'[c].commands = <<>>)
      PROVE  SourcesFit'
  BY <1>1, StepIs DEF SourcesFit, IsActive
<1>2. ASSUME NEW c \in Contexts, Step(c), Touched(c), run[c].at = "command",
             IsActive(c)' => run'[c].commands # <<>>
      PROVE  SourcesFit'
  <2> DEFINE s == run[c].source
  <2>1. /\ IsActive(c) /\ s \in Trees /\ run[c].number \in 1 .. MaxRuns
        /\ run[c].commands = <<>> => tree[s].holds = "archive" /\ tree[s].builders = {}
        /\ run[c].commands # <<>> => tree[s].holds # "archive" /\ tree[s].builders = {run[c].number}
        /\ \A d \in Contexts : d # c /\ IsActive(d) => run[d].source # s
    BY <1>2, StepIs, Steps DEF SourcesFit, Types, NumbersFit
  <2>2. run[c].commands = <<>> => NextKind(c) = "build"
    <3>1. run[c].commands = <<>> => Len(run[c].commands) < ServerAt - 1
      BY Steps DEF ServerAt
    <3>2. QED
      BY <1>2, <3>1, KindOfNext
  <2>3. /\ tree'[s].holds # "archive" /\ tree'[s].builders = {run[c].number}
        /\ \A t \in Trees : t # s => tree'[t] = tree[t]
    <3>1. /\ tree'[s].builders = tree[s].builders \cup {run[c].number}
          /\ tree'[s].holds = CASE NextKind(c) \in {"build", "restore"} -> "built"
                                [] NextKind(c) = "tamper" -> "tampered"
                                [] OTHER -> tree[s].holds
          /\ \A t \in Trees : t # s => tree'[t] = tree[t]
      BY <1>2, <2>1 DEF Touched, Types, Source
    <3>2. QED
      BY <2>1, <2>2, <3>1
  <2> HIDE DEF s
  <2>4. /\ run'[c].source = s /\ run'[c].number = run[c].number
        /\ \A d \in Contexts : d # c => run'[d] = run[d]
    BY <1>2, StepIs DEF s
  <2>5. \A t \in Trees : tree'[t].holds = "archive" => tree'[t].builders = {}
    BY <2>1, <2>3 DEF SourcesFit
  <2>6. ASSUME NEW d \in Contexts, IsActive(d)'
        PROVE  /\ run'[d].source \in Trees
               /\ IF run'[d].commands = <<>>
                  THEN run'[d].at = "command" /\ tree'[run'[d].source].holds = "archive"
                  ELSE /\ tree'[run'[d].source].holds # "archive"
                       /\ tree'[run'[d].source].builders = {run'[d].number}
               /\ \A e \in Contexts : e # d /\ IsActive(e)' => run'[e].source # run'[d].source
    <3>1. CASE d = c
      BY <1>2, <2>1, <2>3, <2>4, <2>6, <3>1 DEF IsActive
    <3>2. CASE d # c
      <4>1. run'[d] = run[d] /\ IsActive(d) /\ run[d].source # s
        BY <2>1, <2>4, <2>6, <3>2 DEF IsActive
      <4>2. tree'[run[d].source] = tree[run[d].source] /\ run[d].source \in Trees
        BY <2>3, <4>1 DEF SourcesFit
      <4>3. \A e \in Contexts : e # d /\ IsActive(e)' => run'[e].source # run'[d].source
        BY <2>1, <2>4, <4>1 DEF SourcesFit, IsActive
      <4>4. QED
        BY <4>1, <4>2, <4>3 DEF SourcesFit
    <3>3. QED
      BY <3>1, <3>2
  <2>7. QED
    BY <2>5, <2>6 DEF SourcesFit
<1>3. ASSUME NEW c \in Contexts, Command(c)
      PROVE  SourcesFit'
  <2>1. Len(Logged(c)) = Len(run[c].commands) + 1 /\ Len(run[c].commands) \in Nat
    BY <1>3, LoggedIs, KindOfNext DEF Command
  <2>2. run'[c].commands = Logged(c)
    BY <1>3 DEF Command, Types, Run
  <2>3. Logged(c) # <<>>
    BY <2>1
  <2>4. QED
    BY <1>2, <1>3, <2>2, <2>3 DEF Command, Step
<1>4. ASSUME NEW c \in Contexts, CommandFails(c)
      PROVE  SourcesFit'
  <2>1. run[c].commands = <<>> => NextKind(c) # "browser"
    <3>1. run[c].commands = <<>> => Len(run[c].commands) < ServerAt - 1
      BY Steps DEF ServerAt
    <3>2. QED
      BY <1>4, <3>1, KindOfNext DEF CommandFails
  <2>2. run'[c].commands = run[c].commands /\ run'[c].at = AfterFailure(NextKind(c))
    BY <1>4 DEF CommandFails, Types, Run
  <2>3. QED
    BY <1>2, <1>4, <2>1, <2>2 DEF CommandFails, Step, AfterFailure, IsActive, Ended
<1>5. ASSUME NEW c \in Contexts,
             StartServer(c) \/ Poll(c) \/ ReadinessEnds(c) \/ StopFails(c) \/ WriteRecord(c) \/ Interrupt(c)
      PROVE  SourcesFit'
  <2>1. run'[c].commands = run[c].commands /\ UNCHANGED tree
    BY <1>5 DEF StartServer, Poll, ReadinessEnds, StopFails, WriteRecord, Interrupt, Types, Run
  <2>2. IsActive(c)' /\ run[c].commands = <<>> => FALSE
    <3>1. CASE StartServer(c)
      <4>1. Len(run[c].commands) = BuildSteps
        BY <3>1, KindOfNext, Steps DEF StartServer, ServerAt
      <4>2. QED
        BY <4>1, Steps
    <3>2. CASE Poll(c) \/ ReadinessEnds(c)
      BY <3>2, StepIs DEF SourcesFit, Poll, ReadinessEnds, IsLate, Step
    <3>3. CASE StopFails(c) \/ WriteRecord(c) \/ Interrupt(c)
      BY <3>3 DEF StopFails, WriteRecord, Interrupt, IsActive, Ended, Types, Run
    <3>4. QED
      BY <1>5, <3>1, <3>2, <3>3
  <2>3. QED
    BY <1>1, <1>5, <2>1, <2>2 DEF Step
<1>6. ASSUME NEW c \in Contexts, Ask(c)
      PROVE  SourcesFit'
  <2>1. IsActive(c) /\ run[c].commands # <<>> /\ run[c].commands \in Seq(Entry)
    BY <1>6, StepIs DEF SourcesFit, Ask, Step, Types, Run
  <2>2. run'[c].commands # <<>>
    <3> DEFINE record == [kind |-> "server", hash |-> Pending]
    <3>1. record \in Entry
      BY DigestIs DEF Entry, Kinds, Pending
    <3>2. run'[c].commands \in {run[c].commands, Append(run[c].commands, record)}
      <4> HIDE DEF record
      <4>1. CASE run' = [run EXCEPT ![c].at = "poll"]
        BY <4>1 DEF Types, Run
      <4>2. CASE run' = [run EXCEPT ![c].at = "command", ![c].commands = Append(@, record)]
        BY <4>2 DEF Types, Run
      <4>3. QED
        BY <1>6, <4>1, <4>2 DEF Ask, record
    <3> HIDE DEF record
    <3>3. QED
      BY <2>1, <3>1, <3>2
  <2>3. QED
    BY <1>1, <1>6, <2>1, <2>2 DEF Ask, Step
<1>7. ASSUME NEW c \in Contexts, StopServer(c)
      PROVE  SourcesFit'
  <2>1. IsActive(c) /\ run[c].commands # <<>>
    BY <1>7, StepIs DEF SourcesFit, StopServer, Step
  <2>2. run'[c].commands # <<>>
    <3> DEFINE after == Finalised(c)
    <3>1. run'[c].commands = after
      <4> HIDE DEF after
      <4>1. QED
        BY <1>7 DEF StopServer, Types, Run, after
    <3>2. ServerAt \in DOMAIN after
      BY <1>7, FinalisedIs DEF StopServer, Types, Run
    <3>3. QED
      BY <3>1, <3>2
  <2>3. QED
    BY <1>1, <1>7, <2>1, <2>2 DEF StopServer, Step
<1>8. ASSUME NEW c \in Contexts, NEW s \in Trees, NEW p \in Ports, Launch(c, s, p)
      PROVE  SourcesFit'
  <2>1. /\ run'[c].at = (IF tree[s].holds = "archive" THEN "command" ELSE "failed")
        /\ run'[c].source = s /\ run'[c].commands = <<>>
        /\ \A d \in Contexts : d # c => run'[d] = run[d]
        /\ UNCHANGED tree /\ ~IsActive(c)
        /\ \A d \in Contexts : IsActive(d) => run[d].source # s
    BY <1>8, LaunchIs DEF Launch, IsClean
  <2>2. QED
    BY <2>1 DEF SourcesFit, IsActive, Ended
<1>9. ASSUME NEW k \in 1 .. MaxRuns, Boot(k) \/ ServerDies(k) \/ ServerEnds(k)
      PROVE  SourcesFit'
  BY <1>9 DEF Boot, ServerDies, ServerEnds, SourcesFit, IsActive
<1>10. CASE UNCHANGED vars
  BY <1>10 DEF vars, SourcesFit, IsActive
<1>11. QED
  BY <1>3, <1>4, <1>5, <1>6, <1>7, <1>8, <1>9, <1>10 DEF Next, Step

\* What was recorded stays as it was, and the source of a record is taken by nobody.
LEMMA RecordsStep ==
  ASSUME Types, NumbersFit, \A c \in Contexts : RunFits(c), SourcesFit, RecordsFit, [Next]_vars
  PROVE  RecordsFit'
<1>1. ASSUME UNCHANGED <<tree, records>>,
             \A c \in Contexts : IsActive(c)' => /\ IsActive(c) \/ tree[run'[c].source].holds = "archive"
                                                 /\ IsActive(c) => run'[c].source = run[c].source
      PROVE  RecordsFit'
  BY <1>1 DEF RecordsFit, RecordIsWhole, TreeIsOwn
<1>2. ASSUME NEW c \in Contexts, Step(c), Touched(c), UNCHANGED records
      PROVE  RecordsFit'
  <2>1. /\ IsActive(c) /\ run[c].source \in Trees
        /\ \A t \in Trees : t # run[c].source => tree'[t] = tree[t]
    BY <1>2, StepIs DEF SourcesFit, Touched, Types
  <2>2. \A d \in Contexts : IsActive(d)' => IsActive(d) /\ run'[d].source = run[d].source
    BY <1>2, <2>1, StepIs DEF IsActive
  <2>3. \A r \in records : r.source \in Trees /\ tree'[r.source] = tree[r.source]
    BY <2>1 DEF RecordsFit
  <2>4. QED
    BY <1>2, <2>2, <2>3 DEF RecordsFit, RecordIsWhole, TreeIsOwn
<1>3. ASSUME NEW c \in Contexts, WriteRecord(c)
      PROVE  RecordsFit'
  <2> DEFINE new == [context |-> c, number |-> run[c].number, source |-> run[c].source,
                     commands |-> run[c].commands, serverLines |-> Server(c).lines]
             s == run[c].source
             cs == run[c].commands
  <2>1. /\ run[c].at = "record" /\ IsActive(c) /\ run'[c].at = "done" /\ UNCHANGED tree
        /\ records' = records \cup {new}
        /\ \A d \in Contexts : d # c => run'[d] = run[d]
    BY <1>3, StepIs DEF WriteRecord, Step, Types, Run
  <2>2. /\ ProgressFits(run[c]) /\ DigestsFit(run[c], Server(c))
        /\ ~Owes(run[c]) /\ run[c].at \notin Ended
    BY <2>1 DEF RunFits, Owes, Ended
  <2>3. /\ cs \in Seq(Entry) /\ Len(cs) = Len(Program) /\ Program \in Seq(Kinds)
        /\ ServerAt \in 1 .. Len(Program)
        /\ \A i \in 1 .. Len(Program) : Program[i] = "server" <=> i = ServerAt
        /\ \A i \in 1 .. Len(cs) : cs[i].kind = Program[i]
    <3>1. ServerAt \in 1 .. Len(Program)
      BY ProgramParts, Steps DEF ServerAt, ScenariosEnd
    <3>2. \A i \in 1 .. Len(Program) : Program[i] = "server" <=> i = ServerAt
      BY ProgramParts
    <3>3. QED
      BY <2>1, <2>2, <3>1, <3>2, ProgramParts DEF ProgressFits, Types, Run
  <2>4. /\ \A i \in 1 .. Len(cs) : i # ServerAt => cs[i].hash = Digest(i, 1)
        /\ cs[ServerAt].hash = Digest(ServerAt, Server(c).lines)
    BY <2>2, <2>3 DEF DigestsFit
  <2>5. [i \in DOMAIN cs |-> cs[i].kind] = Program
    <3> HIDE DEF cs
    <3>1. DOMAIN cs = 1 .. Len(Program) /\ Program = [i \in 1 .. Len(Program) |-> Program[i]]
      BY <2>3
    <3>2. QED
      BY <2>3, <3>1
  <2>6. \A i \in DOMAIN cs :
          cs[i].hash = Digest(i, IF cs[i].kind = "server" THEN Server(c).lines ELSE 1)
    <3>1. DOMAIN cs = 1 .. Len(cs)
      BY <2>3
    <3>2. QED
      BY <2>3, <2>4, <3>1
  <2>7. /\ new.commands = cs /\ new.serverLines = Server(c).lines /\ new.source = s
        /\ new.number = run[c].number
    OBVIOUS
  <2>8. /\ s \in Trees /\ tree[s].holds # "archive" /\ tree[s].builders = {run[c].number}
        /\ \A d \in Contexts : d # c /\ IsActive(d) => run[d].source # s
    BY <2>1 DEF SourcesFit
  <2> HIDE DEF new, s, cs
  <2>9. RecordIsWhole'
    BY <2>1, <2>5, <2>6, <2>7 DEF RecordsFit, RecordIsWhole
  <2>10. TreeIsOwn'
    BY <2>1, <2>7, <2>8 DEF RecordsFit, TreeIsOwn
  <2>11. \A d \in Contexts : IsActive(d)' => d # c /\ IsActive(d) /\ run'[d] = run[d]
    BY <2>1 DEF IsActive, Ended
  <2>12. QED
    BY <2>1, <2>7, <2>8, <2>9, <2>10, <2>11 DEF RecordsFit
<1>4. ASSUME NEW c \in Contexts, Command(c) \/ CommandFails(c)
      PROVE  RecordsFit'
  BY <1>2, <1>4 DEF Command, CommandFails, Step
<1>5. ASSUME NEW c \in Contexts,
             StartServer(c) \/ Poll(c) \/ Ask(c) \/ ReadinessEnds(c) \/ StopServer(c) \/ StopFails(c) \/ Interrupt(c)
      PROVE  RecordsFit'
  <2>1. \A d \in Contexts : IsActive(d)' => IsActive(d) /\ run'[d].source = run[d].source
    BY <1>5, StepIs DEF Step, IsActive
  <2>2. UNCHANGED <<tree, records>>
    BY <1>5 DEF StartServer, Poll, Ask, ReadinessEnds, StopServer, StopFails, Interrupt
  <2>3. QED
    BY <1>1, <2>1, <2>2
<1>6. ASSUME NEW c \in Contexts, NEW s \in Trees, NEW p \in Ports, Launch(c, s, p)
      PROVE  RecordsFit'
  <2>1. /\ run'[c].at = (IF tree[s].holds = "archive" THEN "command" ELSE "failed")
        /\ run'[c].source = s /\ \A d \in Contexts : d # c => run'[d] = run[d]
        /\ UNCHANGED <<tree, records>> /\ ~IsActive(c)
    BY <1>6, LaunchIs DEF Launch, IsClean
  <2>2. QED
    BY <1>1, <2>1 DEF IsActive, Ended
<1>7. ASSUME NEW k \in 1 .. MaxRuns, Boot(k) \/ ServerDies(k) \/ ServerEnds(k)
      PROVE  RecordsFit'
  BY <1>1, <1>7 DEF Boot, ServerDies, ServerEnds, IsActive
<1>8. CASE UNCHANGED vars
  BY <1>1, <1>8 DEF vars, IsActive
<1>9. QED
  BY <1>3, <1>4, <1>5, <1>6, <1>7, <1>8 DEF Next, Step

-----------------------------------------------------------------------------
(* The theorems. *)

\* Runs keep to their programs, their numbers and their sources, whatever dies or is killed.
THEOREM RebuildsInOrder == Spec => []IInv
<1>1. Init => IInv
  <2> SUFFICES ASSUME Init
               PROVE  IInv
    OBVIOUS
  <2>1. <<>> \in Seq(Entry)
    OBVIOUS
  <2>2. Idle \in Run /\ Idle.at = "idle"
    BY <2>1, Steps DEF Idle, Run, Ended
  <2>3. NoServer \in Process /\ NoServer.state = "none"
    BY DEF NoServer, Process
  <2>4. Types
    BY <2>2, <2>3, Steps DEF Init, Types, Source
  <2>5. \A c \in Contexts : run[c].at = "idle"
    BY <2>2 DEF Init
  <2>6. QED
    BY <2>3, <2>4, <2>5
    DEF Init, IInv, NumbersFit, RunFits, SourcesFit, RecordsFit, RecordIsWhole, TreeIsOwn,
        IsActive, Ended
<1>2. IInv /\ [Next]_vars => IInv'
  BY TypesStep, NumbersStep, RunsStep, SourcesStep, RecordsStep DEF IInv
<1>3. QED
  BY <1>1, <1>2, PTL DEF Spec

\* A record has every command of the program in order, each with the digest of its own
\* finished log, for any program and any faults (stop_server/1, write_record).
THEOREM RecordsAreWhole == Spec => []RecordIsWhole
<1>1. IInv => RecordIsWhole
  BY DEF IInv, RecordsFit
<1>2. QED
  BY <1>1, RebuildsInOrder, PTL

\* Nobody else ever built in the source of a record (the check for generated state that
\* execute/0 makes first).
THEOREM SourcesAreOwn == Spec => []TreeIsOwn
<1>1. IInv => TreeIsOwn
  BY DEF IInv, RecordsFit
<1>2. QED
  BY <1>1, RebuildsInOrder, PTL

\* A run that ended by itself has told its server to end, on every path: the finally clause of
\* browser_runs/0 and the except clause of server/0.
THEOREM ServersAreTold == Spec => []ServerIsTold
<1>1. IInv => ServerIsTold
  BY DEF IInv, RunFits, ServerFits, ServerIsTold
<1>2. QED
  BY <1>1, RebuildsInOrder, PTL

-----------------------------------------------------------------------------
(*                              EvidenceChain                              *)
(* The files, in an order in which each follows from those before it.      *)
Files == Raw \cup Derived

\* The measurements come first, then the i-th file of program p at 4 * p + i.
Ranks ==
  [browsers |-> 0, artifacts |-> 0, reruns |-> 0, deferrals |-> 0, ledger |-> 0,
   findings |-> 0, toolchain |-> 0, authorization |-> 0, summary |-> 5, economics |-> 9,
   mitigations |-> 10, budgets |-> 13, stop |-> 14, rerun |-> 17, cleanA |-> 21,
   cleanB |-> 25, comparison |-> 29, closure |-> 33, review |-> 37, baseline |-> 41,
   views |-> 42, decision |-> 45, entry |-> 46, pages |-> 47, completion |-> 49]

Rank(f) == Ranks[f]

LEMMA DerivedFiles ==
    Derived =
      {"summary", "economics", "mitigations", "budgets", "stop", "rerun", "cleanA", "cleanB",
       "comparison", "closure", "review", "baseline", "views", "decision", "entry", "pages",
       "completion"}
BY DEF Derived, Inputs

\* Files follow from files of a lower rank.
LEMMA InputsAreBefore ==
    ASSUME NEW f \in Derived
    PROVE  /\ Rank(f) \in Nat
           /\ \A i \in DOMAIN Inputs[f] :
                /\ Inputs[f][i] \in Files
                /\ Rank(Inputs[f][i]) \in Nat /\ Rank(Inputs[f][i]) < Rank(f)
<1>1. CASE f = "summary"
  <2>1. Inputs["summary"] = SummaryInputs /\ Rank("summary") = 5
    BY DEF Inputs, Rank, Ranks
  <2>2. /\ DOMAIN SummaryInputs = 1..2
        /\ \A i \in 1..2 :
             /\ SummaryInputs[i] \in Files
             /\ Rank(SummaryInputs[i]) \in Nat /\ Rank(SummaryInputs[i]) < 5
    BY DerivedFiles DEF SummaryInputs, Files, Raw, Rank, Ranks
  <2>3. QED
    BY <1>1, <2>1, <2>2
<1>2. CASE f = "economics"
  <2>1. Inputs["economics"] = EconomicsInputs /\ Rank("economics") = 9
    BY DEF Inputs, Rank, Ranks
  <2>2. /\ DOMAIN EconomicsInputs = 1..2
        /\ \A i \in 1..2 :
             /\ EconomicsInputs[i] \in Files
             /\ Rank(EconomicsInputs[i]) \in Nat /\ Rank(EconomicsInputs[i]) < 9
    BY DerivedFiles DEF EconomicsInputs, Files, Raw, Rank, Ranks
  <2>3. QED
    BY <1>2, <2>1, <2>2
<1>3. CASE f = "mitigations"
  <2>1. Inputs["mitigations"] = MitigationsInputs /\ Rank("mitigations") = 10
    BY DEF Inputs, Rank, Ranks
  <2>2. /\ DOMAIN MitigationsInputs = 1..2
        /\ \A i \in 1..2 :
             /\ MitigationsInputs[i] \in Files
             /\ Rank(MitigationsInputs[i]) \in Nat /\ Rank(MitigationsInputs[i]) < 10
    BY DerivedFiles DEF MitigationsInputs, Files, Raw, Rank, Ranks
  <2>3. QED
    BY <1>3, <2>1, <2>2
<1>4. CASE f = "budgets"
  <2>1. Inputs["budgets"] = BudgetsInputs /\ Rank("budgets") = 13
    BY DEF Inputs, Rank, Ranks
  <2>2. /\ DOMAIN BudgetsInputs = 1..4
        /\ \A i \in 1..4 :
             /\ BudgetsInputs[i] \in Files
             /\ Rank(BudgetsInputs[i]) \in Nat /\ Rank(BudgetsInputs[i]) < 13
    BY DerivedFiles DEF BudgetsInputs, Files, Raw, Rank, Ranks
  <2>3. QED
    BY <1>4, <2>1, <2>2
<1>5. CASE f = "stop"
  <2>1. Inputs["stop"] = StopInputs /\ Rank("stop") = 14
    BY DEF Inputs, Rank, Ranks
  <2>2. /\ DOMAIN StopInputs = 1..2
        /\ \A i \in 1..2 :
             /\ StopInputs[i] \in Files
             /\ Rank(StopInputs[i]) \in Nat /\ Rank(StopInputs[i]) < 14
    BY DerivedFiles DEF StopInputs, Files, Raw, Rank, Ranks
  <2>3. QED
    BY <1>5, <2>1, <2>2
<1>6. CASE f = "rerun"
  <2>1. Inputs["rerun"] = RerunInputs /\ Rank("rerun") = 17
    BY DEF Inputs, Rank, Ranks
  <2>2. /\ DOMAIN RerunInputs = 1..2
        /\ \A i \in 1..2 :
             /\ RerunInputs[i] \in Files
             /\ Rank(RerunInputs[i]) \in Nat /\ Rank(RerunInputs[i]) < 17
    BY DerivedFiles DEF RerunInputs, Files, Raw, Rank, Ranks
  <2>3. QED
    BY <1>6, <2>1, <2>2
<1>7. CASE f = "cleanA"
  <2>1. Inputs["cleanA"] = CleanInputs /\ Rank("cleanA") = 21
    BY DEF Inputs, Rank, Ranks
  <2>2. /\ DOMAIN CleanInputs = 1..7
        /\ \A i \in 1..7 :
             /\ CleanInputs[i] \in Files
             /\ Rank(CleanInputs[i]) \in Nat /\ Rank(CleanInputs[i]) < 21
    BY DerivedFiles DEF CleanInputs, Files, Raw, Rank, Ranks
  <2>3. QED
    BY <1>7, <2>1, <2>2
<1>8. CASE f = "cleanB"
  <2>1. Inputs["cleanB"] = CleanInputs /\ Rank("cleanB") = 25
    BY DEF Inputs, Rank, Ranks
  <2>2. /\ DOMAIN CleanInputs = 1..7
        /\ \A i \in 1..7 :
             /\ CleanInputs[i] \in Files
             /\ Rank(CleanInputs[i]) \in Nat /\ Rank(CleanInputs[i]) < 25
    BY DerivedFiles DEF CleanInputs, Files, Raw, Rank, Ranks
  <2>3. QED
    BY <1>8, <2>1, <2>2
<1>9. CASE f = "comparison"
  <2>1. Inputs["comparison"] = ComparisonInputs /\ Rank("comparison") = 29
    BY DEF Inputs, Rank, Ranks
  <2>2. /\ DOMAIN ComparisonInputs = 1..2
        /\ \A i \in 1..2 :
             /\ ComparisonInputs[i] \in Files
             /\ Rank(ComparisonInputs[i]) \in Nat /\ Rank(ComparisonInputs[i]) < 29
    BY DerivedFiles DEF ComparisonInputs, Files, Raw, Rank, Ranks
  <2>3. QED
    BY <1>9, <2>1, <2>2
<1>10. CASE f = "closure"
  <2>1. Inputs["closure"] = ClosureInputs /\ Rank("closure") = 33
    BY DEF Inputs, Rank, Ranks
  <2>2. /\ DOMAIN ClosureInputs = 1..4
        /\ \A i \in 1..4 :
             /\ ClosureInputs[i] \in Files
             /\ Rank(ClosureInputs[i]) \in Nat /\ Rank(ClosureInputs[i]) < 33
    BY DerivedFiles DEF ClosureInputs, Files, Raw, Rank, Ranks
  <2>3. QED
    BY <1>10, <2>1, <2>2
<1>11. CASE f = "review"
  <2>1. Inputs["review"] = ReviewInputs /\ Rank("review") = 37
    BY DEF Inputs, Rank, Ranks
  <2>2. /\ DOMAIN ReviewInputs = 1..1
        /\ \A i \in 1..1 :
             /\ ReviewInputs[i] \in Files
             /\ Rank(ReviewInputs[i]) \in Nat /\ Rank(ReviewInputs[i]) < 37
    BY DerivedFiles DEF ReviewInputs, Files, Raw, Rank, Ranks
  <2>3. QED
    BY <1>11, <2>1, <2>2
<1>12. CASE f = "baseline"
  <2>1. Inputs["baseline"] = BaselineInputs /\ Rank("baseline") = 41
    BY DEF Inputs, Rank, Ranks
  <2>2. /\ DOMAIN BaselineInputs = 1..13
        /\ \A i \in 1..13 :
             /\ BaselineInputs[i] \in Files
             /\ Rank(BaselineInputs[i]) \in Nat /\ Rank(BaselineInputs[i]) < 41
    BY DerivedFiles DEF BaselineInputs, Files, Raw, Rank, Ranks
  <2>3. QED
    BY <1>12, <2>1, <2>2
<1>13. CASE f = "views"
  <2>1. Inputs["views"] = ViewsInputs /\ Rank("views") = 42
    BY DEF Inputs, Rank, Ranks
  <2>2. /\ DOMAIN ViewsInputs = 1..1
        /\ \A i \in 1..1 :
             /\ ViewsInputs[i] \in Files
             /\ Rank(ViewsInputs[i]) \in Nat /\ Rank(ViewsInputs[i]) < 42
    BY DerivedFiles DEF ViewsInputs, Files, Raw, Rank, Ranks
  <2>3. QED
    BY <1>13, <2>1, <2>2
<1>14. CASE f = "decision"
  <2>1. Inputs["decision"] = DecisionInputs /\ Rank("decision") = 45
    BY DEF Inputs, Rank, Ranks
  <2>2. /\ DOMAIN DecisionInputs = 1..3
        /\ \A i \in 1..3 :
             /\ DecisionInputs[i] \in Files
             /\ Rank(DecisionInputs[i]) \in Nat /\ Rank(DecisionInputs[i]) < 45
    BY DerivedFiles DEF DecisionInputs, Files, Raw, Rank, Ranks
  <2>3. QED
    BY <1>14, <2>1, <2>2
<1>15. CASE f = "entry"
  <2>1. Inputs["entry"] = EntryInputs /\ Rank("entry") = 46
    BY DEF Inputs, Rank, Ranks
  <2>2. /\ DOMAIN EntryInputs = 1..2
        /\ \A i \in 1..2 :
             /\ EntryInputs[i] \in Files
             /\ Rank(EntryInputs[i]) \in Nat /\ Rank(EntryInputs[i]) < 46
    BY DerivedFiles DEF EntryInputs, Files, Raw, Rank, Ranks
  <2>3. QED
    BY <1>15, <2>1, <2>2
<1>16. CASE f = "pages"
  <2>1. Inputs["pages"] = PagesInputs /\ Rank("pages") = 47
    BY DEF Inputs, Rank, Ranks
  <2>2. /\ DOMAIN PagesInputs = 1..2
        /\ \A i \in 1..2 :
             /\ PagesInputs[i] \in Files
             /\ Rank(PagesInputs[i]) \in Nat /\ Rank(PagesInputs[i]) < 47
    BY DerivedFiles DEF PagesInputs, Files, Raw, Rank, Ranks
  <2>3. QED
    BY <1>16, <2>1, <2>2
<1>17. CASE f = "completion"
  <2>1. Inputs["completion"] = CompletionInputs /\ Rank("completion") = 49
    BY DEF Inputs, Rank, Ranks
  <2>2. /\ DOMAIN CompletionInputs = 1..8
        /\ \A i \in 1..8 :
             /\ CompletionInputs[i] \in Files
             /\ Rank(CompletionInputs[i]) \in Nat /\ Rank(CompletionInputs[i]) < 49
    BY DerivedFiles DEF CompletionInputs, Files, Raw, Rank, Ranks
  <2>3. QED
    BY <1>17, <2>1, <2>2
<1>18. QED
  BY <1>1, <1>2, <1>3, <1>4, <1>5, <1>6, <1>7, <1>8, <1>9, <1>10, <1>11, <1>12, <1>13, <1>14,
     <1>15, <1>16, <1>17, DerivedFiles

\* The programs write in this order.
LEMMA OutputsInOrder ==
    ASSUME NEW p \in 1..12
    PROVE  /\ Outputs[p] \in Seq(Derived)
           /\ Len(Outputs[p]) \in 1..3
           /\ \A i \in 1..Len(Outputs[p]) :
                Outputs[p][i] \in Derived /\ Rank(Outputs[p][i]) = 4 * p + i
<1>1. CASE p = 1
  <2>1. Outputs[1] = <<"summary">>
    BY DEF Outputs
  <2>2. <<"summary">> \in Seq(Derived)
    BY DerivedFiles
  <2>3. Rank("summary") = 5
    BY DEF Rank, Ranks
  <2>4. QED
    BY <1>1, <2>1, <2>2, <2>3, DerivedFiles
<1>2. CASE p = 2
  <2>1. Outputs[2] = <<"economics", "mitigations">>
    BY DEF Outputs
  <2>2. <<"economics", "mitigations">> \in Seq(Derived)
    BY DerivedFiles
  <2>3. Rank("economics") = 9 /\ Rank("mitigations") = 10
    BY DEF Rank, Ranks
  <2>4. QED
    BY <1>2, <2>1, <2>2, <2>3, DerivedFiles
<1>3. CASE p = 3
  <2>1. Outputs[3] = <<"budgets", "stop">>
    BY DEF Outputs
  <2>2. <<"budgets", "stop">> \in Seq(Derived)
    BY DerivedFiles
  <2>3. Rank("budgets") = 13 /\ Rank("stop") = 14
    BY DEF Rank, Ranks
  <2>4. QED
    BY <1>3, <2>1, <2>2, <2>3, DerivedFiles
<1>4. CASE p = 4
  <2>1. Outputs[4] = <<"rerun">>
    BY DEF Outputs
  <2>2. <<"rerun">> \in Seq(Derived)
    BY DerivedFiles
  <2>3. Rank("rerun") = 17
    BY DEF Rank, Ranks
  <2>4. QED
    BY <1>4, <2>1, <2>2, <2>3, DerivedFiles
<1>5. CASE p = 5
  <2>1. Outputs[5] = <<"cleanA">>
    BY DEF Outputs
  <2>2. <<"cleanA">> \in Seq(Derived)
    BY DerivedFiles
  <2>3. Rank("cleanA") = 21
    BY DEF Rank, Ranks
  <2>4. QED
    BY <1>5, <2>1, <2>2, <2>3, DerivedFiles
<1>6. CASE p = 6
  <2>1. Outputs[6] = <<"cleanB">>
    BY DEF Outputs
  <2>2. <<"cleanB">> \in Seq(Derived)
    BY DerivedFiles
  <2>3. Rank("cleanB") = 25
    BY DEF Rank, Ranks
  <2>4. QED
    BY <1>6, <2>1, <2>2, <2>3, DerivedFiles
<1>7. CASE p = 7
  <2>1. Outputs[7] = <<"comparison">>
    BY DEF Outputs
  <2>2. <<"comparison">> \in Seq(Derived)
    BY DerivedFiles
  <2>3. Rank("comparison") = 29
    BY DEF Rank, Ranks
  <2>4. QED
    BY <1>7, <2>1, <2>2, <2>3, DerivedFiles
<1>8. CASE p = 8
  <2>1. Outputs[8] = <<"closure">>
    BY DEF Outputs
  <2>2. <<"closure">> \in Seq(Derived)
    BY DerivedFiles
  <2>3. Rank("closure") = 33
    BY DEF Rank, Ranks
  <2>4. QED
    BY <1>8, <2>1, <2>2, <2>3, DerivedFiles
<1>9. CASE p = 9
  <2>1. Outputs[9] = <<"review">>
    BY DEF Outputs
  <2>2. <<"review">> \in Seq(Derived)
    BY DerivedFiles
  <2>3. Rank("review") = 37
    BY DEF Rank, Ranks
  <2>4. QED
    BY <1>9, <2>1, <2>2, <2>3, DerivedFiles
<1>10. CASE p = 10
  <2>1. Outputs[10] = <<"baseline", "views">>
    BY DEF Outputs
  <2>2. <<"baseline", "views">> \in Seq(Derived)
    BY DerivedFiles
  <2>3. Rank("baseline") = 41 /\ Rank("views") = 42
    BY DEF Rank, Ranks
  <2>4. QED
    BY <1>10, <2>1, <2>2, <2>3, DerivedFiles
<1>11. CASE p = 11
  <2>1. Outputs[11] = <<"decision", "entry", "pages">>
    BY DEF Outputs
  <2>2. <<"decision", "entry", "pages">> \in Seq(Derived)
    BY DerivedFiles
  <2>3. Rank("decision") = 45 /\ Rank("entry") = 46 /\ Rank("pages") = 47
    BY DEF Rank, Ranks
  <2>4. QED
    BY <1>11, <2>1, <2>2, <2>3, DerivedFiles
<1>12. CASE p = 12
  <2>1. Outputs[12] = <<"completion">>
    BY DEF Outputs
  <2>2. <<"completion">> \in Seq(Derived)
    BY DerivedFiles
  <2>3. Rank("completion") = 49
    BY DEF Rank, Ranks
  <2>4. QED
    BY <1>12, <2>1, <2>2, <2>3, DerivedFiles
<1>13. QED
  BY <1>1, <1>2, <1>3, <1>4, <1>5, <1>6, <1>7, <1>8, <1>9, <1>10, <1>11, <1>12

LEMMA ProgramsAre == DOMAIN Outputs = 1..12 /\ Programs = 1..12
BY DEF Outputs, Programs

\* Each derived file has its program.
LEMMA DerivedAreWritten ==
    ASSUME NEW f \in Derived
    PROVE  \E p \in 1..12 : f \in Written(p)
<1>1. "summary" \in Written(1)
  <2>1. Outputs[1] = <<"summary">>
    BY DEF Outputs
  <2>2. QED
    BY <2>1 DEF Written
<1>2. "economics" \in Written(2) /\ "mitigations" \in Written(2)
  <2>1. Outputs[2] = <<"economics", "mitigations">>
    BY DEF Outputs
  <2>2. QED
    BY <2>1 DEF Written
<1>3. "budgets" \in Written(3) /\ "stop" \in Written(3)
  <2>1. Outputs[3] = <<"budgets", "stop">>
    BY DEF Outputs
  <2>2. QED
    BY <2>1 DEF Written
<1>4. "rerun" \in Written(4)
  <2>1. Outputs[4] = <<"rerun">>
    BY DEF Outputs
  <2>2. QED
    BY <2>1 DEF Written
<1>5. "cleanA" \in Written(5)
  <2>1. Outputs[5] = <<"cleanA">>
    BY DEF Outputs
  <2>2. QED
    BY <2>1 DEF Written
<1>6. "cleanB" \in Written(6)
  <2>1. Outputs[6] = <<"cleanB">>
    BY DEF Outputs
  <2>2. QED
    BY <2>1 DEF Written
<1>7. "comparison" \in Written(7)
  <2>1. Outputs[7] = <<"comparison">>
    BY DEF Outputs
  <2>2. QED
    BY <2>1 DEF Written
<1>8. "closure" \in Written(8)
  <2>1. Outputs[8] = <<"closure">>
    BY DEF Outputs
  <2>2. QED
    BY <2>1 DEF Written
<1>9. "review" \in Written(9)
  <2>1. Outputs[9] = <<"review">>
    BY DEF Outputs
  <2>2. QED
    BY <2>1 DEF Written
<1>10. "baseline" \in Written(10) /\ "views" \in Written(10)
  <2>1. Outputs[10] = <<"baseline", "views">>
    BY DEF Outputs
  <2>2. QED
    BY <2>1 DEF Written
<1>11. "decision" \in Written(11) /\ "entry" \in Written(11) /\ "pages" \in Written(11)
  <2>1. Outputs[11] = <<"decision", "entry", "pages">>
    BY DEF Outputs
  <2>2. QED
    BY <2>1 DEF Written
<1>12. "completion" \in Written(12)
  <2>1. Outputs[12] = <<"completion">>
    BY DEF Outputs
  <2>2. QED
    BY <2>1 DEF Written
<1>13. QED
  BY <1>1, <1>2, <1>3, <1>4, <1>5, <1>6, <1>7, <1>8, <1>9, <1>10, <1>11, <1>12, DerivedFiles

-----------------------------------------------------------------------------
(* Building over a tree of files.                                          *)
\* The files d with one of them built.
Rebuilt(d, f) == [d EXCEPT ![f] = Built(f, d)]

LEMMA SameBuilt ==
    ASSUME NEW f, NEW d, NEW e, \A i \in DOMAIN Inputs[f] : d[Inputs[f][i]] = e[Inputs[f][i]]
    PROVE  Built(f, d) = Built(f, e)
BY DEF Built

LEMMA BuiltOver ==
    ASSUME NEW d, NEW e, \A x \in Files : e[x] = d[x], NEW f \in Derived
    PROVE  Built(f, e) = Built(f, d)
<1>1. \A i \in DOMAIN Inputs[f] : e[Inputs[f][i]] = d[Inputs[f][i]]
  BY InputsAreBefore
<1>2. QED
  BY <1>1, SameBuilt

\* What a file depends on does not change when one of no lower rank does.
LEMMA BuiltAlone ==
    ASSUME NEW d, NEW e, NEW g \in Derived, \A x \in Files \ {g} : e[x] = d[x],
           NEW f \in Derived, Rank(f) <= Rank(g)
    PROVE  Built(f, e) = Built(f, d)
<1>1. Rank(f) \in Nat /\ Rank(g) \in Nat
  BY InputsAreBefore
<1>2. \A i \in DOMAIN Inputs[f] : Inputs[f][i] \in Files \ {g}
  BY <1>1, InputsAreBefore
<1>3. \A i \in DOMAIN Inputs[f] : e[Inputs[f][i]] = d[Inputs[f][i]]
  BY <1>2
<1>4. QED
  BY <1>3, SameBuilt

LEMMA OneBuilt ==
    ASSUME NEW d, DOMAIN d = Files, NEW g \in Derived, NEW e, e = Rebuilt(d, g)
    PROVE  /\ DOMAIN e = Files
           /\ e[g] = Built(g, d)
           /\ \A x \in Files \ {g} : e[x] = d[x]
           /\ \A f \in Derived : Rank(f) <= Rank(g) => Built(f, e) = Built(f, d)
           /\ d[g] = Built(g, d) => \A x \in Files : e[x] = d[x]
<1>1. g \in Files
  BY DEF Files
<1>2. DOMAIN e = Files /\ e[g] = Built(g, d) /\ \A x \in Files \ {g} : e[x] = d[x]
  BY <1>1 DEF Rebuilt
<1>3. \A f \in Derived : Rank(f) <= Rank(g) => Built(f, e) = Built(f, d)
  BY <1>2, BuiltAlone
<1>4. QED
  BY <1>2, <1>3

\* A program builds its files one over the other.
LEMMA TurnIs ==
    ASSUME NEW fs, Len(fs) \in 1..5, NEW d,
           NEW d1, d1 = Rebuilt(d, fs[1]), NEW d2, d2 = Rebuilt(d1, fs[2]),
           NEW d3, d3 = Rebuilt(d2, fs[3]), NEW d4, d4 = Rebuilt(d3, fs[4]),
           NEW d5, d5 = Rebuilt(d4, fs[5])
    PROVE  /\ Len(fs) = 1 => BuiltInTurn(fs, d) = d1
           /\ Len(fs) = 2 => BuiltInTurn(fs, d) = d2
           /\ Len(fs) = 3 => BuiltInTurn(fs, d) = d3
           /\ Len(fs) = 5 => BuiltInTurn(fs, d) = d5
<1> DEFINE n == Len(fs)
           IsTurn(s) == s = [k \in 0..n |-> IF k = 0 THEN d ELSE Rebuilt(s[k - 1], fs[k])]
           over[k \in 0..n] == IF k = 0 THEN d ELSE Rebuilt(over[k - 1], fs[k])
           w == [k \in 0..n |-> IF k = 0 THEN d ELSE IF k = 1 THEN d1 ELSE IF k = 2 THEN d2
                                 ELSE IF k = 3 THEN d3 ELSE IF k = 4 THEN d4 ELSE d5]
<1>1. BuiltInTurn(fs, d) = over[n] /\ n \in 1..5
  BY DEF BuiltInTurn, Rebuilt
<1>2. over = CHOOSE s : IsTurn(s)
  OBVIOUS
<1> HIDE DEF n
<1>3. IsTurn(w)
  <2>1. \A k \in 0..n : w[k] = IF k = 0 THEN d ELSE Rebuilt(w[k - 1], fs[k])
    <3> SUFFICES ASSUME NEW k \in 0..n
                 PROVE  w[k] = IF k = 0 THEN d ELSE Rebuilt(w[k - 1], fs[k])
      OBVIOUS
    <3>1. k \in {0, 1, 2, 3, 4, 5}
      BY <1>1
    <3>2. k # 0 => k - 1 \in 0..n
      BY <1>1
    <3>3. QED
      BY <3>1, <3>2
  <2>2. w = [k \in 0..n |-> w[k]]
    OBVIOUS
  <2> HIDE DEF w
  <2>3. QED
    BY <2>1, <2>2
<1> HIDE DEF over, w
<1>4. IsTurn(over)
  BY <1>2, <1>3
<1>5. /\ over[0] = d
      /\ \A k \in 1..n : over[k] = Rebuilt(over[k - 1], fs[k])
  BY <1>1, <1>4
<1>6. /\ over[1] = d1
      /\ n >= 2 => over[2] = d2
      /\ n >= 3 => over[3] = d3
      /\ n >= 4 => over[4] = d4
      /\ n >= 5 => over[5] = d5
  BY <1>1, <1>5
<1> HIDE DEF IsTurn
<1>7. /\ n = 1 => over[n] = d1
      /\ n = 2 => over[n] = d2
      /\ n = 3 => over[n] = d3
      /\ n = 5 => over[n] = d5
  BY <1>6
<1>8. n = Len(fs)
  BY DEF n
<1>9. QED
  BY <1>1, <1>7, <1>8

\* A program whose files follow from one another in order brings them up to date and leaves the
\* others as they are; where they were up to date it changes nothing.
LEMMA TurnRepairs ==
    ASSUME NEW p \in 1..12, NEW d, DOMAIN d = Files,
           NEW whole, whole = BuiltInTurn(Outputs[p], d)
    PROVE  /\ DOMAIN whole = Files
           /\ \A x \in Files \ Written(p) : whole[x] = d[x]
           /\ \A f \in Written(p) : whole[f] = Built(f, whole)
           /\ (\A f \in Written(p) : d[f] = Built(f, d)) => \A x \in Files : whole[x] = d[x]
<1> DEFINE fs == Outputs[p]
           d1 == Rebuilt(d, fs[1])
           d2 == Rebuilt(d1, fs[2])
           d3 == Rebuilt(d2, fs[3])
           d4 == Rebuilt(d3, fs[4])
           d5 == Rebuilt(d4, fs[5])
<1>1. /\ Len(fs) \in 1..3 /\ DOMAIN fs = 1..Len(fs)
      /\ \A i \in 1..Len(fs) : fs[i] \in Derived /\ Rank(fs[i]) = 4 * p + i
  <2>1. /\ fs \in Seq(Derived) /\ Len(fs) \in 1..3
        /\ \A i \in 1..Len(fs) : fs[i] \in Derived /\ Rank(fs[i]) = 4 * p + i
    BY OutputsInOrder
  <2> HIDE DEF fs
  <2>2. QED
    BY <2>1
<1>2. /\ Len(fs) = 1 => whole = d1
      /\ Len(fs) = 2 => whole = d2
      /\ Len(fs) = 3 => whole = d3
  <2>1. Len(fs) \in 1..5
    BY <1>1
  <2> HIDE DEF fs
  <2>2. /\ Len(fs) = 1 => BuiltInTurn(fs, d) = d1
        /\ Len(fs) = 2 => BuiltInTurn(fs, d) = d2
        /\ Len(fs) = 3 => BuiltInTurn(fs, d) = d3
    BY <2>1, TurnIs
  <2>3. QED
    BY <2>2 DEF fs
<1>3. Written(p) = {fs[i] : i \in 1..Len(fs)}
  BY <1>1 DEF Written
<1> HIDE DEF fs
<1>4. /\ DOMAIN d1 = Files /\ d1[fs[1]] = Built(fs[1], d)
      /\ \A x \in Files \ {fs[1]} : d1[x] = d[x]
      /\ \A f \in Derived : Rank(f) <= Rank(fs[1]) => Built(f, d1) = Built(f, d)
      /\ d[fs[1]] = Built(fs[1], d) => \A x \in Files : d1[x] = d[x]
  <2>1. fs[1] \in Derived
    BY <1>1
  <2>2. QED
    BY <2>1, OneBuilt
<1>5. CASE Len(fs) = 1
  <2>1. Written(p) = {fs[1]} /\ whole = d1
    BY <1>2, <1>3, <1>5
  <2>2. d1[fs[1]] = Built(fs[1], d1)
    BY <1>1, <1>4
  <2> HIDE DEF d1
  <2>3. QED
    BY <1>4, <2>1, <2>2
<1>6. CASE Len(fs) > 1
  <2>1. /\ fs[1] \in Derived /\ fs[2] \in Derived
        /\ Rank(fs[1]) = 4 * p + 1 /\ Rank(fs[2]) = 4 * p + 2
    BY <1>1, <1>6
  <2>2. /\ DOMAIN d2 = Files /\ d2[fs[2]] = Built(fs[2], d1)
        /\ \A x \in Files \ {fs[2]} : d2[x] = d1[x]
        /\ \A f \in Derived : Rank(f) <= Rank(fs[2]) => Built(f, d2) = Built(f, d1)
        /\ d1[fs[2]] = Built(fs[2], d1) => \A x \in Files : d2[x] = d1[x]
    <3> HIDE DEF d1
    <3>1. QED
      BY <1>4, <2>1, OneBuilt
  <2> HIDE DEF d1, d2
  <2>3. d2[fs[1]] = Built(fs[1], d2) /\ d2[fs[2]] = Built(fs[2], d2)
    <3>1. fs[1] # fs[2] /\ fs[1] \in Files
      BY <2>1 DEF Files
    <3>2. QED
      BY <1>4, <2>1, <2>2, <3>1
  <2>4. ASSUME d[fs[1]] = Built(fs[1], d), d[fs[2]] = Built(fs[2], d)
        PROVE  \A x \in Files : d2[x] = d[x]
    <3>1. \A x \in Files : d1[x] = d[x]
      BY <1>4, <2>4
    <3>2. Built(fs[2], d1) = Built(fs[2], d)
      BY <2>1, <3>1, BuiltOver
    <3>3. d1[fs[2]] = Built(fs[2], d1)
      BY <2>1, <2>4, <3>1, <3>2 DEF Files
    <3>4. QED
      BY <2>2, <3>1, <3>3
  <2>5. CASE Len(fs) = 2
    <3>1. Written(p) = {fs[1], fs[2]} /\ whole = d2
      BY <1>2, <1>3, <2>5
    <3>2. QED
      BY <1>4, <2>2, <2>3, <2>4, <3>1
  <2>6. CASE Len(fs) = 3
    <3>1. Written(p) = {fs[1], fs[2], fs[3]} /\ whole = d3
      BY <1>2, <1>3, <2>6
    <3>2. fs[3] \in Derived /\ Rank(fs[3]) = 4 * p + 3
      BY <1>1, <2>6
    <3>3. /\ DOMAIN d3 = Files /\ d3[fs[3]] = Built(fs[3], d2)
          /\ \A x \in Files \ {fs[3]} : d3[x] = d2[x]
          /\ \A f \in Derived : Rank(f) <= Rank(fs[3]) => Built(f, d3) = Built(f, d2)
          /\ d2[fs[3]] = Built(fs[3], d2) => \A x \in Files : d3[x] = d2[x]
      BY <2>2, <3>2, OneBuilt
    <3> HIDE DEF d3
    <3>4. fs[1] # fs[3] /\ fs[2] # fs[3] /\ fs[1] \in Files /\ fs[2] \in Files
      BY <2>1, <3>2 DEF Files
    <3>5. /\ d3[fs[1]] = Built(fs[1], d3) /\ d3[fs[2]] = Built(fs[2], d3)
          /\ d3[fs[3]] = Built(fs[3], d3)
      BY <2>1, <2>3, <3>2, <3>3, <3>4
    <3>6. ASSUME d[fs[1]] = Built(fs[1], d), d[fs[2]] = Built(fs[2], d),
                 d[fs[3]] = Built(fs[3], d)
          PROVE  \A x \in Files : d3[x] = d[x]
      <4>1. \A x \in Files : d2[x] = d[x]
        BY <2>4, <3>6
      <4>2. Built(fs[3], d2) = Built(fs[3], d)
        BY <3>2, <4>1, BuiltOver
      <4>3. d2[fs[3]] = Built(fs[3], d2)
        BY <3>2, <3>6, <4>1, <4>2 DEF Files
      <4>4. QED
        BY <3>3, <4>1, <4>3
    <3>7. QED
      BY <1>4, <2>2, <3>1, <3>3, <3>5, <3>6
  <2>7. QED
    BY <1>1, <1>6, <2>5, <2>6
<1>7. QED
  BY <1>1, <1>5, <1>6

-----------------------------------------------------------------------------
(* The invariant.                                                          *)
\* The programs up to q have nothing to repair in the files d.
FreshTo(q, d) == \A p \in 1..q : \A f \in Written(p) : d[f] = Built(f, d)

Count(p) == Len(Outputs[p])
Todo(j) == Len(j.left)

\* A program at work still has to write the last of its files.
JobFits(j) ==
  /\ j = [program |-> j.program, image |-> j.image, left |-> j.left, quiet |-> j.quiet,
          valid |-> j.valid]
  /\ j.program \in 1..12 /\ j.quiet \in BOOLEAN
  /\ j.left \in Seq(Derived) /\ Todo(j) \in 1..Count(j.program)
  /\ \A i \in 1..Todo(j) :
       /\ j.left[i] \in Written(j.program)
       /\ Rank(j.left[i]) = 4 * j.program + Count(j.program) - Todo(j) + i

IsLeft(j, f) == f \in Written(j.program) /\ Rank(Head(j.left)) <= Rank(f)

\* The files as they are when the program has written all, if nobody else changes any.
Target(j, d) == [f \in Files |-> IF IsLeft(j, f) THEN j.image[f] ELSE d[f]]

\* The program leaves its files up to date.
Repairs(j, d) ==
  \A f \in Written(j.program) : Target(j, d)[f] = Built(f, Target(j, d))

\* It only writes what is there.
Repeats(j, d) ==
  \A f \in Written(j.program) : IsLeft(j, f) => j.image[f] = d[f]

ChainInv ==
  /\ DOMAIN disk = Files
  /\ passed \subseteq Gates /\ \A name \in passed : Passes(name)
  /\ sweep \in 0..12 /\ FreshTo(sweep, disk)
  /\ job = None \/ JobFits(job)
  /\ job # None /\ ~ job.quiet => sweep = 0
  /\ job # None /\ job.quiet =>
       Repairs(job, disk) /\ (job.program <= sweep => Repeats(job, disk))

LEMMA JobIsSome ==
    ASSUME NEW j, JobFits(j)
    PROVE  j # None
BY DEF JobFits, None

\* Files of a program, by their rank.
LEMMA WrittenRanks ==
    ASSUME NEW p \in 1..12, NEW f \in Written(p)
    PROVE  /\ f \in Derived /\ f \in Files
           /\ Rank(f) \in Nat /\ 4 * p + 1 <= Rank(f) /\ Rank(f) <= 4 * p + Count(p)
           /\ Count(p) \in Nat /\ 1 <= Count(p) /\ Count(p) <= 3
           /\ \A g \in Written(p) : Rank(g) = Rank(f) => g = f
<1>1. /\ Outputs[p] \in Seq(Derived) /\ Count(p) \in 1..3
      /\ \A i \in 1..Count(p) : Outputs[p][i] \in Derived /\ Rank(Outputs[p][i]) = 4 * p + i
  BY OutputsInOrder DEF Count
<1>2. DOMAIN Outputs[p] = 1..Count(p)
  BY <1>1 DEF Count
<1>3. \A g \in Written(p) : \E i \in 1..Count(p) : g = Outputs[p][i]
  BY <1>2 DEF Written
<1>4. PICK i \in 1..Count(p) : f = Outputs[p][i]
  BY <1>3
<1>5. f \in Derived /\ Rank(f) = 4 * p + i
  BY <1>1, <1>4
<1>6. Rank(f) \in Nat /\ 4 * p + 1 <= Rank(f) /\ Rank(f) <= 4 * p + Count(p)
  BY <1>1, <1>5
<1>7. ASSUME NEW g \in Written(p), Rank(g) = Rank(f)
      PROVE  g = f
  <2>1. PICK k \in 1..Count(p) : g = Outputs[p][k]
    BY <1>3
  <2>2. Rank(g) = 4 * p + k
    BY <1>1, <2>1
  <2>3. k = i
    BY <1>1, <1>5, <1>7, <2>2
  <2>4. QED
    BY <1>4, <2>1, <2>3
<1>8. QED
  BY <1>1, <1>5, <1>6, <1>7 DEF Files

\* The earlier of two programs has files of lower ranks.
LEMMA WrittenBefore ==
    ASSUME NEW p \in 1..12, NEW r \in 1..12, r < p, NEW f \in Written(r), NEW g \in Written(p)
    PROVE  Rank(f) \in Nat /\ Rank(g) \in Nat /\ Rank(f) < Rank(g)
<1>1. Rank(f) \in Nat /\ Rank(f) <= 4 * r + 3
  <2>1. Rank(f) \in Nat /\ Rank(f) <= 4 * r + Count(r) /\ Count(r) <= 3
        /\ Count(r) \in Nat
    BY WrittenRanks
  <2>2. QED
    BY <2>1
<1>2. Rank(g) \in Nat /\ 4 * p + 1 <= Rank(g)
  BY WrittenRanks
<1>3. 4 * r + 3 < 4 * p + 1
  OBVIOUS
<1>4. QED
  BY <1>1, <1>2, <1>3

\* What earlier programs wrote stays up to date when a later one writes.
LEMMA FreshStays ==
    ASSUME NEW q \in 0..12, NEW p \in 1..12, q < p, NEW g \in Written(p), NEW d, NEW e,
           \A x \in Files \ {g} : e[x] = d[x], FreshTo(q, d)
    PROVE  FreshTo(q, e)
<1> SUFFICES ASSUME NEW r \in 1..q, NEW f \in Written(r)
             PROVE  e[f] = Built(f, e)
  BY DEF FreshTo
<1>1. r \in 1..12 /\ r < p
  OBVIOUS
<1>2. f \in Derived /\ f \in Files
  BY <1>1, WrittenRanks
<1>3. g \in Derived
  BY WrittenRanks
<1>4. Rank(f) \in Nat /\ Rank(g) \in Nat /\ Rank(f) < Rank(g)
  BY <1>1, WrittenBefore
<1>5. Built(f, e) = Built(f, d)
  BY <1>2, <1>3, <1>4, BuiltAlone
<1>6. d[f] = Built(f, d) /\ e[f] = d[f]
  BY <1>2, <1>4 DEF FreshTo
<1>7. QED
  BY <1>5, <1>6

LEMMA FreshOver ==
    ASSUME NEW q \in 0..12, NEW d, NEW e, \A x \in Files : e[x] = d[x], FreshTo(q, d)
    PROVE  FreshTo(q, e)
<1> SUFFICES ASSUME NEW r \in 1..q, NEW f \in Written(r)
             PROVE  e[f] = Built(f, e)
  BY DEF FreshTo
<1>1. r \in 1..12
  OBVIOUS
<1>2. f \in Derived /\ f \in Files
  BY <1>1, WrittenRanks
<1>3. Built(f, e) = Built(f, d) /\ d[f] = Built(f, d) /\ e[f] = d[f]
  BY <1>2, BuiltOver DEF FreshTo
<1>4. QED
  BY <1>3

-----------------------------------------------------------------------------
(* The steps.                                                              *)
\* A program that has just loaded its inputs.
LEMMA LoadKeeps == \A p \in Programs : ChainInv /\ Load(p) => ChainInv'
<1> SUFFICES ASSUME ChainInv, NEW p \in Programs, Load(p)
             PROVE  ChainInv'
  OBVIOUS
<1> DEFINE whole == BuiltInTurn(Outputs[p], disk)
<1>1. /\ p \in 1..12 /\ UNCHANGED <<disk, passed, sweep>>
      /\ job' = [program |-> p, image |-> [f \in Written(p) |-> whole[f]],
                 left |-> Outputs[p], quiet |-> TRUE,
                 valid |-> Outputs[p][1] \notin DOMAIN Binds]
      /\ DOMAIN disk = Files
  BY ProgramsAre DEF ChainInv, Load, Image
<1>2. /\ DOMAIN whole = Files
      /\ \A x \in Files \ Written(p) : whole[x] = disk[x]
      /\ \A f \in Written(p) : whole[f] = Built(f, whole)
      /\ (\A f \in Written(p) : disk[f] = Built(f, disk)) => \A x \in Files : whole[x] = disk[x]
  <2>1. whole = BuiltInTurn(Outputs[p], disk)
    OBVIOUS
  <2> HIDE DEF whole
  <2>2. QED
    BY <1>1, <2>1, TurnRepairs
<1> HIDE DEF whole
<1>3. /\ job'.program = p /\ job'.left = Outputs[p] /\ job'.quiet = TRUE
      /\ \A f \in Written(p) : job'.image[f] = whole[f]
  BY <1>1
<1>4. /\ Outputs[p] \in Seq(Derived) /\ Count(p) \in 1..3
      /\ \A i \in 1..Count(p) : Outputs[p][i] \in Written(p) /\ Rank(Outputs[p][i]) = 4 * p + i
  <2>1. Outputs[p] \in Seq(Derived) /\ Count(p) \in 1..3
    BY <1>1, OutputsInOrder DEF Count
  <2>2. DOMAIN Outputs[p] = 1..Count(p)
    BY <2>1 DEF Count
  <2>3. QED
    BY <1>1, <2>1, <2>2, OutputsInOrder DEF Written, Count
<1>5. JobFits(job')
  <2>1. job' = [program |-> job'.program, image |-> job'.image, left |-> job'.left,
                quiet |-> job'.quiet, valid |-> job'.valid]
    BY <1>1
  <2>2. QED
    BY <1>1, <1>3, <1>4, <2>1 DEF JobFits, Count, Todo
<1>6. \A f \in Written(p) : IsLeft(job', f)
  <2>1. Rank(Head(job'.left)) = 4 * p + 1
    BY <1>1, <1>3, <1>4
  <2>2. \A f \in Written(p) : Rank(f) \in Nat /\ 4 * p + 1 <= Rank(f)
    BY <1>1, WrittenRanks
  <2>3. QED
    BY <1>3, <2>1, <2>2 DEF IsLeft
<1>7. \A x \in Files : Target(job', disk)[x] = whole[x]
  BY <1>2, <1>3, <1>6 DEF Target, IsLeft
<1>8. Repairs(job', disk)
  <2>1. \A f \in Written(p) : f \in Files /\ f \in Derived
    BY <1>1, WrittenRanks
  <2>2. \A f \in Written(p) : Built(f, Target(job', disk)) = Built(f, whole)
    BY <1>7, <2>1, BuiltOver
  <2>3. QED
    BY <1>2, <1>3, <1>7, <2>1, <2>2 DEF Repairs
<1>9. p <= sweep => Repeats(job', disk)
  <2>1. p <= sweep => \A f \in Written(p) : disk[f] = Built(f, disk)
    BY <1>1 DEF ChainInv, FreshTo
  <2>2. \A f \in Written(p) : f \in Files
    BY <1>1, WrittenRanks
  <2>3. QED
    BY <1>2, <1>3, <2>1, <2>2 DEF Repeats
<1>10. \A name \in passed' : Passes(name)'
  BY <1>1 DEF ChainInv, Passes, Expected, AgreeIn
<1>11. QED
  BY <1>1, <1>3, <1>5, <1>8, <1>9, <1>10 DEF ChainInv

\* The content that is written: what the program has in memory, though it reads some of the
\* inputs once more.
LEMMA WritesImage ==
    ASSUME ChainInv, job # None, job.quiet
    PROVE  ContentOf(Head(job.left)) = job.image[Head(job.left)]
<1> DEFINE g == Head(job.left)
           T == Target(job, disk)
<1>1. JobFits(job) /\ Repairs(job, disk)
  BY DEF ChainInv
<1>2. job.program \in 1..12 /\ g \in Written(job.program)
  BY <1>1 DEF JobFits
<1>3. g \in Derived /\ g \in Files /\ Rank(g) \in Nat
  BY <1>2, WrittenRanks
<1>4. job.image[g] = Built(g, T)
  BY <1>1, <1>2, <1>3 DEF Repairs, Target, IsLeft
<1>5. \A i \in DOMAIN Inputs[g] : T[Inputs[g][i]] = disk[Inputs[g][i]]
  <2>1. \A i \in DOMAIN Inputs[g] :
          Inputs[g][i] \in Files /\ ~ IsLeft(job, Inputs[g][i])
    BY <1>3, InputsAreBefore DEF IsLeft
  <2>2. QED
    BY <2>1 DEF Target
<1> HIDE DEF g, T
<1>6. job.image[g] = <<g, [i \in DOMAIN Inputs[g] |-> disk[Inputs[g][i]]]>>
  BY <1>4, <1>5 DEF Built
<1>7. \A i \in DOMAIN Inputs[g] : job.image[g][2][i] = disk[Inputs[g][i]]
  BY <1>6
<1>8. ContentOf(g) = job.image[g]
  BY <1>6, <1>7 DEF ContentOf
<1>9. QED
  BY <1>8 DEF g

\* The file that is next.
LEMMA NextLeft ==
    ASSUME NEW j, JobFits(j), NEW p, p = j.program, NEW g, g = Head(j.left)
    PROVE  /\ p \in 1..12 /\ g \in Written(p) /\ g \in Derived /\ g \in Files
           /\ IsLeft(j, g)
           /\ Todo(j) \in Nat /\ 1 <= Todo(j) /\ Todo(j) <= Count(p)
           /\ Rank(g) \in Nat /\ Rank(g) = 4 * p + Count(p) - Todo(j) + 1
           /\ Todo(j) = 1 => \A x : IsLeft(j, x) => x = g
<1>1. p \in 1..12 /\ Todo(j) \in 1..Count(p) /\ j.left \in Seq(Derived)
  BY DEF JobFits
<1>2. Count(p) \in 1..3
  BY <1>1, OutputsInOrder DEF Count
<1>3. Todo(j) \in Nat /\ 1 <= Todo(j) /\ Todo(j) <= Count(p)
  BY <1>1, <1>2
<1>4. g = j.left[1]
  BY <1>1, <1>3 DEF Todo
<1>5. g \in Written(p) /\ Rank(g) = 4 * p + Count(p) - Todo(j) + 1
  BY <1>1, <1>3, <1>4 DEF JobFits
<1>6. g \in Derived /\ g \in Files /\ Rank(g) \in Nat
  BY <1>1, <1>5, WrittenRanks
<1>7. IsLeft(j, g)
  <2>1. Rank(g) <= Rank(g)
    BY <1>6
  <2>2. QED
    BY <1>5, <2>1 DEF IsLeft
<1>8. ASSUME Todo(j) = 1, NEW x, IsLeft(j, x)
      PROVE  x = g
  <2>1. x \in Written(p) /\ Rank(g) <= Rank(x)
    BY <1>8 DEF IsLeft
  <2>2. Rank(x) \in Nat /\ Rank(x) <= 4 * p + Count(p)
    BY <1>1, <2>1, WrittenRanks
  <2>3. Rank(g) = 4 * p + Count(p)
    BY <1>1, <1>2, <1>5, <1>8
  <2>4. Rank(x) = Rank(g)
    BY <1>1, <1>2, <2>1, <2>2, <2>3
  <2>5. QED
    BY <1>1, <1>5, <2>1, <2>4, WrittenRanks
<1>9. QED
  BY <1>1, <1>3, <1>5, <1>6, <1>7, <1>8

\* A program that has written one of its last files.
LEMMA OneLess ==
    ASSUME NEW j, JobFits(j), Todo(j) # 1, NEW k, k = [j EXCEPT !.left = Tail(j.left)]
    PROVE  /\ JobFits(k)
           /\ k.program = j.program /\ k.image = j.image /\ k.quiet = j.quiet
           /\ \A x : IsLeft(k, x) <=> IsLeft(j, x) /\ x # Head(j.left)
<1> DEFINE p == j.program
           g == Head(j.left)
<1>1. /\ k.program = p /\ k.image = j.image /\ k.quiet = j.quiet
      /\ k.left = Tail(j.left)
      /\ k = [program |-> k.program, image |-> k.image, left |-> k.left, quiet |-> k.quiet,
              valid |-> k.valid]
  BY DEF JobFits
<1>2. /\ p \in 1..12 /\ Todo(j) \in Nat /\ 1 < Todo(j) /\ Todo(j) <= Count(p)
      /\ Rank(g) \in Nat /\ Rank(g) = 4 * p + Count(p) - Todo(j) + 1 /\ g \in Written(p)
  BY NextLeft
<1>3. j.left \in Seq(Derived) /\ j.left # <<>>
  BY <1>2 DEF JobFits, Todo
<1>4. /\ k.left \in Seq(Derived) /\ Todo(k) = Todo(j) - 1
      /\ \A i \in 1..Todo(k) : k.left[i] = j.left[i + 1]
  BY <1>1, <1>3, HeadTailProperties DEF Todo
<1> DEFINE m == Todo(j)
           c == Count(p)
<1>5. m \in Nat /\ 1 < m /\ m <= c /\ c \in Nat /\ p \in Nat /\ Todo(k) = m - 1
  <2>1. c \in 1..3
    BY <1>2, OutputsInOrder DEF Count
  <2>2. QED
    BY <1>2, <1>4, <2>1
<1> HIDE DEF m, c, p
<1>6. ASSUME NEW i \in 1..Todo(k)
      PROVE  k.left[i] \in Written(p) /\ Rank(k.left[i]) = 4 * p + Count(p) - Todo(k) + i
  <2>0. i \in Nat /\ i + 1 \in 1..m
    BY <1>5
  <2>1. i + 1 \in 1..Todo(j) /\ k.left[i] = j.left[i + 1]
    BY <1>4, <2>0 DEF m
  <2>2. j.left[i + 1] \in Written(p) /\ Rank(j.left[i + 1]) = 4 * p + Count(p) - Todo(j) + (i + 1)
    BY <2>1 DEF JobFits, p
  <2>3. 4 * p + c - m + (i + 1) = 4 * p + c - Todo(k) + i
    BY <1>5, <2>0
  <2>4. QED
    BY <2>1, <2>2, <2>3 DEF m, c
<1>7. Todo(k) \in 1..Count(p)
  <2>1. Todo(k) \in 1..c
    BY <1>5
  <2>2. QED
    BY <2>1 DEF c
<1>8. JobFits(k)
  BY <1>1, <1>2, <1>4, <1>6, <1>7 DEF JobFits, p
<1>9. Rank(Head(k.left)) = Rank(g) + 1
  <2>1. Rank(Head(k.left)) = 4 * k.program + Count(k.program) - Todo(k) + 1
    BY <1>8, NextLeft
  <2>2. Rank(g) = 4 * p + c - m + 1 /\ Rank(Head(k.left)) = 4 * p + c - Todo(k) + 1
    BY <1>1, <1>2, <2>1 DEF c, m
  <2>3. 4 * p + c - Todo(k) + 1 = (4 * p + c - m + 1) + 1
    BY <1>5
  <2>4. QED
    BY <2>2, <2>3
<1>10. ASSUME NEW x
       PROVE  IsLeft(k, x) <=> IsLeft(j, x) /\ x # g
  <2>1. CASE x \in Written(p)
    <3>1. Rank(x) \in Nat /\ (Rank(x) = Rank(g) => x = g)
      BY <1>2, <2>1, WrittenRanks
    <3> HIDE DEF g
    <3>2. (Rank(g) + 1 <= Rank(x)) <=> (Rank(g) <= Rank(x) /\ x # g)
      BY <1>2, <3>1
    <3>3. QED
      BY <1>1, <1>9, <2>1, <3>2 DEF IsLeft, g
  <2>2. CASE x \notin Written(p)
    BY <1>1, <2>2 DEF IsLeft
  <2>3. QED
    BY <2>1, <2>2
<1>11. QED
  BY <1>1, <1>8, <1>10 DEF p

\* After a write, the rest of the program has the same to do.
LEMMA WriteKeeps == ChainInv /\ Write => ChainInv'
<1> SUFFICES ASSUME ChainInv, Write
             PROVE  ChainInv'
  OBVIOUS
<1> DEFINE p == job.program
           g == Head(job.left)
<1>1. /\ job # None /\ JobFits(job) /\ DOMAIN disk = Files
      /\ passed' = {} /\ disk' = [disk EXCEPT ![g] = ContentOf(g)]
  BY DEF ChainInv, Write, Put
<1>2. sweep \in 0..12 /\ FreshTo(sweep, disk)
  BY DEF ChainInv
<1>3. /\ p \in 1..12 /\ g \in Written(p) /\ g \in Files /\ IsLeft(job, g)
      /\ Todo(job) = 1 => \A x : IsLeft(job, x) => x = g
  BY <1>1, NextLeft
<1>4. /\ DOMAIN disk' = Files /\ disk'[g] = ContentOf(g)
      /\ \A x \in Files \ {g} : disk'[x] = disk[x]
  BY <1>1, <1>3
<1>5. job.quiet \in BOOLEAN /\ (job.quiet => disk'[g] = job.image[g])
  BY <1>1, <1>4, WritesImage DEF JobFits
<1>6. ~ job.quiet => sweep = 0
  BY <1>1 DEF ChainInv
<1>7. job.quiet => Repairs(job, disk) /\ (p <= sweep => Repeats(job, disk))
  BY <1>1 DEF ChainInv
<1> HIDE DEF g
<1>8. ASSUME p <= sweep
      PROVE  job.quiet /\ \A x \in Files : disk'[x] = disk[x]
  <2>1. job.quiet
    BY <1>2, <1>3, <1>5, <1>6, <1>8
  <2>2. job.image[g] = disk[g]
    BY <1>3, <1>7, <1>8, <2>1 DEF Repeats
  <2>3. QED
    BY <1>4, <1>5, <2>1, <2>2
<1> DEFINE next == disk'
<1>9. FreshTo(sweep, next)
  <2>1. CASE p <= sweep
    <3>1. \A x \in Files : next[x] = disk[x]
      BY <1>8, <2>1
    <3> HIDE DEF next
    <3>2. QED
      BY <1>2, <3>1, FreshOver
  <2>2. CASE sweep < p
    <3>1. \A x \in Files \ {g} : next[x] = disk[x]
      BY <1>4
    <3> HIDE DEF next, p
    <3>2. QED
      BY <1>2, <1>3, <2>2, <3>1, FreshStays
  <2>3. QED
    BY <1>2, <1>3, <2>1, <2>2
<1>10. CASE Todo(job) = 1
  <2>1. job' = None /\ sweep' = Swept
    BY <1>10 DEF Write, Todo
  <2>2. sweep' \in 0..12 /\ FreshTo(sweep', disk')
    <3>1. CASE sweep' = 0
      <4>1. \A q \in 1..0 : FALSE
        OBVIOUS
      <4>2. QED
        BY <3>1, <4>1 DEF FreshTo
    <3>2. CASE job.quiet /\ p <= sweep /\ sweep' = 1
      <4>1. \A q \in 1..1 : q \in 1..sweep
        BY <1>2, <1>3, <3>2
      <4>2. QED
        BY <1>9, <3>2, <4>1 DEF FreshTo
    <3>3. CASE job.quiet /\ p = sweep + 1 /\ sweep' = p
      <4>1. \A x \in Files : Target(job, disk)[x] = next[x]
        BY <1>3, <1>4, <1>5, <1>10, <3>3 DEF Target
      <4>2. \A f \in Written(p) : f \in Files /\ f \in Derived
        BY <1>3, WrittenRanks
      <4>3. \A f \in Written(p) : Built(f, Target(job, disk)) = Built(f, next)
        <5> HIDE DEF next
        <5>1. QED
          BY <4>1, <4>2, BuiltOver
      <4>4. \A f \in Written(p) : next[f] = Built(f, next)
        BY <1>7, <3>3, <4>1, <4>2, <4>3 DEF Repairs
      <4>5. \A q \in 1..p : q = p \/ q \in 1..sweep
        BY <1>2, <1>3, <3>3
      <4>6. FreshTo(p, next)
        BY <1>9, <4>4, <4>5 DEF FreshTo
      <4>7. QED
        BY <1>3, <3>3, <4>6
    <3>4. sweep' = 0 \/ (job.quiet /\ sweep' = p /\ (p = sweep + 1 \/ p = 1))
      BY <2>1 DEF Swept
    <3>5. p = 1 => p = sweep + 1 \/ p <= sweep
      BY <1>2
    <3>6. QED
      BY <3>1, <3>2, <3>3, <3>4, <3>5
  <2>3. QED
    BY <1>1, <1>4, <2>1, <2>2 DEF ChainInv
<1>11. CASE Todo(job) # 1
  <2>1. job' = [job EXCEPT !.left = Tail(job.left)] /\ UNCHANGED sweep
    BY <1>11 DEF Write, Todo
  <2>2. /\ JobFits(job') /\ job'.program = p /\ job'.image = job.image
        /\ job'.quiet = job.quiet
        /\ \A x : IsLeft(job', x) <=> IsLeft(job, x) /\ x # g
    BY <1>1, <1>11, <2>1, OneLess DEF g
  <2>3. job.quiet => Target(job', disk') = Target(job, disk)
    <3>1. job.quiet => \A x \in Files : Target(job', disk')[x] = Target(job, disk)[x]
      BY <1>3, <1>4, <1>5, <2>2 DEF Target
    <3>2. QED
      BY <3>1 DEF Target
  <2>4. job.quiet => Repairs(job', disk')
    BY <1>7, <2>2, <2>3 DEF Repairs
  <2>5. job.quiet /\ p <= sweep => Repeats(job', disk')
    <3>1. \A f \in Written(p) : f \in Files
      BY <1>3, WrittenRanks
    <3>2. QED
      BY <1>7, <1>8, <2>2, <3>1 DEF Repeats
  <2>6. job' # None
    BY <2>2, JobIsSome
  <2>7. QED
    BY <1>1, <1>2, <1>4, <1>6, <1>9, <2>1, <2>2, <2>4, <2>5, <2>6 DEF ChainInv
<1>12. QED
  BY <1>10, <1>11

LEMMA OthersKeep ==
    /\ ChainInv /\ Validate => ChainInv'
    /\ ChainInv /\ Stop => ChainInv'
    /\ \A f \in Edited : ChainInv /\ Edit(f) => ChainInv'
    /\ \A name \in Gates : ChainInv /\ Gate(name) => ChainInv'
    /\ ChainInv /\ UNCHANGED chainVars => ChainInv'
<1>1. \A d : FreshTo(0, d)
  <2>1. \A q \in 1..0 : FALSE
    OBVIOUS
  <2>2. QED
    BY <2>1 DEF FreshTo
<1>2. UNCHANGED disk => \A name : Passes(name)' <=> Passes(name)
  BY DEF Passes, Expected, AgreeIn
<1>3. ASSUME ChainInv, Validate
      PROVE  ChainInv'
  <2>1. UNCHANGED <<disk, passed>> /\ job # None /\ JobFits(job)
    BY <1>3 DEF ChainInv, Validate
  <2>2. CASE job' = [job EXCEPT !.valid = TRUE] /\ UNCHANGED sweep
    <3>1. /\ job'.program = job.program /\ job'.image = job.image /\ job'.left = job.left
          /\ job'.quiet = job.quiet
          /\ job' = [program |-> job'.program, image |-> job'.image, left |-> job'.left,
                     quiet |-> job'.quiet, valid |-> job'.valid]
      BY <2>1, <2>2 DEF JobFits
    <3>2. JobFits(job')
      BY <2>1, <3>1 DEF JobFits, Todo
    <3>3. \A x : IsLeft(job', x) <=> IsLeft(job, x)
      BY <3>1 DEF IsLeft
    <3>4. Target(job', disk) = Target(job, disk)
      BY <3>1, <3>3 DEF Target
    <3>5. (Repairs(job, disk) => Repairs(job', disk)) /\ (Repeats(job, disk) => Repeats(job', disk))
      BY <3>1, <3>3, <3>4 DEF Repairs, Repeats
    <3>6. QED
      BY <1>2, <1>3, <2>1, <2>2, <3>1, <3>2, <3>5 DEF ChainInv
  <2>3. CASE job' = None /\ sweep' = 0
    BY <1>1, <1>2, <1>3, <2>1, <2>3 DEF ChainInv
  <2>4. QED
    BY <1>3, <2>2, <2>3 DEF Validate
<1>4. ASSUME ChainInv, Stop
      PROVE  ChainInv'
  BY <1>1, <1>2, <1>4 DEF ChainInv, Stop
<1>5. ASSUME NEW f \in Edited, ChainInv, Edit(f)
      PROVE  ChainInv'
  <2>1. DOMAIN disk' = Files /\ passed' = {} /\ sweep' = 0
    BY <1>5 DEF ChainInv, Edit, Put
  <2>2. CASE job = None
    <3>1. job' = None
      BY <1>5, <2>2 DEF Edit
    <3>2. QED
      BY <1>1, <2>1, <3>1 DEF ChainInv
  <2>3. CASE job # None
    <3>1. job' = [job EXCEPT !.quiet = FALSE] /\ JobFits(job)
      BY <1>5, <2>3 DEF Edit, ChainInv
    <3>2. /\ job'.program = job.program /\ job'.image = job.image /\ job'.left = job.left
          /\ job'.quiet = FALSE
          /\ job' = [program |-> job'.program, image |-> job'.image, left |-> job'.left,
                     quiet |-> job'.quiet, valid |-> job'.valid]
      BY <3>1 DEF JobFits
    <3>3. JobFits(job')
      BY <3>1, <3>2 DEF JobFits, Todo
    <3>4. QED
      BY <1>1, <2>1, <3>2, <3>3 DEF ChainInv
  <2>4. QED
    BY <2>2, <2>3
<1>6. ASSUME NEW name \in Gates, ChainInv, Gate(name)
      PROVE  ChainInv'
  <2>1. /\ UNCHANGED <<disk, job, sweep>> /\ passed' = passed \cup {name} /\ Passes(name)
        /\ job = None
    BY <1>6 DEF Gate
  <2>2. passed' \subseteq Gates /\ \A x \in passed' : Passes(x)'
    BY <1>2, <1>6, <2>1 DEF ChainInv
  <2>3. QED
    BY <1>6, <2>1, <2>2 DEF ChainInv
<1>7. ASSUME ChainInv, UNCHANGED chainVars
      PROVE  ChainInv'
  BY <1>2, <1>7 DEF ChainInv, chainVars
<1>8. QED
  BY <1>3, <1>4, <1>5, <1>6, <1>7

-----------------------------------------------------------------------------
(* The committed files.                                                    *)
LEMMA CommittedFiles == DOMAIN Committed = Files
<1> DEFINE n == Len(Outputs)
           first == [f \in Raw \cup Derived |-> IF f \in Raw THEN <<f, 0>> ELSE ByHand(f)]
           IsAfter(s) == s = [p \in 0..n |-> IF p = 0 THEN first ELSE BuiltInTurn(Outputs[p], s[p - 1])]
           after[p \in 0..n] == IF p = 0 THEN first ELSE BuiltInTurn(Outputs[p], after[p - 1])
           c1 == BuiltInTurn(Outputs[1], first)
           c2 == BuiltInTurn(Outputs[2], c1)
           c3 == BuiltInTurn(Outputs[3], c2)
           c4 == BuiltInTurn(Outputs[4], c3)
           c5 == BuiltInTurn(Outputs[5], c4)
           c6 == BuiltInTurn(Outputs[6], c5)
           c7 == BuiltInTurn(Outputs[7], c6)
           c8 == BuiltInTurn(Outputs[8], c7)
           c9 == BuiltInTurn(Outputs[9], c8)
           c10 == BuiltInTurn(Outputs[10], c9)
           c11 == BuiltInTurn(Outputs[11], c10)
           c12 == BuiltInTurn(Outputs[12], c11)
<1>1. n = 12
  BY DEF Outputs
<1>2. Committed = after[n] /\ after = CHOOSE s : IsAfter(s)
  BY DEF Committed
<1>3. DOMAIN first = Files
  BY DEF Files
<1> HIDE DEF n, first
<1>4. \E s : IsAfter(s)
  <2> DEFINE w == [p \in 0..n |->
                     IF p = 0 THEN first ELSE IF p = 1 THEN c1 ELSE IF p = 2 THEN c2
                     ELSE IF p = 3 THEN c3 ELSE IF p = 4 THEN c4 ELSE IF p = 5 THEN c5
                     ELSE IF p = 6 THEN c6 ELSE IF p = 7 THEN c7 ELSE IF p = 8 THEN c8
                     ELSE IF p = 9 THEN c9 ELSE IF p = 10 THEN c10 ELSE IF p = 11 THEN c11
                     ELSE c12]
  <2>1. /\ w[0] = first /\ w[1] = c1 /\ w[2] = c2 /\ w[3] = c3 /\ w[4] = c4 /\ w[5] = c5
        /\ w[6] = c6 /\ w[7] = c7 /\ w[8] = c8 /\ w[9] = c9 /\ w[10] = c10 /\ w[11] = c11
        /\ w[12] = c12 /\ w = [p \in 0..n |-> w[p]]
    <3> HIDE DEF c1, c2, c3, c4, c5, c6, c7, c8, c9, c10, c11, c12
    <3>1. QED
      BY <1>1
  <2> HIDE DEF w
  <2>2. \A p \in 0..n : w[p] = IF p = 0 THEN first ELSE BuiltInTurn(Outputs[p], w[p - 1])
    <3> SUFFICES ASSUME NEW p \in 0..n
                 PROVE  w[p] = IF p = 0 THEN first ELSE BuiltInTurn(Outputs[p], w[p - 1])
      OBVIOUS
    <3>1. p \in {0, 1, 2, 3, 4, 5, 6, 7, 8, 9, 10, 11, 12}
      BY <1>1
    <3>2. QED
      BY <2>1, <3>1
  <2>3. IsAfter(w)
    BY <2>1, <2>2
  <2>4. QED
    BY <2>3
<1> HIDE DEF after
<1>5. IsAfter(after)
  BY <1>2, <1>4
<1>6. /\ after[0] = first
      /\ \A p \in 1..12 : after[p] = BuiltInTurn(Outputs[p], after[p - 1])
  BY <1>1, <1>5
<1> HIDE DEF IsAfter, c1, c2, c3, c4, c5, c6, c7, c8, c9, c10, c11, c12
<1>7. \A p \in 1..12 : DOMAIN after[p - 1] = Files => DOMAIN after[p] = Files
  BY <1>6, TurnRepairs
<1>8. DOMAIN after[0] = Files
  BY <1>3, <1>6
<1>9. /\ DOMAIN after[1] = Files /\ DOMAIN after[2] = Files /\ DOMAIN after[3] = Files
      /\ DOMAIN after[4] = Files /\ DOMAIN after[5] = Files /\ DOMAIN after[6] = Files
      /\ DOMAIN after[7] = Files /\ DOMAIN after[8] = Files /\ DOMAIN after[9] = Files
      /\ DOMAIN after[10] = Files /\ DOMAIN after[11] = Files /\ DOMAIN after[12] = Files
  BY <1>7, <1>8
<1>10. QED
  BY <1>1, <1>2, <1>9

\* A program at work has in memory what its files have to be, and nothing that was brought up to
\* date in order is undone.
THEOREM ChainIsKept == ChainSpec => []ChainInv
<1>1. ChainInit => ChainInv
  <2> SUFFICES ASSUME ChainInit
               PROVE  ChainInv
    OBVIOUS
  <2>1. \A q \in 1..0 : FALSE
    OBVIOUS
  <2>2. QED
    BY <2>1, CommittedFiles DEF ChainInit, ChainInv, FreshTo
<1>2. ChainInv /\ [ChainNext]_chainVars => ChainInv'
  BY LoadKeeps, WriteKeeps, OthersKeep DEF ChainNext
<1>3. QED
  BY <1>1, <1>2, PTL DEF ChainSpec

\* From the first program to the last, in order and undisturbed: nothing is stale.
THEOREM SweepsRepair == ChainSpec => []OneSweepRepairs
<1>1. ChainInv => OneSweepRepairs
  <2> SUFFICES ASSUME ChainInv, sweep = Len(Outputs), NEW f \in Derived
               PROVE  IsFresh(f)
    BY DEF OneSweepRepairs
  <2>1. sweep = 12 /\ FreshTo(12, disk)
    BY DEF ChainInv, Outputs
  <2>2. PICK p \in 1..12 : f \in Written(p)
    BY DerivedAreWritten
  <2>3. QED
    BY <2>1, <2>2 DEF FreshTo, IsFresh
<1>2. QED
  BY <1>1, ChainIsKept, PTL

\* The two gates together leave no record unchecked, though some are compared with what is built
\* from others in memory.
THEOREM GatesFindStale == ChainSpec => []GatesMeanFresh
<1>1. ChainInv => GatesMeanFresh
  <2> SUFFICES ASSUME ChainInv, passed = Gates
               PROVE  (\A f \in Derived \ Clean : IsFresh(f)) /\ AgreeIn(disk)
    BY DEF GatesMeanFresh
  <2>1. Passes("phase9") /\ Passes("phase10") /\ DOMAIN disk = Files
    BY DEF ChainInv, Gates
  <2>2. AgreeIn(disk)
    BY <2>1 DEF Passes
  <2>3. \A i \in 1..6 : disk[Checks9[i]] = Expected(Checks9[i])
    BY <2>1 DEF Passes, Checks, Checks9
  <2>4. \A i \in 1..9 : disk[Checks10[i]] = Expected(Checks10[i])
    <3>1. Checks("phase10") = Checks10
      BY DEF Checks
    <3>2. DOMAIN Checks10 = 1..9
      BY DEF Checks10
    <3>3. QED
      BY <2>1, <3>1, <3>2 DEF Passes
  <2>5. \A f \in {"summary", "economics", "mitigations", "budgets", "stop", "rerun"} :
          disk[f] = Built(f, disk)
    <3>1. /\ Checks9[1] = "summary" /\ Checks9[2] = "economics" /\ Checks9[3] = "mitigations"
          /\ Checks9[4] = "budgets" /\ Checks9[5] = "stop" /\ Checks9[6] = "rerun"
      BY DEF Checks9
    <3>2. QED
      BY <2>3, <3>1 DEF Expected
  <2>6. /\ \A f \in {"comparison", "closure", "review", "baseline", "decision", "completion"} :
             disk[f] = Built(f, disk)
        /\ \A f \in {"views", "entry", "pages"} :
             disk[f] = BuiltInTurn(<<"baseline", "views", "decision", "entry", "pages">>, disk)[f]
    <3>1. /\ Checks10[1] = "comparison" /\ Checks10[2] = "closure" /\ Checks10[3] = "review"
          /\ Checks10[4] = "baseline" /\ Checks10[5] = "views" /\ Checks10[6] = "decision"
          /\ Checks10[7] = "entry" /\ Checks10[8] = "pages" /\ Checks10[9] = "completion"
      BY DEF Checks10
    <3>2. QED
      BY <2>4, <3>1 DEF Expected
  <2> DEFINE fs == <<"baseline", "views", "decision", "entry", "pages">>
             d1 == Rebuilt(disk, "baseline")
             d2 == Rebuilt(d1, "views")
             d3 == Rebuilt(d2, "decision")
             d4 == Rebuilt(d3, "entry")
             d5 == Rebuilt(d4, "pages")
  <2>7. BuiltInTurn(fs, disk) = d5
    <3>1. /\ Len(fs) = 5 /\ fs[1] = "baseline" /\ fs[2] = "views" /\ fs[3] = "decision"
          /\ fs[4] = "entry" /\ fs[5] = "pages"
      OBVIOUS
    <3> HIDE DEF fs
    <3>2. Len(fs) \in 1..5
      BY <3>1
    <3>3. QED
      BY <3>1, <3>2, TurnIs
  <2>8. /\ "baseline" \in Derived /\ "views" \in Derived /\ "decision" \in Derived
        /\ "entry" \in Derived /\ "pages" \in Derived
    BY DerivedFiles
  <2> HIDE DEF fs
  <2>9. DOMAIN d1 = Files /\ \A x \in Files : d1[x] = disk[x]
    <3>1. disk["baseline"] = Built("baseline", disk)
      BY <2>6
    <3> DEFINE d == disk
    <3>2. d1 = Rebuilt(d, "baseline") /\ DOMAIN d = Files /\ d["baseline"] = Built("baseline", d)
      BY <2>1, <3>1
    <3> HIDE DEF d, d1
    <3>3. DOMAIN d1 = Files /\ (d["baseline"] = Built("baseline", d) => \A x \in Files : d1[x] = d[x])
      <4>1. d1 = Rebuilt(d, "baseline") /\ DOMAIN d = Files /\ "baseline" \in Derived
        BY <2>8, <3>2
      <4>2. QED
        BY <4>1, OneBuilt, Zenon
    <3>4. QED
      BY <3>2, <3>3 DEF d
  <2> HIDE DEF d1
  <2>10. /\ DOMAIN d2 = Files /\ d2["views"] = Built("views", d1)
         /\ \A x \in Files \ {"views"} : d2[x] = d1[x]
    BY <2>8, <2>9, OneBuilt
  <2> HIDE DEF d2
  <2>11. /\ DOMAIN d3 = Files /\ d3["decision"] = Built("decision", d2)
         /\ \A x \in Files \ {"decision"} : d3[x] = d2[x]
    BY <2>8, <2>10, OneBuilt
  <2> HIDE DEF d3
  <2>12. /\ DOMAIN d4 = Files /\ d4["entry"] = Built("entry", d3)
         /\ \A x \in Files \ {"entry"} : d4[x] = d3[x]
    BY <2>8, <2>11, OneBuilt
  <2> HIDE DEF d4
  <2>13. /\ d5["pages"] = Built("pages", d4)
         /\ \A x \in Files \ {"pages"} : d5[x] = d4[x]
    BY <2>8, <2>12, OneBuilt
  <2> HIDE DEF d5
  <2>14. /\ disk["views"] = d5["views"] /\ disk["entry"] = d5["entry"]
         /\ disk["pages"] = d5["pages"]
    BY <2>6, <2>7 DEF fs
  <2>15. /\ "views" \in Files /\ "decision" \in Files /\ "entry" \in Files /\ "pages" \in Files
    BY <2>8 DEF Files
  <2>16. disk["views"] = Built("views", disk) /\ \A x \in Files : d2[x] = disk[x]
    <3>1. d5["views"] = d2["views"]
      BY <2>11, <2>12, <2>13, <2>15
    <3>2. Built("views", d1) = Built("views", disk)
      BY <2>8, <2>9, BuiltOver
    <3>3. disk["views"] = d2["views"]
      BY <2>14, <3>1
    <3>4. QED
      BY <2>9, <2>10, <3>2, <3>3
  <2>17. \A x \in Files : d3[x] = disk[x]
    <3>1. Built("decision", d2) = Built("decision", disk)
      BY <2>8, <2>16, BuiltOver
    <3>2. QED
      BY <2>6, <2>11, <2>16, <3>1
  <2>18. disk["entry"] = Built("entry", disk) /\ \A x \in Files : d4[x] = disk[x]
    <3>1. d5["entry"] = d4["entry"]
      BY <2>13, <2>15
    <3>2. Built("entry", d3) = Built("entry", disk)
      BY <2>8, <2>17, BuiltOver
    <3>3. disk["entry"] = d4["entry"]
      BY <2>14, <3>1
    <3>4. QED
      BY <2>12, <2>17, <3>2, <3>3
  <2>19. disk["pages"] = Built("pages", disk)
    <3>1. Built("pages", d4) = Built("pages", disk)
      BY <2>8, <2>18, BuiltOver
    <3>2. QED
      BY <2>13, <2>14, <3>1
  <2>20. \A f \in Derived \ Clean : disk[f] = Built(f, disk)
    BY <2>5, <2>6, <2>16, <2>18, <2>19, DerivedFiles DEF Clean
  <2>21. QED
    BY <2>2, <2>20 DEF IsFresh
<1>2. QED
  BY <1>1, ChainIsKept, PTL
=============================================================================
