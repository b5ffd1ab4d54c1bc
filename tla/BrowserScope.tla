----------------------------- MODULE BrowserScope -----------------------------
(***************************************************************************)
(* One scope of the page's registry of runtimes (runtime-registry.js), the *)
(* runtime it owns and the roots it hosts (root-lifecycle.js).             *)
(*                                                                         *)
(* A scope starts a runtime once, replaces a lost one once, replays its    *)
(* roots into the replacement, and ends in a fallback or by a close that   *)
(* drains the roots, asks the runtime to shut down and releases it.  All   *)
(* of these are asynchronous functions: what runs between two awaits is    *)
(* one action here, and the host, the runtime and the other functions act  *)
(* in between.  An answer and what awaits it are one action too, for no    *)
(* task of the browser runs between them.  Scopes share nothing but their  *)
(* limit and the counter of generations.                                   *)
(***************************************************************************)
EXTENDS Naturals, Sequences, FiniteSets

CONSTANTS
  Roots,            (* root identities                                          *)
  Trees,            (* trees a root may be given                                *)
  MaxReplacements,  (* runtimes that may replace a lost one (1)                 *)
  Contenders,       (* BOOLEAN: openOrFallback is called with another identity, *)
                    (* or on a scope that closes or is closed                   *)
  MaxAsked,         (* bound: operations asked of the roots                     *)
  MaxQueue          (* bound: operations of one root that wait                  *)

ASSUME ScopeAssumption ==
  /\ {MaxReplacements, MaxAsked, MaxQueue} \subseteq Nat
  /\ Contenders \in BOOLEAN

VARIABLES
  entry,      (* the registry's entry of the scope, and the scope               *)
  runtimes,   (* by generation, the runtimes that started, and what they show   *)
  roots,      (* the root handles                                               *)
  asked       (* how many operations were asked of the roots                    *)

vars == <<entry, runtimes, roots, asked>>

Generations == 1 .. (1 + MaxReplacements)

None == [state |-> "none", tree |-> "none"]

(* What a root may be acknowledged as, and what a runtime may show of it. *)
Shown == [state : {"none", "registered", "ready", "disposed"}, tree : Trees \cup {"none"}]

(* "drain" is the dispose of a shutdown, which its signal aborts. *)
Tasks == [op : {"register", "mount", "update", "dispose", "drain"}, tree : Trees \cup {"none"}]

Task(op) == [op |-> op, tree |-> "none"]

(* The handle of a root that is not in the registry. *)
NoRoot == [in |-> FALSE, state |-> "unregistered", terminal |-> FALSE, on |-> 0,
           desired |-> None, acked |-> None, call |-> {}, queue |-> <<>>]

-----------------------------------------------------------------------------
(* Root handles. *)

Allowed(op) ==
  CASE op = "register" -> {"unregistered"}
    [] op = "mount"    -> {"registered", "disposed"}
    [] op = "update"   -> {"ready"}
    [] OTHER           -> {"registered", "ready", "failed"}

(* What an acknowledged task makes of the root. *)
Outcome(task) ==
  CASE task.op = "register"          -> [state |-> "registered", tree |-> "none"]
    [] task.op \in {"mount", "update"} -> [state |-> "ready", tree |-> task.tree]
    [] OTHER                         -> [state |-> "disposed", tree |-> "none"]

(* A request is on its way; mount, move and dispose show it in the state. *)
Sent(root, task) ==
  [root EXCEPT !.call = {task},
               !.state = IF task.op \in {"mount", "dispose", "drain"} THEN "changing" ELSE @]

(* Mutant: the intent is kept before the runtime acknowledged it. *)
MutantBegun(root, task) ==
  [Sent(root, task) EXCEPT !.desired = Outcome(task)]

Begun(root, task) == Sent(root, task)

(* A root that ended: its bridge rejects what it waits for, and every later task fails. *)
Ended(root, state) ==
  [root EXCEPT !.terminal = TRUE, !.state = state, !.call = {}, !.queue = <<>>,
               !.in = @ /\ root.desired # None]

(* runtimeLost/1 and stop/1 of every root in the registry. *)
LostRoots(rs) ==
  [r \in Roots |-> IF rs[r].in /\ ~rs[r].terminal THEN Ended(rs[r], "failed") ELSE rs[r]]

StoppedRoots(rs) ==
  [r \in Roots |-> IF rs[r].in /\ ~rs[r].terminal
                   THEN Ended(rs[r], IF rs[r].state = "disposed" THEN "disposed" ELSE "failed")
                   ELSE rs[r]]

(* recover/1 of a root: its register is replayed first.  Nothing is queued before it, for
   what a root that ended was asked has failed. *)
Recovering(root, generation) ==
  [root EXCEPT !.terminal = FALSE, !.on = generation, !.state = "unregistered",
               !.call = {Task("register")}]

(* The next request of a replay after its register: {} or {task}. *)
NextReplay(root, task) ==
  CASE task.op = "register" /\ root.desired.state = "ready" ->
         {[op |-> "mount", tree |-> root.desired.tree]}
    [] task.op = "register" /\ root.desired.state = "disposed" -> {Task("dispose")}
    [] OTHER -> {}

-----------------------------------------------------------------------------
(* The scope. *)

(* Mutant: the release does not remember that it happened. *)
MutantReleased(e, rt) ==
  [rt EXCEPT ![e.held].releases = @ + 1]

(* #release: once for each runtime the scope held. *)
Released(e, rt) ==
  IF e.freed THEN rt ELSE [rt EXCEPT ![e.held].releases = @ + 1]

(* #recordRecoveryFailure and the fallback: the roots end, the runtime is released. *)
FallenBack(e) ==
  [e EXCEPT !.state = "fallback", !.fallback = TRUE, !.observed = 0, !.accepting = FALSE,
            !.freed = TRUE, !.recovery = "none", !.replays = {}]

(* Mutant: the replacement limit is one too many. *)
MutantReplaceable(e) == e.restarts <= MaxReplacements

Replaceable(e) == e.restarts < MaxReplacements

(* reportRuntimeLoss, and #recoverEntry up to the replacement's startup. *)
LossReported(retryable) ==
  /\ entry' = IF retryable /\ Replaceable(entry)
              THEN [entry EXCEPT !.state = "recovering", !.observed = 0, !.accepting = FALSE,
                                 !.freed = TRUE, !.restarts = @ + 1, !.recovery = "starting"]
              ELSE FallenBack(entry)
  /\ roots' = LostRoots(roots)

-----------------------------------------------------------------------------
(* Opening. *)

(* The first open, by openOrFallback or not; later ones share what it made. *)
Open(safe) ==
  /\ entry.state = "none"
  /\ entry' = [entry EXCEPT !.state = "starting", !.booting = TRUE, !.gen = 1,
                            !.opener = IF safe THEN "waits" ELSE "none"]
  /\ UNCHANGED <<runtimes, roots, asked>>

(* openOrFallback under the same identity: it waits for the startup, and throws on a scope that
   failed.  On a scope that runs or recovers it shares what comes of that, and ends nothing. *)
OpenOrFallback ==
  /\ entry.state \in {"starting", "failed"} /\ entry.closing = "no" /\ entry.opener = "none"
  /\ entry' = [entry EXCEPT !.opener = IF entry.state = "starting" THEN "waits" ELSE "throws"]
  /\ UNCHANGED <<runtimes, roots, asked>>

(* The startup failed, and who waited for it will see it throw. *)
StartFailed(e) ==
  [e EXCEPT !.booting = FALSE, !.state = "failed",
            !.opener = IF @ = "waits" THEN "throws" ELSE @]

StartFails ==
  /\ entry.booting
  /\ entry' = StartFailed(entry)
  /\ UNCHANGED <<runtimes, roots, asked>>

(* The runtime is ready.  It may be lost before anyone observes it. *)
StartReady(lost) ==
  /\ entry.booting
  /\ runtimes' = [runtimes EXCEPT ![1].given = TRUE, ![1].lost = lost,
                                  ![1].releases = IF lost THEN 1 ELSE 0]
  /\ entry' = IF lost
              THEN StartFailed(entry)
              ELSE [entry EXCEPT !.booting = FALSE, !.state = "ready", !.scope = TRUE, !.held = 1,
                                 !.freed = FALSE, !.observed = 1, !.accepting = TRUE,
                                 !.opener = "none"]
  /\ UNCHANGED <<roots, asked>>

(* The catch of openOrFallback: unless a fallback was decided, the failure is recorded on
   whatever entry there is, a stopped one too.  open is asynchronous, so its promise settles after
   that of the startup: a close that waits for the startup goes on first.  Under another identity
   an open throws on any scope, and under the same on one that closes or is closed. *)
FallBack ==
  /\ entry.state # "none"
  /\ Contenders \/ entry.opener = "throws"
  /\ entry.closing = "start" => entry.booting
  /\ entry' = [entry EXCEPT !.state = IF entry.fallback THEN @ ELSE "fallback", !.fallback = TRUE,
                            !.opener = IF @ = "throws" THEN "none" ELSE @]
  /\ UNCHANGED <<runtimes, roots, asked>>

-----------------------------------------------------------------------------
(* Loss and recovery. *)

(* The host reports a loss of the current generation. *)
ReportLoss(retryable) ==
  /\ entry.state = "ready"
  /\ LossReported(retryable)
  /\ runtimes' = Released(entry, runtimes)
  /\ UNCHANGED asked

(* Mutant: the requests of a replay are left waiting. *)
MutantReplayLost(e) == [e EXCEPT !.loss = TRUE, !.freed = TRUE, !.accepting = FALSE]

(* A loss while the roots are replayed: the roots end, and the replay of those that were not
   through fails. *)
ReplayLost(e) ==
  [e EXCEPT !.loss = TRUE, !.freed = TRUE, !.accepting = FALSE, !.broken = e.replays # {}]

(* A runtime that was not released dies, and tells the scope if it still listens. *)
Lose(g) ==
  /\ runtimes[g].given /\ ~runtimes[g].lost /\ runtimes[g].releases = 0
  /\ LET gone == [runtimes EXCEPT ![g].lost = TRUE] IN
     \/ /\ entry.observed # g \/ entry.state \in {"stopping", "stopped", "fallback", "failed"}
        /\ runtimes' = gone
        /\ UNCHANGED <<entry, roots>>
     \/ /\ entry.observed = g /\ entry.state = "recovering"
        /\ entry' = ReplayLost(entry)
        /\ roots' = LostRoots(roots)
        /\ runtimes' = Released(entry, gone)
     \/ /\ entry.observed = g /\ entry.state = "ready" /\ entry.closing = "no"
        /\ LossReported(TRUE)
        /\ runtimes' = Released(entry, gone)
     \/ /\ entry.observed = g /\ entry.state = "ready" /\ entry.closing # "no"
        /\ entry' = [entry EXCEPT !.loss = TRUE]
        /\ runtimes' = gone
        /\ UNCHANGED roots
  /\ UNCHANGED asked

ReplacementFails ==
  /\ entry.recovery = "starting"
  /\ entry' = FallenBack(entry)
  /\ UNCHANGED <<runtimes, roots, asked>>

(* The replacement is ready and takes the roots, unless it is lost already. *)
ReplacementReady(lost) ==
  /\ entry.recovery = "starting"
  /\ LET g    == entry.gen + 1
         next == [entry EXCEPT !.gen = g, !.observed = g, !.loss = lost]
     IN  /\ runtimes' = [runtimes EXCEPT ![g].given = TRUE, ![g].lost = lost,
                                         ![g].releases = IF lost THEN 1 ELSE 0]
         /\ entry' = IF lost
                     THEN FallenBack(next)
                     ELSE [next EXCEPT !.held = g, !.freed = FALSE, !.recovery = "replaying",
                                       !.broken = FALSE, !.replays = {r \in Roots : roots[r].in}]
         /\ roots' = [r \in Roots |-> IF roots[r].in /\ ~lost THEN Recovering(roots[r], g) ELSE roots[r]]
  /\ UNCHANGED asked

(* One replay failed: every root is stopped. *)
RecoveryFails ==
  /\ entry.recovery = "replaying" /\ entry.broken
  /\ entry' = FallenBack(entry)
  /\ roots' = StoppedRoots(roots)
  /\ runtimes' = Released(entry, runtimes)
  /\ UNCHANGED asked

(* Mutant: a loss that came with the last acknowledgement is not seen. *)
MutantLostAgain(e) == FALSE

LostAgain(e) == e.loss

(* Every replay succeeded; a loss may have come with the last of them. *)
RecoveryCompletes ==
  /\ entry.recovery = "replaying" /\ ~entry.broken /\ entry.replays = {}
  /\ IF LostAgain(entry)
     THEN /\ entry' = FallenBack(entry)
          /\ roots' = LostRoots(roots)
          /\ runtimes' = Released(entry, runtimes)
     ELSE /\ entry' = [entry EXCEPT !.state = "ready", !.accepting = TRUE, !.recovery = "none",
                                    !.fallback = FALSE]
          /\ UNCHANGED <<runtimes, roots>>
  /\ UNCHANGED asked

-----------------------------------------------------------------------------
(* Operations of a root. *)

Begin(r) ==
  LET root == roots[r]
      task == Head(root.queue)
      next == [root EXCEPT !.queue = Tail(@)]
  IN  /\ root.call = {} /\ root.queue # <<>>
      /\ roots' = [roots EXCEPT ![r] =
                     CASE root.state \notin Allowed(task.op) -> next
                       [] root.state \in Allowed(task.op) /\ task.op = "drain" /\ entry.aborted ->
                            [next EXCEPT !.state = "failed"]
                       [] OTHER -> Begun(next, task)]
      /\ UNCHANGED <<entry, runtimes, asked>>

(* A root asks for its place in the registry, and its register is sent. *)
Register(r) ==
  /\ entry.accepting /\ ~roots[r].in /\ roots[r].call = {} /\ asked < MaxAsked
  /\ roots' = [roots EXCEPT ![r] = [NoRoot EXCEPT !.in = TRUE, !.on = entry.held,
                                                  !.queue = <<Task("register")>>]]
  /\ asked' = asked + 1
  /\ UNCHANGED <<entry, runtimes>>

(* mount/1, update/1 (and move/1, which differs in what it carries) and dispose/1 of a root
   its owner was given; those of a root that ended fail at once. *)
Ask(r, task) ==
  /\ roots[r].acked # None /\ roots[r].in /\ ~roots[r].terminal
  /\ Len(roots[r].queue) < MaxQueue /\ asked < MaxAsked
  /\ roots' = [roots EXCEPT ![r].queue = Append(@, task)]
  /\ asked' = asked + 1
  /\ UNCHANGED <<entry, runtimes>>

(* The runtime carries a request out and its acknowledgement arrives. *)
Acknowledge(r) == \E task \in roots[r].call :
  LET root   == roots[r]
      done   == Outcome(task)
      replay == r \in entry.replays
      more   == IF replay THEN NextReplay(root, task) ELSE {}
  IN  /\ ~runtimes[root.on].lost
      /\ runtimes' = [runtimes EXCEPT ![root.on].shown[r] = done]
      /\ roots' = [roots EXCEPT ![r] =
                     [root EXCEPT !.call    = more,
                                  !.state   = IF more = {} THEN done.state ELSE "changing",
                                  !.desired = IF replay THEN @ ELSE done,
                                  !.acked   = IF replay THEN @ ELSE done]]
      /\ entry' = IF more = {} THEN [entry EXCEPT !.replays = @ \ {r}] ELSE entry
      /\ UNCHANGED asked

(* A request fails: it times out, or the runtime refuses it or answers for another root or
   generation.  It may have been carried out.  A root whose register failed leaves the registry,
   and a replay that failed fails the recovery. *)
Fail(r, done) == \E task \in roots[r].call :
  LET root == roots[r] IN
  /\ done => ~runtimes[root.on].lost
  /\ runtimes' = IF done THEN [runtimes EXCEPT ![root.on].shown[r] = Outcome(task)] ELSE runtimes
  /\ roots' = [roots EXCEPT ![r] = [root EXCEPT !.call = {}, !.state = "failed",
                                                !.in = @ /\ root.desired # None]]
  /\ entry' = IF r \in entry.replays THEN [entry EXCEPT !.broken = TRUE, !.replays = @ \ {r}] ELSE entry
  /\ UNCHANGED asked

-----------------------------------------------------------------------------
(* Closing. *)

(* The end of a shutdown: every bridge is stopped, the runtime is released. *)
ShutDown(e, rs) ==
  /\ entry' = [e EXCEPT !.state = "stopped", !.closing = "done", !.accepting = FALSE, !.freed = TRUE]
  /\ roots' = StoppedRoots(rs)
  /\ runtimes' = Released(e, runtimes)

(* #closeEntry once startup and recovery are over. *)
Closes ==
  \/ /\ entry.state = "fallback" \/ ~entry.scope
     /\ entry' = [entry EXCEPT !.state = "stopped", !.closing = "done", !.accepting = FALSE]
     /\ roots' = StoppedRoots(roots)
     /\ UNCHANGED runtimes
  \/ /\ entry.state # "fallback" /\ entry.scope
     /\ entry' = [entry EXCEPT !.state = "stopping", !.closing = "draining", !.observed = 0,
                               !.accepting = FALSE]
     /\ roots' = [r \in Roots |-> IF roots[r].in /\ ~roots[r].terminal
                                  THEN [roots[r] EXCEPT !.queue = Append(@, Task("drain"))]
                                  ELSE roots[r]]
     /\ UNCHANGED runtimes

(* Mutant: a close does not wait for the recovery in progress. *)
MutantRecoveryAwaited == FALSE

RecoveryAwaited == entry.state = "recovering"

Close ==
  /\ entry.state \notin {"none", "stopped"} /\ entry.closing = "no"
  /\ CASE entry.state = "starting" ->
            entry' = [entry EXCEPT !.closing = "start"] /\ UNCHANGED <<runtimes, roots>>
       [] entry.state # "starting" /\ RecoveryAwaited ->
            entry' = [entry EXCEPT !.closing = "recovery"] /\ UNCHANGED <<runtimes, roots>>
       [] OTHER -> Closes
  /\ UNCHANGED asked

(* Mutant: only a startup that succeeded is over. *)
MutantStarted == entry.scope

Started == ~entry.booting

CloseAfterStart ==
  /\ entry.closing = "start" /\ Started
  /\ IF RecoveryAwaited
     THEN entry' = [entry EXCEPT !.closing = "recovery"] /\ UNCHANGED <<runtimes, roots>>
     ELSE Closes
  /\ UNCHANGED asked

CloseAfterRecovery ==
  /\ entry.closing = "recovery" /\ entry.recovery = "none"
  /\ Closes
  /\ UNCHANGED asked

(* The shutdown takes too long: the disposes it waits for are aborted. *)
ShutdownTimeout ==
  /\ entry.closing = "draining" /\ ~entry.aborted
  /\ entry' = [entry EXCEPT !.aborted = TRUE]
  /\ roots' = [r \in Roots |-> IF Task("drain") \in roots[r].call
                               THEN [roots[r] EXCEPT !.call = {}, !.state = "failed"] ELSE roots[r]]
  /\ UNCHANGED <<runtimes, asked>>

(* Every root is disposed of, or failed to be. *)
Drained ==
  /\ entry.closing = "draining"
  /\ \A r \in Roots : /\ Task("drain") \notin roots[r].call
                      /\ \A k \in DOMAIN roots[r].queue : roots[r].queue[k].op # "drain"
  /\ IF entry.aborted
     THEN ShutDown(entry, roots)
     ELSE /\ entry' = [entry EXCEPT !.closing = "control"]
          /\ roots' = StoppedRoots(roots)
          /\ UNCHANGED runtimes
  /\ UNCHANGED asked

(* The runtime acknowledged the shutdown, or did not in time. *)
ShutdownEnds ==
  /\ entry.closing = "control"
  /\ ShutDown(entry, roots)
  /\ UNCHANGED asked

-----------------------------------------------------------------------------
Init ==
  /\ entry = [state |-> "none", closing |-> "no", aborted |-> FALSE, booting |-> FALSE, gen |-> 0,
              scope |-> FALSE, held |-> 0, freed |-> TRUE, accepting |-> FALSE, observed |-> 0,
              loss |-> FALSE, restarts |-> 0, recovery |-> "none", replays |-> {}, broken |-> FALSE,
              opener |-> "none", fallback |-> FALSE]
  /\ runtimes = [g \in Generations |-> [given |-> FALSE, lost |-> FALSE, releases |-> 0,
                                        shown |-> [r \in Roots |-> None]]]
  /\ roots = [r \in Roots |-> NoRoot]
  /\ asked = 0

Startup == StartFails \/ \E lost \in BOOLEAN : StartReady(lost)

Replacement == ReplacementFails \/ \E lost \in BOOLEAN : ReplacementReady(lost)

Answer(r) == Acknowledge(r) \/ \E done \in BOOLEAN : Fail(r, done)

Closing == CloseAfterStart \/ CloseAfterRecovery \/ ShutdownTimeout \/ Drained \/ ShutdownEnds

Next ==
  \/ \E safe \in BOOLEAN : Open(safe)
  \/ OpenOrFallback \/ Startup \/ FallBack
  \/ \E retryable \in BOOLEAN : ReportLoss(retryable)
  \/ \E g \in Generations : Lose(g)
  \/ Replacement \/ RecoveryFails \/ RecoveryCompletes
  \/ \E r \in Roots :
       \/ Register(r) \/ Begin(r) \/ Answer(r)
       \/ \E tree \in Trees, op \in {"mount", "update"} : Ask(r, [op |-> op, tree |-> tree])
       \/ Ask(r, Task("dispose"))
  \/ Close \/ Closing

Spec == Init /\ [][Next]_vars

(* Fairness: what was started settles, as startup, requests and shutdown have time-outs, and the
   functions go on when what they await has settled. *)
FairSpec ==
  /\ Spec
  /\ WF_vars(Startup) /\ WF_vars(FallBack) /\ WF_vars(Replacement)
  /\ WF_vars(RecoveryFails) /\ WF_vars(RecoveryCompletes)
  /\ \A r \in Roots : WF_vars(Begin(r)) /\ WF_vars(Answer(r))
  /\ WF_vars(CloseAfterStart) /\ WF_vars(CloseAfterRecovery)
  /\ WF_vars(Drained) /\ WF_vars(ShutdownEnds)

-----------------------------------------------------------------------------
(* Properties. *)

Entry ==
  [state : {"none", "starting", "ready", "failed", "recovering", "fallback", "stopping", "stopped"},
   closing : {"no", "start", "recovery", "draining", "control", "done"},
   aborted : BOOLEAN, booting : BOOLEAN, gen : {0} \cup Generations, scope : BOOLEAN,
   held : {0} \cup Generations, freed : BOOLEAN, accepting : BOOLEAN,
   observed : {0} \cup Generations, loss : BOOLEAN, restarts : 0 .. MaxReplacements,
   recovery : {"none", "starting", "replaying"}, replays : SUBSET Roots, broken : BOOLEAN,
   opener : {"none", "waits", "throws"}, fallback : BOOLEAN]

Runtime == [given : BOOLEAN, lost : BOOLEAN, releases : Nat, shown : [Roots -> Shown]]

Handle ==
  [in : BOOLEAN,
   state : {"unregistered", "registered", "ready", "disposed", "failed", "changing"},
   terminal : BOOLEAN, on : {0} \cup Generations, desired : Shown, acked : Shown,
   call : SUBSET Tasks, queue : Seq(Tasks)]

(* The entry, the runtimes and the handles have their types; a lost runtime is replaced at most
   MaxReplacements times. *)
TypeOK ==
  /\ entry \in Entry
  /\ runtimes \in [Generations -> Runtime]
  /\ roots \in [Roots -> Handle]

(* "releases the runtime exactly once on every terminal path": a runtime is released once the
   scope has ended, never twice, and never while a ready scope uses it. *)
ReleasedOnce ==
  \A g \in Generations :
    /\ runtimes[g].releases <= 1
    /\ runtimes[g].given /\ entry.state \in {"failed", "fallback", "stopped"} => runtimes[g].releases = 1
    /\ entry.state = "ready" /\ g = entry.gen => runtimes[g].releases = 0

(* A ready scope has all of its roots on the runtime it holds, none of them still replayed;
   a scope that ended has none that could be used, whatever was lost, asked or closed while
   the replacement took over. *)
NoPartialReady ==
  /\ entry.state = "ready" =>
       /\ entry.accepting /\ entry.replays = {}
       /\ \A r \in Roots : roots[r].in => ~roots[r].terminal /\ roots[r].on = entry.gen
  /\ entry.state \in {"fallback", "stopped"} =>
       /\ ~entry.accepting
       /\ \A r \in Roots : roots[r].in => roots[r].terminal /\ roots[r].state \in {"failed", "disposed"}

(* A scope is well formed and ready as a whole or not at all (register, replay, fallback). *)
ReadyIsWhole == TypeOK /\ NoPartialReady

(* What a root of a ready scope says of itself is what its owner was last told and what the
   runtime shows, also after the runtime was replaced: acknowledged trees survive, trees that
   were never acknowledged do not come back. *)
RootsAreShown ==
  entry.state = "ready" =>
    \A r \in Roots :
      roots[r].in /\ roots[r].call = {} /\ roots[r].state \in {"registered", "ready", "disposed"} =>
        /\ roots[r].state = roots[r].acked.state
        /\ runtimes[entry.gen].shown[r] = roots[r].acked

StaysClosed ==
  entry.closing = "done" =>
    /\ entry'.closing = "done" /\ ~entry'.accepting
    /\ \A g \in Generations : runtimes'[g].given = runtimes[g].given
    /\ entry'.state = "stopped" \/ (~entry.scope /\ entry'.state = "fallback")

(* What was closed is not opened again by anything that was under way when it was closed: no
   runtime is started, no root accepted, and a scope that ran stays stopped.  Only the catch of an
   openOrFallback that waited for a failed startup may still turn it into a fallback. *)
ClosedIsFinal == [][StaysClosed]_vars

(* "Closing retains a stopped tombstone" (a comment of #closeEntry). *)
StoppedIsFinal == [][entry.state = "stopped" => entry'.state = "stopped"]_vars

(* "releases the runtime exactly once on every terminal path" (phase-05-implementation-evidence.md),
   here for the path that ends in a close. *)
ReleasedOnTerminal ==
  entry.state = "stopped" => \A g \in Generations : runtimes[g].given => runtimes[g].releases = 1

(* Every close ends, whatever the scope was doing when it was asked. *)
CloseEnds == entry.closing # "no" ~> entry.closing = "done"

(* A lost runtime is replaced or given up, also if the replacement is lost in its turn. *)
RecoveryEnds == entry.state = "recovering" ~> entry.state # "recovering"

(* Who waits for the scope gets it, or a fallback. *)
OpenersAreAnswered == entry.opener # "none" ~> entry.opener = "none"

(* A scope does not stay between two states: openers, closes and recoveries come to an end. *)
ScopeSettles == CloseEnds /\ RecoveryEnds /\ OpenersAreAnswered

=============================================================================
