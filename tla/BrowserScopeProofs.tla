-------------------------- MODULE BrowserScopeProofs --------------------------
(***************************************************************************)
(* Proofs about a scope of the page's registry: its runtimes are released  *)
(* once, it is ready as a whole, its roots are what the runtime shows, and *)
(* a close is final, for any number of roots and replacements.             *)
(***************************************************************************)
EXTENDS BrowserScope, TLAPS

-----------------------------------------------------------------------------
(* The inductive invariant. *)

(* What a runtime may have acknowledged of a root. *)
Acknowledged ==
  {None, [state |-> "registered", tree |-> "none"], [state |-> "disposed", tree |-> "none"]}
    \cup [state : {"ready"}, tree : Trees \cup {"none"}]

(* The flags of a scope follow its state. *)
Shape ==
  /\ entry.booting <=> entry.state = "starting"
  /\ entry.accepting <=> entry.state = "ready"
  /\ entry.recovery # "none" <=> entry.state = "recovering"
  /\ entry.replays # {} => entry.recovery = "replaying"
  /\ entry.state \in {"none", "starting", "failed"} => ~entry.scope
  /\ entry.state \in {"ready", "recovering", "stopping"} => entry.scope
  /\ entry.opener = "throws" => entry.state \in {"failed", "stopped"} /\ ~entry.scope

(* A close waits, drains or is done as the state says. *)
ClosingFits ==
  /\ entry.state = "none" => entry.closing = "no"
  /\ entry.closing \in {"draining", "control"} <=> entry.state = "stopping"
  /\ entry.state = "stopped" => entry.closing = "done"
  /\ entry.closing = "done" =>
       entry.state = "stopped" \/ (entry.state = "fallback" /\ ~entry.scope)
  /\ entry.closing = "recovery" => entry.state \in {"recovering", "ready", "fallback"}

(* The scope holds the runtime of its generation until it is freed. *)
Holding ==
  /\ entry.state \in {"none", "starting", "failed", "fallback", "stopped"} => entry.freed
  /\ entry.state # "none" => entry.gen >= 1
  /\ entry.state = "starting" => entry.gen = 1
  /\ entry.state = "none" => entry.gen = 0
  /\ entry.gen <= entry.restarts + 1
  /\ ~entry.freed => entry.held = entry.gen /\ entry.gen >= 1
  /\ entry.state = "ready" => ~entry.freed /\ entry.observed = entry.gen
  /\ entry.recovery = "starting" =>
       entry.freed /\ entry.gen <= entry.restarts /\ entry.observed = 0
  /\ entry.recovery = "replaying" =>
       /\ entry.held = entry.gen /\ entry.observed = entry.gen
       /\ entry.freed <=> entry.loss

(* Each runtime was released once, but for the one that is held. *)
Accounted(e, rt) ==
  \A g \in Generations :
    /\ rt[g].given => g <= e.gen
    /\ ~e.freed /\ g = e.held => rt[g].given
    /\ rt[g].releases = IF rt[g].given /\ (e.freed \/ g # e.held) THEN 1 ELSE 0

Releases == Accounted(entry, runtimes)

(* Where the handle of a root stands. *)
HandleFits(r) ==
  /\ roots[r].desired \in Acknowledged
  /\ roots[r].acked = roots[r].desired
  /\ roots[r].on = 0 => ~roots[r].in /\ roots[r].call = {} /\ roots[r].queue = <<>>
  /\ roots[r].terminal =>
       /\ roots[r].state \in {"failed", "disposed"}
       /\ roots[r].call = {} /\ roots[r].queue = <<>>
       /\ roots[r].in => roots[r].desired # None

(* The roots in the registry are on the runtime of a scope that runs, and ended in
   one that does not. *)
Hosted(r) ==
  roots[r].in =>
    /\ entry.state \notin {"none", "starting", "failed"}
    /\ \/ entry.state = "ready"
       \/ entry.recovery = "replaying" /\ ~entry.loss
       => ~roots[r].terminal /\ roots[r].on = entry.gen
    /\ \/ entry.state \in {"fallback", "stopped"}
       \/ entry.recovery = "starting"
       \/ entry.recovery = "replaying" /\ entry.loss
       => roots[r].terminal

(* A replay registers the root first and then asks for what was acknowledged. *)
Replayed(r) ==
  r \in entry.replays /\ ~entry.loss =>
    /\ roots[r].in /\ roots[r].desired # None
    /\ \E task \in Tasks :
         /\ roots[r].call = {task}
         /\ task.op # "register" => Outcome(task) = roots[r].desired

(* A root at rest is what was acknowledged, and its runtime shows it. *)
Rests(r) ==
  /\ roots[r].in /\ ~roots[r].terminal /\ r \notin entry.replays /\ roots[r].call = {}
  /\ roots[r].state \in {"registered", "ready", "disposed"}
  => /\ roots[r].state = roots[r].acked.state
     /\ runtimes[roots[r].on].shown[r] = roots[r].acked

RootFits(r) == HandleFits(r) /\ Hosted(r) /\ Replayed(r) /\ Rests(r)

EntryFits == entry \in Entry /\ Shape /\ ClosingFits /\ Holding

RuntimesFit == runtimes \in [Generations -> Runtime] /\ Releases

RootsFit == roots \in [Roots -> Handle] /\ \A r \in Roots : RootFits(r)

IInv == EntryFits /\ RuntimesFit /\ RootsFit

-----------------------------------------------------------------------------
(* The entry. *)

\* The bounds of the generations.
LEMMA Limits == MaxReplacements \in Nat /\ 1 \in Generations
BY ScopeAssumption DEF Generations

\* A runtime that is given up ends a scope that ran or recovered.
LEMMA FallenBackFits ==
  ASSUME EntryFits, entry.state \in {"ready", "recovering"}, entry' = FallenBack(entry)
  PROVE  EntryFits'
<1>1. entry' \in Entry
  BY Limits DEF EntryFits, Entry, Generations, FallenBack
<1>2. (Shape /\ ClosingFits)'
  BY DEF EntryFits, Entry, Shape, ClosingFits, FallenBack
<1>3. Holding'
  BY Limits DEF EntryFits, Entry, Generations, Shape, Holding, FallenBack
<1>4. QED
  BY <1>1, <1>2, <1>3 DEF EntryFits

\* A lost runtime is replaced while the limit allows it.
LEMMA LossFits ==
  ASSUME EntryFits, entry.state = "ready", NEW retryable \in BOOLEAN, LossReported(retryable)
  PROVE  EntryFits'
<1>1. CASE ~(retryable /\ Replaceable(entry))
  BY <1>1, FallenBackFits DEF LossReported
<1>2. CASE retryable /\ Replaceable(entry)
  <2>1. /\ entry.restarts < MaxReplacements
        /\ entry' = [entry EXCEPT !.state = "recovering", !.observed = 0, !.accepting = FALSE,
                                  !.freed = TRUE, !.restarts = @ + 1, !.recovery = "starting"]
    BY <1>2 DEF LossReported, Replaceable
  <2>2. entry' \in Entry
    <3>1. entry.restarts + 1 \in 0 .. MaxReplacements
      BY <2>1, Limits DEF EntryFits, Entry
    <3>2. QED
      BY <2>1, <3>1 DEF EntryFits, Entry
  <2>3. (Shape /\ ClosingFits)'
    BY <2>1 DEF EntryFits, Entry, Shape, ClosingFits
  <2>4. Holding'
    BY <2>1, Limits DEF EntryFits, Entry, Generations, Shape, Holding
  <2>5. QED
    BY <2>2, <2>3, <2>4 DEF EntryFits
<1>3. QED
  BY <1>1, <1>2

\* A close ends a scope that holds nothing and drains one that runs.
LEMMA ClosesFits ==
  ASSUME EntryFits, entry.state \in {"ready", "failed", "fallback"}, Closes
  PROVE  EntryFits'
<1>1. CASE /\ entry.state = "fallback" \/ ~entry.scope
           /\ entry' = [entry EXCEPT !.state = "stopped", !.closing = "done", !.accepting = FALSE]
  BY <1>1, Limits DEF EntryFits, Entry, Generations, Shape, ClosingFits, Holding
<1>2. CASE /\ entry.state # "fallback" /\ entry.scope
           /\ entry' = [entry EXCEPT !.state = "stopping", !.closing = "draining", !.observed = 0,
                                     !.accepting = FALSE]
  BY <1>2, Limits DEF EntryFits, Entry, Generations, Shape, ClosingFits, Holding
<1>3. QED
  BY <1>1, <1>2 DEF Closes

\* Every step keeps the entry of the scope in order.
LEMMA EntryStep ==
  ASSUME ~Contenders, EntryFits, [Next]_vars
  PROVE  EntryFits'
<1>1. ASSUME NEW safe \in BOOLEAN, Open(safe)
      PROVE  EntryFits'
  <2>1. entry' \in Entry
    BY <1>1, Limits DEF Open, EntryFits, Entry
  <2>2. (Shape /\ ClosingFits /\ Holding)'
    BY <1>1, Limits DEF Open, EntryFits, Entry, Shape, ClosingFits, Holding
  <2>3. QED
    BY <2>1, <2>2 DEF EntryFits
<1>2. CASE StartFails
  BY <1>2, Limits
  DEF StartFails, StartFailed, EntryFits, Entry, Generations, Shape, ClosingFits, Holding
<1>3. ASSUME NEW lost \in BOOLEAN, StartReady(lost)
      PROVE  EntryFits'
  <2>1. CASE lost
    <3>1. entry.booting /\ entry' = StartFailed(entry)
      BY <1>3, <2>1 DEF StartReady
    <3>2. QED
      BY <3>1, Limits
      DEF StartFailed, EntryFits, Entry, Generations, Shape, ClosingFits, Holding
  <2>2. CASE ~lost
    <3>1. /\ entry.booting
          /\ entry' = [entry EXCEPT !.booting = FALSE, !.state = "ready", !.scope = TRUE, !.held = 1,
                                    !.freed = FALSE, !.observed = 1, !.accepting = TRUE,
                                    !.opener = "none"]
      BY <1>3, <2>2 DEF StartReady
    <3>2. QED
      BY <3>1, Limits DEF EntryFits, Entry, Generations, Shape, ClosingFits, Holding
  <2>3. QED
    BY <2>1, <2>2
<1>4. CASE FallBack
  BY <1>4, Limits
  DEF FallBack, EntryFits, Entry, Generations, Shape, ClosingFits, Holding
<1>5. ASSUME NEW retryable \in BOOLEAN, ReportLoss(retryable)
      PROVE  EntryFits'
  BY <1>5, LossFits DEF ReportLoss
<1>6. ASSUME NEW g \in Generations, Lose(g)
      PROVE  EntryFits'
  <2>1. CASE entry' = entry
    BY <2>1 DEF EntryFits, Entry, Shape, ClosingFits, Holding
  <2>2. CASE /\ entry.observed = g /\ entry.state = "recovering"
             /\ entry' = ReplayLost(entry)
    BY <2>2, Limits
    DEF EntryFits, Entry, Generations, Shape, ClosingFits, Holding, ReplayLost
  <2>3. CASE entry.state = "ready" /\ LossReported(TRUE)
    BY <2>3, LossFits
  <2>4. CASE /\ entry.state = "ready" /\ entry.closing # "no"
             /\ entry' = [entry EXCEPT !.loss = TRUE]
    BY <2>4, Limits DEF EntryFits, Entry, Generations, Shape, ClosingFits, Holding
  <2>5. QED
    BY <1>6, <2>1, <2>2, <2>3, <2>4 DEF Lose
<1>7. CASE ReplacementFails
  BY <1>7, FallenBackFits DEF ReplacementFails, EntryFits, Shape
<1>8. ASSUME NEW lost \in BOOLEAN, ReplacementReady(lost)
      PROVE  EntryFits'
  <2>1. entry.recovery = "starting" /\ entry.gen + 1 \in Generations
    BY <1>8, Limits DEF ReplacementReady, EntryFits, Entry, Generations, Holding
  <2>2. CASE lost
    <3>1. entry' = FallenBack([entry EXCEPT !.gen = entry.gen + 1, !.observed = entry.gen + 1,
                                            !.loss = lost])
      BY <1>8, <2>2 DEF ReplacementReady
    <3>2. entry' \in Entry
      BY <2>1, <3>1, Limits DEF EntryFits, Entry, FallenBack
    <3>3. (Shape /\ ClosingFits /\ Holding)'
      BY <2>1, <3>1, Limits
      DEF EntryFits, Entry, Generations, Shape, ClosingFits, Holding, FallenBack
    <3>4. QED
      BY <3>2, <3>3 DEF EntryFits
  <2>3. CASE ~lost
    <3>1. entry' = [entry EXCEPT !.gen = entry.gen + 1, !.observed = entry.gen + 1, !.loss = FALSE,
                                 !.held = entry.gen + 1, !.freed = FALSE, !.recovery = "replaying",
                                 !.broken = FALSE, !.replays = {r \in Roots : roots[r].in}]
      BY <1>8, <2>3 DEF ReplacementReady
    <3>2. entry' \in Entry
      BY <2>1, <3>1 DEF EntryFits, Entry
    <3>3. (Shape /\ ClosingFits /\ Holding)'
      BY <2>1, <3>1, Limits DEF EntryFits, Entry, Generations, Shape, ClosingFits, Holding
    <3>4. QED
      BY <3>2, <3>3 DEF EntryFits
  <2>4. QED
    BY <2>2, <2>3
<1>9. CASE RecoveryFails
  BY <1>9, FallenBackFits DEF RecoveryFails, EntryFits, Shape
<1>10. CASE RecoveryCompletes
  <2>1. CASE LostAgain(entry)
    BY <1>10, <2>1, FallenBackFits DEF RecoveryCompletes, EntryFits, Shape
  <2>2. CASE ~LostAgain(entry)
    <3>1. /\ entry.recovery = "replaying" /\ entry.replays = {} /\ ~entry.loss
          /\ entry' = [entry EXCEPT !.state = "ready", !.accepting = TRUE, !.recovery = "none",
                                  !.fallback = FALSE]
      BY <1>10, <2>2 DEF RecoveryCompletes, LostAgain
    <3>2. QED
      BY <3>1, Limits DEF EntryFits, Entry, Generations, Shape, ClosingFits, Holding
  <2>3. QED
    BY <2>1, <2>2
<1>11. ASSUME NEW r \in Roots, Register(r)
      PROVE  EntryFits'
  BY <1>11, Limits
  DEF Register, EntryFits, Entry, Generations, Shape, ClosingFits, Holding
<1>12. ASSUME NEW r \in Roots, Begin(r)
      PROVE  EntryFits'
  BY <1>12, Limits
  DEF Begin, EntryFits, Entry, Generations, Shape, ClosingFits, Holding
<1>13. ASSUME NEW r \in Roots, Acknowledge(r)
      PROVE  EntryFits'
  BY <1>13, Limits
  DEF Acknowledge, EntryFits, Entry, Generations, Shape, ClosingFits, Holding
<1>14. ASSUME NEW r \in Roots, NEW done \in BOOLEAN, Fail(r, done)
      PROVE  EntryFits'
  <2>1. \/ entry' = entry
        \/ /\ r \in entry.replays
           /\ entry' = [entry EXCEPT !.broken = TRUE, !.replays = @ \ {r}]
    BY <1>14 DEF Fail
  <2>2. CASE entry' = entry
    BY <2>2 DEF EntryFits, Entry, Shape, ClosingFits, Holding
  <2>3. CASE /\ r \in entry.replays
             /\ entry' = [entry EXCEPT !.broken = TRUE, !.replays = @ \ {r}]
    BY <2>3 DEF EntryFits, Entry, Shape, ClosingFits, Holding
  <2>4. QED
    BY <2>1, <2>2, <2>3
<1>15. ASSUME NEW r \in Roots, NEW task \in Tasks, Ask(r, task)
      PROVE  EntryFits'
  BY <1>15, Limits
  DEF Ask, EntryFits, Entry, Generations, Shape, ClosingFits, Holding
<1>16. CASE Close
  <2>1. CASE entry.state = "starting"
    <3>1. entry' = [entry EXCEPT !.closing = "start"]
      BY <1>16, <2>1 DEF Close
    <3>2. QED
      BY <2>1, <3>1, Limits DEF EntryFits, Entry, Generations, Shape, ClosingFits, Holding
  <2>2. CASE entry.state = "recovering"
    <3>1. entry' = [entry EXCEPT !.closing = "recovery"] /\ entry.closing = "no"
      BY <1>16, <2>2 DEF Close, RecoveryAwaited
    <3>2. QED
      BY <2>2, <3>1, Limits DEF EntryFits, Entry, Generations, Shape, ClosingFits, Holding
  <2>3. CASE entry.state \notin {"starting", "recovering"}
    <3>1. Closes
      BY <1>16, <2>3 DEF Close, RecoveryAwaited
    <3>2. entry.state \in {"ready", "failed", "fallback"}
      BY <1>16, <2>3 DEF Close, EntryFits, Entry, ClosingFits
    <3>3. QED
      BY <3>1, <3>2, ClosesFits
  <2>4. QED
    BY <2>1, <2>2, <2>3
<1>17. CASE CloseAfterStart
  <2>1. CASE RecoveryAwaited
    <3>1. entry.state = "recovering" /\ entry' = [entry EXCEPT !.closing = "recovery"]
      BY <1>17, <2>1 DEF CloseAfterStart, RecoveryAwaited
    <3>2. entry.closing = "start"
      BY <1>17 DEF CloseAfterStart
    <3>3. QED
      BY <3>1, <3>2, Limits DEF EntryFits, Entry, Generations, Shape, ClosingFits, Holding
  <2>2. CASE ~RecoveryAwaited
    <3>1. Closes
      BY <1>17, <2>2 DEF CloseAfterStart
    <3>2. entry.state \in {"ready", "failed", "fallback"}
      BY <1>17, <2>2
      DEF CloseAfterStart, Started, RecoveryAwaited, EntryFits, Entry, Shape, ClosingFits
    <3>3. QED
      BY <3>1, <3>2, ClosesFits
  <2>3. QED
    BY <2>1, <2>2
<1>18. CASE CloseAfterRecovery
  <2>1. Closes
    BY <1>18 DEF CloseAfterRecovery
  <2>2. entry.state \in {"ready", "failed", "fallback"}
    BY <1>18 DEF CloseAfterRecovery, EntryFits, Entry, Shape, ClosingFits
  <2>3. QED
    BY <2>1, <2>2, ClosesFits
<1>19. CASE ShutdownTimeout
  BY <1>19, Limits
  DEF ShutdownTimeout, EntryFits, Entry, Generations, Shape, ClosingFits, Holding
<1>20. CASE Drained
  <2>1. CASE entry' = [entry EXCEPT !.closing = "control"]
    BY <1>20, <2>1, Limits
    DEF Drained, EntryFits, Entry, Generations, Shape, ClosingFits, Holding
  <2>2. CASE ShutDown(entry, roots)
    BY <1>20, <2>2, Limits
    DEF Drained, ShutDown, EntryFits, Entry, Generations, Shape, ClosingFits, Holding
  <2>3. QED
    BY <1>20, <2>1, <2>2 DEF Drained
<1>21. CASE ShutdownEnds
  BY <1>21, Limits
  DEF ShutdownEnds, ShutDown, EntryFits, Entry, Generations, Shape, ClosingFits, Holding
<1>22. CASE UNCHANGED vars
  BY <1>22 DEF vars, EntryFits, Entry, Generations, Shape, ClosingFits, Holding
<1>23. CASE OpenOrFallback
  BY <1>23, Limits
  DEF OpenOrFallback, EntryFits, Entry, Generations, Shape, ClosingFits, Holding
<1>24. QED
  BY <1>1, <1>2, <1>3, <1>4, <1>5, <1>6, <1>7, <1>8, <1>9, <1>10, <1>11, <1>12,
     <1>13, <1>14, <1>15, <1>16, <1>17, <1>18, <1>19, <1>20, <1>21, <1>22, <1>23
  DEF Next, Startup, Replacement, Answer, Closing, Tasks, Task

-----------------------------------------------------------------------------
(* The runtimes. *)

LEMMA OutcomeKind ==
  ASSUME NEW task \in Tasks
  PROVE  Outcome(task) \in Acknowledged /\ Outcome(task) \in Shown /\ Outcome(task) # None
BY DEF Tasks, Outcome, Acknowledged, Shown, None

\* A runtime that is lost or shows something else is as much released as before.
LEMMA OthersAccounted ==
  ASSUME NEW e, NEW f, NEW rt, NEW other,
         Accounted(e, rt), f.gen = e.gen, f.held = e.held, f.freed = e.freed,
         \A g \in Generations : /\ other[g].given = rt[g].given
                                /\ other[g].releases = rt[g].releases
  PROVE  Accounted(f, other)
BY DEF Accounted

\* Releasing what the scope holds leaves nothing that was not released.
LEMMA ReleasedAccounted ==
  ASSUME NEW e, NEW f, NEW rt \in [Generations -> Runtime],
         Accounted(e, rt), e.freed \in BOOLEAN, ~e.freed => e.held \in Generations,
         f.gen = e.gen, f.held = e.held, f.freed
  PROVE  /\ Released(e, rt) \in [Generations -> Runtime]
         /\ Accounted(f, Released(e, rt))
<1>1. CASE e.freed
  BY <1>1 DEF Released, Accounted
<1>2. CASE ~e.freed
  <2>1. rt[e.held].given /\ rt[e.held].releases = 0
    BY <1>2 DEF Accounted
  <2>2. Released(e, rt) = [rt EXCEPT ![e.held].releases = 1]
    BY <1>2, <2>1 DEF Released, Runtime
  <2>3. [rt EXCEPT ![e.held].releases = 1] \in [Generations -> Runtime]
    BY <1>2 DEF Runtime
  <2>4. Accounted(f, [rt EXCEPT ![e.held].releases = 1])
    BY <1>2, <2>1 DEF Accounted, Runtime
  <2>5. QED
    BY <2>2, <2>3, <2>4
<1>3. QED
  BY <1>1, <1>2

\* A scope frees what it holds when it gives a runtime up.
LEMMA FreedFits ==
  ASSUME EntryFits, RuntimesFit, NEW rt \in [Generations -> Runtime],
         \A g \in Generations : /\ rt[g].given = runtimes[g].given
                                /\ rt[g].releases = runtimes[g].releases,
         runtimes' = Released(entry, rt),
         entry'.gen = entry.gen, entry'.held = entry.held, entry'.freed
  PROVE  RuntimesFit'
<1>1. Accounted(entry, rt)
  BY OthersAccounted DEF RuntimesFit, Releases
<1>2. entry.freed \in BOOLEAN /\ (~entry.freed => entry.held \in Generations)
  BY DEF EntryFits, Entry, Holding
<1>3. QED
  BY <1>1, <1>2, ReleasedAccounted DEF RuntimesFit, Releases

\* What a runtime shows has no part in its release.
LEMMA ShownFits ==
  ASSUME RuntimesFit, NEW r \in Roots, NEW k, NEW task \in Tasks,
         runtimes' = [runtimes EXCEPT ![k].shown[r] = Outcome(task)],
         entry'.gen = entry.gen, entry'.held = entry.held, entry'.freed = entry.freed
  PROVE  RuntimesFit'
<1>1. Outcome(task) \in Shown
  BY OutcomeKind
<1>2. runtimes' \in [Generations -> Runtime]
  BY <1>1 DEF RuntimesFit, Runtime
<1>3. \A g \in Generations : /\ runtimes'[g].given = runtimes[g].given
                             /\ runtimes'[g].releases = runtimes[g].releases
  BY DEF RuntimesFit, Runtime
<1>4. Accounted(entry', runtimes')
  BY <1>3 DEF RuntimesFit, Releases, Accounted
<1>5. QED
  BY <1>2, <1>4 DEF RuntimesFit, Releases

\* Every step accounts for the runtimes that were given.
LEMMA RuntimesStep ==
  ASSUME ~Contenders, EntryFits, RuntimesFit, RootsFit, [Next]_vars
  PROVE  RuntimesFit'
<1>1. ASSUME NEW safe \in BOOLEAN, Open(safe)
      PROVE  RuntimesFit'
  BY <1>1, Limits
  DEF Open, EntryFits, Entry, Shape, Holding, RuntimesFit, Releases, Accounted, Generations
<1>2. CASE StartFails
  BY <1>2, Limits
  DEF StartFails, StartFailed, EntryFits, Entry, Shape, Holding, RuntimesFit, Releases, Accounted, Generations
<1>3. ASSUME NEW lost \in BOOLEAN, StartReady(lost)
      PROVE  RuntimesFit'
  <2>1. entry.booting /\ entry.freed /\ entry.gen = 1
    BY <1>3 DEF StartReady, EntryFits, Shape, Holding
  <2>2. runtimes' = [runtimes EXCEPT ![1].given = TRUE, ![1].lost = lost,
                                     ![1].releases = IF lost THEN 1 ELSE 0]
    BY <1>3 DEF StartReady
  <2>3. runtimes' \in [Generations -> Runtime]
    BY <2>2, Limits DEF RuntimesFit, Runtime
  <2>4. entry'.gen = 1 /\ entry'.freed = lost /\ (~lost => entry'.held = 1)
    BY <1>3, <2>1 DEF StartReady, StartFailed, EntryFits, Entry
  <2>5. Accounted(entry', runtimes')
    BY <2>1, <2>2, <2>4, Limits DEF RuntimesFit, Releases, Accounted, Runtime, Generations
  <2>6. QED
    BY <2>3, <2>5 DEF RuntimesFit, Releases
<1>4. CASE FallBack
  BY <1>4, Limits
  DEF FallBack, EntryFits, Entry, Shape, Holding, RuntimesFit, Releases, Accounted, Generations
<1>5. ASSUME NEW retryable \in BOOLEAN, ReportLoss(retryable)
      PROVE  RuntimesFit'
  <2>1. entry'.gen = entry.gen /\ entry'.held = entry.held /\ entry'.freed
    BY <1>5 DEF ReportLoss, LossReported, FallenBack, EntryFits, Entry
  <2>2. QED
    BY <1>5, <2>1, FreedFits DEF ReportLoss, RuntimesFit
<1>6. ASSUME NEW g \in Generations, Lose(g)
      PROVE  RuntimesFit'
  <2> DEFINE gone == [runtimes EXCEPT ![g].lost = TRUE]
  <2>1. /\ gone \in [Generations -> Runtime]
        /\ \A k \in Generations : /\ gone[k].given = runtimes[k].given
                                  /\ gone[k].releases = runtimes[k].releases
    BY DEF RuntimesFit, Runtime
  <2>2. CASE /\ runtimes' = gone
             /\ entry'.gen = entry.gen /\ entry'.held = entry.held /\ entry'.freed = entry.freed
    <3>1. Accounted(entry', gone)
      BY <2>1, <2>2, OthersAccounted DEF RuntimesFit, Releases
    <3>2. QED
      BY <2>1, <2>2, <3>1 DEF RuntimesFit, Releases
  <2>3. CASE /\ runtimes' = Released(entry, gone)
             /\ entry'.gen = entry.gen /\ entry'.held = entry.held /\ entry'.freed
    BY <2>1, <2>3, FreedFits
  <2>4. QED
    <3>1. \/ runtimes' = gone /\ entry' = entry
          \/ runtimes' = gone /\ entry' = [entry EXCEPT !.loss = TRUE]
          \/ runtimes' = Released(entry, gone) /\ entry' = ReplayLost(entry)
          \/ runtimes' = Released(entry, gone) /\ LossReported(TRUE)
      BY <1>6 DEF Lose
    <3>2. LossReported(TRUE) =>
            entry'.gen = entry.gen /\ entry'.held = entry.held /\ entry'.freed
      BY DEF LossReported, FallenBack, EntryFits, Entry
    <3>3. QED
      BY <2>2, <2>3, <3>1, <3>2 DEF ReplayLost, EntryFits, Entry
<1>7. CASE ReplacementFails
  BY <1>7, Limits
  DEF ReplacementFails, FallenBack, EntryFits, Entry, Shape, Holding, RuntimesFit, Releases, Accounted, Generations
<1>8. ASSUME NEW lost \in BOOLEAN, ReplacementReady(lost)
      PROVE  RuntimesFit'
  <2> DEFINE k == entry.gen + 1
  <2>1. entry.freed /\ k \in Generations
    BY <1>8, Limits DEF ReplacementReady, EntryFits, Entry, Generations, Holding
  <2>2. runtimes' = [runtimes EXCEPT ![k].given = TRUE, ![k].lost = lost,
                                     ![k].releases = IF lost THEN 1 ELSE 0]
    BY <1>8 DEF ReplacementReady
  <2>3. runtimes' \in [Generations -> Runtime]
    BY <2>1, <2>2 DEF RuntimesFit, Runtime
  <2>4. entry'.gen = k /\ entry'.freed = lost /\ (~lost => entry'.held = k)
    BY <1>8, <2>1 DEF ReplacementReady, FallenBack, EntryFits, Entry
  <2>5. Accounted(entry', runtimes')
    <3> SUFFICES ASSUME NEW g \in Generations
                 PROVE  /\ runtimes'[g].given => g <= k
                        /\ ~lost /\ g = k => runtimes'[g].given
                        /\ runtimes'[g].releases = IF runtimes'[g].given /\ (lost \/ g # k) THEN 1 ELSE 0
      BY <2>4 DEF Accounted
    <3>1. CASE g = k
      BY <2>1, <2>2, <3>1 DEF RuntimesFit, Runtime, Generations
    <3>2. CASE g # k
      <4>1. runtimes'[g] = runtimes[g]
        BY <2>2, <3>2 DEF RuntimesFit
      <4>2. /\ runtimes[g].given => g <= entry.gen
            /\ runtimes[g].releases = IF runtimes[g].given THEN 1 ELSE 0
        BY <2>1 DEF RuntimesFit, Releases, Accounted
      <4>3. QED
        BY <3>2, <4>1, <4>2 DEF EntryFits, Entry, Generations
    <3>3. QED
      BY <3>1, <3>2
  <2>6. QED
    BY <2>3, <2>5 DEF RuntimesFit, Releases
<1>9. CASE RecoveryFails
  BY <1>9, FreedFits DEF RecoveryFails, FallenBack, EntryFits, Entry, RuntimesFit
<1>10. CASE RecoveryCompletes
  <2>1. CASE LostAgain(entry)
    BY <1>10, <2>1, FreedFits DEF RecoveryCompletes, FallenBack, EntryFits, Entry, RuntimesFit
  <2>2. CASE ~LostAgain(entry)
    <3>1. /\ runtimes' = runtimes
          /\ entry' = [entry EXCEPT !.state = "ready", !.accepting = TRUE, !.recovery = "none",
                                  !.fallback = FALSE]
      BY <1>10, <2>2 DEF RecoveryCompletes
    <3>2. QED
      BY <3>1 DEF EntryFits, Entry, RuntimesFit, Releases, Accounted
  <2>3. QED
    BY <2>1, <2>2
<1>11. ASSUME NEW r \in Roots, Register(r)
      PROVE  RuntimesFit'
  BY <1>11, Limits
  DEF Register, EntryFits, Entry, Shape, Holding, RuntimesFit, Releases, Accounted, Generations
<1>12. ASSUME NEW r \in Roots, Begin(r)
      PROVE  RuntimesFit'
  BY <1>12, Limits
  DEF Begin, EntryFits, Entry, Shape, Holding, RuntimesFit, Releases, Accounted, Generations
<1>13. ASSUME NEW r \in Roots, Acknowledge(r)
      PROVE  RuntimesFit'
  <2>1. PICK task \in roots[r].call :
          /\ runtimes' = [runtimes EXCEPT ![roots[r].on].shown[r] = Outcome(task)]
          /\ entry' = entry \/ entry' = [entry EXCEPT !.replays = @ \ {r}]
    BY <1>13 DEF Acknowledge
  <2>2. task \in Tasks
    BY DEF RootsFit, Handle
  <2>3. QED
    BY <2>1, <2>2, ShownFits DEF EntryFits, Entry
<1>14. ASSUME NEW r \in Roots, NEW done \in BOOLEAN, Fail(r, done)
      PROVE  RuntimesFit'
  <2>1. PICK task \in roots[r].call :
          /\ \/ runtimes' = runtimes
             \/ runtimes' = [runtimes EXCEPT ![roots[r].on].shown[r] = Outcome(task)]
          /\ \/ entry' = entry
             \/ entry' = [entry EXCEPT !.broken = TRUE, !.replays = @ \ {r}]
    BY <1>14 DEF Fail
  <2>2. task \in Tasks
    BY DEF RootsFit, Handle
  <2>3. entry'.gen = entry.gen /\ entry'.held = entry.held /\ entry'.freed = entry.freed
    BY <2>1 DEF EntryFits, Entry
  <2>4. CASE runtimes' = runtimes
    BY <2>3, <2>4, OthersAccounted DEF RuntimesFit, Releases
  <2>5. CASE runtimes' = [runtimes EXCEPT ![roots[r].on].shown[r] = Outcome(task)]
    BY <2>2, <2>3, <2>5, ShownFits
  <2>6. QED
    BY <2>1, <2>4, <2>5
<1>15. ASSUME NEW r \in Roots, NEW task \in Tasks, Ask(r, task)
      PROVE  RuntimesFit'
  BY <1>15, Limits
  DEF Ask, EntryFits, Entry, Shape, Holding, RuntimesFit, Releases, Accounted, Generations
<1>16. CASE Close
  <2>1. entry'.gen = entry.gen /\ entry'.held = entry.held /\ entry'.freed = entry.freed
    BY <1>16 DEF Close, Closes, EntryFits, Entry
  <2>2. runtimes' = runtimes
    BY <1>16 DEF Close, Closes
  <2>3. QED
    BY <2>1, <2>2, OthersAccounted DEF RuntimesFit, Releases
<1>17. CASE CloseAfterStart
  <2>1. entry'.gen = entry.gen /\ entry'.held = entry.held /\ entry'.freed = entry.freed
    BY <1>17 DEF CloseAfterStart, Closes, EntryFits, Entry
  <2>2. runtimes' = runtimes
    BY <1>17 DEF CloseAfterStart, Closes
  <2>3. QED
    BY <2>1, <2>2, OthersAccounted DEF RuntimesFit, Releases
<1>18. CASE CloseAfterRecovery
  <2>1. entry'.gen = entry.gen /\ entry'.held = entry.held /\ entry'.freed = entry.freed
    BY <1>18 DEF CloseAfterRecovery, Closes, EntryFits, Entry
  <2>2. runtimes' = runtimes
    BY <1>18 DEF CloseAfterRecovery, Closes
  <2>3. QED
    BY <2>1, <2>2, OthersAccounted DEF RuntimesFit, Releases
<1>19. CASE ShutdownTimeout
  BY <1>19, Limits
  DEF ShutdownTimeout, EntryFits, Entry, Shape, Holding, RuntimesFit, Releases, Accounted, Generations
<1>20. CASE Drained
  <2>1. CASE entry.aborted
    <3>1. ShutDown(entry, roots)
      BY <1>20, <2>1 DEF Drained
    <3>2. QED
      BY <3>1, FreedFits DEF ShutDown, EntryFits, Entry, RuntimesFit
  <2>2. CASE ~entry.aborted
    BY <1>20, <2>2 DEF Drained, EntryFits, Entry, RuntimesFit, Releases, Accounted
  <2>3. QED
    BY <2>1, <2>2
<1>21. CASE ShutdownEnds
  <2>1. ShutDown(entry, roots)
    BY <1>21 DEF ShutdownEnds
  <2>2. QED
    BY <2>1, FreedFits DEF ShutDown, EntryFits, Entry, RuntimesFit
<1>22. CASE UNCHANGED vars
  BY <1>22 DEF vars, EntryFits, Entry, Shape, Holding, RuntimesFit, Releases, Accounted, Generations
<1>23. CASE OpenOrFallback
  BY <1>23, OthersAccounted DEF OpenOrFallback, EntryFits, Entry, RuntimesFit, Releases
<1>24. QED
  BY <1>1, <1>2, <1>3, <1>4, <1>5, <1>6, <1>7, <1>8, <1>9, <1>10, <1>11, <1>12,
     <1>13, <1>14, <1>15, <1>16, <1>17, <1>18, <1>19, <1>20, <1>21, <1>22, <1>23
  DEF Next, Startup, Replacement, Answer, Closing, Tasks, Task

-----------------------------------------------------------------------------
(* The roots. *)

\* A root that a step does not concern stays in order.
LEMMA OthersFit ==
  ASSUME NEW q \in Roots, RootFits(q), roots'[q] = roots[q],
         entry'.state = entry.state, entry'.gen = entry.gen, entry'.loss = entry.loss,
         entry'.recovery = entry.recovery, q \in entry'.replays <=> q \in entry.replays,
         runtimes'[roots[q].on].shown[q] = runtimes[roots[q].on].shown[q]
  PROVE  RootFits(q)'
BY DEF RootFits, HandleFits, Hosted, Replayed, Rests

\* So does every root when only flags of the scope change that say nothing of roots.
LEMMA FlagsFit ==
  ASSUME RootsFit, UNCHANGED <<runtimes, roots>>,
         entry'.state = entry.state, entry'.gen = entry.gen, entry'.loss = entry.loss,
         entry'.recovery = entry.recovery, entry'.replays = entry.replays
  PROVE  RootsFit'
BY OthersFit DEF RootsFit

\* Roots that all ended are in order in a scope that does not run.
LEMMA EndedFit ==
  ASSUME roots' \in [Roots -> Handle],
         \A r \in Roots : HandleFits(r)' /\ (roots'[r].in => roots'[r].terminal),
         entry'.state \notin {"none", "starting", "failed", "ready"},
         entry'.recovery = "replaying" => entry'.loss,
         entry'.replays # {} => entry'.loss
  PROVE  RootsFit'
BY DEF RootsFit, RootFits, Hosted, Replayed, Rests

\* What a loss or a stop makes of a handle.
LEMMA EndedHandle ==
  ASSUME NEW root \in Handle, NEW state \in {"failed", "disposed"}
  PROVE  /\ Ended(root, state) \in Handle
         /\ Ended(root, state).terminal /\ Ended(root, state).state = state
         /\ Ended(root, state).call = {} /\ Ended(root, state).queue = <<>>
         /\ Ended(root, state).in => root.in /\ root.desired # None
         /\ Ended(root, state).desired = root.desired /\ Ended(root, state).acked = root.acked
         /\ Ended(root, state).on = root.on
<1>1. <<>> \in Seq(Tasks)
  OBVIOUS
<1>2. QED
  BY <1>1 DEF Ended, Handle

LEMMA LostHandles ==
  ASSUME RootsFit, roots' = LostRoots(roots)
  PROVE  /\ roots' \in [Roots -> Handle]
         /\ \A r \in Roots : HandleFits(r)' /\ (roots'[r].in => roots'[r].terminal)
<1> SUFFICES ASSUME NEW r \in Roots
             PROVE  /\ roots'[r] \in Handle
                    /\ HandleFits(r)' /\ (roots'[r].in => roots'[r].terminal)
  BY DEF LostRoots
<1>1. roots[r] \in Handle /\ HandleFits(r)
  BY DEF RootsFit, RootFits
<1>2. CASE roots[r].in /\ ~roots[r].terminal
  <2>1. roots'[r] = Ended(roots[r], "failed")
    BY <1>2 DEF LostRoots
  <2>2. QED
    BY <1>1, <1>2, <2>1, EndedHandle DEF HandleFits
<1>3. CASE ~(roots[r].in /\ ~roots[r].terminal)
  <2>1. roots'[r] = roots[r]
    BY <1>3 DEF LostRoots
  <2>2. QED
    BY <1>1, <1>3, <2>1 DEF HandleFits, Handle
<1>4. QED
  BY <1>2, <1>3

LEMMA StoppedHandles ==
  ASSUME RootsFit, roots' = StoppedRoots(roots)
  PROVE  /\ roots' \in [Roots -> Handle]
         /\ \A r \in Roots : HandleFits(r)' /\ (roots'[r].in => roots'[r].terminal)
<1> SUFFICES ASSUME NEW r \in Roots
             PROVE  /\ roots'[r] \in Handle
                    /\ HandleFits(r)' /\ (roots'[r].in => roots'[r].terminal)
  BY DEF StoppedRoots
<1>1. roots[r] \in Handle /\ HandleFits(r)
  BY DEF RootsFit, RootFits
<1>2. CASE roots[r].in /\ ~roots[r].terminal
  <2> DEFINE state == IF roots[r].state = "disposed" THEN "disposed" ELSE "failed"
  <2>1. roots'[r] = Ended(roots[r], state)
    BY <1>2 DEF StoppedRoots
  <2>2. QED
    BY <1>1, <1>2, <2>1, EndedHandle DEF HandleFits
<1>3. CASE ~(roots[r].in /\ ~roots[r].terminal)
  <2>1. roots'[r] = roots[r]
    BY <1>3 DEF StoppedRoots
  <2>2. QED
    BY <1>1, <1>3, <2>1 DEF HandleFits, Handle
<1>4. QED
  BY <1>2, <1>3

\* A close that has nothing to shut down stops the handles, one that has queues a
\* dispose in each.
LEMMA ClosesRoots ==
  ASSUME EntryFits, RootsFit, entry.state \in {"ready", "failed", "fallback"}, Closes
  PROVE  RootsFit'
<1>1. CASE /\ entry' = [entry EXCEPT !.state = "stopped", !.closing = "done", !.accepting = FALSE]
           /\ roots' = StoppedRoots(roots)
  <2>1. /\ entry'.state = "stopped" /\ entry'.recovery = "none" /\ entry'.replays = {}
    BY <1>1 DEF EntryFits, Entry, Shape
  <2>2. QED
    BY <1>1, <2>1, StoppedHandles, EndedFit
<1>2. CASE /\ entry' = [entry EXCEPT !.state = "stopping", !.closing = "draining", !.observed = 0,
                                     !.accepting = FALSE]
           /\ roots' = [r \in Roots |-> IF roots[r].in /\ ~roots[r].terminal
                                         THEN [roots[r] EXCEPT !.queue = Append(@, Task("drain"))]
                                         ELSE roots[r]]
           /\ UNCHANGED runtimes
  <2>1. /\ entry'.state = "stopping" /\ entry'.recovery = "none" /\ entry'.replays = {}
        /\ entry.recovery = "none" /\ entry.replays = {}
    BY <1>2 DEF EntryFits, Entry, Shape
  <2> SUFFICES ASSUME NEW r \in Roots
               PROVE  roots'[r] \in Handle /\ RootFits(r)'
    BY <1>2 DEF RootsFit
  <2>2. roots[r] \in Handle /\ RootFits(r)
    BY DEF RootsFit
  <2>3. CASE roots[r].in /\ ~roots[r].terminal
    <3>1. roots'[r] = [roots[r] EXCEPT !.queue = Append(@, Task("drain"))]
      BY <1>2, <2>3
    <3>2. Append(roots[r].queue, Task("drain")) \in Seq(Tasks)
      BY <2>2 DEF Handle, Task, Tasks
    <3>3. QED
      BY <1>2, <2>1, <2>2, <2>3, <3>1, <3>2
      DEF Handle, RootFits, HandleFits, Hosted, Replayed, Rests
  <2>4. CASE ~(roots[r].in /\ ~roots[r].terminal)
    <3>1. roots'[r] = roots[r]
      BY <1>2, <2>4
    <3>2. QED
      BY <1>2, <2>1, <2>2, <2>4, <3>1
      DEF RootFits, HandleFits, Hosted, Replayed, Rests
  <2>5. QED
    BY <2>3, <2>4
<1>3. QED
  BY <1>1, <1>2 DEF Closes

\* The roots of a scope that loses its runtime end.
LEMMA LossRoots ==
  ASSUME EntryFits, RootsFit, entry.state = "ready",
         NEW retryable \in BOOLEAN, LossReported(retryable)
  PROVE  RootsFit'
<1>1. roots' = LostRoots(roots)
  BY DEF LossReported
<1>2. /\ entry'.state \in {"recovering", "fallback"} /\ entry'.recovery # "replaying"
      /\ entry'.replays = {}
  BY DEF LossReported, FallenBack, EntryFits, Entry, Shape
<1>3. QED
  BY <1>1, <1>2, LostHandles, EndedFit

\* A request that is answered: a replay goes on or is through, and any other
\* request is acknowledged.
LEMMA AcknowledgedRoot ==
  ASSUME EntryFits, RuntimesFit, RootsFit, NEW r \in Roots, Acknowledge(r)
  PROVE  roots'[r] \in Handle /\ RootFits(r)'
<1> DEFINE root == roots[r]
           replay == r \in entry.replays
<1>1. PICK task \in root.call :
        LET more == IF replay THEN NextReplay(root, task) ELSE {} IN
        /\ runtimes' = [runtimes EXCEPT ![root.on].shown[r] = Outcome(task)]
        /\ roots' = [roots EXCEPT ![r] =
             [root EXCEPT !.call    = more,
                          !.state   = IF more = {} THEN Outcome(task).state ELSE "changing",
                          !.desired = IF replay THEN @ ELSE Outcome(task),
                          !.acked   = IF replay THEN @ ELSE Outcome(task)]]
        /\ entry' = IF more = {} THEN [entry EXCEPT !.replays = @ \ {r}] ELSE entry
  BY DEF Acknowledge
<1> DEFINE more == IF replay THEN NextReplay(root, task) ELSE {}
           done == Outcome(task)
<1>2. root \in Handle /\ HandleFits(r) /\ Hosted(r) /\ Replayed(r)
  BY DEF RootsFit, RootFits
<1>3. /\ task \in Tasks /\ done \in Acknowledged /\ done \in Shown /\ done # None
      /\ done.state \in {"registered", "ready", "disposed"}
  BY <1>2, OutcomeKind DEF Handle, Outcome
<1>4. root.on \in Generations /\ ~root.terminal
  BY <1>2 DEF Handle, HandleFits
<1>5. more \in SUBSET Tasks
  BY <1>2 DEF NextReplay, Task, Tasks, Handle, Shown
<1>6. /\ roots'[r].call = more /\ roots'[r].in = root.in /\ roots'[r].terminal = root.terminal
      /\ roots'[r].on = root.on
      /\ roots'[r].state = IF more = {} THEN done.state ELSE "changing"
      /\ roots'[r].desired = IF replay THEN root.desired ELSE done
      /\ roots'[r].acked = IF replay THEN root.acked ELSE done
      /\ roots'[r] \in Handle
  BY <1>1, <1>2, <1>3, <1>5 DEF RootsFit, Handle
<1>7. /\ entry'.state = entry.state /\ entry'.gen = entry.gen /\ entry'.loss = entry.loss
      /\ entry'.recovery = entry.recovery
      /\ r \in entry'.replays <=> more # {}
  <2>1. more # {} => replay
    OBVIOUS
  <2>2. CASE more = {}
    BY <1>1, <2>2 DEF EntryFits, Entry
  <2>3. CASE more # {}
    BY <1>1, <2>1, <2>3 DEF EntryFits, Entry
  <2>4. QED
    BY <2>2, <2>3
<1>8. runtimes'[root.on].shown[r] = done
  BY <1>1, <1>4 DEF RuntimesFit, Runtime
<1>9. HandleFits(r)'
  BY <1>2, <1>3, <1>4, <1>6 DEF HandleFits
<1>10. Hosted(r)'
  BY <1>2, <1>6, <1>7 DEF Hosted
<1>11. Replayed(r)'
  <2>1. CASE more = {} \/ entry.loss
    BY <1>7, <2>1 DEF Replayed
  <2>2. CASE more # {} /\ ~entry.loss
    <3>1. replay /\ root.in /\ root.desired # None
      BY <1>2, <2>2 DEF Replayed
    <3>2. \E t \in Tasks : more = {t} /\ Outcome(t) = root.desired
      <4>1. CASE root.desired.state = "ready"
        <5>1. more = {[op |-> "mount", tree |-> root.desired.tree]}
          BY <2>2, <3>1, <4>1 DEF NextReplay
        <5>2. /\ [op |-> "mount", tree |-> root.desired.tree] \in Tasks
              /\ Outcome([op |-> "mount", tree |-> root.desired.tree]) = root.desired
          BY <1>2, <4>1 DEF Tasks, Handle, Shown, Outcome, HandleFits, Acknowledged, None
        <5>3. QED
          BY <5>1, <5>2
      <4>2. CASE root.desired.state = "disposed"
        <5>1. more = {Task("dispose")}
          BY <2>2, <3>1, <4>2 DEF NextReplay
        <5>2. Task("dispose") \in Tasks /\ Outcome(Task("dispose")) = root.desired
          BY <1>2, <4>2 DEF Tasks, Task, Outcome, HandleFits, Acknowledged, None
        <5>3. QED
          BY <5>1, <5>2
      <4>3. QED
        BY <2>2, <3>1, <4>1, <4>2 DEF NextReplay
    <3>3. PICK t \in Tasks : more = {t} /\ Outcome(t) = root.desired
      BY <3>2
    <3>4. /\ roots'[r].in /\ roots'[r].desired # None
          /\ roots'[r].call = {t} /\ Outcome(t) = roots'[r].desired
      BY <1>6, <3>1, <3>3
    <3>5. QED
      BY <3>4 DEF Replayed
  <2>3. QED
    BY <2>1, <2>2
<1>12. Rests(r)'
  <2> SUFFICES ASSUME root.in, more = {}
               PROVE  done.state = roots'[r].acked.state /\ done = roots'[r].acked
    BY <1>6, <1>7, <1>8 DEF Rests
  <2>1. CASE ~replay
    BY <1>6, <2>1
  <2>2. CASE replay
    <3>1. ~entry.loss
      BY <1>2, <1>4, <2>2 DEF Hosted, EntryFits, Shape
    <3>2. root.call = {task} /\ root.desired # None
          /\ (task.op # "register" => done = root.desired)
      BY <1>2, <2>2, <3>1 DEF Replayed
    <3>3. CASE task.op = "register"
      <4>1. root.desired.state \notin {"ready", "disposed"}
        BY <2>2, <3>3 DEF NextReplay
      <4>2. root.desired = [state |-> "registered", tree |-> "none"]
        BY <1>2, <3>2, <4>1 DEF HandleFits, Acknowledged
      <4>3. done = root.desired
        BY <3>3, <4>2 DEF Outcome
      <4>4. QED
        BY <1>2, <1>6, <2>2, <4>3 DEF HandleFits
    <3>4. CASE task.op # "register"
      BY <1>2, <1>6, <2>2, <3>2, <3>4 DEF HandleFits
    <3>5. QED
      BY <3>3, <3>4
  <2>3. QED
    BY <2>1, <2>2
<1>13. QED
  BY <1>6, <1>9, <1>10, <1>11, <1>12 DEF RootFits

\* Every step keeps the handles of the roots in order.
LEMMA RootsStep ==
  ASSUME ~Contenders, EntryFits, RuntimesFit, RootsFit, [Next]_vars
  PROVE  RootsFit'
<1>1. ASSUME NEW safe \in BOOLEAN, Open(safe)
      PROVE  RootsFit'
  BY <1>1 DEF Open, EntryFits, Entry, RootsFit, RootFits, HandleFits, Hosted, Replayed, Rests, Shape
<1>2. CASE StartFails
  <2>1. /\ entry.state \in {"starting", "failed"} /\ roots' = roots
        /\ entry'.state \in {"failed", "ready", "fallback"} /\ entry'.replays = entry.replays
    BY <1>2 DEF StartFails, StartFailed, EntryFits, Entry, Shape
  <2>2. QED
    BY <2>1 DEF EntryFits, Shape, RootsFit, RootFits, HandleFits, Hosted, Replayed, Rests
<1>3. ASSUME NEW lost \in BOOLEAN, StartReady(lost)
      PROVE  RootsFit'
  <2>1. /\ entry.state \in {"starting", "failed"} /\ roots' = roots
        /\ entry'.state \in {"failed", "ready", "fallback"} /\ entry'.replays = entry.replays
    BY <1>3 DEF StartReady, StartFailed, EntryFits, Entry, Shape
  <2>2. QED
    BY <2>1 DEF EntryFits, Shape, RootsFit, RootFits, HandleFits, Hosted, Replayed, Rests
<1>4. CASE FallBack
  <2>1. /\ entry.state \in {"failed", "stopped"} /\ UNCHANGED <<runtimes, roots>>
        /\ entry'.state \in {entry.state, "fallback"}
        /\ entry.recovery = "none" /\ entry'.recovery = "none"
        /\ entry.replays = {} /\ entry'.replays = {}
    BY <1>4 DEF FallBack, EntryFits, Entry, Shape
  <2>2. QED
    BY <2>1 DEF RootsFit, RootFits, HandleFits, Hosted, Replayed, Rests
<1>5. ASSUME NEW retryable \in BOOLEAN, ReportLoss(retryable)
      PROVE  RootsFit'
  BY <1>5, LossRoots DEF ReportLoss
<1>6. ASSUME NEW g \in Generations, Lose(g)
      PROVE  RootsFit'
  <2>1. CASE LossReported(TRUE) /\ entry.state = "ready"
    BY <2>1, LossRoots
  <2>2. CASE /\ entry.state = "recovering" /\ entry' = ReplayLost(entry)
             /\ roots' = LostRoots(roots)
    <3>1. entry'.state = "recovering" /\ entry'.loss
      BY <2>2 DEF ReplayLost, EntryFits, Entry
    <3>2. QED
      BY <2>2, <3>1, LostHandles, EndedFit
  <2>3. CASE /\ runtimes' = [runtimes EXCEPT ![g].lost = TRUE] /\ roots' = roots
             /\ \/ entry' = entry
                \/ entry.state = "ready" /\ entry' = [entry EXCEPT !.loss = TRUE]
    <3> SUFFICES ASSUME NEW q \in Roots
                 PROVE  RootFits(q)'
      BY <2>3 DEF RootsFit
    <3>1. /\ entry'.state = entry.state /\ entry'.gen = entry.gen
          /\ entry'.recovery = entry.recovery /\ entry'.replays = entry.replays
          /\ entry'.loss = entry.loss \/ entry.state = "ready"
      BY <2>3 DEF EntryFits, Entry
    <3>2. roots[q].on \in Generations =>
            runtimes'[roots[q].on].shown[q] = runtimes[roots[q].on].shown[q]
      BY <2>3 DEF RuntimesFit, Runtime
    <3>3. roots[q].on = 0 \/ roots[q].on \in Generations
      BY DEF RootsFit, Handle
    <3>4. RootFits(q)
      BY DEF RootsFit
    <3>5. QED
      BY <2>3, <3>1, <3>2, <3>3, <3>4
      DEF EntryFits, Shape, RootFits, HandleFits, Hosted, Replayed, Rests
  <2>4. QED
    BY <1>6, <2>1, <2>2, <2>3 DEF Lose
<1>7. CASE ReplacementFails
  <2>1. /\ entry.recovery = "starting" /\ roots' = roots
        /\ entry'.state = "fallback" /\ entry'.recovery = "none" /\ entry'.replays = {}
    BY <1>7 DEF ReplacementFails, FallenBack, EntryFits, Entry
  <2>2. roots' \in [Roots -> Handle] /\ \A r \in Roots : HandleFits(r)' /\ (roots'[r].in => roots'[r].terminal)
    BY <2>1 DEF RootsFit, RootFits, HandleFits, Hosted
  <2>3. QED
    BY <2>1, <2>2, EndedFit
<1>8. ASSUME NEW lost \in BOOLEAN, ReplacementReady(lost)
      PROVE  RootsFit'
  <2>1. \A r \in Roots : roots[r] \in Handle /\ HandleFits(r) /\ (roots[r].in => roots[r].terminal)
    BY <1>8 DEF ReplacementReady, RootsFit, RootFits, Hosted
  <2>2. CASE lost
    <3>1. /\ entry'.state = "fallback" /\ entry'.recovery = "none" /\ entry'.replays = {}
          /\ roots' = [r \in Roots |-> roots[r]]
      BY <1>8, <2>2 DEF ReplacementReady, FallenBack, EntryFits, Entry
    <3>2. /\ roots' \in [Roots -> Handle]
          /\ \A r \in Roots : HandleFits(r)' /\ (roots'[r].in => roots'[r].terminal)
      BY <2>1, <3>1 DEF RootsFit, HandleFits
    <3>3. QED
      BY <3>1, <3>2, EndedFit
  <2>3. CASE ~lost
    <3> DEFINE k == entry.gen + 1
    <3>1. /\ k \in Generations /\ entry'.gen = k /\ ~entry'.loss
          /\ entry'.state = "recovering" /\ entry'.recovery = "replaying"
          /\ entry'.replays = {r \in Roots : roots[r].in}
          /\ roots' = [r \in Roots |-> IF roots[r].in THEN Recovering(roots[r], k) ELSE roots[r]]
      BY <1>8, <2>3, Limits
      DEF ReplacementReady, EntryFits, Entry, Generations, Holding, Shape
    <3> HIDE DEF k
    <3> SUFFICES ASSUME NEW q \in Roots
                 PROVE  roots'[q] \in Handle /\ RootFits(q)'
      BY <3>1 DEF RootsFit
    <3>2. CASE roots[q].in
      <4>1. roots'[q] = Recovering(roots[q], k)
        BY <3>1, <3>2
      <4>2. Task("register") \in Tasks
        BY DEF Task, Tasks
      <4>3. /\ roots'[q] \in Handle /\ roots'[q].in /\ ~roots'[q].terminal
            /\ roots'[q].on = k /\ roots'[q].call = {Task("register")}
            /\ roots'[q].desired = roots[q].desired /\ roots'[q].acked = roots[q].acked
        BY <2>1, <3>1, <3>2, <4>1, <4>2 DEF Recovering, Handle
      <4>4. roots[q].desired # None /\ k # 0 /\ Task("register").op = "register"
        BY <2>1, <3>1, <3>2 DEF HandleFits, Generations, Task
      <4>5. HandleFits(q)'
        BY <2>1, <4>3, <4>4 DEF HandleFits
      <4>6. Hosted(q)' /\ Rests(q)'
        BY <3>1, <4>3, <3>2 DEF Hosted, Rests
      <4>7. Replayed(q)'
        BY <4>2, <4>3, <4>4 DEF Replayed
      <4>8. QED
        BY <4>3, <4>5, <4>6, <4>7 DEF RootFits
    <3>3. CASE ~roots[q].in
      <4>1. roots'[q] = roots[q]
        BY <3>1, <3>3
      <4>2. QED
        BY <2>1, <3>1, <3>3, <4>1 DEF RootFits, HandleFits, Hosted, Replayed, Rests
    <3>4. QED
      BY <3>2, <3>3
  <2>4. QED
    BY <2>2, <2>3
<1>9. CASE RecoveryFails
  <2>1. /\ roots' = StoppedRoots(roots)
        /\ entry'.state = "fallback" /\ entry'.recovery = "none" /\ entry'.replays = {}
    BY <1>9 DEF RecoveryFails, FallenBack, EntryFits, Entry
  <2>2. QED
    BY <2>1, StoppedHandles, EndedFit
<1>10. CASE RecoveryCompletes
  <2>1. CASE LostAgain(entry)
    <3>1. /\ roots' = LostRoots(roots)
          /\ entry'.state = "fallback" /\ entry'.recovery = "none" /\ entry'.replays = {}
      BY <1>10, <2>1 DEF RecoveryCompletes, FallenBack, EntryFits, Entry
    <3>2. QED
      BY <3>1, LostHandles, EndedFit
  <2>2. CASE ~LostAgain(entry)
    <3>1. /\ entry.recovery = "replaying" /\ ~entry.loss /\ entry.replays = {}
          /\ entry'.state = "ready" /\ entry'.recovery = "none" /\ entry'.replays = {}
          /\ entry'.gen = entry.gen /\ UNCHANGED <<runtimes, roots>>
      BY <1>10, <2>2 DEF RecoveryCompletes, LostAgain, EntryFits, Entry
    <3>2. QED
      BY <3>1 DEF RootsFit, RootFits, HandleFits, Hosted, Replayed, Rests
  <2>3. QED
    BY <2>1, <2>2
<1>11. ASSUME NEW r \in Roots, Register(r)
      PROVE  RootsFit'
  <2> SUFFICES ASSUME NEW q \in Roots
               PROVE  roots'[q] \in Handle /\ RootFits(q)'
    BY <1>11 DEF Register, RootsFit
  <2>1. roots[q] \in Handle /\ RootFits(q)
    BY DEF RootsFit
  <2>2. CASE q = r
    <3>1. /\ roots'[q] = [NoRoot EXCEPT !.in = TRUE, !.on = entry.held,
                                        !.queue = <<Task("register")>>]
          /\ entry.state = "ready" /\ entry.held = entry.gen /\ entry.held \in Generations
      BY <1>11, <2>2 DEF Register, EntryFits, Entry, Shape, Holding, RootsFit
    <3>2. <<Task("register")>> \in Seq(Tasks) /\ None \in Shown
      BY DEF Task, Tasks, None, Shown
    <3>3. roots'[q] \in Handle
      BY <3>1, <3>2 DEF NoRoot, Handle
    <3>4. /\ roots'[q].in /\ ~roots'[q].terminal /\ roots'[q].on = entry.gen /\ entry.gen # 0
          /\ roots'[q].desired = None /\ roots'[q].acked = None
          /\ roots'[q].state = "unregistered"
      BY <3>1 DEF NoRoot, Generations
    <3>5. UNCHANGED entry /\ entry.recovery = "none" /\ entry.replays = {}
      BY <1>11, <3>1 DEF Register, EntryFits, Shape
    <3>6. QED
      BY <3>1, <3>3, <3>4, <3>5
      DEF RootFits, HandleFits, Hosted, Replayed, Rests, Acknowledged
  <2>3. CASE q # r
    <3>1. roots'[q] = roots[q]
      BY <1>11, <2>3 DEF Register
    <3>2. QED
      BY <1>11, <2>1, <3>1, OthersFit DEF Register
  <2>4. QED
    BY <2>2, <2>3
<1>12. ASSUME NEW r \in Roots, Begin(r)
      PROVE  RootsFit'
  <2> SUFFICES ASSUME NEW q \in Roots
               PROVE  roots'[q] \in Handle /\ RootFits(q)'
    BY <1>12 DEF Begin, RootsFit
  <2>1. roots[q] \in Handle /\ RootFits(q)
    BY DEF RootsFit
  <2>2. CASE q = r
    <3> DEFINE task == Head(roots[r].queue)
               next == [roots[r] EXCEPT !.queue = Tail(@)]
    <3>1. /\ roots[r].call = {} /\ roots[r].queue # <<>>
          /\ \/ roots'[r] = next
             \/ roots'[r] = [next EXCEPT !.state = "failed"]
             \/ roots'[r] = Sent(next, task)
          /\ UNCHANGED <<entry, runtimes>>
      BY <1>12 DEF Begin, Begun, RootsFit
    <3>2. task \in Tasks /\ Tail(roots[r].queue) \in Seq(Tasks)
      BY <2>1, <2>2, <3>1 DEF Handle
    <3>3. roots[r].on # 0 /\ ~roots[r].terminal
      BY <2>1, <2>2, <3>1 DEF RootFits, HandleFits
    <3>4. /\ roots'[r] \in Handle
          /\ roots'[r].in = roots[r].in /\ roots'[r].terminal = roots[r].terminal
          /\ roots'[r].on = roots[r].on
          /\ roots'[r].desired = roots[r].desired /\ roots'[r].acked = roots[r].acked
          /\ \/ roots'[r].state = roots[r].state \/ roots'[r].state = "failed"
             \/ roots'[r].call # {}
      <4> HIDE DEF task
      <4>1. CASE roots'[r] = next
        BY <2>1, <2>2, <3>2, <4>1 DEF Handle
      <4>2. CASE roots'[r] = [next EXCEPT !.state = "failed"]
        BY <2>1, <2>2, <3>2, <4>2 DEF Handle
      <4>3. CASE roots'[r] = Sent(next, task)
        <5>1. PICK s \in {"changing", roots[r].state} :
                roots'[r] = [roots[r] EXCEPT !.queue = Tail(@), !.call = {task}, !.state = s]
          BY <2>1, <2>2, <4>3 DEF Handle, Sent
        <5>2. /\ roots[r] \in Handle /\ {task} \in SUBSET Tasks
              /\ roots'[r] = [roots[r] EXCEPT !.queue = Tail(roots[r].queue),
                                              !.call = {task}, !.state = s]
          BY <2>1, <2>2, <3>2, <5>1
        <5>5. s \in {"unregistered", "registered", "ready", "disposed", "failed", "changing"}
          BY <5>2, <5>1 DEF Handle
        <5>6. roots'[r] \in Handle
          <6> DEFINE tail == Tail(roots[r].queue)
                     call == {task}
          <6>1. /\ tail \in Seq(Tasks) /\ call \in SUBSET Tasks
                /\ roots'[r] = [roots[r] EXCEPT !.queue = tail, !.call = call, !.state = s]
            BY <3>2, <5>2
          <6> HIDE DEF tail, call
          <6>2. QED
            BY <6>1, <5>2, <5>5 DEF Handle
        <5>3. roots'[r].call = {task}
          BY <2>1, <2>2, <5>1 DEF Handle
        <5>4. QED
          BY <2>1, <2>2, <5>1, <5>6, <5>3 DEF Handle
      <4>4. QED
        BY <3>1, <4>1, <4>2, <4>3
    <3>5. HandleFits(r)'
      BY <2>1, <2>2, <3>3, <3>4 DEF RootFits, HandleFits
    <3>6. Hosted(r)'
      BY <2>1, <2>2, <3>1, <3>4 DEF RootFits, Hosted
    <3>7. Replayed(r)'
      BY <2>1, <2>2, <3>1, <3>4 DEF RootFits, Replayed
    <3>8. Rests(r)'
      BY <2>1, <2>2, <3>1, <3>4 DEF RootFits, Rests
    <3>9. QED
      BY <2>2, <3>4, <3>5, <3>6, <3>7, <3>8 DEF RootFits
  <2>3. CASE q # r
    <3>1. roots'[q] = roots[q]
      BY <1>12, <2>3 DEF Begin
    <3>2. QED
      BY <1>12, <2>1, <3>1, OthersFit DEF Begin
  <2>4. QED
    BY <2>2, <2>3
<1>13. ASSUME NEW r \in Roots, Acknowledge(r)
      PROVE  RootsFit'
  <2> SUFFICES ASSUME NEW q \in Roots
               PROVE  roots'[q] \in Handle /\ RootFits(q)'
    BY <1>13 DEF Acknowledge, RootsFit
  <2>1. roots[q] \in Handle /\ RootFits(q)
    BY DEF RootsFit
  <2>2. CASE q = r
    BY <1>13, <2>2, AcknowledgedRoot
  <2>3. CASE q # r
    <3>1. /\ roots'[q] = roots[q]
          /\ entry' = entry \/ (entry'.replays = entry.replays \ {r} /\ entry'.state = entry.state
               /\ entry'.gen = entry.gen /\ entry'.loss = entry.loss
               /\ entry'.recovery = entry.recovery)
      BY <1>13, <2>3 DEF Acknowledge, EntryFits, Entry
    <3>2. runtimes'[roots[q].on].shown[q] = runtimes[roots[q].on].shown[q]
      BY <1>13, <2>1, <2>3 DEF Acknowledge, RuntimesFit, Runtime, Handle
    <3>3. QED
      BY <2>1, <2>3, <3>1, <3>2, OthersFit
  <2>4. QED
    BY <2>2, <2>3
<1>14. ASSUME NEW r \in Roots, NEW done \in BOOLEAN, Fail(r, done)
      PROVE  RootsFit'
  <2> SUFFICES ASSUME NEW q \in Roots
               PROVE  roots'[q] \in Handle /\ RootFits(q)'
    BY <1>14 DEF Fail, RootsFit
  <2>1. roots[q] \in Handle /\ RootFits(q)
    BY DEF RootsFit
  <2>2. CASE q = r
    <3>1. /\ roots[r].call # {}
          /\ roots'[r] = [roots[r] EXCEPT !.call = {}, !.state = "failed",
                                          !.in = @ /\ roots[r].desired # None]
          /\ r \notin entry'.replays
          /\ entry'.state = entry.state /\ entry'.gen = entry.gen /\ entry'.loss = entry.loss
          /\ entry'.recovery = entry.recovery
      BY <1>14 DEF Fail, EntryFits, Entry, RootsFit
    <3>2. /\ roots'[r] \in Handle /\ (roots'[r].in => roots[r].in)
          /\ ~roots'[r].terminal /\ ~roots[r].terminal
          /\ roots'[r].on = roots[r].on /\ roots[r].on # 0 /\ roots'[r].state = "failed"
          /\ roots'[r].desired = roots[r].desired /\ roots'[r].acked = roots[r].acked
      BY <2>1, <2>2, <3>1 DEF Handle, RootFits, HandleFits
    <3>3. HandleFits(r)'
      BY <2>1, <2>2, <3>2 DEF RootFits, HandleFits
    <3>4. Hosted(r)'
      BY <2>1, <2>2, <3>1, <3>2 DEF RootFits, Hosted
    <3>5. Replayed(r)' /\ Rests(r)'
      BY <3>1, <3>2 DEF Replayed, Rests
    <3>6. QED
      BY <2>2, <3>2, <3>3, <3>4, <3>5 DEF RootFits
  <2>3. CASE q # r
    <3>1. /\ roots'[q] = roots[q]
          /\ entry' = entry \/ (entry'.replays = entry.replays \ {r} /\ entry'.state = entry.state
               /\ entry'.gen = entry.gen /\ entry'.loss = entry.loss
               /\ entry'.recovery = entry.recovery)
      BY <1>14, <2>3 DEF Fail, EntryFits, Entry
    <3>2. runtimes'[roots[q].on].shown[q] = runtimes[roots[q].on].shown[q]
      BY <1>14, <2>1, <2>3 DEF Fail, RuntimesFit, Runtime, Handle
    <3>3. QED
      BY <2>1, <2>3, <3>1, <3>2, OthersFit
  <2>4. QED
    BY <2>2, <2>3
<1>15. ASSUME NEW r \in Roots, NEW task \in Tasks, Ask(r, task)
      PROVE  RootsFit'
  <2> SUFFICES ASSUME NEW q \in Roots
               PROVE  roots'[q] \in Handle /\ RootFits(q)'
    BY <1>15 DEF Ask, RootsFit
  <2>1. roots[q] \in Handle /\ RootFits(q)
    BY DEF RootsFit
  <2>2. CASE q = r
    <3>1. /\ roots'[q] = [roots[q] EXCEPT !.queue = Append(@, task)]
          /\ roots[q].in /\ ~roots[q].terminal
          /\ UNCHANGED <<entry, runtimes>>
      BY <1>15, <2>2 DEF Ask, RootsFit
    <3>2. Append(roots[q].queue, task) \in Seq(Tasks)
      BY <2>1 DEF Handle
    <3>3. QED
      BY <2>1, <3>1, <3>2 DEF Handle, RootFits, HandleFits, Hosted, Replayed, Rests
  <2>3. CASE q # r
    <3>1. roots'[q] = roots[q]
      BY <1>15, <2>3 DEF Ask
    <3>2. QED
      BY <1>15, <2>1, <3>1, OthersFit DEF Ask
  <2>4. QED
    BY <2>2, <2>3
<1>16. CASE Close
  <2>1. CASE Closes /\ entry.state \notin {"starting", "recovering"}
    <3>1. entry.state \in {"ready", "failed", "fallback"}
      BY <1>16, <2>1 DEF Close, EntryFits, Entry, ClosingFits
    <3>2. QED
      BY <2>1, <3>1, ClosesRoots
  <2>2. CASE ~(Closes /\ entry.state \notin {"starting", "recovering"})
    <3>1. /\ UNCHANGED <<runtimes, roots>>
          /\ entry' = [entry EXCEPT !.closing = "start"] \/ entry' = [entry EXCEPT !.closing = "recovery"]
      BY <1>16, <2>2 DEF Close, RecoveryAwaited
    <3>2. QED
      BY <3>1, FlagsFit DEF EntryFits, Entry
  <2>3. QED
    BY <2>1, <2>2
<1>17. CASE CloseAfterStart
  <2>1. CASE RecoveryAwaited
    BY <1>17, <2>1, FlagsFit DEF CloseAfterStart, EntryFits, Entry
  <2>2. CASE ~RecoveryAwaited
    <3>1. entry.state \in {"ready", "failed", "fallback"}
      BY <1>17, <2>2
      DEF CloseAfterStart, Started, RecoveryAwaited, EntryFits, Entry, Shape, ClosingFits
    <3>2. QED
      BY <1>17, <2>2, <3>1, ClosesRoots DEF CloseAfterStart
  <2>3. QED
    BY <2>1, <2>2
<1>18. CASE CloseAfterRecovery
  <2>1. entry.state \in {"ready", "failed", "fallback"}
    BY <1>18 DEF CloseAfterRecovery, EntryFits, Entry, Shape, ClosingFits
  <2>2. QED
    BY <1>18, <2>1, ClosesRoots DEF CloseAfterRecovery
<1>19. CASE ShutdownTimeout
  <2>1. /\ entry.state = "stopping" /\ entry.recovery = "none" /\ entry.replays = {}
        /\ entry'.state = "stopping" /\ entry'.recovery = "none" /\ entry'.replays = {}
        /\ UNCHANGED runtimes
    BY <1>19 DEF ShutdownTimeout, EntryFits, Entry, Shape, ClosingFits
  <2> SUFFICES ASSUME NEW q \in Roots
               PROVE  roots'[q] \in Handle /\ RootFits(q)'
    BY <1>19 DEF ShutdownTimeout, RootsFit
  <2>2. roots[q] \in Handle /\ RootFits(q)
    BY DEF RootsFit
  <2>3. CASE Task("drain") \in roots[q].call
    <3>1. roots'[q] = [roots[q] EXCEPT !.call = {}, !.state = "failed"]
      BY <1>19, <2>3 DEF ShutdownTimeout
    <3>2. QED
      BY <2>1, <2>2, <2>3, <3>1 DEF Handle, RootFits, HandleFits, Hosted, Replayed, Rests
  <2>4. CASE Task("drain") \notin roots[q].call
    <3>1. roots'[q] = roots[q]
      BY <1>19, <2>4 DEF ShutdownTimeout
    <3>2. QED
      BY <2>1, <2>2, <3>1 DEF RootFits, HandleFits, Hosted, Replayed, Rests
  <2>5. QED
    BY <2>3, <2>4
<1>20. CASE Drained
  <2>1. /\ roots' = StoppedRoots(roots) /\ entry'.state \in {"stopping", "stopped"}
        /\ entry'.recovery = "none" /\ entry'.replays = {}
    BY <1>20 DEF Drained, ShutDown, EntryFits, Entry, Shape, ClosingFits
  <2>2. QED
    BY <2>1, StoppedHandles, EndedFit
<1>21. CASE ShutdownEnds
  <2>1. /\ roots' = StoppedRoots(roots) /\ entry'.state = "stopped"
        /\ entry'.recovery = "none" /\ entry'.replays = {}
    BY <1>21 DEF ShutdownEnds, ShutDown, EntryFits, Entry, Shape, ClosingFits
  <2>2. QED
    BY <2>1, StoppedHandles, EndedFit
<1>22. CASE UNCHANGED vars
  BY <1>22 DEF vars, RootsFit, RootFits, HandleFits, Hosted, Replayed, Rests
<1>23. CASE OpenOrFallback
  BY <1>23, FlagsFit DEF OpenOrFallback, EntryFits, Entry
<1>24. QED
  BY <1>1, <1>2, <1>3, <1>4, <1>5, <1>6, <1>7, <1>8, <1>9, <1>10, <1>11, <1>12,
     <1>13, <1>14, <1>15, <1>16, <1>17, <1>18, <1>19, <1>20, <1>21, <1>22, <1>23
  DEF Next, Startup, Replacement, Answer, Closing, Tasks, Task
-----------------------------------------------------------------------------
(* The initial state. *)

\* A scope starts with nothing held, nothing given and no root.
LEMMA InitFits ==
  ASSUME Init
  PROVE  IInv
<1>1. <<>> \in Seq(Tasks) /\ None \in Shown /\ None \in Acknowledged
  BY DEF None, Shown, Acknowledged
<1>2. EntryFits
  BY Limits DEF Init, EntryFits, Entry, Shape, ClosingFits, Holding, Generations
<1>3. RuntimesFit
  BY <1>1 DEF Init, RuntimesFit, Runtime, Releases, Accounted
<1>4. RootsFit
  <2> SUFFICES ASSUME NEW r \in Roots
               PROVE  roots[r] \in Handle /\ RootFits(r)
    BY DEF Init, RootsFit
  <2>1. roots[r] = NoRoot /\ entry.replays = {}
    BY DEF Init
  <2>2. QED
    BY <1>1, <2>1 DEF NoRoot, Handle, RootFits, HandleFits, Hosted, Replayed, Rests
<1>5. QED
  BY <1>2, <1>3, <1>4 DEF IInv

-----------------------------------------------------------------------------
(* The theorems. *)

\* While nobody opens the scope as somebody else or after its close, every step keeps the
\* scope, its runtimes and its roots in order.
THEOREM ScopeInOrder ==
  ASSUME ~Contenders
  PROVE  Spec => []IInv
<1>1. Init => IInv
  BY InitFits
<1>2. IInv /\ [Next]_vars => IInv'
  <2> SUFFICES ASSUME IInv, [Next]_vars
               PROVE  IInv'
    OBVIOUS
  <2>1. EntryFits' /\ RuntimesFit' /\ RootsFit'
    BY EntryStep, RuntimesStep, RootsStep DEF IInv
  <2>2. QED
    BY <2>1 DEF IInv
<1>3. QED
  BY <1>1, <1>2, PTL DEF Spec

\* A runtime is released once the scope has ended, never twice, and never while a ready scope
\* uses it: #release on every path of #recoverEntry, #closeEntry and startup.
THEOREM RuntimesReleasedOnce ==
  ASSUME ~Contenders
  PROVE  Spec => []ReleasedOnce
<1>1. IInv => ReleasedOnce
  <2> SUFFICES ASSUME IInv, NEW g \in Generations
               PROVE  /\ runtimes[g].releases <= 1
                      /\ runtimes[g].given /\ entry.state \in {"failed", "fallback", "stopped"}
                           => runtimes[g].releases = 1
                      /\ entry.state = "ready" /\ g = entry.gen => runtimes[g].releases = 0
    BY DEF ReleasedOnce
  <2>1. runtimes[g].releases = IF runtimes[g].given /\ (entry.freed \/ g # entry.held) THEN 1 ELSE 0
    BY DEF IInv, RuntimesFit, Releases, Accounted
  <2>2. QED
    BY <2>1 DEF IInv, EntryFits, Holding
<1>2. QED
  BY <1>1, ScopeInOrder, PTL

\* A ready scope has all its roots on the runtime it holds, and one that ended has none in use,
\* whatever was lost or closed while a replacement took over.
THEOREM ReadyAsAWhole ==
  ASSUME ~Contenders
  PROVE  Spec => []ReadyIsWhole
<1>1. IInv => ReadyIsWhole
  <2> SUFFICES ASSUME IInv
               PROVE  TypeOK /\ NoPartialReady
    BY DEF ReadyIsWhole
  <2>1. TypeOK
    BY DEF IInv, EntryFits, RuntimesFit, RootsFit, TypeOK
  <2>2. \A r \in Roots : HandleFits(r) /\ Hosted(r)
    BY DEF IInv, RootsFit, RootFits
  <2>3. NoPartialReady
    BY <2>2 DEF IInv, EntryFits, Entry, Shape, HandleFits, Hosted, NoPartialReady
  <2>4. QED
    BY <2>1, <2>3
<1>2. QED
  BY <1>1, ScopeInOrder, PTL

\* What a root at rest says of itself is what its owner was told last and what the runtime
\* shows, before and after a replacement.
THEOREM RootsShowWhatWasAcknowledged ==
  ASSUME ~Contenders
  PROVE  Spec => []RootsAreShown
<1>1. IInv => RootsAreShown
  <2> SUFFICES ASSUME IInv, entry.state = "ready", NEW r \in Roots,
                      roots[r].in, roots[r].call = {},
                      roots[r].state \in {"registered", "ready", "disposed"}
               PROVE  /\ roots[r].state = roots[r].acked.state
                      /\ runtimes[entry.gen].shown[r] = roots[r].acked
    BY DEF RootsAreShown
  <2>1. Hosted(r) /\ Rests(r)
    BY DEF IInv, RootsFit, RootFits
  <2>2. ~roots[r].terminal /\ roots[r].on = entry.gen /\ r \notin entry.replays
    BY <2>1 DEF Hosted, IInv, EntryFits, Shape
  <2>3. QED
    BY <2>1, <2>2 DEF Rests
<1>2. QED
  BY <1>1, ScopeInOrder, PTL

\* Nothing that was under way when a scope was closed opens it again: neither a startup, nor a
\* recovery, nor another close can still be waiting.  The catch of an openOrFallback may be, and
\* makes a fallback of a scope that never ran.
THEOREM ClosedForGood ==
  ASSUME ~Contenders
  PROVE  Spec => ClosedIsFinal
<1>1. IInv /\ [Next]_vars => [StaysClosed]_vars
  <2> SUFFICES ASSUME IInv, Next, entry.closing = "done"
               PROVE  /\ entry'.closing = "done" /\ ~entry'.accepting
                      /\ \A g \in Generations : runtimes'[g].given = runtimes[g].given
                      /\ entry'.state = "stopped" \/ (~entry.scope /\ entry'.state = "fallback")
    BY DEF StaysClosed
  <2>1. /\ ~entry.booting /\ ~entry.accepting /\ entry.recovery = "none" /\ entry.replays = {}
        /\ entry.state = "stopped" \/ (~entry.scope /\ entry.state = "fallback")
        /\ entry \in Entry /\ runtimes \in [Generations -> Runtime]
    BY DEF IInv, EntryFits, RuntimesFit, Entry, Shape, ClosingFits
  <2>2. /\ \A safe \in BOOLEAN : ~Open(safe)
        /\ ~OpenOrFallback /\ ~Startup /\ ~Replacement /\ ~RecoveryFails
        /\ ~RecoveryCompletes /\ ~Close /\ ~Closing
    BY <2>1 DEF Open, OpenOrFallback, Startup, StartFails, StartReady, Replacement,
         ReplacementFails, ReplacementReady, RecoveryFails, RecoveryCompletes, Close, Closing,
         CloseAfterStart, CloseAfterRecovery, ShutdownTimeout, Drained, ShutdownEnds
  <2>3. \A retryable \in BOOLEAN : ~ReportLoss(retryable)
    BY <2>1 DEF ReportLoss
  <2>4. CASE entry' = entry /\ \A g \in Generations : runtimes'[g].given = runtimes[g].given
    BY <2>1, <2>4
  <2>5. CASE FallBack
    BY <2>1, <2>5 DEF FallBack, Entry, IInv, EntryFits, Shape
  <2>6. ASSUME NEW g \in Generations, Lose(g)
        PROVE  entry' = entry /\ \A k \in Generations : runtimes'[k].given = runtimes[k].given
    BY <2>1, <2>6 DEF Lose, Runtime
  <2>7. ASSUME NEW r \in Roots, Answer(r)
        PROVE  entry' = entry /\ \A g \in Generations : runtimes'[g].given = runtimes[g].given
    <3>1. r \notin entry.replays
      BY <2>1
    <3>2. CASE Acknowledge(r)
      <4>1. PICK task \in roots[r].call :
              /\ runtimes' = [runtimes EXCEPT ![roots[r].on].shown[r] = Outcome(task)]
              /\ entry' = entry \/ entry' = [entry EXCEPT !.replays = @ \ {r}]
        BY <3>2 DEF Acknowledge
      <4>2. entry' = entry
        BY <2>1, <3>1, <4>1 DEF Entry
      <4>3. \A g \in Generations : runtimes'[g].given = runtimes[g].given
        BY <2>1, <4>1 DEF Runtime
      <4>4. QED
        BY <4>2, <4>3
    <3>3. ASSUME NEW done \in BOOLEAN, Fail(r, done)
          PROVE  entry' = entry /\ \A g \in Generations : runtimes'[g].given = runtimes[g].given
      <4>1. PICK task \in roots[r].call :
              /\ \/ runtimes' = runtimes
                 \/ runtimes' = [runtimes EXCEPT ![roots[r].on].shown[r] = Outcome(task)]
              /\ entry' = entry
        BY <3>1, <3>3 DEF Fail
      <4>2. QED
        BY <2>1, <4>1 DEF Runtime
    <3>4. QED
      BY <2>7, <3>2, <3>3 DEF Answer
  <2>8. QED
    BY <2>1, <2>2, <2>3, <2>4, <2>5, <2>6, <2>7 DEF Next, Register, Begin, Ask
<1>2. QED
  BY <1>1, ScopeInOrder, PTL DEF Spec, ClosedIsFinal

=============================================================================
