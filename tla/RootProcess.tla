----------------------------- MODULE RootProcess -----------------------------
(***************************************************************************)
(* The coordinator of one root (root_process.ex), a GenServer: it owns the *)
(* accepted candidate, submits one correlated transaction at a time to the *)
(* renderer, promotes a candidate only on the exact commit acknowledgement *)
(* and, when a scheduling policy is configured, runs admitted work in FIFO *)
(* order with reserved follow-ups and owned timers.                        *)
(*                                                                         *)
(* One action is one handle_call or handle_info: the handler, then settle, *)
(* as the source runs them.  `root' is the GenServer's state together with *)
(* what it told the host; `renderer' stands for the renderer port, which   *)
(* answers, commits and acknowledges in its own time.  The action runtime  *)
(* and the recovery configuration are nil here: ActionRoot and the plan's  *)
(* recovery modules model them.                                            *)
(***************************************************************************)
EXTENDS Integers, RootSchedule, RootTimers

CONSTANTS
  Modes,        (* subset of BOOLEAN: with and without a scheduling policy        *)
  Components,   (* component identities, each with its schema digest              *)
  TimerIds,     (* names of timers                                                *)
  Names,        (* names of events, messages and updates                          *)
  Producers,    (* declared producers of external work                            *)
  Envelopes,    (* the items external producers may send, without receipt         *)
  Plans,        (* what the evaluator may prepare: [comps, messages, timers]      *)
  MaxAttempt,   (* bound: no new replacement or stop once attempt reached it      *)
  MaxGeneration (* bound: no replacement of the last generation                   *)

VARIABLES
  root,         (* the coordinator's state                                        *)
  renderer      (* the renderer port                                              *)

vars == <<root, renderer>>

Internals == {"component"}

Item == [receipt : Nat, class : Classes, kind : Kinds, producer : Producers \cup Internals,
         source : Components, target : Components, gen : Nat, sup : BOOLEAN, name : Names,
         id : TimerIds, repeat : BOOLEAN, epoch : Nat, tick : Nat]

Operations == {"none", "mount", "update", "replace", "dispose"}

Correlation == [gen : Nat, rev : Nat, seq : Nat, op : Operations]

NoCorrelation == [gen |-> 0, rev |-> 0, seq |-> 0, op |-> "none"]

Candidate == [corr : Correlation, comps : SUBSET Components]

NoCandidate == [corr |-> NoCorrelation, comps |-> {}]

(* evaluating is only seen inside a handler; broken is the exit of the process on a match
   that does not hold, which the guardian turns into a crash. *)
Statuses == {"starting", "evaluating", "awaiting_commit", "ready", "stopping",
             "disposed", "failed", "broken"}

Terminal == {"disposed", "failed", "broken"}

ASSUME RootAssumption ==
  /\ Modes \subseteq BOOLEAN
  /\ Envelopes \subseteq Item
  /\ \A e \in Envelopes :
       /\ e.producer \in Producers /\ e.kind # "timer_tick"
       /\ IsControl(e) => ~e.sup
  /\ Plans \subseteq [comps : SUBSET Components, messages : Seq(Item), timers : Seq(Item)]
  /\ \A plan \in Plans :
       /\ \A k \in DOMAIN plan.messages :
            plan.messages[k].kind = "message" /\ plan.messages[k].class = "message"
       /\ \A k \in DOMAIN plan.timers : IsControl(plan.timers[k]) /\ ~plan.timers[k].sup
  /\ {MaxAttempt, MaxGeneration} \subseteq Nat

TimerKeys == Components \X TimerIds

TimerEntry == [item : Item, epoch : Nat, tick : Nat, status : {"waiting", "firing"}]

RootState(s) ==
  /\ DOMAIN s.entries \subseteq TimerKeys
  /\ s.entries \in [DOMAIN s.entries -> TimerEntry]
  /\ s \in [scheduled : BOOLEAN,         status : Statuses,
             accepted : Candidate,        pending : Candidate,
             attempt : Nat,               activeCorr : Correlation,
             messages : Seq(Item),        timers : Seq(Item),
             queue : SUBSET Item,         active : SUBSET Item,
             reserved : Nat,              slots : Nat,
             receipt : 0 .. MaxReceipt,   producers : [Producers -> Nat],
             entries : {s.entries},       serial : Nat,
             drain : BOOLEAN,             outcomes : [Receipts -> Nat],
             reported : SUBSET Nat,       published : SUBSET Nat,
             retired : [1 .. MaxGeneration -> Nat]]

RendererState ==
  [tx : Correlation, phase : {"idle", "open", "committed"},
   shown : Correlation, prev : Correlation,
   acks : SUBSET [corr : Correlation, result : {"committed", "rejected"}]]

-----------------------------------------------------------------------------
(* Derived state. *)

Accepted(s) == s.accepted # NoCandidate

Pending(s) == s.pending # NoCandidate

Live(s) == s.queue \cup s.active

ReceiptsOf(items) == {i.receipt : i \in items}

Deliverable(s, item) ==
  /\ Accepted(s)
  /\ ValidDispatch(item, s.accepted.corr.gen, s.accepted.comps)

-----------------------------------------------------------------------------
(* outcome/4: the host and the guardian hear of each of these items. *)

Outcome(s, items) ==
  [s EXCEPT !.outcomes = [r \in Receipts |-> IF r \in ReceiptsOf(items) THEN @[r] + 1 ELSE @[r]]]

(* Mutant: closing forgets the item being evaluated. *)
MutantCloseSchedule(s) ==
  IF ~s.scheduled
  THEN s
  ELSE [Finish(Outcome(s, s.queue)) EXCEPT
          !.queue = {}, !.slots = 0, !.activeCorr = NoCorrelation,
          !.messages = <<>>, !.timers = <<>>, !.entries = [k \in {} |-> 0]]

(* close_schedule/2: everything admitted is cancelled, every timer is dropped. *)
CloseSchedule(s) ==
  IF ~s.scheduled
  THEN s
  ELSE [Finish(Outcome(s, Live(s))) EXCEPT
          !.queue = {}, !.slots = 0, !.activeCorr = NoCorrelation,
          !.messages = <<>>, !.timers = <<>>, !.entries = [k \in {} |-> 0]]

Failed(s) == [s EXCEPT !.pending = NoCandidate, !.status = "failed"]

Rejected(s) ==
  IF ~Accepted(s) \/ s.status = "stopping"
  THEN Failed(s)
  ELSE [s EXCEPT !.pending = NoCandidate, !.status = "ready"]

(* Mutant: a cancellation nobody confirmed is taken for one. *)
MutantAbandon(s, cancelled) == Rejected(s)

(* abandon/2: only a confirmed cancellation lets the root go on. *)
Abandon(s, cancelled) == IF cancelled THEN Rejected(s) ELSE Failed(s)

(* submit/5 of a candidate, or of a disposal when the root is stopping.  An answer is
   the port's: "ok", or a refusal whose cancellation succeeds or not. *)
Answers == {"ok", "refused", "lost"}

Submit(s, candidate, stopping, answer) ==
  LET submitted == [s EXCEPT !.pending = candidate,
                             !.status  = IF stopping THEN "stopping" ELSE "awaiting_commit"]
  IN  IF answer = "ok" THEN submitted ELSE Abandon(submitted, answer = "refused")

-----------------------------------------------------------------------------
(* begin/4: evaluate and submit one transition. *)

NextCorrelation(s, op) ==
  [gen |-> (IF Accepted(s) THEN s.accepted.corr.gen ELSE 1) + (IF op = "replace" THEN 1 ELSE 0),
   rev |-> IF op = "replace" THEN 1 ELSE s.accepted.corr.rev + 1,
   seq |-> s.attempt + 1,
   op  |-> op]

(* The follow-up messages and the timer intents of a plan, stamped with the candidate's
   generation.  The source keeps them in one list; a message and a timer intent commute, so
   two sequences say the same. *)
Stamped(intents, corr) == [k \in DOMAIN intents |-> [intents[k] EXCEPT !.gen = corr.gen]]

(* normalize/4: the intents belong to the candidate's tree and are not too many.  What each of
   them looks like is the type of Plans. *)
Normalized(plan) ==
  /\ \A intents \in {plan.messages, plan.timers} : \A k \in DOMAIN intents :
       {intents[k].source, intents[k].target} \subseteq plan.comps
  /\ Len(plan.messages) + Len(plan.timers) <= IntentLimit

(* Queue and timers have room for them. *)
Reservable(s, plan, corr) ==
  /\ Normalized(plan)
  /\ Preflight(s, Stamped(plan.timers, corr))
  /\ ReserveFits(s, Len(plan.messages))

(* A lifecycle transition: mount, replace, or the update of an unscheduled root. *)
Begin(s, op, plan, prepared, answer) ==
  LET corr  == NextCorrelation(s, op)
      tried == [s EXCEPT !.attempt = corr.seq, !.status = "evaluating"]
  IN  IF prepared
      THEN Submit(tried, [corr |-> corr, comps |-> plan.comps], FALSE, answer)
      ELSE Rejected(tried)

(* The transition of the active work item. *)
BeginWork(s, plan, prepared, answer) ==
  LET corr  == NextCorrelation(s, "update")
      tried == [s EXCEPT !.attempt = corr.seq, !.status = "evaluating", !.activeCorr = corr]
  IN  IF prepared /\ Reservable(s, plan, corr)
      THEN Submit([tried EXCEPT !.reserved = Len(plan.messages),
                                !.messages = Stamped(plan.messages, corr),
                                !.timers   = Stamped(plan.timers, corr)],
                  [corr |-> corr, comps |-> plan.comps], FALSE, answer)
      ELSE Rejected(tried)

-----------------------------------------------------------------------------
(* settle/1: what every handler ends with on a scheduled root. *)

CommitFits(s, messages, timers) == AppendFits(s, messages) /\ Preflight(s, timers)

(* apply_intents/2: the follow-ups of a committed candidate. *)
ApplyIntents(s, messages, timers) ==
  IF CommitFits(s, messages, timers)
  THEN AppliedTimers(Appended(s, messages), timers)
  ELSE [s EXCEPT !.status = "broken"]

(* Mutant: any later candidate of the generation counts as the active item's. *)
MutantActiveCommitted(s) == Accepted(s) /\ s.accepted.corr.gen = s.activeCorr.gen

ActiveCommitted(s) == Accepted(s) /\ s.accepted.corr = s.activeCorr

SettleActive(s) ==
  IF Pending(s) \/ s.active = {}
  THEN s
  ELSE LET item     == CHOOSE i \in s.active : TRUE
           finished == FinishedTick(Finish(Outcome(s, s.active)), item)
           applied  == IF ActiveCommitted(s) /\ s.status = "ready"
                       THEN ApplyIntents(finished, s.messages, s.timers)
                       ELSE finished
       IN  [applied EXCEPT !.activeCorr = NoCorrelation,
                           !.messages   = <<>>,
                           !.timers     = <<>>,
                           !.reported   = IF ActiveCommitted(s) THEN @ \cup ReceiptsOf(s.active)
                                                                ELSE @]

(* Timers and queued work whose owner, target or registration is gone are cancelled. *)
Prune(s) ==
  IF ~Accepted(s)
  THEN s
  ELSE LET timed == Cancelled(s, {k \in DOMAIN s.entries : ~Deliverable(s, s.entries[k].item)})
           gone  == {i \in s.queue : ~Deliverable(s, i) \/ ~ValidTick(timed, i)}
       IN  [Outcome(timed, gone) EXCEPT !.queue = @ \ gone]

(* Mutant: a terminal root keeps what was queued. *)
MutantSettle(s) ==
  IF ~s.scheduled
  THEN s
  ELSE LET done == Prune(SettleActive(s))
       IN  IF done.status = "ready" /\ ~Pending(done) /\ done.queue # {}
           THEN [done EXCEPT !.drain = TRUE]
           ELSE done

Settle(s) ==
  IF ~s.scheduled
  THEN s
  ELSE LET done == Prune(SettleActive(s))
       IN  CASE done.status \in {"disposed", "failed"} -> CloseSchedule(done)
             [] done.status = "ready" /\ ~Pending(done) /\ done.queue # {} ->
                  [done EXCEPT !.drain = TRUE]
             [] OTHER -> done

-----------------------------------------------------------------------------
(* committed/1: promote the pending candidate, then dispose what it replaced. *)

Retire(s, generation) == [s EXCEPT !.retired[generation] = @ + 1]

Disposed(s, cleaned) ==
  LET next == IF Accepted(s) THEN Retire(s, s.accepted.corr.gen) ELSE s
  IN  IF cleaned \/ ~Accepted(s)
      THEN [next EXCEPT !.pending = NoCandidate, !.status = "disposed"]
      ELSE Failed(next)

(* Mutant: the cleanup of a replacement is given the candidate that replaces. *)
MutantPromoted(s, cleaned) ==
  LET replaced == Accepted(s) /\ s.pending.corr.op = "replace"
      next     == [(IF replaced THEN Retire(s, s.pending.corr.gen) ELSE s) EXCEPT
                     !.accepted = s.pending, !.pending = NoCandidate, !.status = "ready",
                     !.published = @ \cup ReceiptsOf(s.active)]
  IN  IF replaced /\ ~cleaned THEN Failed(next) ELSE next

Promoted(s, cleaned) ==
  LET replaced == Accepted(s) /\ s.pending.corr.op = "replace"
      cleans   == replaced \/ (s.scheduled /\ Accepted(s))
      next     == [(IF replaced THEN Retire(s, s.accepted.corr.gen) ELSE s) EXCEPT
                     !.accepted = s.pending, !.pending = NoCandidate, !.status = "ready",
                     !.published = @ \cup ReceiptsOf(s.active)]
  IN  IF cleans /\ ~cleaned THEN Failed(next) ELSE next

Committed(s, cleaned) ==
  IF s.status = "stopping" THEN Disposed(s, cleaned) ELSE Promoted(s, cleaned)

-----------------------------------------------------------------------------
(* cancel_owned/2: an admitted cancellation reaches the timer wherever it is: queued as
   a start or a tick, registered, being dispatched, or among the candidate's intents, where
   a dropped start keeps its place as void. *)
CancelOwned(s, item, cancelled) ==
  LET key     == Key(item)
      owned   == {i \in s.queue : i.kind \in {"timer_start", "timer_tick"} /\ Key(i) = key}
      dropped == [Cancelled(Outcome(s, owned), {key}) EXCEPT
                    !.queue  = @ \ owned,
                    !.timers = [k \in DOMAIN @ |-> IF @[k].kind = "timer_start" /\ Key(@[k]) = key
                                                   THEN [@[k] EXCEPT !.kind = "void"]
                                                   ELSE @[k]]]
      ticking == \E i \in s.active : i.kind = "timer_tick" /\ Key(i) = key
      stopped == [Finish(Outcome(dropped, s.active)) EXCEPT
                    !.activeCorr = NoCorrelation, !.messages = <<>>, !.timers = <<>>]
      next    == CASE ~ticking -> dropped
                   [] ticking /\ Pending(s) -> Abandon(stopped, cancelled)
                   [] OTHER -> stopped
  IN  Outcome(next, {item})

-----------------------------------------------------------------------------
(* The renderer port.  It holds one transaction, commits or rejects it when it likes and
   acknowledges what it did; acknowledgements may be lost, late and repeated.  Bound:
   only the newest answer to an earlier transaction stays deliverable. *)

SubmitTo(r, corr) ==
  [r EXCEPT !.tx = corr, !.phase = "open",
            !.acks = {a \in @ : \A b \in @ : b.corr.seq <= a.corr.seq}]

(* A confirmed cancellation leaves the candidate nowhere on the display. *)
CancelTx(r) ==
  [r EXCEPT !.tx = NoCorrelation, !.phase = "idle",
            !.shown = IF r.phase = "committed" THEN r.prev ELSE @]

(* What the handler that took s to t did to the port. *)
Ported(r, s, t, cancels) ==
  LET freed == IF cancels THEN CancelTx(r) ELSE r
  IN  IF Pending(t) /\ t.pending # s.pending THEN SubmitTo(freed, t.pending.corr) ELSE freed

RendererCommit ==
  /\ renderer.phase = "open"
  /\ renderer' = [renderer EXCEPT
                    !.phase = "committed",
                    !.prev  = renderer.shown,
                    !.shown = IF renderer.tx.op = "dispose" THEN NoCorrelation ELSE renderer.tx,
                    !.acks  = @ \cup {[corr |-> renderer.tx, result |-> "committed"]}]
  /\ UNCHANGED root

RendererReject ==
  /\ renderer.phase = "open"
  /\ renderer' = [renderer EXCEPT
                    !.phase = "idle", !.tx = NoCorrelation,
                    !.acks  = @ \cup {[corr |-> renderer.tx, result |-> "rejected"]}]
  /\ UNCHANGED root

-----------------------------------------------------------------------------
(* Handlers of the process's own messages. *)

Running == root.status \notin Terminal \cup {"starting"}

Boot ==
  /\ root.status = "starting"
  /\ \E plan \in Plans, prepared \in BOOLEAN, answer \in Answers :
       root' = Settle(Begin(root, "mount", plan, prepared, answer))
  /\ renderer' = Ported(renderer, root, root', FALSE)

(* A deadline counts only for the transaction that armed it; the message of an earlier
   transaction may still be in the mailbox when it is handled. *)
Deadline(seq) ==
  /\ Running
  /\ Pending(root) /\ root.pending.corr.seq = seq
  /\ \E cancelled \in BOOLEAN :
       /\ root' = Settle(Abandon(root, cancelled))
       /\ renderer' = IF cancelled THEN CancelTx(renderer) ELSE renderer

Drains == Running /\ root.drain

Selected == [Select(root) EXCEPT !.drain = FALSE]

Dispatchable(item) == Deliverable(root, item) /\ ValidTick(root, item)

(* A drain that finds the root busy or the queue empty. *)
DrainNothing ==
  /\ Drains
  /\ root.status # "ready" \/ Pending(root) \/ root.queue = {}
  /\ root' = [root EXCEPT !.drain = FALSE]
  /\ UNCHANGED renderer

CanDrain == Drains /\ root.status = "ready" /\ ~Pending(root) /\ root.queue # {}

(* Mutant: the next drain is not asked for. *)
MutantDrainRefused ==
  /\ CanDrain
  /\ LET item == Oldest(root.queue) IN
       root' = FinishedTick(Finish(Outcome(Selected, {item})), item)
  /\ UNCHANGED renderer

(* The oldest item is refused at dispatch: its target is gone, or the evaluator says so. *)
DrainRefused ==
  /\ CanDrain
  /\ LET item == Oldest(root.queue) IN
       root' = [FinishedTick(Finish(Outcome(Selected, {item})), item) EXCEPT !.drain = TRUE]
  /\ UNCHANGED renderer

(* timer_control/2 of a queued registration. *)
DrainTimerStart ==
  /\ CanDrain
  /\ LET item == Oldest(root.queue) IN
       /\ Dispatchable(item)
       /\ item.kind = "timer_start"
       /\ root' = Settle(Finish(Outcome(
                    IF Preflight(Selected, <<item>>) THEN AppliedTimers(Selected, <<item>>)
                                                     ELSE Selected, {item})))
  /\ UNCHANGED renderer

DrainWork ==
  /\ CanDrain
  /\ LET item == Oldest(root.queue) IN
       /\ Dispatchable(item)
       /\ item.kind # "timer_start"
       /\ \E plan \in Plans, prepared \in BOOLEAN, answer \in Answers :
            root' = Settle(BeginWork(Selected, plan, prepared, answer))
  /\ renderer' = Ported(renderer, root, root', FALSE)

(* An owned tick: queued when the budgets allow, otherwise finished as overload. *)
OwnedTick(key, epoch, tick) ==
  /\ root.scheduled /\ Running
  /\ Wakes(root, key, epoch, tick)
  /\ LET item == TickItem(root, key) IN
       root' = Settle(
         CASE ~Deliverable(root, root.entries[key].item) \/ tick + 1 > MaxTick ->
                Cancelled(root, {key})
           [] InternalFits(root, item) -> Internal(Fired(root, key), item)
           [] OTHER -> FinishedTick(Fired(root, key), item))
  /\ UNCHANGED renderer

-----------------------------------------------------------------------------
(* Handlers of the calls the guardian forwards. *)

Ack(ack, cleaned) ==
  /\ Running
  /\ Pending(root) /\ ack.corr = root.pending.corr
  /\ root' = Settle(IF ack.result = "committed" THEN Committed(root, cleaned) ELSE Rejected(root))
  /\ UNCHANGED renderer

Enqueue(template, generation, revision, sequence, cancelled) ==
  LET item     == [template EXCEPT !.gen = generation]
      received == [item EXCEPT !.receipt = root.receipt + 1]
      envelope == [item |-> item, rev |-> revision, sequence |-> sequence]
      admitted == Outcome(Admitted(root, envelope),
                          IF item.kind = "timer_cancel" THEN {} ELSE Superseded(root, item))
      next     == IF item.kind = "timer_cancel" THEN CancelOwned(admitted, received, cancelled)
                                                ELSE admitted
  IN  /\ root.scheduled
      /\ root.status \in {"ready", "awaiting_commit"} /\ Accepted(root)
      /\ Admissible(root, envelope, root.accepted.corr.gen, root.accepted.corr.rev,
                    root.accepted.comps)
      /\ root' = Settle([next EXCEPT !.drain = TRUE])
      /\ renderer' = Ported(renderer, root, root',
                            cancelled /\ Pending(root) /\ ~Pending(root'))

(* Props and slots of an unscheduled root; a busy root refuses.  MaxAttempt and MaxGeneration
   end the exploration here, in Replace and in Stop: there a root that has used up the safe
   integers first closes its schedule and cancels its candidate, and is then refused its
   correlation. *)
Update(plan, prepared, answer) ==
  /\ ~root.scheduled
  /\ root.status = "ready" /\ root.attempt < MaxAttempt
  /\ root' = Begin(root, "update", plan, prepared, answer)
  /\ renderer' = Ported(renderer, root, root', FALSE)

Replaceable == IF root.scheduled THEN Running /\ Accepted(root) ELSE root.status = "ready"

Replace(plan, prepared, answer, cancelled) ==
  /\ Replaceable
  /\ root.attempt < MaxAttempt /\ root.accepted.corr.gen < MaxGeneration
  /\ LET closed == CloseSchedule(root) IN
       root' = Settle(IF Pending(root) /\ ~cancelled
                      THEN Failed(closed)
                      ELSE Begin([closed EXCEPT !.pending = NoCandidate], "replace", plan,
                                 prepared, answer))
  /\ renderer' = Ported(renderer, root, root', cancelled /\ Pending(root))

Stop(answer, cancelled) ==
  /\ Running
  /\ root.status # "stopping" /\ root.attempt < MaxAttempt
  /\ LET closed == CloseSchedule(root)
         old    == IF Accepted(root) THEN root.accepted.corr ELSE [NoCorrelation EXCEPT !.gen = 1, !.rev = 1]
         corr   == [old EXCEPT !.seq = root.attempt + 1, !.op = "dispose"]
     IN root' = Settle(IF Pending(root) /\ ~cancelled
                       THEN Failed(closed)
                       ELSE Submit([closed EXCEPT !.status = "stopping", !.attempt = corr.seq],
                                   [corr |-> corr, comps |-> {}], TRUE, answer))
  /\ renderer' = Ported(renderer, root, root', cancelled /\ Pending(root))

RuntimeLoss(cancelled) ==
  /\ root.scheduled /\ Running
  /\ root' = Settle(Failed(CloseSchedule(root)))
  /\ renderer' = Ported(renderer, root, root', cancelled /\ Pending(root))

-----------------------------------------------------------------------------
Init ==
  /\ \E scheduled \in Modes :
      root = [scheduled |-> scheduled, status |-> "starting", accepted |-> NoCandidate, pending |-> NoCandidate,
              attempt |-> 0, activeCorr |-> NoCorrelation, messages |-> <<>>, timers |-> <<>>,
              queue |-> {}, active |-> {}, reserved |-> 0, slots |-> 0, receipt |-> 0,
              producers |-> [p \in Producers |-> 0],
              entries |-> [k \in {} |-> 0], serial |-> 0, drain |-> FALSE,
              outcomes |-> [r \in Receipts |-> 0], reported |-> {}, published |-> {},
              retired |-> [g \in 1 .. MaxGeneration |-> 0]]
  /\ renderer = [tx |-> NoCorrelation, phase |-> "idle", shown |-> NoCorrelation,
                 prev |-> NoCorrelation, acks |-> {}]

Drain == DrainNothing \/ DrainRefused \/ DrainTimerStart \/ DrainWork

Calls ==
  \/ \E ack \in renderer.acks, cleaned \in BOOLEAN : Ack(ack, cleaned)
  \/ \E template \in Envelopes, cancelled \in BOOLEAN :
       \E generation \in {root.accepted.corr.gen, root.accepted.corr.gen - 1},
          revision   \in {root.accepted.corr.rev, root.accepted.corr.rev - 1},
          sequence   \in {root.producers[template.producer], root.producers[template.producer] + 1} :
         Enqueue(template, generation, revision, sequence, cancelled)
  \/ \E plan \in Plans, prepared \in BOOLEAN, answer \in Answers : Update(plan, prepared, answer)
  \/ \E plan \in Plans, prepared \in BOOLEAN, answer \in Answers, cancelled \in BOOLEAN :
       Replace(plan, prepared, answer, cancelled)
  \/ \E answer \in Answers, cancelled \in BOOLEAN : Stop(answer, cancelled)
  \/ \E cancelled \in BOOLEAN : RuntimeLoss(cancelled)

Next ==
  \/ Boot
  \/ \E seq \in 1 .. root.attempt : Deadline(seq)
  \/ Drain
  \/ \E key \in DOMAIN root.entries :
       \E epoch \in 1 .. root.serial, tick \in 0 .. root.entries[key].tick :
         OwnedTick(key, epoch, tick)
  \/ Calls
  \/ RendererCommit
  \/ RendererReject

Spec == Init /\ [][Next]_vars

-----------------------------------------------------------------------------
(* Fairness: the process handles its mailbox, and an armed deadline comes due.  Nothing is
   assumed of the renderer, the evaluator or the callers. *)

FairSpec ==
  /\ Spec
  /\ WF_vars(Boot)
  /\ WF_vars(Drain)
  /\ WF_vars(\E seq \in 1 .. root.attempt : Deadline(seq))

-----------------------------------------------------------------------------
(* Properties. *)

(* The coordinator's state and the renderer port have their types: in particular no receipt
   beyond the counter's last safe integer is ever handed out. *)
TypeOK == RootState(root) /\ renderer \in RendererState

(* Every admitted receipt has exactly one terminal outcome once it is neither queued nor
   active, and none before: whatever mix of coalescing, dispatch, timer cancellation,
   pruning and closing it met. *)
ExactlyOneOutcome ==
  /\ \A r \in Receipts :
       root.outcomes[r] = IF r <= root.receipt /\ r \notin ReceiptsOf(Live(root)) THEN 1 ELSE 0
  /\ \A i, j \in Live(root) : i.receipt = j.receipt => i = j

(* The total and the per-class budgets hold between any two handlers. *)
WithinBudget == Within(root)

(* What was reserved before submission still fits when the commit arrives, whatever was
   admitted, woken or cancelled in between: the matches of apply_intents never fail. *)
ReservationHolds == root.status # "broken"

(* No interleaving of handlers overdraws the queue, neither now nor when the work that was
   reserved for a candidate is admitted (within_budget, apply_intents). *)
BudgetsHold == WithinBudget /\ ReservationHolds

(* A ready root shows exactly its accepted candidate; a busy one shows that or the candidate
   whose acknowledgement is on its way; and the port holds no open transaction the running
   root does not wait for.  Late, lost and repeated acknowledgements do not disturb this. *)
RendererAgreement ==
  Running =>
    /\ \/ renderer.shown = root.accepted.corr
       \/ /\ Pending(root)
          /\ renderer.shown = IF root.pending.corr.op = "dispose" THEN NoCorrelation
                                                                  ELSE root.pending.corr
    /\ renderer.phase = "open" => root.pending.corr = renderer.tx

(* Work is reported committed exactly when its candidate became the accepted one. *)
CommittedMeansAccepted == root.reported = root.published

(* Coordinator, renderer and caller agree on the accepted tree (await_commit, accept, outcome). *)
ShownIsCommitted == RendererAgreement /\ CommittedMeansAccepted

(* A timer waits for its wake-up or has exactly one tick queued or running, never both and
   never neither: a repeating timer cannot stall or burst. *)
OneWakePerTimer ==
  root.status # "broken" =>
  /\ \A key \in DOMAIN root.entries :
       Cardinality({i \in Live(root) : i.kind = "timer_tick" /\ Key(i) = key})
         = IF root.entries[key].status = "firing" THEN 1 ELSE 0
  /\ \A i \in Live(root) : ValidTick(root, i)

(* Each generation is cleaned up at most once, never while it is the accepted one of a
   running root, and a disposed root has cleaned all of them up. *)
RetiredOnce ==
  \A g \in 1 .. MaxGeneration :
    /\ root.retired[g] <= 1
    /\ root.retired[g] = 1 /\ Running => g < root.accepted.corr.gen
    /\ root.status = "disposed" /\ g <= root.accepted.corr.gen => root.retired[g] = 1

(* A stopping root ends disposed or failed: it never goes back to work. *)
StoppingIsFinal ==
  [][root.status = "stopping" => root'.status \in {"stopping", "disposed", "failed"}]_vars

(* When a candidate that cancels a timer commits, no registration of that timer admitted
   before is left in the queue. *)
CancelRemovesEarlierStarts ==
  [][\A k \in DOMAIN root.timers :
       root.timers[k].kind = "timer_cancel" /\ root'.reported # root.reported =>
         \A i \in root'.queue :
           ~(i.kind = "timer_start" /\ Key(i) = Key(root.timers[k]) /\ i.receipt <= root.receipt)]_vars

(* Admitted work is eventually resolved: a lost acknowledgement, a busy root or a stream of
   later work cannot keep it waiting for ever. *)
AdmittedIsResolved ==
  \A r \in Receipts : r \in ReceiptsOf(Live(root)) ~> root.outcomes[r] >= 1

(* The coordinator implements the contract of a root: see RootContract. *)
Contract ==
  INSTANCE RootContract WITH
    version  <- <<root.accepted.corr.gen, root.accepted.corr.rev>>,
    attempt  <- root.attempt,
    open     <- Pending(root),
    receipt  <- root.receipt,
    resolved <- {r \in Receipts : root.outcomes[r] >= 1},
    closed   <- root.status \in {"disposed", "failed"}

ImplementsContract == Contract!Spec

=============================================================================
