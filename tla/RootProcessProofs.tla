--------------------------- MODULE RootProcessProofs ---------------------------
(***************************************************************************)
(* RootProcess for every value of its constants: its type invariant, the   *)
(* accounts of its receipts, its budgets and wake-ups, the accepted tree,  *)
(* and that the process implements its contract.  One section for each.    *)
(*                                                                         *)
(* Types: one lemma per operator the handlers are built from says that it  *)
(* keeps the coordinator's state well typed; NextType puts them together,  *)
(* one step per handler.                                                   *)
(*                                                                         *)
(* That every receipt has exactly one outcome is not inductive: it says    *)
(* nothing of which item runs, and inside a handler an item may have left  *)
(* the queue before its outcome is told, or a cancellation have a receipt  *)
(* and no item.  Ledger names the receipts owed an outcome at such a       *)
(* point; between handlers none is, and nothing is active without a        *)
(* pending transaction (Quiet), so selecting the next item never           *)
(* overwrites one.                                                         *)
(*                                                                         *)
(* Budgets.  A commit applies the follow-ups of the candidate and crashes  *)
(* the root if they do not fit.  Promised says what a root owes to the     *)
(* candidate in flight at any point of a handler: its messages are as many *)
(* as are reserved, a receipt is left for each, and its timer intents pass *)
(* the preflight they passed when it was submitted.  Handlers mostly leave *)
(* the schedule alone (SameWork) or take away from it (Fewer); the lemmas  *)
(* about admission, wake-ups and follow-ups are where it grows.            *)
(*                                                                         *)
(* Wake-ups.  Inside a handler a queued tick may be of a timer that was    *)
(* cancelled, and a timer may belong to a tree that was replaced: settle/1 *)
(* prunes them.  Ticking says what holds even then, above all that a       *)
(* firing timer still has its tick; Punctual what holds between handlers.  *)
(*                                                                         *)
(* The tree.  What the port shows says nothing by itself of what the root  *)
(* accepted: an answer may be late, lost or repeated.  The invariant       *)
(* TreeInv adds what makes it inductive: the pending candidate follows the *)
(* accepted one and is the last transition tried (Awaited), so an answer   *)
(* that names it is about what the port holds (Agrees); the active item is *)
(* the pending candidate's (Told), so its outcome can be told by comparing *)
(* versions; and the generations before the accepted one are cleaned up    *)
(* (CleanedUp).                                                            *)
(***************************************************************************)
EXTENDS RootProcess, TLAPS, FiniteSetTheorems, WellFoundedInduction

-----------------------------------------------------------------------------
(* Types. *)

(* The sentinels for "no transaction" and "no candidate" have their types. *)
LEMMA NothingTypes ==
  /\ NoCorrelation \in Correlation
  /\ NoCandidate \in Candidate
BY DEF NoCorrelation, Correlation, Operations, NoCandidate, Candidate

(* Reporting outcomes (outcome/4) keeps the state well typed. *)
LEMMA OutcomeType ==
  ASSUME NEW s, RootState(s), NEW items
  PROVE  RootState(Outcome(s, items))
<1>1. [r \in Receipts |-> IF r \in ReceiptsOf(items) THEN s.outcomes[r] + 1 ELSE s.outcomes[r]]
        \in [Receipts -> Nat]
  BY DEF RootState
<1>2. QED
  BY <1>1 DEF RootState, Outcome

(* Releasing the active slot and the reservation (finish/1) keeps the state well typed. *)
LEMMA FinishType ==
  ASSUME NEW s, RootState(s)
  PROVE  RootState(Finish(s))
BY DEF RootState, Finish

(* A failed or a rejected transition (failed/2, rejected/2) keeps the state well typed. *)
LEMMA RejectedType ==
  ASSUME NEW s, RootState(s)
  PROVE  RootState(Failed(s)) /\ RootState(Rejected(s))
BY NothingTypes DEF RootState, Failed, Rejected, Statuses

(* Abandoning a transition (abandon/2) keeps the state well typed. *)
LEMMA AbandonType ==
  ASSUME NEW s, RootState(s), NEW cancelled
  PROVE  RootState(Abandon(s, cancelled))
BY RejectedType DEF Abandon

(* Submitting a candidate or a disposal (submit/5) keeps the state well typed. *)
LEMMA SubmitType ==
  ASSUME NEW s, RootState(s), NEW candidate \in Candidate, NEW stopping \in BOOLEAN, NEW answer
  PROVE  RootState(Submit(s, candidate, stopping, answer))
<1> DEFINE submitted == [s EXCEPT !.pending = candidate,
                             !.status  = IF stopping THEN "stopping" ELSE "awaiting_commit"]
<1>1. RootState(submitted)
  BY DEF RootState, Statuses
<1>2. QED
  BY <1>1, AbandonType DEF Submit

(* The correlation of the next transition is a correlation: its numbers stay naturals. *)
LEMMA CorrelationType ==
  ASSUME NEW s, RootState(s), NEW op \in Operations
  PROVE  NextCorrelation(s, op) \in Correlation
<1>1. s.accepted.corr \in Correlation /\ s.attempt \in Nat
  BY DEF RootState, Candidate
<1>2. s.accepted.corr.gen \in Nat /\ s.accepted.corr.rev \in Nat
  BY <1>1 DEF Correlation
<1> DEFINE gen == (IF Accepted(s) THEN s.accepted.corr.gen ELSE 1) + (IF op = "replace" THEN 1 ELSE 0)
           rev == IF op = "replace" THEN 1 ELSE s.accepted.corr.rev + 1
<1>3. gen \in Nat /\ rev \in Nat /\ s.attempt + 1 \in Nat
  BY <1>1, <1>2
<1> HIDE DEF gen, rev
<1>4. [gen |-> gen, rev |-> rev, seq |-> s.attempt + 1, op |-> op] \in Correlation
  BY <1>3 DEF Correlation
<1>5. QED BY <1>4 DEF NextCorrelation, gen, rev

(* Stamping intents with the generation of their candidate keeps them items. *)
LEMMA StampedType ==
  ASSUME NEW intents \in Seq(Item), NEW corr \in Correlation
  PROVE  Stamped(intents, corr) \in Seq(Item)
<1>1. ASSUME NEW i \in Item PROVE [i EXCEPT !.gen = corr.gen] \in Item
  BY DEF Item, Correlation
<1>2. QED BY <1>1 DEF Stamped

(* A lifecycle transition (begin/4 without work) keeps the state well typed. *)
LEMMA BeginType ==
  ASSUME NEW s, RootState(s), NEW op \in Operations, NEW plan \in Plans, NEW prepared, NEW answer
  PROVE  RootState(Begin(s, op, plan, prepared, answer))
<1> DEFINE corr  == NextCorrelation(s, op)
           tried == [s EXCEPT !.attempt = corr.seq, !.status = "evaluating"]
           candidate == [corr |-> corr, comps |-> plan.comps]
<1>1. corr \in Correlation
  BY CorrelationType
<1>2. RootState(tried)
  <2> HIDE DEF corr
  <2> QED BY <1>1 DEF RootState, Statuses, Correlation
<1>3. candidate \in Candidate
  BY <1>1, RootAssumption DEF Candidate
<1> HIDE DEF corr, tried, candidate
<1>4. RootState(Submit(tried, candidate, FALSE, answer)) /\ RootState(Rejected(tried))
  BY <1>2, <1>3, SubmitType, RejectedType
<1>5. QED
  BY <1>4 DEF Begin, corr, tried, candidate

(* The transition of a work item (begin/4 with work) keeps the state well typed. *)
LEMMA BeginWorkType ==
  ASSUME NEW s, RootState(s), NEW plan \in Plans, NEW prepared, NEW answer
  PROVE  RootState(BeginWork(s, plan, prepared, answer))
<1> DEFINE corr  == NextCorrelation(s, "update")
           tried == [s EXCEPT !.attempt = corr.seq, !.status = "evaluating", !.activeCorr = corr]
           ready == [tried EXCEPT !.reserved = Len(plan.messages),
                                !.messages = Stamped(plan.messages, corr),
                                !.timers   = Stamped(plan.timers, corr)]
           candidate == [corr |-> corr, comps |-> plan.comps]
<1>1. corr \in Correlation
  BY CorrelationType DEF Operations
<1>2. RootState(tried)
  <2> HIDE DEF corr
  <2> QED BY <1>1 DEF RootState, Statuses, Correlation
<1>3. candidate \in Candidate
  BY <1>1, RootAssumption DEF Candidate
<1>4. plan.messages \in Seq(Item) /\ plan.timers \in Seq(Item)
  BY RootAssumption
<1>5. RootState(ready)
  <2>1. Stamped(plan.messages, corr) \in Seq(Item) /\ Stamped(plan.timers, corr) \in Seq(Item)
    BY <1>1, <1>4, StampedType
  <2>2. Len(plan.messages) \in Nat
    BY <1>4
  <2> HIDE DEF tried
  <2>3. QED BY <1>2, <2>1, <2>2 DEF RootState
<1> HIDE DEF corr, tried, candidate, ready
<1>6. RootState(Submit(ready, candidate, FALSE, answer)) /\ RootState(Rejected(tried))
  BY <1>2, <1>5, <1>3, SubmitType, RejectedType
<1>7. QED
  BY <1>6 DEF BeginWork, corr, tried, candidate, ready

(* An item stays an item when admission gives it its receipt. *)
LEMMA RenumberedType ==
  ASSUME NEW i \in Item, NEW r \in Nat
  PROVE  [i EXCEPT !.receipt = r] \in Item
BY DEF Item

(* Admitting reserved follow-ups (followups/2) hands out no receipt beyond the last one. *)
LEMMA AppendedType ==
  ASSUME NEW s, RootState(s), NEW items \in Seq(Item), AppendFits(s, items)
  PROVE  RootState(Appended(s, items))
<1> DEFINE added == {[items[k] EXCEPT !.receipt = s.receipt + k] : k \in DOMAIN items}
<1>1. added \subseteq Item
  <2> SUFFICES ASSUME NEW k \in DOMAIN items
               PROVE  [items[k] EXCEPT !.receipt = s.receipt + k] \in Item
    OBVIOUS
  <2>1. items[k] \in Item /\ s.receipt + k \in Nat
    BY DEF RootState
  <2>2. QED BY <2>1, RenumberedType
<1>2. s.receipt + Len(items) \in 0 .. MaxReceipt
  BY ScheduleAssumption DEF AppendFits, Headroom, RootState
<1> HIDE DEF added
<1>3. RootState([s EXCEPT !.queue = @ \cup added, !.receipt = s.receipt + Len(items)])
  BY <1>1, <1>2 DEF RootState
<1>4. QED BY <1>3 DEF Appended, added

(* The number of starts among intents is a natural number. *)
LEMMA StartsType ==
  ASSUME NEW intents, NEW n \in Nat
  PROVE  Starts(intents, n) \in Nat
<1>1. IsFiniteSet(1 .. n)
  BY FS_Interval
<1>2. IsFiniteSet({m \in 1 .. n : intents[m].kind = "timer_start"})
  BY <1>1, FS_Subset
<1>3. QED BY <1>2, FS_CardinalityType DEF Starts

(* The key of an item names a timer of a component. *)
LEMMA KeyType ==
  ASSUME NEW i \in Item
  PROVE  Key(i) \in TimerKeys
BY DEF Item, Key, TimerKeys

(* Installing and cancelling timers in the order of the intents (install/2, cancel/2)
   keeps every registration well typed and owned by a component. *)
LEMMA AppliedTimersType ==
  ASSUME NEW s, RootState(s), NEW intents \in Seq(Item)
  PROVE  RootState(AppliedTimers(s, intents))
<1> DEFINE n == Len(intents)
           table == [key \in KeysAfter(s, intents, n) |->
                    IF LastOn(intents, n, key) = {}
                    THEN s.entries[key]
                    ELSE LET m == CHOOSE l \in LastOn(intents, n, key) : TRUE
                         IN  Entry(intents[m], s.serial + Starts(intents, m))]
<1>1. n \in Nat
  OBVIOUS
<1>2. KeysAfter(s, intents, n) \subseteq TimerKeys
  BY <1>1, KeyType DEF KeysAfter, RootState
<1>3. ASSUME NEW key \in KeysAfter(s, intents, n), LastOn(intents, n, key) = {}
      PROVE  key \in DOMAIN s.entries
  <2> SUFFICES ASSUME key \notin DOMAIN s.entries PROVE FALSE
     OBVIOUS
  <2>1. PICK l \in 1 .. n : Key(intents[l]) = key /\ l \in LastOn(intents, n, Key(intents[l]))
    BY <1>3 DEF KeysAfter
  <2>2. QED BY <2>1, <1>3
<1>4. ASSUME NEW m \in 1 .. n
      PROVE  Entry(intents[m], s.serial + Starts(intents, m)) \in TimerEntry
  <2>1. intents[m] \in Item
    OBVIOUS
  <2>2. m \in Nat
    OBVIOUS
  <2>3. s.serial + Starts(intents, m) \in Nat
    BY <2>2, StartsType DEF RootState
  <2>4. QED BY <2>1, <2>3 DEF Entry, TimerEntry
<1>5. ASSUME NEW key \in KeysAfter(s, intents, n)
      PROVE  table[key] \in TimerEntry
  <2>1. CASE LastOn(intents, n, key) = {}
    BY <2>1, <1>3 DEF RootState
  <2>2. CASE LastOn(intents, n, key) # {}
    <3> DEFINE m == CHOOSE l \in LastOn(intents, n, key) : TRUE
    <3>1. m \in LastOn(intents, n, key)
      BY <2>2
    <3>2. m \in 1 .. n
      BY <3>1 DEF LastOn
    <3>3. table[key] = Entry(intents[m], s.serial + Starts(intents, m))
      BY <2>2
    <3>4. QED BY <3>2, <3>3, <1>4
  <2>3. QED BY <2>1, <2>2
<1>6. DOMAIN table = KeysAfter(s, intents, n) /\ table \in [DOMAIN table -> TimerEntry]
  BY <1>5
<1>7. s.serial + Starts(intents, n) \in Nat
  BY <1>1, StartsType DEF RootState
<1> HIDE DEF n, table
<1>8. RootState([s EXCEPT !.entries = table, !.serial = s.serial + Starts(intents, n)])
  BY <1>2, <1>6, <1>7 DEF RootState
<1>9. QED BY <1>8 DEF AppliedTimers, n, table

(* Dropping registrations (cancel/2, cancel_all/1, prune/2) keeps the state well typed. *)
LEMMA CancelledType ==
  ASSUME NEW s, RootState(s), NEW keys
  PROVE  RootState(Cancelled(s, keys))
<1> DEFINE table == [key \in (DOMAIN s.entries) \ keys |-> s.entries[key]]
<1>1. DOMAIN table \subseteq TimerKeys /\ table \in [DOMAIN table -> TimerEntry]
  BY DEF RootState
<1> HIDE DEF table
<1>2. RootState([s EXCEPT !.entries = table])
  BY <1>1 DEF RootState
<1>3. QED BY <1>2 DEF Cancelled, table

(* Rewriting one registration keeps the state well typed. *)
LEMMA EntryUpdatedType ==
  ASSUME NEW s, RootState(s), NEW key \in DOMAIN s.entries, NEW e \in TimerEntry
  PROVE  RootState([s EXCEPT !.entries[key] = e])
<1> DEFINE table == [s.entries EXCEPT ![key] = e]
<1>1. DOMAIN table \subseteq TimerKeys /\ table \in [DOMAIN table -> TimerEntry]
  BY DEF RootState
<1> HIDE DEF table
<1>2. RootState([s EXCEPT !.entries = table])
  BY <1>1 DEF RootState
<1>3. QED BY <1>2 DEF table, RootState

(* The end of a tick (finish/2 of root_timers.ex) keeps the state well typed. *)
LEMMA FinishedTickType ==
  ASSUME NEW s, RootState(s), NEW item
  PROVE  RootState(FinishedTick(s, item))
<1> DEFINE key == Key(item)
           rearmed == [s.entries[key] EXCEPT !.status = "waiting"]
<1>1. CASE item.kind # "timer_tick" \/ ~ValidTick(s, item)
  BY <1>1 DEF FinishedTick
<1>2. CASE item.kind = "timer_tick" /\ ValidTick(s, item)
  <2>1. key \in DOMAIN s.entries
    BY <1>2 DEF ValidTick
  <2>a. s.entries[key] \in TimerEntry
    BY <2>1 DEF RootState
  <2>2. rearmed \in TimerEntry
    BY <2>a DEF TimerEntry
  <2>3. RootState([s EXCEPT !.entries[key] = rearmed])
    BY <2>1, <2>2, EntryUpdatedType
  <2>4. [s EXCEPT !.entries[key].status = "waiting"] = [s EXCEPT !.entries[key] = rearmed]
    OBVIOUS
  <2>5. RootState(Cancelled(s, {key}))
    BY CancelledType
  <2>6. QED BY <1>2, <2>3, <2>4, <2>5 DEF FinishedTick
<1>3. QED BY <1>1, <1>2

(* A wake-up (wake/5) keeps the state well typed, and what it queues is an item. *)
LEMMA FiredType ==
  ASSUME NEW s, RootState(s), NEW key \in DOMAIN s.entries
  PROVE  RootState(Fired(s, key)) /\ TickItem(s, key) \in Item
<1> DEFINE old == s.entries[key]
           fired == [old EXCEPT !.tick = old.tick + 1, !.status = "firing"]
<1>1. old \in TimerEntry
  BY DEF RootState
<1>a. old.item \in Item /\ old.epoch \in Nat /\ old.tick + 1 \in Nat
  BY <1>1 DEF TimerEntry
<1>b. fired \in TimerEntry
  BY <1>1, <1>a DEF TimerEntry
<1>c. TickItem(s, key) \in Item
  <2> HIDE DEF old
  <2> QED BY <1>a DEF TickItem, Item, Kinds, old
<1>2. fired \in TimerEntry /\ TickItem(s, key) \in Item
  BY <1>b, <1>c
<1>3. RootState([s EXCEPT !.entries[key] = fired])
  BY <1>2, EntryUpdatedType
<1>4. DOMAIN s = DOMAIN [s EXCEPT !.entries[key] = fired]
  OBVIOUS
<1>5. Fired(s, key) = [s EXCEPT !.entries[key] = fired]
  BY DEF Fired
<1>6. QED BY <1>2, <1>3, <1>5

(* Applying the follow-ups of a committed candidate keeps the state well typed. *)
LEMMA ApplyIntentsType ==
  ASSUME NEW s, RootState(s), NEW messages \in Seq(Item), NEW timers \in Seq(Item)
  PROVE  RootState(ApplyIntents(s, messages, timers))
<1>1. CASE CommitFits(s, messages, timers)
  <2>1. RootState(Appended(s, messages))
    BY <1>1, AppendedType DEF CommitFits
  <2>2. QED BY <1>1, <2>1, AppliedTimersType DEF ApplyIntents
<1>2. CASE ~CommitFits(s, messages, timers)
  <2>1. RootState([s EXCEPT !.status = "broken"])
    BY DEF RootState, Statuses
  <2>2. QED BY <1>2, <2>1 DEF ApplyIntents
<1>3. QED BY <1>1, <1>2

(* Resolving the active item keeps the state well typed. *)
LEMMA SettleActiveType ==
  ASSUME NEW s, RootState(s)
  PROVE  RootState(SettleActive(s))
<1>1. CASE Pending(s) \/ s.active = {}
  BY <1>1 DEF SettleActive
<1>2. CASE ~(Pending(s) \/ s.active = {})
  <2> DEFINE item     == CHOOSE i \in s.active : TRUE
             finished == FinishedTick(Finish(Outcome(s, s.active)), item)
             applied  == IF ActiveCommitted(s) /\ s.status = "ready"
                         THEN ApplyIntents(finished, s.messages, s.timers)
                         ELSE finished
  <2>1. RootState(finished)
    BY OutcomeType, FinishType, FinishedTickType
  <2>2. s.messages \in Seq(Item) /\ s.timers \in Seq(Item)
    BY DEF RootState
  <2> HIDE DEF finished
  <2>3. RootState(applied)
    BY <2>1, <2>2, ApplyIntentsType
  <2> HIDE DEF applied
  <2>4. ReceiptsOf(s.active) \subseteq Nat
    BY DEF RootState, ReceiptsOf, Item
  <2> DEFINE told == IF ActiveCommitted(s) THEN applied.reported \cup ReceiptsOf(s.active)
                                           ELSE applied.reported
  <2>5. told \in SUBSET Nat
    BY <2>3, <2>4 DEF RootState
  <2>6. <<>> \in Seq(Item)
    OBVIOUS
  <2> HIDE DEF told
  <2>7. RootState([applied EXCEPT !.activeCorr = NoCorrelation, !.messages = <<>>,
                                  !.timers = <<>>, !.reported = told])
    BY <2>3, <2>5, <2>6, NothingTypes DEF RootState
  <2>8. QED BY <1>2, <2>7 DEF SettleActive, told, applied, finished
<1>3. QED BY <1>1, <1>2

(* Cancelling what lost its owner or its target keeps the state well typed. *)
LEMMA PruneType ==
  ASSUME NEW s, RootState(s)
  PROVE  RootState(Prune(s))
<1> DEFINE timed == Cancelled(s, {k \in DOMAIN s.entries : ~Deliverable(s, s.entries[k].item)})
           gone  == {i \in s.queue : ~Deliverable(s, i) \/ ~ValidTick(timed, i)}
<1>1. RootState(Outcome(timed, gone))
  BY CancelledType, OutcomeType
<1>2. RootState([Outcome(timed, gone) EXCEPT !.queue = @ \ gone])
  <2> DEFINE t == Outcome(timed, gone)
  <2>1. RootState(t)
    BY <1>1
  <2> HIDE DEF t, gone
  <2>2. RootState([t EXCEPT !.queue = t.queue \ gone])
    BY <2>1 DEF RootState
  <2>3. QED BY <2>2 DEF t
<1>3. QED BY <1>2 DEF Prune

(* Closing the schedule (close_schedule/2) keeps the state well typed. *)
LEMMA CloseScheduleType ==
  ASSUME NEW s, RootState(s)
  PROVE  RootState(CloseSchedule(s))
<1>1. ASSUME NEW t, RootState(t)
      PROVE  RootState([t EXCEPT !.active = {}, !.reserved = 0,
          !.queue = {}, !.slots = 0, !.activeCorr = NoCorrelation,
          !.messages = <<>>, !.timers = <<>>, !.entries = [k \in {} |-> 0]])
  <2> DEFINE none == [k \in {} |-> 0]
  <2>1. DOMAIN none = {} /\ none \in [DOMAIN none -> TimerEntry]
    OBVIOUS
  <2>2. <<>> \in Seq(Item)
    OBVIOUS
  <2> HIDE DEF none
  <2>3. QED BY <1>1, <2>1, <2>2, NothingTypes DEF RootState
<1>2. QED BY <1>1, OutcomeType DEF CloseSchedule, Finish

(* settle/1, which ends every handler, keeps the state well typed. *)
LEMMA SettleType ==
  ASSUME NEW s, RootState(s)
  PROVE  RootState(Settle(s))
<1> DEFINE done == Prune(SettleActive(s))
<1>1. RootState(done)
  BY SettleActiveType, PruneType
<1> HIDE DEF done
<1>2. RootState(CloseSchedule(done)) /\ RootState([done EXCEPT !.drain = TRUE])
  <2>1. RootState([done EXCEPT !.drain = TRUE])
    BY <1>1 DEF RootState
  <2>2. QED BY <1>1, <2>1, CloseScheduleType
<1>3. QED BY <1>1, <1>2 DEF Settle, done

(* Incrementing an entry of a table of naturals leaves a table of naturals. *)
LEMMA IncrementType ==
  ASSUME NEW D, NEW f \in [D -> Nat], NEW x
  PROVE  [f EXCEPT ![x] = @ + 1] \in [D -> Nat]
<1>1. ASSUME NEW y \in D
      PROVE  [f EXCEPT ![x] = @ + 1][y] \in Nat
  <2>1. f[y] \in Nat /\ f[y] + 1 \in Nat
    OBVIOUS
  <2>2. QED BY <2>1
<1>2. QED BY <1>1

(* Counting the cleanup of a generation keeps the state well typed. *)
LEMMA RetireType ==
  ASSUME NEW s, RootState(s), NEW generation
  PROVE  RootState(Retire(s, generation))
<1> DEFINE told == [s.retired EXCEPT ![generation] = @ + 1]
<1>1. told \in [1 .. MaxGeneration -> Nat]
  <2>1. s.retired \in [1 .. MaxGeneration -> Nat]
    BY DEF RootState
  <2>2. QED BY <2>1, IncrementType
<1> HIDE DEF told
<1>2. RootState([s EXCEPT !.retired = told])
  BY <1>1 DEF RootState
<1>3. QED BY <1>2 DEF Retire, told

(* A commit acknowledgement (committed/1) keeps the state well typed. *)
LEMMA CommittedType ==
  ASSUME NEW s, RootState(s), NEW cleaned
  PROVE  RootState(Committed(s, cleaned))
<1>1. RootState(Disposed(s, cleaned))
  <2> DEFINE next == IF Accepted(s) THEN Retire(s, s.accepted.corr.gen) ELSE s
  <2>1. RootState(next)
    BY RetireType
  <2> HIDE DEF next
  <2>2. RootState([next EXCEPT !.pending = NoCandidate, !.status = "disposed"])
    BY <2>1, NothingTypes DEF RootState, Statuses
  <2>3. QED BY <2>1, <2>2, RejectedType DEF Disposed, next
<1>2. RootState(Promoted(s, cleaned))
  <2> DEFINE replaced == Accepted(s) /\ s.pending.corr.op = "replace"
             base     == IF replaced THEN Retire(s, s.accepted.corr.gen) ELSE s
             shown    == base.published \cup ReceiptsOf(s.active)
             next     == [base EXCEPT !.accepted = s.pending, !.pending = NoCandidate,
                                      !.status = "ready", !.published = shown]
  <2>1. RootState(base)
    BY RetireType
  <2>2. s.pending \in Candidate /\ ReceiptsOf(s.active) \subseteq Nat
    BY DEF RootState, ReceiptsOf, Item
  <2> HIDE DEF base
  <2>3. shown \in SUBSET Nat
    BY <2>1, <2>2 DEF RootState
  <2> HIDE DEF shown
  <2>4. RootState(next)
    BY <2>1, <2>2, <2>3, NothingTypes DEF RootState, Statuses
  <2>5. QED BY <2>4, RejectedType DEF Promoted, base, shown
<1>3. QED BY <1>1, <1>2 DEF Committed

(* An admitted cancellation (cancel_owned/2) keeps the state well typed. *)
LEMMA CancelOwnedType ==
  ASSUME NEW s, RootState(s), NEW item, NEW cancelled
  PROVE  RootState(CancelOwned(s, item, cancelled))
<1> DEFINE key     == Key(item)
           owned   == {i \in s.queue : i.kind \in {"timer_start", "timer_tick"} /\ Key(i) = key}
           base    == Cancelled(Outcome(s, owned), {key})
           voided  == [k \in DOMAIN base.timers |->
                         IF base.timers[k].kind = "timer_start" /\ Key(base.timers[k]) = key
                         THEN [base.timers[k] EXCEPT !.kind = "void"]
                         ELSE base.timers[k]]
           dropped == [base EXCEPT !.queue = base.queue \ owned, !.timers = voided]
           stopped == [Finish(Outcome(dropped, s.active)) EXCEPT
                         !.activeCorr = NoCorrelation, !.messages = <<>>, !.timers = <<>>]
           ticking == \E i \in s.active : i.kind = "timer_tick" /\ Key(i) = key
           next    == CASE ~ticking -> dropped
                        [] ticking /\ Pending(s) -> Abandon(stopped, cancelled)
                        [] OTHER -> stopped
<1>1. RootState(base)
  BY OutcomeType, CancelledType
<1>2. voided \in Seq(Item)
  <2>1. base.timers \in Seq(Item)
    BY <1>1 DEF RootState
  <2>2. ASSUME NEW i \in Item PROVE [i EXCEPT !.kind = "void"] \in Item
    BY DEF Item, Kinds
  <2> HIDE DEF base, key
  <2>3. QED BY <2>1, <2>2
<1>3. RootState(dropped)
  <2> HIDE DEF base, voided, owned
  <2>1. QED BY <1>1, <1>2 DEF RootState
<1>4. RootState(stopped)
  <2> DEFINE t == Finish(Outcome(dropped, s.active))
  <2> HIDE DEF dropped
  <2>1. RootState(t)
    BY <1>3, OutcomeType, FinishType
  <2>2. <<>> \in Seq(Item)
    OBVIOUS
  <2> HIDE DEF t
  <2>3. RootState([t EXCEPT !.activeCorr = NoCorrelation, !.messages = <<>>, !.timers = <<>>])
    BY <2>1, <2>2, NothingTypes DEF RootState
  <2>4. QED BY <2>3 DEF t, dropped
<1>5. dropped = [Cancelled(Outcome(s, owned), {key}) EXCEPT
                    !.queue  = @ \ owned,
                    !.timers = [k \in DOMAIN @ |-> IF @[k].kind = "timer_start" /\ Key(@[k]) = key
                                                   THEN [@[k] EXCEPT !.kind = "void"]
                                                   ELSE @[k]]]
  OBVIOUS
<1>6. RootState(next)
  <2> HIDE DEF dropped, stopped
  <2>1. QED BY <1>3, <1>4, AbandonType
<1>7. CancelOwned(s, item, cancelled) = Outcome(next, {item})
  BY <1>5 DEF CancelOwned
<1> HIDE DEF next
<1>8. QED BY <1>6, <1>7, OutcomeType

(* Where the headroom check passes the next receipt is within the counter. *)
LEMMA HeadroomFits ==
  ASSUME NEW s, RootState(s), Headroom(s, 1 + s.reserved)
  PROVE  s.receipt + 1 \in 0 .. MaxReceipt
<1>1. s.receipt \in Nat /\ s.reserved \in Nat /\ s.slots \in Nat
  BY DEF RootState
<1>2. s.receipt + (1 + s.reserved) + s.slots <= MaxReceipt
  BY DEF Headroom
<1>3. MaxReceipt \in Nat
  BY ScheduleAssumption
<1>4. QED BY <1>1, <1>2, <1>3

(* Admitting an envelope (admit/4) keeps the state well typed: the headroom check is what
   keeps the receipt within the counter. *)
LEMMA AdmittedType ==
  ASSUME NEW s, RootState(s), NEW envelope, envelope.item \in Item, NEW g, NEW v, NEW c,
         envelope.sequence \in Nat, Admissible(s, envelope, g, v, c)
  PROVE  RootState(Admitted(s, envelope))
<1> DEFINE item == envelope.item
           base == Inserted(s, item)
           seen == [base.producers EXCEPT ![item.producer] = envelope.sequence]
<1>1. s.receipt + 1 \in 0 .. MaxReceipt
  <2>1. Headroom(s, 1 + s.reserved)
    BY DEF Admissible
  <2>2. QED BY <2>1, HeadroomFits
<1>2. RootState(base)
  <2>1. [item EXCEPT !.receipt = s.receipt + 1] \in Item
    BY <1>1, RenumberedType
  <2> DEFINE new == [item EXCEPT !.receipt = s.receipt + 1]
             q == (s.queue \ Superseded(s, item)) \cup {new}
  <2> HIDE DEF new
  <2>2. q \in SUBSET Item
    BY <2>1 DEF RootState, new
  <2> HIDE DEF q
  <2>3. RootState([s EXCEPT !.queue = q])
    BY <2>2 DEF RootState
  <2>4. QED BY <2>3 DEF Inserted, q, new
<1> HIDE DEF base
<1>3. seen \in [Producers -> Nat]
  BY <1>2 DEF RootState
<1> HIDE DEF seen
<1>4. RootState([base EXCEPT !.receipt = s.receipt + 1, !.producers = seen])
  BY <1>1, <1>2, <1>3 DEF RootState
<1>5. QED BY <1>4 DEF Admitted, base, seen

(* Admitting work of the runtime itself (internal/2) keeps the state well typed. *)
LEMMA InternalType ==
  ASSUME NEW s, RootState(s), NEW item \in Item, Headroom(s, 1 + s.reserved)
  PROVE  RootState(Internal(s, item))
<1> DEFINE new == [item EXCEPT !.receipt = s.receipt + 1]
<1>1. s.receipt + 1 \in 0 .. MaxReceipt
  BY HeadroomFits
<1>2. new \in Item
  BY <1>1, RenumberedType
<1> HIDE DEF new
<1>3. RootState([s EXCEPT !.queue = @ \cup {new}, !.receipt = s.receipt + 1])
  BY <1>1, <1>2 DEF RootState
<1>4. QED BY <1>3 DEF Internal, new

(* A set of naturals that is not empty has a least element. *)
LEMMA NatMinimum ==
  ASSUME NEW T \in SUBSET Nat, T # {}
  PROVE  \E x \in T : \A y \in T : x <= y
<1> DEFINE R == {ss \in Nat \X Nat : ss[1] < ss[2]}
<1>1. IsWellFoundedOn(R, Nat)
  BY NatLessThanWellFounded DEF OpToRel
<1>2. PICK x \in T : \A y \in T : ~(<<y, x>> \in R)
  BY <1>1, WFMin, Zenon
<1>3. ASSUME NEW y \in T
      PROVE  x <= y
  <2>1. <<y, x>> \in Nat \X Nat
    OBVIOUS
  <2>2. ~(y < x)
    BY <1>2, <2>1
  <2>3. QED BY <2>2
<1>4. QED BY <1>3

(* The oldest item of a queue that is not empty is in it, and no item precedes it. *)
LEMMA OldestType ==
  ASSUME NEW q \in SUBSET Item, q # {}
  PROVE  Oldest(q) \in q /\ \A j \in q : Oldest(q).receipt <= j.receipt
<1>1. ReceiptsOf(q) \in SUBSET Nat /\ ReceiptsOf(q) # {}
  BY DEF ReceiptsOf, Item
<1>2. PICK r \in ReceiptsOf(q) : \A y \in ReceiptsOf(q) : r <= y
  BY <1>1, NatMinimum
<1>3. \E i \in q : \A j \in q : i.receipt <= j.receipt
  BY <1>2 DEF ReceiptsOf
<1>4. QED BY <1>3 DEF Oldest

(* Selecting the next work item (select/1) keeps the state well typed. *)
LEMMA SelectedType ==
  ASSUME RootState(root), root.queue # {}
  PROVE  RootState(Selected) /\ Oldest(root.queue) \in Item
<1> DEFINE item == Oldest(root.queue)
<1>1. item \in root.queue /\ item \in Item
  BY OldestType DEF RootState
<1> HIDE DEF item
<1>2. RootState([root EXCEPT !.active = {item}, !.queue = @ \ {item}, !.drain = FALSE])
  BY <1>1 DEF RootState
<1>3. QED BY <1>1, <1>2 DEF Selected, Select, item

(* What a handler does to the renderer port keeps the port well typed. *)
LEMMA PortedType ==
  ASSUME NEW r \in RendererState, NEW s, RootState(s), NEW t, RootState(t), NEW cancels
  PROVE  Ported(r, s, t, cancels) \in RendererState /\ CancelTx(r) \in RendererState
<1>1. CancelTx(r) \in RendererState
  BY NothingTypes DEF CancelTx, RendererState
<1>2. ASSUME NEW p \in RendererState, NEW corr \in Correlation
      PROVE  SubmitTo(p, corr) \in RendererState
  <2> DEFINE left == {a \in p.acks : \A b \in p.acks : b.corr.seq <= a.corr.seq}
  <2>1. left \in SUBSET [corr : Correlation, result : {"committed", "rejected"}]
    BY DEF RendererState
  <2> HIDE DEF left
  <2>2. [p EXCEPT !.tx = corr, !.phase = "open", !.acks = left] \in RendererState
    BY <2>1 DEF RendererState
  <2>3. QED BY <2>2 DEF SubmitTo, left
<1>3. t.pending.corr \in Correlation
  BY DEF RootState, Candidate
<1>4. QED BY <1>1, <1>2, <1>3 DEF Ported

(* The state a root process starts in is well typed. *)
LEMMA InitType == Init => TypeOK
<1> SUFFICES ASSUME Init PROVE TypeOK
  OBVIOUS
<1>1. RootState(root)
  <2> DEFINE none == [k \in {} |-> 0]
             p0 == [p \in Producers |-> 0]
             o0 == [r \in Receipts |-> 0]
             g0 == [g \in 1 .. MaxGeneration |-> 0]
  <2>1. DOMAIN none = {} /\ none \in [DOMAIN none -> TimerEntry]
    OBVIOUS
  <2>2. <<>> \in Seq(Item)
    OBVIOUS
  <2>3. p0 \in [Producers -> Nat] /\ o0 \in [Receipts -> Nat] /\ g0 \in [1 .. MaxGeneration -> Nat]
    OBVIOUS
  <2>4. 0 \in 0 .. MaxReceipt
    BY ScheduleAssumption
  <2> HIDE DEF none, p0, o0, g0
  <2>5. PICK scheduled \in Modes : root = [scheduled |-> scheduled, status |-> "starting", accepted |-> NoCandidate, pending |-> NoCandidate,
              attempt |-> 0, activeCorr |-> NoCorrelation, messages |-> <<>>, timers |-> <<>>,
              queue |-> {}, active |-> {}, reserved |-> 0, slots |-> 0, receipt |-> 0,
              producers |-> p0,
              entries |-> none, serial |-> 0, drain |-> FALSE,
              outcomes |-> o0, reported |-> {}, published |-> {},
              retired |-> g0]
    BY DEF Init, none, p0, o0, g0
  <2>6. scheduled \in BOOLEAN
    BY RootAssumption
  <2>7. QED BY <2>1, <2>2, <2>3, <2>4, <2>5, <2>6, NothingTypes DEF RootState, Statuses
<1>2. renderer \in RendererState
  BY NothingTypes DEF Init, RendererState
<1>3. QED BY <1>1, <1>2 DEF TypeOK

(* Every handler keeps the coordinator and the renderer port well typed. *)
LEMMA NextType == TypeOK /\ [Next]_vars => TypeOK'
<1> SUFFICES ASSUME RootState(root), renderer \in RendererState, [Next]_vars
             PROVE  RootState(root)' /\ (renderer \in RendererState)'
  BY DEF TypeOK
<1> USE DEF Answers
<1>0. "mount" \in Operations /\ "replace" \in Operations /\ "update" \in Operations
  BY DEF Operations
<1>1. CASE Boot
  <2>1. PICK plan \in Plans, prepared \in BOOLEAN, answer \in Answers :
           root' = Settle(Begin(root, "mount", plan, prepared, answer))
    BY <1>1 DEF Boot
  <2>2. RootState(root')
    BY <1>0, <2>1, BeginType, SettleType
  <2>3. renderer' = Ported(renderer, root, root', FALSE)
    BY <1>1 DEF Boot
  <2>4. QED BY <2>2, <2>3, PortedType
<1>2. ASSUME NEW seq \in 1 .. root.attempt, Deadline(seq)
      PROVE  RootState(root)' /\ (renderer \in RendererState)'
  <2>1. PICK cancelled \in BOOLEAN :
          /\ root' = Settle(Abandon(root, cancelled))
          /\ renderer' = IF cancelled THEN CancelTx(renderer) ELSE renderer
    BY <1>2 DEF Deadline
  <2>2. RootState(root')
    BY <2>1, AbandonType, SettleType
  <2>3. QED BY <2>1, <2>2, PortedType
<1>3. CASE DrainNothing
  <2>1. RootState([root EXCEPT !.drain = FALSE])
    BY DEF RootState
  <2>2. QED BY <1>3, <2>1 DEF DrainNothing
<1>4. CASE DrainRefused
  <2> DEFINE item == Oldest(root.queue)
             next == FinishedTick(Finish(Outcome(Selected, {item})), item)
  <2>1. RootState(next)
    <3>1. RootState(Selected)
      BY <1>4, SelectedType DEF DrainRefused, CanDrain
    <3>2. QED BY <3>1, OutcomeType, FinishType, FinishedTickType
  <2> HIDE DEF next
  <2>2. RootState([next EXCEPT !.drain = TRUE])
    BY <2>1 DEF RootState
  <2>3. QED BY <1>4, <2>2 DEF DrainRefused, next
<1>5. CASE DrainTimerStart
  <2> DEFINE item == Oldest(root.queue)
             next == IF Preflight(Selected, <<item>>) THEN AppliedTimers(Selected, <<item>>)
                                                      ELSE Selected
  <2>1. RootState(Selected) /\ <<item>> \in Seq(Item)
    BY <1>5, SelectedType DEF DrainTimerStart, CanDrain
  <2>2. RootState(next)
    <3> HIDE DEF item
    <3>1. QED BY <2>1, AppliedTimersType
  <2>3. RootState(Settle(Finish(Outcome(next, {item}))))
    BY <2>2, OutcomeType, FinishType, SettleType
  <2>4. QED BY <1>5, <2>3 DEF DrainTimerStart
<1>6. CASE DrainWork
  <2>1. PICK plan \in Plans, prepared \in BOOLEAN, answer \in Answers :
           root' = Settle(BeginWork(Selected, plan, prepared, answer))
    BY <1>6 DEF DrainWork
  <2>2. RootState(Selected)
    BY <1>6, SelectedType DEF DrainWork, CanDrain
  <2>3. RootState(root')
    BY <2>1, <2>2, BeginWorkType, SettleType
  <2>4. renderer' = Ported(renderer, root, root', FALSE)
    BY <1>6 DEF DrainWork
  <2>5. QED BY <2>3, <2>4, PortedType
<1>7. ASSUME NEW key \in DOMAIN root.entries, NEW epoch, NEW tick, OwnedTick(key, epoch, tick)
      PROVE  RootState(root)' /\ (renderer \in RendererState)'
  <2> DEFINE item == TickItem(root, key)
  <2>1. RootState(Fired(root, key)) /\ item \in Item
    BY FiredType
  <2> HIDE DEF item
  <2>2. ASSUME InternalFits(root, item)
        PROVE  RootState(Internal(Fired(root, key), item))
    <3>1. Headroom(Fired(root, key), 1 + Fired(root, key).reserved)
      BY <2>2 DEF InternalFits, Headroom, Fired, RootState
    <3>2. QED BY <2>1, <3>1, InternalType
  <2>3. RootState(Cancelled(root, {key})) /\ RootState(FinishedTick(Fired(root, key), item))
    BY <2>1, CancelledType, FinishedTickType
  <2>4. RootState(root')
    BY <1>7, <2>2, <2>3, SettleType DEF OwnedTick, item
  <2>5. QED BY <1>7, <2>4 DEF OwnedTick
<1>8. ASSUME NEW ack, NEW cleaned, Ack(ack, cleaned)
      PROVE  RootState(root)' /\ (renderer \in RendererState)'
  BY <1>8, CommittedType, RejectedType, SettleType DEF Ack
<1>9. ASSUME NEW template \in Envelopes, NEW generation, NEW revision,
             NEW sequence \in {root.producers[template.producer],
                               root.producers[template.producer] + 1},
             NEW cancelled, Enqueue(template, generation, revision, sequence, cancelled)
      PROVE  RootState(root)' /\ (renderer \in RendererState)'
  <2> DEFINE item     == [template EXCEPT !.gen = generation]
             received == [item EXCEPT !.receipt = root.receipt + 1]
             envelope == [item |-> item, rev |-> revision, sequence |-> sequence]
             admitted == Outcome(Admitted(root, envelope),
                           IF item.kind = "timer_cancel" THEN {} ELSE Superseded(root, item))
             next     == IF item.kind = "timer_cancel"
                         THEN CancelOwned(admitted, received, cancelled) ELSE admitted
  <2>1. Admissible(root, envelope, root.accepted.corr.gen, root.accepted.corr.rev,
                   root.accepted.comps)
    BY <1>9 DEF Enqueue
  <2>2. template \in Item /\ template.producer \in Producers
    BY RootAssumption
  <2>3. generation \in Nat
    <3>1. item.gen = root.accepted.corr.gen
      BY <2>1 DEF Admissible, ValidDispatch
    <3>2. item.gen = generation
      BY <2>2 DEF Item
    <3>3. QED BY <3>1, <3>2 DEF RootState, Candidate, Correlation
  <2>4. item \in Item
    BY <2>2, <2>3 DEF Item
  <2>5. sequence \in Nat
    <3>1. root.producers[template.producer] \in Nat
      BY <2>2 DEF RootState
    <3>2. QED BY <3>1
  <2>6. envelope.item \in Item /\ envelope.sequence \in Nat
    BY <2>4, <2>5
  <2>7. RootState(Admitted(root, envelope))
    <3> HIDE DEF envelope
    <3>1. QED BY <2>1, <2>6, AdmittedType
  <2>8. RootState(admitted)
    BY <2>7, OutcomeType
  <2>9. RootState(next)
    <3> HIDE DEF admitted
    <3>1. QED BY <2>8, CancelOwnedType
  <2>10. root' = Settle([next EXCEPT !.drain = TRUE])
    BY <1>9 DEF Enqueue
  <2> HIDE DEF next
  <2>11. RootState([next EXCEPT !.drain = TRUE])
    BY <2>9 DEF RootState
  <2>12. RootState(root')
    BY <2>10, <2>11, SettleType
  <2>13. renderer' = Ported(renderer, root, root', cancelled /\ Pending(root) /\ ~Pending(root'))
    BY <1>9 DEF Enqueue
  <2>14. QED BY <2>12, <2>13, PortedType
<1>10. ASSUME NEW plan \in Plans, NEW prepared, NEW answer, Update(plan, prepared, answer)
       PROVE  RootState(root)' /\ (renderer \in RendererState)'
  <2>1. RootState(root')
    BY <1>0, <1>10, BeginType DEF Update
  <2>2. QED BY <1>10, <2>1, PortedType DEF Update
<1>11. ASSUME NEW plan \in Plans, NEW prepared, NEW answer, NEW cancelled,
              Replace(plan, prepared, answer, cancelled)
       PROVE  RootState(root)' /\ (renderer \in RendererState)'
  <2> DEFINE closed == CloseSchedule(root)
             freed  == [closed EXCEPT !.pending = NoCandidate]
  <2>1. RootState(closed) /\ RootState(Failed(closed))
    BY CloseScheduleType, RejectedType
  <2>2. RootState(freed)
    <3> HIDE DEF closed
    <3>1. QED BY <2>1, NothingTypes DEF RootState
  <2> HIDE DEF freed
  <2>3. RootState(Begin(freed, "replace", plan, prepared, answer))
    BY <1>0, <2>2, BeginType
  <2>4. RootState(root')
    BY <1>11, <2>1, <2>3, SettleType DEF Replace, freed
  <2>5. QED BY <1>11, <2>4, PortedType DEF Replace
<1>12. ASSUME NEW answer, NEW cancelled, Stop(answer, cancelled)
       PROVE  RootState(root)' /\ (renderer \in RendererState)'
  <2> DEFINE closed == CloseSchedule(root)
             old    == IF Accepted(root) THEN root.accepted.corr
                                         ELSE [NoCorrelation EXCEPT !.gen = 1, !.rev = 1]
             corr   == [old EXCEPT !.seq = root.attempt + 1, !.op = "dispose"]
             tried  == [closed EXCEPT !.status = "stopping", !.attempt = corr.seq]
             next   == [corr |-> corr, comps |-> {}]
  <2>1. RootState(closed) /\ RootState(Failed(closed))
    BY CloseScheduleType, RejectedType
  <2>2. old \in Correlation
    BY NothingTypes DEF RootState, Candidate, Correlation
  <2>3. root.attempt + 1 \in Nat
    BY DEF RootState
  <2> HIDE DEF old, closed
  <2>4. corr \in Correlation
    BY <2>2, <2>3 DEF Correlation, Operations
  <2>5. next \in Candidate
    <3> HIDE DEF corr
    <3>1. QED BY <2>4 DEF Candidate
  <2>6. RootState(tried)
    <3>1. corr.seq \in Nat
      BY <2>4 DEF Correlation
    <3> HIDE DEF corr
    <3>2. QED BY <2>1, <3>1 DEF RootState, Statuses
  <2> HIDE DEF corr, tried, next
  <2>7. RootState(Submit(tried, next, TRUE, answer))
    BY <2>5, <2>6, SubmitType
  <2>8. RootState(root')
    BY <1>12, <2>1, <2>7, SettleType DEF Stop, closed, old, corr, tried, next
  <2>9. QED BY <1>12, <2>8, PortedType DEF Stop
<1>13. ASSUME NEW cancelled, RuntimeLoss(cancelled)
       PROVE  RootState(root)' /\ (renderer \in RendererState)'
  <2>1. RootState(root')
    BY <1>13, CloseScheduleType, RejectedType, SettleType DEF RuntimeLoss
  <2>2. QED BY <1>13, <2>1, PortedType DEF RuntimeLoss
<1>14. CASE RendererCommit
  <2>1. renderer.tx \in Correlation
    BY DEF RendererState
  <2> DEFINE told == renderer.acks \cup {[corr |-> renderer.tx, result |-> "committed"]}
  <2>2. told \in SUBSET [corr : Correlation, result : {"committed", "rejected"}]
    BY <2>1 DEF RendererState
  <2> HIDE DEF told
  <2>3. [renderer EXCEPT !.phase = "committed", !.prev = renderer.shown,
           !.shown = IF renderer.tx.op = "dispose" THEN NoCorrelation ELSE renderer.tx,
           !.acks = told] \in RendererState
    BY <2>1, <2>2, NothingTypes DEF RendererState
  <2>4. QED BY <1>14, <2>3 DEF RendererCommit, told
<1>15. CASE RendererReject
  <2>1. renderer.tx \in Correlation
    BY DEF RendererState
  <2> DEFINE told == renderer.acks \cup {[corr |-> renderer.tx, result |-> "rejected"]}
  <2>2. told \in SUBSET [corr : Correlation, result : {"committed", "rejected"}]
    BY <2>1 DEF RendererState
  <2> HIDE DEF told
  <2>3. [renderer EXCEPT !.phase = "idle", !.tx = NoCorrelation, !.acks = told] \in RendererState
    BY <2>2, NothingTypes DEF RendererState
  <2>4. QED BY <1>15, <2>3 DEF RendererReject, told
<1>16. CASE UNCHANGED vars
  BY <1>16 DEF vars
<1>17. QED
  BY <1>1, <1>2, <1>3, <1>4, <1>5, <1>6, <1>7, <1>8, <1>9, <1>10, <1>11, <1>12, <1>13, <1>14,
     <1>15, <1>16 DEF Next, Drain, Calls

(* The coordinator of a root and its renderer port are always well typed, whatever the limits,
   the components, the plans of the evaluator and the envelopes of the producers: in particular
   no receipt beyond the last safe integer is ever handed out. *)
THEOREM TypeCorrect == Spec => []TypeOK
<1>1. QED BY InitType, NextType, PTL DEF Spec

-----------------------------------------------------------------------------
(* The accounts of a state in which the receipts in owed have left the queue and await their
   outcome: live items have distinct receipts already handed out, and exactly the receipts
   that are neither live nor owed have one outcome. *)
Ledger(s, owed) ==
  /\ \A i \in Live(s) : i.receipt \in 1 .. s.receipt
  /\ \A i, j \in Live(s) : i.receipt = j.receipt => i = j
  /\ s.queue \cap s.active = {}
  /\ owed \subseteq 1 .. s.receipt
  /\ owed \cap ReceiptsOf(Live(s)) = {}
  /\ \A r \in Receipts :
       s.outcomes[r] = IF r <= s.receipt /\ r \notin ReceiptsOf(Live(s)) \cup owed THEN 1 ELSE 0

(* The fields the ledger is about. *)
Books(s) == <<s.queue, s.active, s.receipt, s.outcomes, s.scheduled>>

(* Nothing is active unless its transaction is pending; without a policy nothing is queued. *)
Quiet(s) ==
  /\ s.active # {} => Pending(s)
  /\ ~s.scheduled => Live(s) = {}

(* The inductive invariant: what every handler of a root finds and leaves behind. *)
IInv ==
  /\ TypeOK
  /\ Ledger(root, {})
  /\ Quiet(root)

(* What the ledger says depends on the books alone. *)
LEMMA SameBooks ==
  ASSUME NEW s, NEW t, Books(t) = Books(s), NEW owed, Ledger(s, owed)
  PROVE  Ledger(t, owed) /\ Live(t) = Live(s) /\ t.scheduled = s.scheduled
BY DEF Books, Ledger, Live

(* Reporting live items while removing them from queue and active slot balances the ledger. *)
LEMMA Resolved ==
  ASSUME NEW s, RootState(s), NEW owed, Ledger(s, owed), NEW items, items \subseteq Live(s),
         NEW t, t.receipt = s.receipt, t.outcomes = Outcome(s, items).outcomes,
         Live(t) = Live(s) \ items, t.queue \cap t.active = {}
  PROVE  Ledger(t, owed)
<1>1. ReceiptsOf(Live(t)) = ReceiptsOf(Live(s)) \ ReceiptsOf(items)
  <2>1. \A i \in Live(s), j \in items : i.receipt = j.receipt => i = j
    BY DEF Ledger
  <2>2. QED BY <2>1 DEF ReceiptsOf
<1>2. ASSUME NEW r \in Receipts
      PROVE  t.outcomes[r] = IF r <= t.receipt /\ r \notin ReceiptsOf(Live(t)) \cup owed THEN 1 ELSE 0
  <2>1. t.outcomes[r] = IF r \in ReceiptsOf(items) THEN s.outcomes[r] + 1 ELSE s.outcomes[r]
    BY DEF Outcome, RootState
  <2>2. s.outcomes[r] = IF r <= s.receipt /\ r \notin ReceiptsOf(Live(s)) \cup owed THEN 1 ELSE 0
    BY DEF Ledger
  <2>3. CASE r \in ReceiptsOf(items)
    <3>1. r \in ReceiptsOf(Live(s))
      BY <2>3 DEF ReceiptsOf
    <3>2. r <= s.receipt /\ r \notin owed
      BY <3>1 DEF Ledger, ReceiptsOf
    <3>3. QED BY <2>1, <2>2, <2>3, <3>1, <3>2, <1>1
  <2>4. CASE r \notin ReceiptsOf(items)
    BY <2>1, <2>2, <2>4, <1>1
  <2>5. QED BY <2>3, <2>4
<1>3. \A i \in Live(t) : i \in Live(s)
  OBVIOUS
<1>4. owed \cap ReceiptsOf(Live(t)) = {}
  BY <1>1 DEF Ledger
<1>5. (\A i \in Live(t) : i.receipt \in 1 .. t.receipt) /\ owed \subseteq 1 .. t.receipt
  BY <1>3 DEF Ledger
<1>6. \A i, j \in Live(t) : i.receipt = j.receipt => i = j
  BY <1>3 DEF Ledger
<1>7. QED BY <1>2, <1>4, <1>5, <1>6 DEF Ledger

(* Reporting the items whose receipts are owed leaves nothing owed. *)
LEMMA DebtsPaid ==
  ASSUME NEW s, RootState(s), NEW items, Ledger(s, ReceiptsOf(items))
  PROVE  Ledger(Outcome(s, items), {})
<1> DEFINE t == Outcome(s, items)
<1>1. t.receipt = s.receipt /\ Live(t) = Live(s) /\ t.queue = s.queue /\ t.active = s.active
  BY DEF Outcome, RootState, Live
<1>2. ASSUME NEW r \in Receipts
      PROVE  t.outcomes[r] = IF r <= t.receipt /\ r \notin ReceiptsOf(Live(t)) THEN 1 ELSE 0
  <2>1. t.outcomes[r] = IF r \in ReceiptsOf(items) THEN s.outcomes[r] + 1 ELSE s.outcomes[r]
    BY DEF Outcome, RootState
  <2>2. s.outcomes[r] = IF r <= s.receipt /\ r \notin ReceiptsOf(Live(s)) \cup ReceiptsOf(items)
                        THEN 1 ELSE 0
    BY DEF Ledger
  <2>3. r \in ReceiptsOf(items) => r <= s.receipt /\ r \notin ReceiptsOf(Live(s))
    BY DEF Ledger
  <2>4. CASE r \in ReceiptsOf(items)
    BY <2>1, <2>2, <2>3, <2>4, <1>1
  <2>5. CASE r \notin ReceiptsOf(items)
    BY <2>1, <2>2, <2>5, <1>1
  <2>6. QED BY <2>4, <2>5
<1> HIDE DEF t
<1>3. QED BY <1>1, <1>2 DEF Ledger, t

(* Failing or rejecting a transition does not touch the books: settle/1 resolves its item. *)
LEMMA RejectedBooks ==
  ASSUME NEW s, RootState(s)
  PROVE  Books(Failed(s)) = Books(s) /\ Books(Rejected(s)) = Books(s)
BY DEF Failed, Rejected, Books, RootState

(* Abandoning a transition does not touch the books. *)
LEMMA AbandonBooks ==
  ASSUME NEW s, RootState(s), NEW cancelled
  PROVE  Books(Abandon(s, cancelled)) = Books(s)
BY RejectedBooks DEF Abandon

(* Submitting a transition does not touch the books. *)
LEMMA SubmitBooks ==
  ASSUME NEW s, RootState(s), NEW candidate, NEW stopping \in BOOLEAN, NEW answer
  PROVE  Books(Submit(s, candidate, stopping, answer)) = Books(s)
<1> DEFINE submitted == [s EXCEPT !.pending = candidate,
                                  !.status  = IF stopping THEN "stopping" ELSE "awaiting_commit"]
<1>1. Books(submitted) = Books(s)
  BY DEF Books, RootState
<1>2. Books(Failed(submitted)) = Books(s) /\ Books(Rejected(submitted)) = Books(s)
  BY DEF Failed, Rejected, Books, RootState
<1> HIDE DEF submitted
<1>3. QED BY <1>1, <1>2 DEF Submit, Abandon, submitted

(* Evaluating and submitting a transition does not touch the books. *)
LEMMA TransitionBooks ==
  ASSUME NEW s, RootState(s), NEW op \in Operations, NEW plan \in Plans, NEW prepared, NEW answer
  PROVE  /\ Books(Begin(s, op, plan, prepared, answer)) = Books(s)
         /\ Books(BeginWork(s, plan, prepared, answer)) = Books(s)
<1>1. Books(Begin(s, op, plan, prepared, answer)) = Books(s)
  <2> DEFINE corr  == NextCorrelation(s, op)
             tried == [s EXCEPT !.attempt = corr.seq, !.status = "evaluating"]
  <2>1. corr.seq \in Nat
    BY CorrelationType DEF Correlation
  <2> HIDE DEF corr
  <2>2. RootState(tried) /\ Books(tried) = Books(s)
    BY <2>1 DEF RootState, Statuses, Books
  <2> HIDE DEF tried
  <2> DEFINE candidate == [corr |-> corr, comps |-> plan.comps]
  <2> HIDE DEF candidate
  <2>3. Books(Submit(tried, candidate, FALSE, answer)) = Books(s)
    BY <2>2, SubmitBooks
  <2>4. Books(Rejected(tried)) = Books(s)
    BY <2>2, RejectedBooks
  <2>5. QED BY <2>3, <2>4 DEF Begin, tried, corr, candidate
<1>2. Books(BeginWork(s, plan, prepared, answer)) = Books(s)
  <2> DEFINE corr  == NextCorrelation(s, "update")
             tried == [s EXCEPT !.attempt = corr.seq, !.status = "evaluating", !.activeCorr = corr]
             ready == [tried EXCEPT !.reserved = Len(plan.messages),
                                    !.messages = Stamped(plan.messages, corr),
                                    !.timers   = Stamped(plan.timers, corr)]
  <2>1. corr \in Correlation /\ corr.seq \in Nat
    BY CorrelationType DEF Correlation, Operations
  <2>2. Stamped(plan.messages, corr) \in Seq(Item) /\ Stamped(plan.timers, corr) \in Seq(Item)
    BY <2>1, StampedType, RootAssumption
  <2>3. Len(plan.messages) \in Nat
    BY RootAssumption
  <2> HIDE DEF corr
  <2>4. RootState(tried) /\ Books(tried) = Books(s)
    BY <2>1 DEF RootState, Statuses, Books
  <2> HIDE DEF tried
  <2>5. RootState(ready) /\ Books(ready) = Books(s)
    BY <2>2, <2>3, <2>4 DEF RootState, Books
  <2> HIDE DEF ready
  <2> DEFINE candidate == [corr |-> corr, comps |-> plan.comps]
  <2> HIDE DEF candidate
  <2>6. Books(Submit(ready, candidate, FALSE, answer)) = Books(s)
    BY <2>5, SubmitBooks
  <2>7. Books(Rejected(tried)) = Books(s)
    BY <2>4, RejectedBooks
  <2>8. QED BY <2>6, <2>7 DEF BeginWork, ready, tried, corr, candidate
<1>3. QED BY <1>1, <1>2

(* A commit acknowledgement does not touch the books: settle/1 resolves its item. *)
LEMMA CommittedBooks ==
  ASSUME NEW s, RootState(s), NEW cleaned
  PROVE  Books(Committed(s, cleaned)) = Books(s)
<1>1. ASSUME NEW t, RootState(t), NEW g
      PROVE  RootState(Retire(t, g)) /\ Books(Retire(t, g)) = Books(t)
  <2>1. Books(Retire(t, g)) = Books(t)
    BY <1>1 DEF Retire, Books, RootState
  <2>2. QED BY <1>1, <2>1, RetireType
<1>2. Books(Disposed(s, cleaned)) = Books(s)
  <2> DEFINE next == IF Accepted(s) THEN Retire(s, s.accepted.corr.gen) ELSE s
  <2>1. RootState(next) /\ Books(next) = Books(s)
    BY <1>1
  <2> HIDE DEF next
  <2>2. Books([next EXCEPT !.pending = NoCandidate, !.status = "disposed"]) = Books(s)
    BY <2>1 DEF Books, RootState
  <2>3. Books(Failed(next)) = Books(s)
    BY <2>1, SubmitBooks, RejectedBooks
  <2>4. QED BY <2>2, <2>3 DEF Disposed, next
<1>3. Books(Promoted(s, cleaned)) = Books(s)
  <2> DEFINE base == IF Accepted(s) /\ s.pending.corr.op = "replace"
                     THEN Retire(s, s.accepted.corr.gen) ELSE s
             next == [base EXCEPT !.accepted = s.pending, !.pending = NoCandidate,
                                  !.status = "ready", !.published = @ \cup ReceiptsOf(s.active)]
  <2>1. RootState(base) /\ Books(base) = Books(s)
    BY <1>1
  <2> HIDE DEF base
  <2>2. Books(next) = Books(s) /\ Books(Failed(next)) = Books(s)
    BY <2>1 DEF Books, RootState, Failed
  <2>3. QED BY <2>2 DEF Promoted, base
<1>4. QED BY <1>2, <1>3 DEF Committed

(* The operations on timers do not touch the books. *)
LEMMA TimerBooks ==
  ASSUME NEW s, RootState(s), NEW keys, NEW intents, NEW item, NEW key
  PROVE  /\ Books(Cancelled(s, keys)) = Books(s)
         /\ Books(AppliedTimers(s, intents)) = Books(s)
         /\ Books(FinishedTick(s, item)) = Books(s)
         /\ Books(Fired(s, key)) = Books(s)
<1>1. \A ks : Books(Cancelled(s, ks)) = Books(s)
  BY DEF Cancelled, Books, RootState
<1>2. Books(AppliedTimers(s, intents)) = Books(s)
  BY DEF AppliedTimers, Books, RootState
<1>3. Books(Fired(s, key)) = Books(s)
  BY DEF Fired, Books, RootState
<1>4. Books(FinishedTick(s, item)) = Books(s)
  <2>1. Books([s EXCEPT !.entries[Key(item)].status = "waiting"]) = Books(s)
    BY DEF Books, RootState
  <2>2. QED BY <1>1, <2>1 DEF FinishedTick
<1>5. QED BY <1>1, <1>2, <1>3, <1>4

(* finish/1 empties the active slot and touches nothing else of the books. *)
LEMMA FinishBooks ==
  ASSUME NEW s, RootState(s)
  PROVE  Books(Finish(s)) = <<s.queue, {}, s.receipt, s.outcomes, s.scheduled>>
BY DEF Finish, Books, RootState

(* outcome/4 touches nothing of the books but the outcomes. *)
LEMMA OutcomeBooks ==
  ASSUME NEW s, RootState(s), NEW items
  PROVE  Books(Outcome(s, items))
           = <<s.queue, s.active, s.receipt, Outcome(s, items).outcomes, s.scheduled>>
BY DEF Outcome, Books, RootState

(* Follow-ups enter the queue under fresh receipts without an outcome. *)
LEMMA AppendedLedger ==
  ASSUME NEW s, RootState(s), Ledger(s, {}), NEW items \in Seq(Item), AppendFits(s, items)
  PROVE  Ledger(Appended(s, items), {}) /\ Appended(s, items).active = s.active
<1> DEFINE added == {[items[k] EXCEPT !.receipt = s.receipt + k] : k \in DOMAIN items}
           t == Appended(s, items)
<1>1. t.queue = s.queue \cup added /\ t.active = s.active /\ t.receipt = s.receipt + Len(items)
        /\ t.outcomes = s.outcomes
  BY DEF Appended, RootState
<1>2. s.receipt \in Nat /\ Len(items) \in Nat /\ s.receipt + Len(items) \in 0 .. MaxReceipt
  BY ScheduleAssumption DEF AppendFits, Headroom, RootState
<1>3. ASSUME NEW i \in added
      PROVE  \E k \in 1 .. Len(items) :
               i = [items[k] EXCEPT !.receipt = s.receipt + k] /\ i.receipt = s.receipt + k
  <2>1. PICK k \in DOMAIN items : i = [items[k] EXCEPT !.receipt = s.receipt + k]
    OBVIOUS
  <2>2. items[k] \in Item /\ k \in 1 .. Len(items)
    OBVIOUS
  <2>3. i.receipt = s.receipt + k
    BY <2>1, <2>2 DEF Item
  <2>4. QED BY <2>1, <2>2, <2>3
<1>4. \A k \in 1 .. Len(items) : s.receipt + k \in ReceiptsOf(added)
  <2> SUFFICES ASSUME NEW k \in 1 .. Len(items) PROVE s.receipt + k \in ReceiptsOf(added)
    OBVIOUS
  <2> DEFINE i == [items[k] EXCEPT !.receipt = s.receipt + k]
  <2>1. items[k] \in Item /\ i \in added
    OBVIOUS
  <2>2. i.receipt = s.receipt + k
    BY <2>1 DEF Item
  <2>3. QED BY <2>1, <2>2 DEF ReceiptsOf
<1> HIDE DEF added, t
<1>5. Live(t) = Live(s) \cup added
  BY <1>1 DEF Live
<1>6. \A i \in Live(s) : i.receipt \in 1 .. s.receipt
  BY DEF Ledger
<1>7. \A i \in added : i.receipt \in (s.receipt + 1) .. t.receipt
  <2> SUFFICES ASSUME NEW i \in added PROVE i.receipt \in (s.receipt + 1) .. t.receipt
    OBVIOUS
  <2>1. PICK k \in 1 .. Len(items) : i.receipt = s.receipt + k
    BY <1>3
  <2>2. QED BY <2>1, <1>1, <1>2
<1>8. \A i \in Live(s), j \in added : i.receipt # j.receipt
  BY <1>2, <1>6, <1>7
<1>9. \A i, j \in added : i.receipt = j.receipt => i = j
  <2> SUFFICES ASSUME NEW i \in added, NEW j \in added, i.receipt = j.receipt PROVE i = j
    OBVIOUS
  <2>1. PICK k \in 1 .. Len(items) : i = [items[k] EXCEPT !.receipt = s.receipt + k] /\ i.receipt = s.receipt + k
    BY <1>3
  <2>2. PICK l \in 1 .. Len(items) : j = [items[l] EXCEPT !.receipt = s.receipt + l] /\ j.receipt = s.receipt + l
    BY <1>3
  <2>3. k = l
    BY <2>1, <2>2, <1>2
  <2>4. QED BY <2>1, <2>2, <2>3
<1>10. \A i, j \in Live(t) : i.receipt = j.receipt => i = j
  BY <1>5, <1>8, <1>9 DEF Ledger
<1>11. t.queue \cap t.active = {}
  BY <1>1, <1>8 DEF Ledger, Live
<1>12. \A i \in Live(t) : i.receipt \in 1 .. t.receipt
  BY <1>1, <1>2, <1>5, <1>6, <1>7
<1>13. ReceiptsOf(Live(t)) = ReceiptsOf(Live(s)) \cup ReceiptsOf(added)
  BY <1>5 DEF ReceiptsOf
<1>14. ReceiptsOf(added) = (s.receipt + 1) .. t.receipt
  <2>1. ReceiptsOf(added) \subseteq (s.receipt + 1) .. t.receipt
    BY <1>7 DEF ReceiptsOf
  <2>2. ASSUME NEW r \in (s.receipt + 1) .. t.receipt
        PROVE  r \in ReceiptsOf(added)
    <3>1. r - s.receipt \in 1 .. Len(items) /\ s.receipt + (r - s.receipt) = r
      BY <1>1, <1>2
    <3>2. QED BY <3>1, <1>4
  <2>3. QED BY <2>1, <2>2
<1>15. ASSUME NEW r \in Receipts
       PROVE  t.outcomes[r] = IF r <= t.receipt /\ r \notin ReceiptsOf(Live(t)) \cup {} THEN 1 ELSE 0
  <2>1. s.outcomes[r] = IF r <= s.receipt /\ r \notin ReceiptsOf(Live(s)) THEN 1 ELSE 0
    BY DEF Ledger
  <2>2. r \in ReceiptsOf(Live(s)) => r <= s.receipt
    BY <1>6 DEF ReceiptsOf
  <2>3. r \in Nat
    BY ScheduleAssumption DEF Receipts
  <2>4. QED BY <1>1, <1>2, <1>13, <1>14, <2>1, <2>2, <2>3
<1>16. QED BY <1>1, <1>10, <1>11, <1>12, <1>15 DEF Ledger, t

(* Internal work enters the queue under a fresh receipt without an outcome. *)
LEMMA InternalLedger ==
  ASSUME NEW s, RootState(s), Ledger(s, {}), NEW item \in Item, Headroom(s, 1 + s.reserved)
  PROVE  Ledger(Internal(s, item), {}) /\ Internal(s, item).active = s.active
<1> DEFINE new == [item EXCEPT !.receipt = s.receipt + 1]
           t   == Internal(s, item)
<1>1. t.queue = s.queue \cup {new} /\ t.active = s.active /\ t.receipt = s.receipt + 1
        /\ t.outcomes = s.outcomes
  BY DEF Internal, RootState
<1>2. new.receipt = s.receipt + 1
  BY DEF Item
<1> HIDE DEF new, t
<1>3. s.receipt \in Nat
  BY DEF RootState
<1>4. Live(t) = Live(s) \cup {new}
  BY <1>1 DEF Live
<1>5. \A i \in Live(s) : i.receipt \in 1 .. s.receipt /\ i.receipt # new.receipt
  BY <1>2, <1>3 DEF Ledger
<1>6. ReceiptsOf(Live(t)) = ReceiptsOf(Live(s)) \cup {s.receipt + 1}
  BY <1>2, <1>4 DEF ReceiptsOf
<1>7. ASSUME NEW r \in Receipts
      PROVE  t.outcomes[r] = IF r <= t.receipt /\ r \notin ReceiptsOf(Live(t)) \cup {} THEN 1 ELSE 0
  <2>1. s.outcomes[r] = IF r <= s.receipt /\ r \notin ReceiptsOf(Live(s)) THEN 1 ELSE 0
    BY DEF Ledger
  <2>2. r \in Nat
    BY ScheduleAssumption DEF Receipts
  <2>3. s.receipt + 1 \notin ReceiptsOf(Live(s))
    BY <1>2, <1>5 DEF ReceiptsOf
  <2>4. QED BY <1>1, <1>3, <1>6, <2>1, <2>2, <2>3
<1>8. t.queue \cap t.active = {}
  BY <1>1, <1>5 DEF Ledger, Live
<1>9. \A i \in Live(t) : i.receipt \in 1 .. t.receipt
  BY <1>1, <1>2, <1>3, <1>4, <1>5
<1>10. \A i, j \in Live(t) : i.receipt = j.receipt => i = j
  BY <1>4, <1>5 DEF Ledger
<1>11. QED BY <1>1, <1>7, <1>8, <1>9, <1>10 DEF Ledger, t

(* Once no transaction is pending the active item has its outcome and the slot is free. *)
LEMMA SettleActiveLedger ==
  ASSUME NEW s, RootState(s), Ledger(s, {}), ~s.scheduled => Live(s) = {}
  PROVE  /\ Ledger(SettleActive(s), {})
         /\ Quiet(SettleActive(s))
         /\ SettleActive(s).scheduled = s.scheduled
<1>1. CASE Pending(s) \/ s.active = {}
  BY <1>1 DEF SettleActive, Quiet
<1>2. CASE ~(Pending(s) \/ s.active = {})
  <2> DEFINE item     == CHOOSE i \in s.active : TRUE
             told     == Outcome(s, s.active)
             freed    == Finish(told)
             finished == FinishedTick(freed, item)
             applied  == IF ActiveCommitted(s) /\ s.status = "ready"
                         THEN ApplyIntents(finished, s.messages, s.timers)
                         ELSE finished
  <2>1. s.scheduled
    BY <1>2 DEF Live
  <2>2. RootState(told) /\ RootState(freed) /\ RootState(finished)
    BY OutcomeType, FinishType, FinishedTickType
  <2>3. Books(freed) = <<s.queue, {}, s.receipt, told.outcomes, s.scheduled>>
    <3>1. Books(told) = <<s.queue, s.active, s.receipt, told.outcomes, s.scheduled>>
      BY OutcomeBooks
    <3> HIDE DEF told
    <3>2. Books(freed) = <<told.queue, {}, told.receipt, told.outcomes, told.scheduled>>
      BY <2>2, FinishBooks
    <3>3. QED BY <3>1, <3>2 DEF Books
  <2>4. Ledger(freed, {})
    <3>1. freed.receipt = s.receipt /\ freed.outcomes = told.outcomes /\ freed.queue = s.queue
            /\ freed.active = {}
      BY <2>3 DEF Books
    <3>2. Live(freed) = Live(s) \ s.active
      BY <3>1 DEF Live, Ledger
    <3> HIDE DEF freed
    <3>3. QED BY <3>1, <3>2, Resolved DEF Live
  <2>5. Books(finished) = Books(freed)
    BY <2>2, TimerBooks
  <2> HIDE DEF told, freed
  <2>6. Ledger(finished, {}) /\ finished.active = {} /\ finished.scheduled = s.scheduled
    BY <2>3, <2>4, <2>5, SameBooks DEF Books
  <2> HIDE DEF finished
  <2>7. Ledger(applied, {}) /\ applied.active = {} /\ applied.scheduled = s.scheduled
          /\ RootState(applied)
    <3>1. s.messages \in Seq(Item) /\ s.timers \in Seq(Item)
      BY DEF RootState
    <3>2. CASE CommitFits(finished, s.messages, s.timers)
      <4> DEFINE longer == Appended(finished, s.messages)
      <4>1. RootState(longer) /\ Ledger(longer, {}) /\ longer.active = {}
        BY <2>2, <2>6, <3>1, <3>2, AppendedType, AppendedLedger DEF CommitFits
      <4>2. longer.scheduled = s.scheduled
        BY <2>2, <2>6 DEF Appended, RootState
      <4> HIDE DEF longer
      <4>3. Books(AppliedTimers(longer, s.timers)) = Books(longer)
        BY <4>1, TimerBooks
      <4>4. Ledger(AppliedTimers(longer, s.timers), {})
              /\ AppliedTimers(longer, s.timers).active = {}
              /\ AppliedTimers(longer, s.timers).scheduled = s.scheduled
        BY <4>1, <4>2, <4>3, SameBooks DEF Books
      <4>5. RootState(AppliedTimers(longer, s.timers))
        BY <3>1, <4>1, AppliedTimersType
      <4>6. QED BY <2>2, <2>6, <3>2, <4>4, <4>5 DEF ApplyIntents, longer
    <3>3. CASE ~CommitFits(finished, s.messages, s.timers)
      <4> DEFINE broken == [finished EXCEPT !.status = "broken"]
      <4>1. RootState(broken) /\ Books(broken) = Books(finished)
        BY <2>2 DEF RootState, Statuses, Books
      <4> HIDE DEF broken
      <4>2. Ledger(broken, {}) /\ broken.active = {} /\ broken.scheduled = s.scheduled
        BY <4>1, <2>6, SameBooks DEF Books
      <4>3. QED BY <2>2, <2>6, <3>3, <4>1, <4>2 DEF ApplyIntents, broken
    <3>4. QED BY <3>2, <3>3
  <2> DEFINE reports == IF ActiveCommitted(s) THEN applied.reported \cup ReceiptsOf(s.active)
                                              ELSE applied.reported
             last    == [applied EXCEPT !.activeCorr = NoCorrelation, !.messages = <<>>,
                                        !.timers = <<>>, !.reported = reports]
  <2> HIDE DEF applied, reports
  <2>8. Books(last) = Books(applied)
    BY <2>7 DEF Books, RootState
  <2>9. SettleActive(s) = last
    BY <1>2 DEF SettleActive, applied, reports, finished, freed, told
  <2> HIDE DEF last
  <2>10. Ledger(last, {}) /\ last.active = {} /\ last.scheduled = s.scheduled
    BY <2>7, <2>8, SameBooks DEF Books
  <2>11. QED BY <2>1, <2>9, <2>10 DEF Quiet
<1>3. QED BY <1>1, <1>2

(* Work that lost its owner or its target is cancelled with an outcome each. *)
LEMMA PruneLedger ==
  ASSUME NEW s, RootState(s), Ledger(s, {}), Quiet(s)
  PROVE  Ledger(Prune(s), {}) /\ Quiet(Prune(s)) /\ Prune(s).scheduled = s.scheduled
<1> DEFINE timed == Cancelled(s, {k \in DOMAIN s.entries : ~Deliverable(s, s.entries[k].item)})
           gone  == {i \in s.queue : ~Deliverable(s, i) \/ ~ValidTick(timed, i)}
           told  == Outcome(timed, gone)
           t     == [told EXCEPT !.queue = @ \ gone]
<1>1. RootState(timed) /\ Books(timed) = Books(s) /\ timed.pending = s.pending
  <2>1. timed.pending = s.pending
    BY DEF Cancelled, RootState
  <2>2. QED BY <2>1, CancelledType, TimerBooks
<1>2. gone \subseteq s.queue
  OBVIOUS
<1> HIDE DEF timed, gone
<1>3. told.queue = s.queue /\ told.active = s.active /\ told.receipt = s.receipt
        /\ told.scheduled = s.scheduled /\ told.pending = s.pending /\ RootState(told)
  <2>1. RootState(told)
    BY <1>1, OutcomeType
  <2>2. told.queue = timed.queue /\ told.active = timed.active /\ told.receipt = timed.receipt
        /\ told.scheduled = timed.scheduled /\ told.pending = timed.pending
    BY <1>1 DEF Outcome, RootState
  <2>3. QED BY <1>1, <2>1, <2>2 DEF Books
<1> HIDE DEF told
<1>4. t.queue = s.queue \ gone /\ t.active = s.active /\ t.receipt = s.receipt
        /\ t.outcomes = told.outcomes /\ t.scheduled = s.scheduled /\ t.pending = s.pending
  BY <1>3 DEF RootState
<1> HIDE DEF t
<1>5. Ledger(timed, {}) /\ Live(timed) = Live(s)
  BY <1>1, SameBooks
<1>6. Live(t) = Live(timed) \ gone
  BY <1>2, <1>4, <1>5 DEF Live, Ledger
<1>7. Ledger(t, {})
  <2>1. t.receipt = timed.receipt /\ gone \subseteq Live(timed)
    BY <1>1, <1>2, <1>4, <1>5 DEF Books, Live
  <2>2. t.outcomes = Outcome(timed, gone).outcomes
    BY <1>4 DEF told
  <2>3. t.queue \cap t.active = {}
    BY <1>4 DEF Ledger
  <2>4. QED BY <1>1, <1>5, <1>6, <2>1, <2>2, <2>3, Resolved
<1>8. Quiet(t)
  BY <1>4, <1>5, <1>6 DEF Quiet, Pending
<1>9. QED BY <1>4, <1>7, <1>8 DEF Prune, t, told, gone, timed

(* Closing gives every live item its outcome and leaves none. *)
LEMMA CloseScheduleLedger ==
  ASSUME NEW s, RootState(s), Ledger(s, {}), ~s.scheduled => Live(s) = {}
  PROVE  /\ Ledger(CloseSchedule(s), {})
         /\ Live(CloseSchedule(s)) = {}
         /\ CloseSchedule(s).scheduled = s.scheduled
<1>1. CASE ~s.scheduled
  BY <1>1 DEF CloseSchedule
<1>2. CASE s.scheduled
  <2> DEFINE told == Outcome(s, Live(s))
             t    == CloseSchedule(s)
  <2>1. RootState(told) /\ told.receipt = s.receipt /\ told.scheduled = s.scheduled
    <3>1. RootState(told)
      BY OutcomeType
    <3>2. told.receipt = s.receipt /\ told.scheduled = s.scheduled
      BY DEF Outcome, RootState
    <3>3. QED BY <3>1, <3>2
  <2>2. t = [Finish(told) EXCEPT
          !.queue = {}, !.slots = 0, !.activeCorr = NoCorrelation,
          !.messages = <<>>, !.timers = <<>>, !.entries = [k \in {} |-> 0]]
    BY <1>2 DEF CloseSchedule
  <2> HIDE DEF told, t
  <2>3. t.queue = {} /\ t.active = {} /\ t.receipt = s.receipt /\ t.outcomes = told.outcomes
          /\ t.scheduled = s.scheduled
    BY <2>1, <2>2 DEF Finish, RootState
  <2>4. Live(t) = {}
    BY <2>3 DEF Live
  <2>5. Ledger(t, {})
    BY <2>3, <2>4, Resolved DEF told
  <2>6. QED BY <2>3, <2>4, <2>5 DEF t
<1>3. QED BY <1>1, <1>2

(* settle/1 keeps the ledger balanced and leaves the root quiet. *)
LEMMA SettleLedger ==
  ASSUME NEW s, RootState(s), Ledger(s, {}), ~s.scheduled => Live(s) = {}
  PROVE  Ledger(Settle(s), {}) /\ Quiet(Settle(s))
<1>1. CASE ~s.scheduled
  BY <1>1 DEF Settle, Quiet, Live
<1>2. CASE s.scheduled
  <2> DEFINE done == Prune(SettleActive(s))
  <2>1. RootState(done) /\ Ledger(done, {}) /\ Quiet(done)
    <3>1. RootState(SettleActive(s)) /\ Ledger(SettleActive(s), {}) /\ Quiet(SettleActive(s))
      BY SettleActiveType, SettleActiveLedger
    <3>2. QED BY <3>1, PruneType, PruneLedger
  <2> HIDE DEF done
  <2>2. Ledger(CloseSchedule(done), {}) /\ Quiet(CloseSchedule(done))
    BY <2>1, CloseScheduleLedger DEF Quiet, Live
  <2>3. Ledger([done EXCEPT !.drain = TRUE], {}) /\ Quiet([done EXCEPT !.drain = TRUE])
    <3>1. Books([done EXCEPT !.drain = TRUE]) = Books(done)
            /\ [done EXCEPT !.drain = TRUE].pending = done.pending
      BY <2>1 DEF Books, RootState
    <3>2. QED BY <2>1, <3>1, SameBooks DEF Quiet, Books, Pending
  <2>4. QED BY <1>2, <2>1, <2>2, <2>3 DEF Settle, done
<1>3. QED BY <1>1, <1>2

(* What an item supersedes is queued. *)
LEMMA NewestType ==
  ASSUME NEW s, NEW item
  PROVE  Superseded(s, item) \subseteq s.queue
BY DEF Superseded

(* Admission leaves the receipt of what it replaced, or of the cancellation it numbers, owed. *)
LEMMA AdmittedLedger ==
  ASSUME NEW s, RootState(s), Ledger(s, {}), NEW envelope, envelope.item \in Item,
         envelope.sequence \in Nat,
         NEW g, NEW v, NEW c, Admissible(s, envelope, g, v, c)
  PROVE  /\ Admitted(s, envelope).scheduled = s.scheduled
         /\ IF envelope.item.kind = "timer_cancel"
            THEN Ledger(Admitted(s, envelope), {s.receipt + 1})
            ELSE Ledger(Admitted(s, envelope), ReceiptsOf(Superseded(s, envelope.item)))
<1> DEFINE item == envelope.item
           old  == Superseded(s, item)
           new  == [item EXCEPT !.receipt = s.receipt + 1]
           t    == Admitted(s, envelope)
<1>1. s.receipt \in Nat /\ s.receipt + 1 <= MaxReceipt
  BY ScheduleAssumption DEF Admissible, Headroom, RootState
<1>2. t.active = s.active /\ t.receipt = s.receipt + 1 /\ t.outcomes = s.outcomes
        /\ t.scheduled = s.scheduled
        /\ t.queue = IF item.kind = "timer_cancel" THEN s.queue ELSE (s.queue \ old) \cup {new}
  <2>1. CASE item.kind = "timer_cancel"
    BY <2>1 DEF Admitted, Inserted, RootState
  <2>2. CASE item.kind # "timer_cancel"
    BY <2>2 DEF Admitted, Inserted, RootState
  <2>3. QED BY <2>1, <2>2
<1>3. new.receipt = s.receipt + 1
  BY DEF Item
<1>4. old \subseteq s.queue
  BY DEF Superseded
<1> HIDE DEF item, old, new, t
<1>5. \A i \in Live(s) : i.receipt \in 1 .. s.receipt /\ i.receipt # s.receipt + 1
  BY <1>1 DEF Ledger
<1>6. s.receipt + 1 \notin ReceiptsOf(Live(s))
  BY <1>5 DEF ReceiptsOf
<1>7. \A r \in Receipts :
        s.outcomes[r] = IF r <= s.receipt /\ r \notin ReceiptsOf(Live(s)) THEN 1 ELSE 0
  BY DEF Ledger
<1>8. \A r \in Receipts : r \in Nat /\ (r <= s.receipt + 1 <=> r <= s.receipt \/ r = s.receipt + 1)
  BY <1>1, ScheduleAssumption DEF Receipts
<1>9. CASE item.kind = "timer_cancel"
  <2>1. Live(t) = Live(s)
    BY <1>2, <1>9 DEF Live
  <2>2. \A r \in Receipts : t.outcomes[r] =
          IF r <= t.receipt /\ r \notin ReceiptsOf(Live(t)) \cup {s.receipt + 1} THEN 1 ELSE 0
    BY <1>1, <1>2, <1>7, <1>8, <2>1
  <2>3. {s.receipt + 1} \subseteq 1 .. t.receipt
    BY <1>1, <1>2
  <2>4. \A i \in Live(t) : i.receipt \in 1 .. t.receipt
    BY <1>1, <1>2, <1>5, <2>1
  <2>5. Ledger(t, {s.receipt + 1})
    BY <1>2, <1>6, <1>9, <2>1, <2>2, <2>3, <2>4 DEF Ledger
  <2>6. QED BY <1>2, <1>9, <2>5 DEF t, item
<1>10. CASE item.kind # "timer_cancel"
  <2>1. Live(t) = (Live(s) \ old) \cup {new}
    BY <1>2, <1>4, <1>10 DEF Live, Ledger
  <2>2. ReceiptsOf(Live(t)) = (ReceiptsOf(Live(s)) \ ReceiptsOf(old)) \cup {s.receipt + 1}
    <3>1. \A i \in Live(s), j \in old : i.receipt = j.receipt => i = j
      BY <1>4 DEF Ledger, Live
    <3>2. QED BY <1>3, <2>1, <3>1 DEF ReceiptsOf
  <2>3. ReceiptsOf(old) \subseteq ReceiptsOf(Live(s))
    BY <1>4 DEF ReceiptsOf, Live
  <2>4. \A r \in Receipts : t.outcomes[r] =
          IF r <= t.receipt /\ r \notin ReceiptsOf(Live(t)) \cup ReceiptsOf(old) THEN 1 ELSE 0
    BY <1>1, <1>2, <1>7, <1>8, <2>2, <2>3
  <2>5. \A i \in Live(t) : i.receipt \in 1 .. t.receipt
    BY <1>1, <1>2, <1>3, <1>5, <2>1
  <2>6. \A i, j \in Live(t) : i.receipt = j.receipt => i = j
    BY <1>3, <1>5, <2>1 DEF Ledger
  <2>7. t.queue \cap t.active = {}
    BY <1>2, <1>3, <1>5, <1>10 DEF Ledger, Live
  <2>8. ReceiptsOf(old) \subseteq 1 .. t.receipt
    BY <1>1, <1>2, <1>4, <1>5 DEF ReceiptsOf, Live
  <2>9. ReceiptsOf(old) \cap ReceiptsOf(Live(t)) = {}
    BY <1>6, <2>2, <2>3
  <2>10. Ledger(t, ReceiptsOf(old))
    BY <2>4, <2>5, <2>6, <2>7, <2>8, <2>9 DEF Ledger
  <2>11. QED BY <1>2, <1>10, <2>10 DEF t, item, old
<1>11. QED BY <1>9, <1>10

(* The selected item moves from the queue to the active slot and stays live. *)
LEMMA SelectedLedger ==
  ASSUME RootState(root), Ledger(root, {}), root.queue # {}, root.active = {}
  PROVE  /\ Ledger(Selected, {})
         /\ Selected.active = {Oldest(root.queue)}
         /\ Live(Selected) = Live(root)
         /\ Selected.scheduled = root.scheduled
<1> DEFINE item == Oldest(root.queue)
           t    == Selected
<1>1. item \in root.queue
  BY OldestType DEF RootState
<1>2. t.active = {item} /\ t.queue = root.queue \ {item} /\ t.receipt = root.receipt
        /\ t.outcomes = root.outcomes /\ t.scheduled = root.scheduled
  BY DEF Selected, Select, RootState
<1> HIDE DEF item, t
<1>3. Live(t) = Live(root)
  BY <1>1, <1>2 DEF Live
<1>4. Ledger(t, {})
  BY <1>2, <1>3 DEF Ledger
<1>5. QED BY <1>2, <1>3, <1>4 DEF t, item

(* cancel_owned/2 reports every start and tick of the timer and then the cancellation itself. *)
LEMMA CancelOwnedLedger ==
  ASSUME NEW s, RootState(s), NEW item \in Item, Ledger(s, {item.receipt}), NEW cancelled
  PROVE  /\ Ledger(CancelOwned(s, item, cancelled), {})
         /\ CancelOwned(s, item, cancelled).scheduled = s.scheduled
<1> DEFINE key     == Key(item)
           owned   == {i \in s.queue : i.kind \in {"timer_start", "timer_tick"} /\ Key(i) = key}
           told    == Outcome(s, owned)
           base    == Cancelled(told, {key})
           voided  == [k \in DOMAIN base.timers |->
                         IF base.timers[k].kind = "timer_start" /\ Key(base.timers[k]) = key
                         THEN [base.timers[k] EXCEPT !.kind = "void"]
                         ELSE base.timers[k]]
           dropped == [base EXCEPT !.queue = base.queue \ owned, !.timers = voided]
           told2   == Outcome(dropped, s.active)
           freed   == Finish(told2)
           stopped == [freed EXCEPT
                         !.activeCorr = NoCorrelation, !.messages = <<>>, !.timers = <<>>]
           ticking == \E i \in s.active : i.kind = "timer_tick" /\ Key(i) = key
           next    == CASE ~ticking -> dropped
                        [] ticking /\ Pending(s) -> Abandon(stopped, cancelled)
                        [] OTHER -> stopped
           owed    == {item.receipt}
<1>1. RootState(told) /\ RootState(base)
  BY OutcomeType, CancelledType
<1>2. RootState(dropped)
  <2>1. base.timers \in Seq(Item)
    BY <1>1 DEF RootState
  <2>2. ASSUME NEW i \in Item PROVE [i EXCEPT !.kind = "void"] \in Item
    BY DEF Item, Kinds
  <2> HIDE DEF base, key, owned
  <2>3. voided \in Seq(Item)
    BY <2>1, <2>2
  <2> HIDE DEF voided
  <2>4. QED BY <1>1, <2>3 DEF RootState
<1>3. /\ dropped.queue = s.queue \ owned /\ dropped.active = s.active
      /\ dropped.receipt = s.receipt /\ dropped.outcomes = told.outcomes
      /\ dropped.scheduled = s.scheduled
  <2>1. told.queue = s.queue /\ told.active = s.active /\ told.receipt = s.receipt
          /\ told.scheduled = s.scheduled
    BY DEF Outcome, RootState
  <2>2. Books(base) = Books(told)
    BY <1>1, TimerBooks
  <2> HIDE DEF base, voided, owned, told
  <2>3. QED BY <1>1, <2>1, <2>2 DEF Books, RootState
<1>4. Ledger(dropped, owed)
  <2>1. owned \subseteq Live(s) /\ Live(dropped) = Live(s) \ owned
          /\ dropped.queue \cap dropped.active = {}
    <3> HIDE DEF dropped
    <3>1. owned \subseteq s.queue
      OBVIOUS
    <3> HIDE DEF owned
    <3>2. QED BY <1>3, <3>1 DEF Live, Ledger
  <2> HIDE DEF dropped, owned
  <2>2. QED BY <1>3, <2>1, Resolved DEF told
<1> HIDE DEF dropped
<1>5. /\ RootState(told2) /\ RootState(freed) /\ RootState(stopped)
      /\ stopped.queue = dropped.queue /\ stopped.active = {}
      /\ stopped.receipt = dropped.receipt /\ stopped.outcomes = told2.outcomes
      /\ stopped.scheduled = s.scheduled
  <2>1. RootState(told2) /\ RootState(freed)
    BY <1>2, OutcomeType, FinishType
  <2>2. told2.queue = dropped.queue /\ told2.receipt = dropped.receipt
          /\ told2.scheduled = dropped.scheduled
    BY <1>2 DEF Outcome, RootState
  <2> HIDE DEF told2
  <2>3. Books(freed) = <<told2.queue, {}, told2.receipt, told2.outcomes, told2.scheduled>>
    BY <2>1, FinishBooks
  <2>4. <<>> \in Seq(Item)
    OBVIOUS
  <2> HIDE DEF freed
  <2>5. RootState(stopped) /\ Books(stopped) = Books(freed)
    BY <2>1, <2>4, NothingTypes DEF Books, RootState
  <2>6. QED BY <1>3, <2>1, <2>2, <2>3, <2>5 DEF Books
<1>6. Ledger(stopped, owed)
  <2> HIDE DEF stopped, owed
  <2>1. s.active \subseteq Live(dropped) /\ Live(stopped) = Live(dropped) \ s.active
          /\ stopped.queue \cap stopped.active = {}
    BY <1>3, <1>4, <1>5 DEF Live, Ledger
  <2>2. QED BY <1>2, <1>4, <1>5, <2>1, Resolved DEF told2
<1> HIDE DEF stopped, owed
<1>7. /\ RootState(Abandon(stopped, cancelled)) /\ Ledger(Abandon(stopped, cancelled), owed)
      /\ Abandon(stopped, cancelled).scheduled = s.scheduled
  BY <1>5, <1>6, AbandonType, AbandonBooks, SameBooks DEF Books
<1>8. RootState(next) /\ Ledger(next, owed) /\ next.scheduled = s.scheduled
  BY <1>2, <1>3, <1>4, <1>5, <1>6, <1>7
<1>9. CancelOwned(s, item, cancelled) = Outcome(next, {item})
  BY DEF CancelOwned, stopped, dropped
<1> HIDE DEF next
<1>10. Ledger(Outcome(next, {item}), {})
  <2>1. ReceiptsOf({item}) = owed
    BY DEF ReceiptsOf, owed
  <2>2. QED BY <1>8, <2>1, DebtsPaid
<1>11. Outcome(next, {item}).scheduled = s.scheduled
  BY <1>8 DEF Outcome, RootState
<1>12. QED BY <1>9, <1>10, <1>11

(* A root process starts with balanced books. *)
LEMMA InitIInv == Init => IInv
<1> SUFFICES ASSUME Init PROVE Ledger(root, {}) /\ Quiet(root)
  BY InitType DEF IInv
<1>1. /\ root.queue = {} /\ root.active = {} /\ root.receipt = 0
      /\ root.outcomes = [r \in Receipts |-> 0]
  BY DEF Init
<1>2. Live(root) = {}
  BY <1>1 DEF Live
<1>3. \A r \in Receipts : root.outcomes[r] = 0 /\ ~(r <= root.receipt)
  BY <1>1, ScheduleAssumption DEF Receipts
<1>4. Ledger(root, {})
  BY <1>1, <1>2, <1>3 DEF Ledger, ReceiptsOf
<1>5. QED BY <1>1, <1>2, <1>4 DEF Quiet

(* Every handler keeps the books balanced. *)
LEMMA NextIInv == IInv /\ [Next]_vars => IInv'
<1> SUFFICES ASSUME RootState(root), renderer \in RendererState, Ledger(root, {}), Quiet(root),
                    [Next]_vars
             PROVE  Ledger(root', {}) /\ Quiet(root')
  <2>1. IInv /\ [Next]_vars => TypeOK'
    BY NextType DEF IInv
  <2>2. Ledger(root, {})' <=> Ledger(root', {})
    BY DEF Ledger, Live
  <2>3. Quiet(root)' <=> Quiet(root')
    BY DEF Quiet, Live, Pending
  <2>4. QED BY <2>1, <2>2, <2>3 DEF IInv, TypeOK
<1> USE DEF Answers
<1>0. "mount" \in Operations /\ "replace" \in Operations /\ "update" \in Operations
  BY DEF Operations
<1>a. ~root.scheduled => Live(root) = {}
  BY DEF Quiet
<1>b. ASSUME NEW t, RootState(t), Books(t) = Books(root)
      PROVE  Ledger(Settle(t), {}) /\ Quiet(Settle(t))
  BY <1>a, <1>b, SameBooks, SettleLedger
<1>1. CASE Boot
  <2>1. PICK plan \in Plans, prepared \in BOOLEAN, answer \in Answers :
           root' = Settle(Begin(root, "mount", plan, prepared, answer))
    BY <1>1 DEF Boot
  <2>2. QED BY <1>0, <1>b, <2>1, BeginType, TransitionBooks
<1>2. ASSUME NEW seq \in 1 .. root.attempt, Deadline(seq)
      PROVE  Ledger(root', {}) /\ Quiet(root')
  <2>1. PICK cancelled \in BOOLEAN : root' = Settle(Abandon(root, cancelled))
    BY <1>2 DEF Deadline
  <2>2. QED BY <1>b, <2>1, AbandonType, AbandonBooks
<1>3. CASE DrainNothing
  <2> DEFINE t == [root EXCEPT !.drain = FALSE]
  <2>1. Books(t) = Books(root) /\ t.pending = root.pending
    BY DEF Books, RootState
  <2>2. root' = t
    BY <1>3 DEF DrainNothing
  <2> HIDE DEF t
  <2>3. QED BY <2>1, <2>2, SameBooks DEF Quiet, Pending, Books
<1>c. ASSUME CanDrain
      PROVE  /\ root.active = {} /\ root.queue # {} /\ root.scheduled
             /\ RootState(Selected) /\ Ledger(Selected, {})
             /\ Selected.active = {Oldest(root.queue)}
             /\ Selected.scheduled
             /\ Oldest(root.queue) \in Item
  <2>1. root.active = {} /\ root.queue # {}
    BY <1>c DEF CanDrain, Quiet
  <2>2. root.scheduled
    BY <1>a, <2>1 DEF Live
  <2>3. QED BY <2>1, <2>2, SelectedType, SelectedLedger
<1>d. ASSUME NEW s, RootState(s), Ledger(s, {}), NEW item, s.active = {item}
      PROVE  /\ RootState(Finish(Outcome(s, {item}))) /\ Ledger(Finish(Outcome(s, {item})), {})
             /\ Finish(Outcome(s, {item})).active = {}
             /\ Finish(Outcome(s, {item})).scheduled = s.scheduled
  <2> DEFINE told == Outcome(s, {item})
             t    == Finish(told)
  <2>1. RootState(told) /\ RootState(t)
    BY <1>d, OutcomeType, FinishType
  <2>2. told.queue = s.queue /\ told.receipt = s.receipt /\ told.scheduled = s.scheduled
    BY <1>d DEF Outcome, RootState
  <2> HIDE DEF told
  <2>3. t.queue = s.queue /\ t.active = {} /\ t.receipt = s.receipt /\ t.scheduled = s.scheduled
          /\ t.outcomes = told.outcomes
    BY <2>1, <2>2 DEF Finish, RootState
  <2> HIDE DEF t
  <2>4. {item} \subseteq Live(s) /\ Live(t) = Live(s) \ {item} /\ t.queue \cap t.active = {}
    BY <1>d, <2>3 DEF Live, Ledger
  <2>5. Ledger(t, {})
    BY <1>d, <2>3, <2>4, Resolved DEF told
  <2>6. QED BY <2>1, <2>3, <2>5 DEF t, told
<1>4. CASE DrainRefused
  <2> DEFINE item  == Oldest(root.queue)
             freed == Finish(Outcome(Selected, {item}))
             next  == FinishedTick(freed, item)
             last  == [next EXCEPT !.drain = TRUE]
  <2>1. CanDrain
    BY <1>4 DEF DrainRefused
  <2>2. RootState(freed) /\ Ledger(freed, {}) /\ freed.active = {} /\ freed.scheduled
    BY <2>1, <1>c, <1>d
  <2>3. root' = last
    BY <1>4 DEF DrainRefused
  <2> HIDE DEF freed
  <2>4. RootState(next) /\ Books(next) = Books(freed)
    BY <2>2, FinishedTickType, TimerBooks
  <2> HIDE DEF next
  <2>5. Books(last) = Books(freed)
    BY <2>4 DEF Books, RootState
  <2> HIDE DEF last
  <2>6. Ledger(last, {}) /\ last.active = {} /\ last.scheduled
    BY <2>2, <2>5, SameBooks DEF Books
  <2>7. QED BY <2>3, <2>6 DEF Quiet
<1>5. CASE DrainTimerStart
  <2> DEFINE item == Oldest(root.queue)
             next == IF Preflight(Selected, <<item>>) THEN AppliedTimers(Selected, <<item>>)
                                                      ELSE Selected
             freed == Finish(Outcome(next, {item}))
  <2>1. CanDrain
    BY <1>5 DEF DrainTimerStart
  <2>2. RootState(next) /\ Books(next) = Books(Selected)
    <3>1. <<item>> \in Seq(Item)
      BY <2>1, <1>c
    <3> HIDE DEF item
    <3>2. QED BY <2>1, <3>1, <1>c, AppliedTimersType, TimerBooks
  <2>3. root' = Settle(freed)
    BY <1>5 DEF DrainTimerStart
  <2> HIDE DEF next, item
  <2>4. Ledger(next, {}) /\ next.active = {item} /\ next.scheduled
    BY <2>1, <2>2, <1>c, SameBooks DEF Books, item
  <2>5. RootState(freed) /\ Ledger(freed, {}) /\ freed.scheduled
    BY <2>2, <2>4, <1>d
  <2> HIDE DEF freed
  <2>6. QED BY <2>3, <2>5, SettleLedger
<1>6. CASE DrainWork
  <2>1. PICK plan \in Plans, prepared \in BOOLEAN, answer \in Answers :
           root' = Settle(BeginWork(Selected, plan, prepared, answer))
    BY <1>6 DEF DrainWork
  <2> DEFINE t == BeginWork(Selected, plan, prepared, answer)
  <2>2. RootState(Selected) /\ Ledger(Selected, {}) /\ Selected.scheduled
    BY <1>6, <1>c DEF DrainWork
  <2>3. RootState(t) /\ Books(t) = Books(Selected)
    BY <1>0, <2>2, BeginWorkType, TransitionBooks
  <2> HIDE DEF t
  <2>4. Ledger(t, {}) /\ t.scheduled
    BY <2>2, <2>3, SameBooks
  <2>5. QED BY <2>1, <2>3, <2>4, SettleLedger DEF t
<1>7. ASSUME NEW key \in DOMAIN root.entries, NEW epoch, NEW tick, OwnedTick(key, epoch, tick)
      PROVE  Ledger(root', {}) /\ Quiet(root')
  <2> DEFINE item  == TickItem(root, key)
             fired == Fired(root, key)
  <2>1. RootState(fired) /\ item \in Item /\ Books(fired) = Books(root) /\ root.scheduled
    BY <1>7, FiredType, TimerBooks DEF OwnedTick
  <2>2. ASSUME InternalFits(root, item)
        PROVE  Ledger(Settle(Internal(fired, item)), {}) /\ Quiet(Settle(Internal(fired, item)))
    <3>1. Headroom(fired, 1 + fired.reserved)
      <4>1. fired.receipt = root.receipt /\ fired.reserved = root.reserved
              /\ fired.slots = root.slots
        BY DEF Fired, RootState
      <4>2. QED BY <2>2, <4>1 DEF InternalFits, Headroom
    <3> HIDE DEF fired, item
    <3>2. Ledger(fired, {}) /\ fired.scheduled
      BY <2>1, SameBooks
    <3>3. RootState(Internal(fired, item)) /\ Ledger(Internal(fired, item), {})
      BY <2>1, <3>1, <3>2, InternalType, InternalLedger
    <3>4. Internal(fired, item).scheduled
      BY <2>1, <3>2 DEF Internal, RootState
    <3>5. QED BY <3>3, <3>4, SettleLedger
  <2> HIDE DEF fired, item
  <2>3. Ledger(Settle(Cancelled(root, {key})), {}) /\ Quiet(Settle(Cancelled(root, {key})))
    BY <1>b, CancelledType, TimerBooks
  <2>4. Ledger(Settle(FinishedTick(fired, item)), {}) /\ Quiet(Settle(FinishedTick(fired, item)))
    <3>1. RootState(FinishedTick(fired, item)) /\ Books(FinishedTick(fired, item)) = Books(root)
      BY <2>1, FinishedTickType, TimerBooks
    <3>2. QED BY <1>b, <3>1
  <2>5. QED BY <1>7, <2>2, <2>3, <2>4 DEF OwnedTick, fired, item
<1>8. ASSUME NEW ack, NEW cleaned, Ack(ack, cleaned)
      PROVE  Ledger(root', {}) /\ Quiet(root')
  <2>1. RootState(Committed(root, cleaned)) /\ Books(Committed(root, cleaned)) = Books(root)
    BY CommittedType, CommittedBooks
  <2>2. RootState(Rejected(root)) /\ Books(Rejected(root)) = Books(root)
    BY RejectedType, RejectedBooks
  <2>3. root' = Settle(Committed(root, cleaned)) \/ root' = Settle(Rejected(root))
    BY <1>8 DEF Ack
  <2>4. QED BY <1>b, <2>1, <2>2, <2>3
<1>9. ASSUME NEW template \in Envelopes, NEW generation, NEW revision,
             NEW sequence \in {root.producers[template.producer],
                               root.producers[template.producer] + 1},
             NEW cancelled, Enqueue(template, generation, revision, sequence, cancelled)
      PROVE  Ledger(root', {}) /\ Quiet(root')
  <2> DEFINE item     == [template EXCEPT !.gen = generation]
             received == [item EXCEPT !.receipt = root.receipt + 1]
             envelope == [item |-> item, rev |-> revision, sequence |-> sequence]
             entered  == Admitted(root, envelope)
             admitted == Outcome(entered,
                           IF item.kind = "timer_cancel" THEN {} ELSE Superseded(root, item))
             next     == IF item.kind = "timer_cancel"
                         THEN CancelOwned(admitted, received, cancelled) ELSE admitted
             last     == [next EXCEPT !.drain = TRUE]
  <2>1. /\ Admissible(root, envelope, root.accepted.corr.gen, root.accepted.corr.rev,
                      root.accepted.comps)
        /\ root.scheduled
        /\ root' = Settle(last)
    BY <1>9 DEF Enqueue
  <2>2. template \in Item /\ template.producer \in Producers
    BY RootAssumption
  <2>3. generation \in Nat
    <3>1. item.gen = root.accepted.corr.gen
      BY <2>1 DEF Admissible, ValidDispatch
    <3>2. item.gen = generation
      BY <2>2 DEF Item
    <3>3. QED BY <3>1, <3>2 DEF RootState, Candidate, Correlation
  <2>4. item \in Item /\ root.receipt + 1 \in Nat
    <3>1. item \in Item
      BY <2>2, <2>3 DEF Item
    <3>2. root.receipt + 1 \in Nat
      BY DEF RootState
    <3>3. QED BY <3>1, <3>2
  <2>5. sequence \in Nat
    <3>1. root.producers[template.producer] \in Nat
      BY <2>2 DEF RootState
    <3>2. QED BY <3>1
  <2>6. received \in Item /\ received.receipt = root.receipt + 1
    <3> HIDE DEF item
    <3>1. received.receipt = root.receipt + 1
      BY <2>4 DEF Item
    <3>2. QED BY <2>4, <3>1, RenumberedType
  <2> HIDE DEF item, received, last
  <2>7. envelope.item = item /\ envelope.sequence = sequence
    OBVIOUS
  <2> HIDE DEF envelope
  <2>8. /\ RootState(entered) /\ entered.scheduled = root.scheduled
        /\ IF item.kind = "timer_cancel"
           THEN Ledger(entered, {root.receipt + 1})
           ELSE Ledger(entered, ReceiptsOf(Superseded(root, item)))
    BY <2>1, <2>4, <2>5, <2>7, AdmittedType, AdmittedLedger
  <2> HIDE DEF entered
  <2>9. RootState(admitted) /\ admitted.scheduled
    <3>1. RootState(admitted)
      BY <2>8, OutcomeType
    <3>2. admitted.scheduled
      BY <2>1, <2>8 DEF Outcome, RootState
    <3>3. QED BY <3>1, <3>2
  <2>10. RootState(next) /\ Ledger(next, {}) /\ next.scheduled
    <3>1. CASE item.kind = "timer_cancel"
      <4>1. Outcome(entered, {}) = entered
        <5>1. ReceiptsOf({}) = {}
          BY DEF ReceiptsOf
        <5>2. [r \in Receipts |-> IF r \in {} THEN entered.outcomes[r] + 1
                                  ELSE entered.outcomes[r]] = entered.outcomes
          BY <2>8 DEF RootState
        <5>3. [entered EXCEPT !.outcomes = entered.outcomes] = entered
          BY <2>8 DEF RootState
        <5>4. QED BY <5>1, <5>2, <5>3 DEF Outcome
      <4>2. Ledger(admitted, {received.receipt})
        BY <2>6, <2>8, <3>1, <4>1
      <4> HIDE DEF admitted
      <4>3. QED BY <2>6, <2>9, <3>1, <4>2, CancelOwnedType, CancelOwnedLedger
    <3>2. CASE item.kind # "timer_cancel"
      <4>1. Ledger(admitted, {})
        BY <2>8, <3>2, DebtsPaid
      <4>2. QED BY <2>9, <3>2, <4>1
    <3>3. QED BY <3>1, <3>2
  <2> HIDE DEF next
  <2>11. RootState(last) /\ Books(last) = Books(next)
    BY <2>10 DEF RootState, Books, last
  <2>12. Ledger(last, {}) /\ last.scheduled
    BY <2>10, <2>11, SameBooks
  <2>13. QED BY <2>1, <2>11, <2>12, SettleLedger
<1>10. ASSUME NEW plan \in Plans, NEW prepared, NEW answer, Update(plan, prepared, answer)
       PROVE  Ledger(root', {}) /\ Quiet(root')
  <2>1. ~root.scheduled /\ root' = Begin(root, "update", plan, prepared, answer)
    BY <1>10 DEF Update
  <2>2. Books(root') = Books(root)
    BY <1>0, <2>1, TransitionBooks
  <2>3. QED BY <1>a, <2>1, <2>2, SameBooks DEF Quiet, Live
<1>e. LET closed == CloseSchedule(root) IN
        /\ RootState(closed) /\ Ledger(closed, {}) /\ Live(closed) = {}
        /\ closed.scheduled = root.scheduled
  BY <1>a, CloseScheduleType, CloseScheduleLedger
<1>f. ASSUME NEW t, RootState(t), Books(t) = Books(CloseSchedule(root))
      PROVE  Ledger(Settle(t), {}) /\ Quiet(Settle(t))
  BY <1>e, <1>f, SameBooks, SettleLedger
<1>g. RootState(Failed(CloseSchedule(root)))
        /\ Books(Failed(CloseSchedule(root))) = Books(CloseSchedule(root))
  BY <1>e, RejectedType, RejectedBooks
<1>11. ASSUME NEW plan \in Plans, NEW prepared, NEW answer, NEW cancelled,
              Replace(plan, prepared, answer, cancelled)
       PROVE  Ledger(root', {}) /\ Quiet(root')
  <2> DEFINE closed == CloseSchedule(root)
             freed  == [closed EXCEPT !.pending = NoCandidate]
             t      == Begin(freed, "replace", plan, prepared, answer)
  <2>1. root' = Settle(Failed(closed)) \/ root' = Settle(t)
    BY <1>11 DEF Replace
  <2>2. RootState(freed) /\ Books(freed) = Books(closed)
    <3> HIDE DEF closed
    <3>1. QED BY <1>e, NothingTypes DEF RootState, Books, closed
  <2> HIDE DEF freed
  <2>3. RootState(t) /\ Books(t) = Books(closed)
    BY <1>0, <2>2, BeginType, TransitionBooks
  <2>4. QED BY <1>f, <1>g, <2>1, <2>3
<1>12. ASSUME NEW answer, NEW cancelled, Stop(answer, cancelled)
       PROVE  Ledger(root', {}) /\ Quiet(root')
  <2> DEFINE closed == CloseSchedule(root)
             old    == IF Accepted(root) THEN root.accepted.corr
                                         ELSE [NoCorrelation EXCEPT !.gen = 1, !.rev = 1]
             corr   == [old EXCEPT !.seq = root.attempt + 1, !.op = "dispose"]
             tried  == [closed EXCEPT !.status = "stopping", !.attempt = corr.seq]
             next   == [corr |-> corr, comps |-> {}]
             t      == Submit(tried, next, TRUE, answer)
  <2>1. root' = Settle(Failed(closed)) \/ root' = Settle(t)
    BY <1>12 DEF Stop
  <2>2. old \in Correlation
    BY NothingTypes DEF RootState, Candidate, Correlation
  <2>a. root.attempt + 1 \in Nat
    BY DEF RootState
  <2> HIDE DEF old, closed
  <2>3. corr \in Correlation
    BY <2>2, <2>a DEF Correlation, Operations
  <2>4. corr.seq \in Nat
    BY <2>3 DEF Correlation
  <2> HIDE DEF corr
  <2>5. next \in Candidate
    BY <2>3 DEF Candidate
  <2>6. RootState(tried) /\ Books(tried) = Books(closed)
    BY <1>e, <2>4 DEF RootState, Statuses, Books, closed
  <2> HIDE DEF next, tried
  <2>7. RootState(t) /\ Books(t) = Books(closed)
    BY <2>5, <2>6, SubmitType, SubmitBooks
  <2>8. QED BY <1>f, <1>g, <2>1, <2>7 DEF closed
<1>13. ASSUME NEW cancelled, RuntimeLoss(cancelled)
       PROVE  Ledger(root', {}) /\ Quiet(root')
  BY <1>f, <1>g, <1>13 DEF RuntimeLoss
<1>14. CASE RendererCommit
  BY <1>14 DEF RendererCommit
<1>15. CASE RendererReject
  BY <1>15 DEF RendererReject
<1>16. CASE UNCHANGED vars
  BY <1>16 DEF vars
<1>17. QED
  BY <1>1, <1>2, <1>3, <1>4, <1>5, <1>6, <1>7, <1>8, <1>9, <1>10, <1>11, <1>12, <1>13, <1>14,
     <1>15, <1>16 DEF Next, Drain, Calls

(* Every admitted receipt of a root has exactly one terminal outcome as soon as it is neither
   queued nor active and none before, and no two live items share a receipt, whatever the limits,
   the components, the plans of the evaluator and the envelopes of the producers. *)
THEOREM OutcomesExact == Spec => []ExactlyOneOutcome
<1>1. IInv => ExactlyOneOutcome
  BY DEF IInv, Ledger, ExactlyOneOutcome
<1>2. QED BY <1>1, InitIInv, NextIInv, PTL DEF Spec

-----------------------------------------------------------------------------
(* Budgets and wake-ups. *)

(* The queue, the active slot and the timers of a root are finite. *)
Finite(s) == IsFiniteSet(s.queue) /\ IsFiniteSet(s.active) /\ IsFiniteSet(DOMAIN s.entries)

(* What was reserved for the candidate in flight still fits: its follow-ups are messages, as
   many as are reserved, a receipt is left for each, and its timers find their keys free. *)
Promised(s) ==
  /\ s.reserved = Len(s.messages)
  /\ \A k \in DOMAIN s.messages : s.messages[k].class = "message" /\ s.messages[k].kind = "message"
  /\ Headroom(s, s.reserved)
  /\ Preflight(s, s.timers)
  /\ s.active = {} => s.messages = <<>> /\ s.timers = <<>>

(* The budgets of a root at any point of a handler. *)
Budgeted(s) == Finite(s) /\ Within(s) /\ Promised(s) /\ s.status # "broken"

(* The timer intents u are v, but for the voided starts of some timers. *)
Voided(v, u, keys) ==
  /\ Len(u) = Len(v)
  /\ \A k \in DOMAIN v :
       u[k] = IF v[k].kind = "timer_start" /\ Key(v[k]) \in keys
              THEN [v[k] EXCEPT !.kind = "void"]
              ELSE v[k]

(* A step that takes away from the schedule and the timers. *)
Fewer(s, t) ==
  /\ t.queue \subseteq s.queue /\ t.active \subseteq s.active
  /\ t.receipt = s.receipt /\ t.slots <= s.slots
  /\ t.serial = s.serial /\ DOMAIN t.entries \subseteq DOMAIN s.entries
  /\ t.status # "broken"

(* It keeps the promises with their transition, voiding the starts of cancelled timers at most. *)
SamePromise(s, t) ==
  /\ t.messages = s.messages /\ t.reserved = s.reserved /\ t.active = s.active
  /\ \E keys \in SUBSET TimerKeys :
       DOMAIN t.entries \cap keys = {} /\ Voided(s.timers, t.timers, keys)

(* It drops them. *)
NoPromise(t) == t.messages = <<>> /\ t.timers = <<>> /\ t.reserved = 0

(* A step that leaves schedule and timers alone. *)
SameWork(s, t) ==
  /\ t.queue = s.queue /\ t.active = s.active /\ t.reserved = s.reserved
  /\ t.receipt = s.receipt /\ t.slots = s.slots
  /\ t.messages = s.messages /\ t.timers = s.timers
  /\ t.serial = s.serial /\ t.entries = s.entries /\ t.scheduled = s.scheduled

-----------------------------------------------------------------------------
(* A part of a finite set is finite and no larger. *)
LEMMA PartBound ==
  ASSUME NEW S, IsFiniteSet(S), NEW T, T \subseteq S
  PROVE  IsFiniteSet(T) /\ Cardinality(T) \in Nat /\ Cardinality(S) \in Nat
           /\ Cardinality(T) <= Cardinality(S)
BY FS_Subset, FS_CardinalityType

(* The values of a function on a finite set are no more than its arguments. *)
LEMMA ImageBound ==
  ASSUME NEW S, IsFiniteSet(S), NEW f, f \in [S -> {f[x] : x \in S}]
  PROVE  /\ IsFiniteSet({f[x] : x \in S})
         /\ Cardinality({f[x] : x \in S}) <= Cardinality(S)
<1>1. f \in Surjection(S, {f[x] : x \in S})
  BY DEF Surjection
<1>2. QED BY <1>1, FS_Surjection

(* A union is no larger than its parts together. *)
LEMMA UnionBound ==
  ASSUME NEW S, NEW T, IsFiniteSet(S), IsFiniteSet(T)
  PROVE  /\ IsFiniteSet(S \cup T)
         /\ Cardinality(S \cup T) <= Cardinality(S) + Cardinality(T)
         /\ Cardinality(S) \in Nat /\ Cardinality(T) \in Nat /\ Cardinality(S \cup T) \in Nat
<1>1. IsFiniteSet(S \cap T) /\ IsFiniteSet(S \cup T)
  BY FS_Intersection, FS_Union
<1>2. Cardinality(S \cap T) \in Nat /\ Cardinality(S \cup T) \in Nat
        /\ Cardinality(S) \in Nat /\ Cardinality(T) \in Nat
  BY <1>1, FS_CardinalityType
<1>3. Cardinality(S \cup T) = Cardinality(S) + Cardinality(T) - Cardinality(S \cap T)
  BY FS_Union
<1>4. QED BY <1>1, <1>2, <1>3

(* The numbers of a typed state. *)
LEMMA Numbers ==
  ASSUME NEW s, RootState(s)
  PROVE  /\ s.reserved \in Nat /\ s.slots \in Nat /\ s.receipt \in Nat /\ s.serial \in Nat
         /\ s.messages \in Seq(Item) /\ s.timers \in Seq(Item)
         /\ s.queue \subseteq Item /\ s.active \subseteq Item
         /\ Len(s.messages) \in Nat /\ Len(s.timers) \in Nat
         /\ MaxReceipt \in Nat /\ TotalLimit \in Nat
         /\ \A class \in Classes : ClassLimit[class] \in Nat
<1>1. /\ s.reserved \in Nat /\ s.slots \in Nat /\ s.receipt \in Nat /\ s.serial \in Nat
      /\ s.messages \in Seq(Item) /\ s.timers \in Seq(Item)
      /\ s.queue \subseteq Item /\ s.active \subseteq Item
  BY ScheduleAssumption DEF RootState
<1>2. \A class \in Classes : ClassLimit[class] \in Nat
  BY ScheduleAssumption DEF Classes, ClassLimit
<1>3. QED BY <1>1, <1>2, ScheduleAssumption

(* Less work is within the budgets when more was. *)
LEMMA WithinShrinks ==
  ASSUME NEW s, RootState(s), IsFiniteSet(s.queue), IsFiniteSet(s.active), Within(s),
         NEW t, RootState(t), t.queue \subseteq s.queue, t.active \subseteq s.active,
         t.reserved <= s.reserved, t.slots <= s.slots
  PROVE  Within(t) /\ IsFiniteSet(t.queue) /\ IsFiniteSet(t.active)
<1>1. /\ IsFiniteSet(t.queue) /\ Cardinality(t.queue) <= Cardinality(s.queue)
      /\ IsFiniteSet(t.active) /\ Cardinality(t.active) <= Cardinality(s.active)
      /\ Cardinality(t.queue) \in Nat /\ Cardinality(s.queue) \in Nat
      /\ Cardinality(t.active) \in Nat /\ Cardinality(s.active) \in Nat
  BY PartBound
<1>2. Depth(t) <= TotalLimit
  BY <1>1, Numbers DEF Within, Depth
<1>3. ASSUME NEW class \in Classes
      PROVE  ClassCount(t, class) <= ClassLimit[class]
  <2> DEFINE S == {i \in s.queue \cup s.active : i.class = class}
             T == {i \in t.queue \cup t.active : i.class = class}
  <2>1. IsFiniteSet(S)
    <3>1. IsFiniteSet(s.queue \cup s.active)
      BY UnionBound
    <3>2. QED BY <3>1, PartBound
  <2>2. T \subseteq S
    OBVIOUS
  <2>3. Cardinality(T) \in Nat /\ Cardinality(S) \in Nat /\ Cardinality(T) <= Cardinality(S)
    <3> HIDE DEF S, T
    <3> QED BY <2>1, <2>2, PartBound
  <2>4. ClassCount(s, class) <= ClassLimit[class]
    BY DEF Within
  <2>5. /\ ClassCount(t, class) = Cardinality(T) + (IF class = "message" THEN t.reserved + t.slots ELSE 0)
        /\ ClassCount(s, class) = Cardinality(S) + (IF class = "message" THEN s.reserved + s.slots ELSE 0)
    BY DEF ClassCount
  <2> HIDE DEF S, T
  <2>6. QED BY <2>3, <2>4, <2>5, Numbers
<1>4. QED BY <1>1, <1>2, <1>3 DEF Within

(* Follow-ups take the places reserved for them once their transition has ended. *)
LEMMA WithinAppended ==
  ASSUME NEW s, RootState(s), IsFiniteSet(s.queue), IsFiniteSet(s.active), Within(s),
         NEW t, RootState(t), t.queue = s.queue, t.active = {}, t.reserved = 0,
         t.slots = s.slots, t.receipt = s.receipt,
         NEW items \in Seq(Item), Len(items) = s.reserved, Headroom(s, s.reserved),
         \A k \in DOMAIN items : items[k].class = "message"
  PROVE  AppendFits(t, items) /\ IsFiniteSet(Appended(t, items).queue)
<1> DEFINE n     == Len(items)
           f     == [k \in 1 .. n |-> [items[k] EXCEPT !.receipt = t.receipt + k]]
           added == {[items[k] EXCEPT !.receipt = t.receipt + k] : k \in DOMAIN items}
           u     == Appended(t, items)
<1>1. DOMAIN items = 1 .. n /\ n \in Nat
  OBVIOUS
<1>2. \A k \in 1 .. n : f[k].class = "message"
  BY <1>1 DEF Item
<1>3. added = {f[k] : k \in 1 .. n}
  BY <1>1
<1>4. IsFiniteSet(added) /\ Cardinality(added) <= n /\ Cardinality(added) \in Nat
  <2> DEFINE S == 1 .. n
  <2>1. IsFiniteSet(S) /\ Cardinality(S) = n
    BY <1>1, FS_Interval
  <2>2. f \in [S -> {f[k] : k \in S}] /\ added = {f[k] : k \in S}
    BY <1>3
  <2> HIDE DEF f, n, S, added
  <2>3. IsFiniteSet({f[k] : k \in S}) /\ Cardinality({f[k] : k \in S}) <= Cardinality(S)
    BY <2>1, <2>2, ImageBound
  <2>4. QED BY <2>1, <2>2, <2>3, FS_CardinalityType
<1>5. \A i \in added : i.class = "message"
  <2> HIDE DEF f, added
  <2> QED BY <1>2, <1>3
<1>6. /\ u.queue = t.queue \cup added /\ u.active = t.active /\ u.receipt = t.receipt + n
      /\ u.reserved = t.reserved /\ u.slots = t.slots
  <2> HIDE DEF f
  <2> QED BY DEF Appended, RootState
<1> HIDE DEF f, added, u, n
<1>7. /\ IsFiniteSet(u.queue) /\ Cardinality(u.queue) \in Nat
      /\ Cardinality(u.queue) <= Cardinality(s.queue) + n
      /\ Cardinality(s.queue) \in Nat /\ Cardinality(s.active) \in Nat
  BY <1>1, <1>4, <1>6, UnionBound, FS_CardinalityType
<1>8. Cardinality({}) = 0
  BY FS_EmptySet
<1>9. Depth(u) <= TotalLimit
  <2>1. Cardinality(s.queue) + Cardinality(s.active) + n + s.slots <= TotalLimit
    BY DEF Within, Depth, n
  <2>2. Depth(u) = Cardinality(u.queue) + 0 + 0 + s.slots
    BY <1>6, <1>8 DEF Depth
  <2>3. QED BY <1>1, <1>7, <2>1, <2>2, Numbers
<1>10. ASSUME NEW class \in Classes
       PROVE  ClassCount(u, class) <= ClassLimit[class]
  <2> DEFINE S == {i \in s.queue \cup s.active : i.class = class}
             T == {i \in u.queue \cup u.active : i.class = class}
  <2>1. IsFiniteSet(S)
    <3>1. IsFiniteSet(s.queue \cup s.active)
      BY UnionBound
    <3>2. QED BY <3>1, PartBound
  <2>2. T \subseteq S \cup added
    BY <1>6
  <2>3. class # "message" => T \subseteq S
    BY <1>5, <1>6
  <2>4. ClassCount(s, class) <= ClassLimit[class]
    BY DEF Within
  <2>5. /\ ClassCount(u, class) = Cardinality(T) + (IF class = "message" THEN 0 + s.slots ELSE 0)
        /\ ClassCount(s, class) = Cardinality(S) + (IF class = "message" THEN n + s.slots ELSE 0)
    BY <1>6 DEF ClassCount, n
  <2> HIDE DEF S, T
  <2>6. /\ Cardinality(T) \in Nat /\ Cardinality(S) \in Nat
        /\ Cardinality(T) <= Cardinality(S) + n
        /\ class # "message" => Cardinality(T) <= Cardinality(S)
    <3>1. /\ IsFiniteSet(S \cup added) /\ Cardinality(S \cup added) <= Cardinality(S) + Cardinality(added)
          /\ Cardinality(S \cup added) \in Nat
      BY <1>4, <2>1, UnionBound
    <3>2. IsFiniteSet(T) /\ Cardinality(T) <= Cardinality(S \cup added) /\ Cardinality(T) \in Nat
      BY <2>2, <3>1, PartBound
    <3>3. Cardinality(S) \in Nat /\ (class # "message" => Cardinality(T) <= Cardinality(S))
      BY <2>1, <2>3, PartBound, FS_CardinalityType
    <3>4. QED BY <1>1, <1>4, <3>1, <3>2, <3>3
  <2>7. QED BY <1>1, <2>4, <2>5, <2>6, Numbers
<1>11. Headroom(t, n + t.reserved)
  BY Numbers DEF Headroom, n
<1>12. QED BY <1>7, <1>9, <1>10, <1>11 DEF AppendFits, Within, u, n

-----------------------------------------------------------------------------
(* The timers registered after some intents are finitely many. *)
LEMMA KeysAfterFinite ==
  ASSUME NEW s, IsFiniteSet(DOMAIN s.entries), NEW intents, NEW n \in Nat
  PROVE  IsFiniteSet(KeysAfter(s, intents, n))
<1> DEFINE S == 1 .. n
           f == [m \in S |-> Key(intents[m])]
<1>1. IsFiniteSet(S)
  BY FS_Interval
<1>2. f \in [S -> {f[m] : m \in S}]
  OBVIOUS
<1>3. KeysAfter(s, intents, n) \subseteq (DOMAIN s.entries) \cup {f[m] : m \in S}
  BY DEF KeysAfter
<1> HIDE DEF f, S
<1>4. IsFiniteSet({f[m] : m \in S})
  BY <1>1, <1>2, ImageBound
<1>5. IsFiniteSet((DOMAIN s.entries) \cup {f[m] : m \in S})
  BY <1>4, UnionBound
<1>6. QED BY <1>3, <1>5, PartBound

(* Voiding starts and forgetting registrations registers no other timers. *)
LEMMA KeysAfterShrinks ==
  ASSUME NEW s, NEW t, DOMAIN t.entries \subseteq DOMAIN s.entries,
         NEW v \in Seq(Item), NEW u \in Seq(Item), NEW keys, Voided(v, u, keys),
         DOMAIN t.entries \cap keys = {}, NEW n \in 0 .. Len(v)
  PROVE  KeysAfter(t, u, n) \subseteq KeysAfter(s, v, n)
<1>1. ASSUME NEW m \in 1 .. n
      PROVE  /\ Key(u[m]) = Key(v[m])
             /\ u[m].kind = "timer_start" <=> v[m].kind = "timer_start" /\ Key(v[m]) \notin keys
             /\ Key(v[m]) \notin keys => u[m] = v[m]
  <2>1. v[m] \in Item /\ m \in DOMAIN v
    OBVIOUS
  <2>2. u[m] = IF v[m].kind = "timer_start" /\ Key(v[m]) \in keys
               THEN [v[m] EXCEPT !.kind = "void"] ELSE v[m]
    BY <2>1 DEF Voided
  <2>3. QED BY <2>1, <2>2 DEF Key, Item
<1>2. ASSUME NEW key, key \notin keys
      PROVE  LastOn(u, n, key) = LastOn(v, n, key)
  <2>1. \A m \in 1 .. n : IsControl(u[m]) /\ Key(u[m]) = key <=> IsControl(v[m]) /\ Key(v[m]) = key
    BY <1>1, <1>2
  <2>2. QED BY <2>1 DEF LastOn
<1>3. ASSUME NEW key \in KeysAfter(t, u, n)
      PROVE  key \in KeysAfter(s, v, n)
  <2>1. CASE key \in DOMAIN t.entries /\ LastOn(u, n, key) = {}
    BY <1>2, <2>1 DEF KeysAfter
  <2>2. CASE \E m \in 1 .. n : u[m].kind = "timer_start" /\ m \in LastOn(u, n, Key(u[m]))
                                 /\ key = Key(u[m])
    <3>1. PICK m \in 1 .. n : u[m].kind = "timer_start" /\ m \in LastOn(u, n, Key(u[m]))
                                /\ key = Key(u[m])
      BY <2>2
    <3>2. v[m].kind = "timer_start" /\ Key(v[m]) = key /\ key \notin keys
      BY <1>1, <3>1
    <3>3. m \in LastOn(v, n, Key(v[m]))
      BY <1>2, <3>1, <3>2
    <3>4. QED BY <3>2, <3>3 DEF KeysAfter
  <2>3. QED BY <1>3, <2>1, <2>2 DEF KeysAfter
<1>4. QED BY <1>3

(* A preflight that held still holds with fewer timers and fewer starts. *)
LEMMA PreflightShrinks ==
  ASSUME NEW s, IsFiniteSet(DOMAIN s.entries), s.serial \in Nat,
         NEW t, DOMAIN t.entries \subseteq DOMAIN s.entries, t.serial = s.serial,
         NEW v \in Seq(Item), NEW u \in Seq(Item), NEW keys, Voided(v, u, keys),
         DOMAIN t.entries \cap keys = {}, Preflight(s, v)
  PROVE  Preflight(t, u)
<1>1. Len(u) = Len(v) /\ Len(v) \in Nat /\ DOMAIN u = 1 .. Len(v) /\ DOMAIN v = 1 .. Len(v)
  BY DEF Voided
<1>2. \A m \in 1 .. Len(v) : /\ Key(u[m]) = Key(v[m])
                             /\ u[m].kind = "timer_start" => v[m].kind = "timer_start"
  <2> SUFFICES ASSUME NEW m \in 1 .. Len(v)
               PROVE  /\ Key(u[m]) = Key(v[m])
                      /\ u[m].kind = "timer_start" => v[m].kind = "timer_start"
    OBVIOUS
  <2>1. v[m] \in Item /\ m \in DOMAIN v
    OBVIOUS
  <2>2. u[m] = IF v[m].kind = "timer_start" /\ Key(v[m]) \in keys
               THEN [v[m] EXCEPT !.kind = "void"] ELSE v[m]
    BY <2>1 DEF Voided
  <2>3. QED BY <2>1, <2>2 DEF Key, Item
<1>3. Starts(u, Len(u)) <= Starts(v, Len(v)) /\ Starts(u, Len(u)) \in Nat /\ Starts(v, Len(v)) \in Nat
  <2> DEFINE S == {m \in 1 .. Len(v) : v[m].kind = "timer_start"}
             T == {m \in 1 .. Len(u) : u[m].kind = "timer_start"}
  <2>1. IsFiniteSet(S)
    <3>1. IsFiniteSet(1 .. Len(v))
      BY FS_Interval
    <3>2. QED BY <3>1, PartBound
  <2>2. T \subseteq S
    BY <1>1, <1>2
  <2>3. Starts(v, Len(v)) = Cardinality(S) /\ Starts(u, Len(u)) = Cardinality(T)
    BY DEF Starts
  <2> HIDE DEF S, T
  <2>4. QED BY <2>1, <2>2, <2>3, PartBound
<1>4. ASSUME NEW n \in 1 .. Len(v), u[n].kind = "timer_start"
      PROVE  Key(u[n]) \notin KeysAfter(t, u, n - 1) /\ Cardinality(KeysAfter(t, u, n - 1)) < MaxTimers
  <2> DEFINE m == n - 1
  <2>1. m \in 0 .. Len(v) /\ m \in Nat
    BY <1>1
  <2>2. Key(u[n]) \notin KeysAfter(s, v, m) /\ Cardinality(KeysAfter(s, v, m)) < MaxTimers
    BY <1>1, <1>2, <1>4 DEF Preflight
  <2> HIDE DEF m
  <2>3. KeysAfter(t, u, m) \subseteq KeysAfter(s, v, m)
    BY <2>1, KeysAfterShrinks
  <2>4. IsFiniteSet(KeysAfter(s, v, m))
    BY <2>1, KeysAfterFinite
  <2>5. /\ Cardinality(KeysAfter(t, u, m)) <= Cardinality(KeysAfter(s, v, m))
        /\ Cardinality(KeysAfter(t, u, m)) \in Nat /\ Cardinality(KeysAfter(s, v, m)) \in Nat
    BY <2>3, <2>4, PartBound
  <2>6. MaxTimers \in Nat
    BY TimersAssumption
  <2>7. QED BY <2>2, <2>3, <2>5, <2>6 DEF m
<1>5. t.serial + Starts(u, Len(u)) <= MaxSerial
  <2>1. s.serial + Starts(v, Len(v)) <= MaxSerial /\ MaxSerial \in Nat
    BY TimersAssumption DEF Preflight
  <2>2. QED BY <1>3, <2>1
<1>6. QED BY <1>1, <1>4, <1>5 DEF Preflight

(* Without intents all a preflight asks is that the serial is in range, which it always says. *)
LEMMA PreflightSerial ==
  ASSUME NEW s, s.serial \in Nat, NEW v \in Seq(Item)
  PROVE  /\ Preflight(s, v) => /\ s.serial <= MaxSerial
                               /\ s.serial + Starts(v, Len(v)) <= MaxSerial
                               /\ Starts(v, Len(v)) \in Nat
         /\ s.serial <= MaxSerial => Preflight(s, <<>>)
<1>1. Starts(v, Len(v)) \in Nat /\ MaxSerial \in Nat
  BY StartsType, TimersAssumption
<1>2. Starts(<<>>, Len(<<>>)) = 0
  <2>1. {m \in 1 .. 0 : <<>>[m].kind = "timer_start"} = {}
    OBVIOUS
  <2>2. QED BY <2>1, FS_EmptySet DEF Starts
<1>3. DOMAIN <<>> = {}
  OBVIOUS
<1>4. s.serial <= MaxSerial => Preflight(s, <<>>)
  BY <1>2, <1>3 DEF Preflight
<1>5. Preflight(s, v) => s.serial + Starts(v, Len(v)) <= MaxSerial
  BY DEF Preflight
<1>6. QED BY <1>1, <1>4, <1>5

-----------------------------------------------------------------------------
(* Nothing is promised: the budgets, the receipts and the serial are all that is left. *)
LEMMA UnpromisedBudgeted ==
  ASSUME NEW t, RootState(t), Finite(t), Within(t), NoPromise(t), t.status # "broken",
         t.receipt + t.slots <= MaxReceipt, t.serial <= MaxSerial
  PROVE  Budgeted(t)
<1>1. Preflight(t, t.timers)
  <2>1. t.serial \in Nat /\ t.timers \in Seq(Item) /\ t.timers = <<>>
    BY Numbers DEF NoPromise
  <2>2. QED BY <2>1, PreflightSerial
<1>2. Headroom(t, t.reserved)
  BY Numbers DEF NoPromise, Headroom
<1>3. t.reserved = Len(t.messages) /\ DOMAIN t.messages = {}
  BY DEF NoPromise
<1>4. QED BY <1>1, <1>2, <1>3 DEF Budgeted, Promised, NoPromise

(* A step that only takes away keeps the budgets, with the promises or without. *)
LEMMA FewerBudgeted ==
  ASSUME NEW s, RootState(s), Budgeted(s), NEW t, RootState(t), Fewer(s, t),
         SamePromise(s, t) \/ NoPromise(t)
  PROVE  Budgeted(t)
<1>1. Within(t) /\ Finite(t)
  <2>1. t.reserved <= s.reserved
    BY Numbers DEF SamePromise, NoPromise
  <2>2. Within(t) /\ IsFiniteSet(t.queue) /\ IsFiniteSet(t.active)
    BY <2>1, WithinShrinks DEF Budgeted, Finite, Fewer
  <2>3. IsFiniteSet(DOMAIN t.entries)
    BY FS_Subset DEF Budgeted, Finite, Fewer
  <2>4. QED BY <2>2, <2>3 DEF Finite
<1>2. /\ s.receipt + s.reserved + s.slots <= MaxReceipt /\ s.serial <= MaxSerial
      /\ t.receipt = s.receipt /\ t.slots <= s.slots /\ t.serial = s.serial
  <2>1. s.receipt + s.reserved + s.slots <= MaxReceipt
    BY DEF Budgeted, Promised, Headroom
  <2>2. s.serial <= MaxSerial
    BY Numbers, PreflightSerial DEF Budgeted, Promised
  <2>3. QED BY <2>1, <2>2 DEF Fewer
<1>3. CASE NoPromise(t)
  <2>1. t.receipt + t.slots <= MaxReceipt
    BY <1>2, Numbers
  <2>2. QED BY <1>1, <1>2, <1>3, <2>1, UnpromisedBudgeted DEF Fewer
<1>4. CASE SamePromise(s, t)
  <2>1. PICK keys \in SUBSET TimerKeys :
           DOMAIN t.entries \cap keys = {} /\ Voided(s.timers, t.timers, keys)
    BY <1>4 DEF SamePromise
  <2>2. Preflight(t, t.timers)
    <3>1. s.timers \in Seq(Item) /\ t.timers \in Seq(Item) /\ s.serial \in Nat
      BY Numbers
    <3>2. IsFiniteSet(DOMAIN s.entries) /\ Preflight(s, s.timers)
      BY DEF Budgeted, Finite, Promised
    <3>3. DOMAIN t.entries \subseteq DOMAIN s.entries /\ t.serial = s.serial
      BY DEF Fewer
    <3>4. QED BY <2>1, <3>1, <3>2, <3>3, PreflightShrinks
  <2>3. Headroom(t, t.reserved)
    BY <1>2, <1>4, Numbers DEF Headroom, SamePromise
  <2>4. t.active = {} => t.messages = <<>> /\ t.timers = <<>>
    <3>1. t.active = {} => t.messages = <<>> /\ s.timers = <<>>
      BY <1>4 DEF SamePromise, Budgeted, Promised
    <3>2. Len(t.timers) = Len(s.timers) /\ t.timers \in Seq(Item)
      BY <2>1, Numbers DEF Voided
    <3>3. QED BY <3>1, <3>2
  <2>5. /\ t.reserved = Len(t.messages)
        /\ \A k \in DOMAIN t.messages : t.messages[k].class = "message" /\ t.messages[k].kind = "message"
    BY <1>4 DEF SamePromise, Budgeted, Promised
  <2>6. QED BY <1>1, <2>2, <2>3, <2>4, <2>5 DEF Budgeted, Promised, Fewer
<1>5. QED BY <1>3, <1>4

(* Intents that no step touched are voided nowhere. *)
LEMMA NothingVoided ==
  ASSUME NEW s, RootState(s), NEW t, t.timers = s.timers
  PROVE  Voided(s.timers, t.timers, {}) /\ DOMAIN t.entries \cap {} = {} /\ {} \in SUBSET TimerKeys
BY DEF Voided

(* A step that leaves schedule and timers alone keeps the budgets. *)
LEMMA SameWorkBudgeted ==
  ASSUME NEW s, RootState(s), Budgeted(s), NEW t, RootState(t), SameWork(s, t), t.status # "broken"
  PROVE  Budgeted(t)
<1>1. Fewer(s, t)
  BY Numbers DEF Fewer, SameWork
<1>2. SamePromise(s, t)
  BY NothingVoided DEF SamePromise, SameWork
<1>3. QED BY <1>1, <1>2, FewerBudgeted

LEMMA SameWorkTrans ==
  ASSUME NEW s, NEW t, NEW u, SameWork(s, t), SameWork(t, u)
  PROVE  SameWork(s, u)
BY DEF SameWork

(* Reporting outcomes and moving the accepted tree leave the schedule alone. *)
LEMMA TreeWork ==
  ASSUME NEW s, RootState(s), NEW items, NEW cancelled, NEW cleaned
  PROVE  /\ SameWork(s, Outcome(s, items)) /\ Outcome(s, items).status = s.status
         /\ SameWork(s, Failed(s)) /\ Failed(s).status # "broken"
         /\ SameWork(s, Rejected(s)) /\ Rejected(s).status # "broken"
         /\ SameWork(s, Abandon(s, cancelled)) /\ Abandon(s, cancelled).status # "broken"
         /\ SameWork(s, Committed(s, cleaned)) /\ Committed(s, cleaned).status # "broken"
         /\ Outcome(s, items).accepted = s.accepted /\ Failed(s).accepted = s.accepted
         /\ Rejected(s).accepted = s.accepted /\ Abandon(s, cancelled).accepted = s.accepted
<1>1. /\ SameWork(s, Outcome(s, items)) /\ Outcome(s, items).status = s.status
      /\ Outcome(s, items).accepted = s.accepted
  BY DEF SameWork, Outcome, RootState
<1>2. ASSUME NEW u, RootState(u)
      PROVE  SameWork(u, Failed(u)) /\ Failed(u).status # "broken" /\ Failed(u).accepted = u.accepted
  BY <1>2 DEF SameWork, Failed, RootState
<1>3. SameWork(s, Rejected(s)) /\ Rejected(s).status # "broken" /\ Rejected(s).accepted = s.accepted
  <2> DEFINE t == [s EXCEPT !.pending = NoCandidate, !.status = "ready"]
  <2>1. SameWork(s, t) /\ t.status = "ready" /\ t.accepted = s.accepted
    BY DEF SameWork, RootState
  <2> HIDE DEF t
  <2>2. QED BY <1>2, <2>1 DEF Rejected, t
<1>4. /\ SameWork(s, Abandon(s, cancelled)) /\ Abandon(s, cancelled).status # "broken"
      /\ Abandon(s, cancelled).accepted = s.accepted
  BY <1>2, <1>3 DEF Abandon
<1>5. ASSUME NEW g
      PROVE  RootState(Retire(s, g)) /\ SameWork(s, Retire(s, g))
  <2>1. SameWork(s, Retire(s, g))
    BY DEF SameWork, Retire, RootState
  <2>2. QED BY <2>1, RetireType
<1>6. SameWork(s, s)
  BY DEF SameWork
<1>7. SameWork(s, Disposed(s, cleaned)) /\ Disposed(s, cleaned).status # "broken"
  <2> DEFINE next == IF Accepted(s) THEN Retire(s, s.accepted.corr.gen) ELSE s
  <2>1. RootState(next) /\ SameWork(s, next)
    BY <1>5, <1>6
  <2> HIDE DEF next
  <2>2. /\ SameWork(next, [next EXCEPT !.pending = NoCandidate, !.status = "disposed"])
        /\ [next EXCEPT !.pending = NoCandidate, !.status = "disposed"].status = "disposed"
    BY <2>1 DEF SameWork, RootState
  <2>3. SameWork(next, Failed(next)) /\ Failed(next).status # "broken"
    BY <1>2, <2>1
  <2>4. QED BY <2>1, <2>2, <2>3, SameWorkTrans DEF Disposed, next
<1>8. SameWork(s, Promoted(s, cleaned)) /\ Promoted(s, cleaned).status # "broken"
  <2> DEFINE replaced == Accepted(s) /\ s.pending.corr.op = "replace"
             cleans   == replaced \/ (s.scheduled /\ Accepted(s))
             base     == IF replaced THEN Retire(s, s.accepted.corr.gen) ELSE s
             next     == [base EXCEPT !.accepted = s.pending, !.pending = NoCandidate,
                            !.status = "ready", !.published = @ \cup ReceiptsOf(s.active)]
  <2>1. RootState(base) /\ SameWork(s, base)
    BY <1>5, <1>6
  <2>2. Promoted(s, cleaned) = IF cleans /\ ~cleaned THEN Failed(next) ELSE next
    BY DEF Promoted
  <2>3. RootState(next) /\ SameWork(base, next) /\ next.status = "ready"
    <3> HIDE DEF base
    <3>1. SameWork(base, next) /\ next.status = "ready"
      BY <2>1 DEF SameWork, RootState
    <3>2. s.pending \in Candidate /\ ReceiptsOf(s.active) \subseteq Nat
      BY DEF RootState, ReceiptsOf, Item
    <3>3. RootState(next)
      BY <2>1, <3>2, NothingTypes DEF RootState, Statuses
    <3>4. QED BY <3>1, <3>3
  <2> HIDE DEF next, cleans, base
  <2>4. SameWork(next, Failed(next)) /\ Failed(next).status # "broken"
    BY <1>2, <2>3
  <2>5. QED BY <2>1, <2>2, <2>3, <2>4, SameWorkTrans
<1>9. QED BY <1>1, <1>2, <1>3, <1>4, <1>7, <1>8 DEF Committed

(* Releasing the active slot, cancelling timers and settling a tick only take away. *)
LEMMA ReleaseWork ==
  ASSUME NEW s, RootState(s), s.status # "broken", NEW keys, NEW item
  PROVE  /\ Fewer(s, Finish(s)) /\ Finish(s).active = {} /\ Finish(s).reserved = 0
         /\ Finish(s).messages = s.messages /\ Finish(s).timers = s.timers
         /\ Finish(s).queue = s.queue /\ Finish(s).slots = s.slots
         /\ Finish(s).status = s.status
         /\ Fewer(s, Cancelled(s, keys)) /\ SamePromise(s, Cancelled(s, keys))
         /\ Cancelled(s, keys).queue = s.queue /\ Cancelled(s, keys).slots = s.slots
         /\ Cancelled(s, keys).status = s.status
         /\ Fewer(s, FinishedTick(s, item)) /\ SamePromise(s, FinishedTick(s, item))
         /\ FinishedTick(s, item).queue = s.queue /\ FinishedTick(s, item).slots = s.slots
         /\ FinishedTick(s, item).timers = s.timers /\ FinishedTick(s, item).status = s.status
<1> DEFINE Left(t) == /\ Fewer(s, t) /\ SamePromise(s, t) /\ t.queue = s.queue /\ t.slots = s.slots
                      /\ t.timers = s.timers /\ t.status = s.status
<1>1. /\ Fewer(s, Finish(s)) /\ Finish(s).active = {} /\ Finish(s).reserved = 0
      /\ Finish(s).messages = s.messages /\ Finish(s).timers = s.timers
      /\ Finish(s).queue = s.queue /\ Finish(s).slots = s.slots
      /\ Finish(s).status = s.status
  <2>1. /\ Finish(s).active = {} /\ Finish(s).reserved = 0
        /\ Finish(s).messages = s.messages /\ Finish(s).timers = s.timers
        /\ Finish(s).queue = s.queue /\ Finish(s).slots = s.slots
        /\ Finish(s).status = s.status /\ Finish(s).receipt = s.receipt
        /\ Finish(s).serial = s.serial /\ Finish(s).entries = s.entries
    BY DEF Finish, RootState
  <2>2. QED BY <2>1, Numbers DEF Fewer
<1>2. ASSUME NEW t, t.queue = s.queue, t.active = s.active, t.receipt = s.receipt,
             t.slots = s.slots, t.serial = s.serial, t.reserved = s.reserved,
             t.messages = s.messages, t.timers = s.timers, t.status = s.status,
             DOMAIN t.entries \subseteq DOMAIN s.entries
      PROVE  Left(t)
  <2>1. Fewer(s, t)
    BY <1>2, Numbers DEF Fewer
  <2>2. SamePromise(s, t)
    BY <1>2, NothingVoided DEF SamePromise
  <2>3. QED BY <1>2, <2>1, <2>2
<1>3. ASSUME NEW ks PROVE Left(Cancelled(s, ks))
  <2> DEFINE t == Cancelled(s, ks)
  <2>1. /\ t.queue = s.queue /\ t.active = s.active /\ t.receipt = s.receipt
        /\ t.slots = s.slots /\ t.serial = s.serial /\ t.reserved = s.reserved
        /\ t.messages = s.messages /\ t.timers = s.timers /\ t.status = s.status
        /\ DOMAIN t.entries \subseteq DOMAIN s.entries
    BY DEF Cancelled, RootState
  <2> HIDE DEF t, Left
  <2>2. Left(t)
    BY <1>2, <2>1
  <2>3. QED BY <2>2 DEF t
<1>4. ASSUME NEW key, NEW st PROVE Left([s EXCEPT !.entries[key].status = st])
  <2> DEFINE t == [s EXCEPT !.entries[key].status = st]
  <2>1. /\ t.queue = s.queue /\ t.active = s.active /\ t.receipt = s.receipt
        /\ t.slots = s.slots /\ t.serial = s.serial /\ t.reserved = s.reserved
        /\ t.messages = s.messages /\ t.timers = s.timers /\ t.status = s.status
        /\ DOMAIN t.entries \subseteq DOMAIN s.entries
    BY DEF RootState
  <2> HIDE DEF t, Left
  <2>2. Left(t)
    BY <1>2, <2>1
  <2>3. QED BY <2>2 DEF t
<1>5. Left(s)
  <2> HIDE DEF Left
  <2>1. QED BY <1>2
<1>6. Left(FinishedTick(s, item))
  <2> HIDE DEF Left
  <2>1. QED BY <1>3, <1>4, <1>5 DEF FinishedTick
<1>7. Left(Cancelled(s, keys))
  <2> HIDE DEF Left
  <2>1. QED BY <1>3
<1>8. QED BY <1>1, <1>6, <1>7

(* Dropping every registration and everything queued leaves nothing to promise. *)
LEMMA CloseScheduleBudgeted ==
  ASSUME NEW s, RootState(s), Budgeted(s)
  PROVE  Budgeted(CloseSchedule(s)) /\ CloseSchedule(s).status = s.status
<1> DEFINE t == CloseSchedule(s)
<1>1. CASE ~s.scheduled
  BY <1>1 DEF CloseSchedule
<1>2. CASE s.scheduled
  <2>1. /\ t.queue = {} /\ t.active = {} /\ t.reserved = 0 /\ t.slots = 0
        /\ t.messages = <<>> /\ t.timers = <<>> /\ t.receipt = s.receipt /\ t.serial = s.serial
        /\ DOMAIN t.entries = {} /\ t.status = s.status
    BY <1>2 DEF CloseSchedule, Finish, Outcome, RootState
  <2>2. RootState(t)
    BY CloseScheduleType
  <2> HIDE DEF t
  <2>3. Fewer(s, t) /\ NoPromise(t)
    BY <2>1, Numbers DEF Fewer, NoPromise, Budgeted
  <2>4. Budgeted(t)
    BY <2>2, <2>3, FewerBudgeted
  <2>5. QED BY <2>1, <2>4 DEF t
<1>3. QED BY <1>1, <1>2

(* Pruning only takes away. *)
LEMMA PruneBudgeted ==
  ASSUME NEW s, RootState(s), Budgeted(s)
  PROVE  Budgeted(Prune(s)) /\ Prune(s).status = s.status
<1> DEFINE timed == Cancelled(s, {k \in DOMAIN s.entries : ~Deliverable(s, s.entries[k].item)})
           gone  == {i \in s.queue : ~Deliverable(s, i) \/ ~ValidTick(timed, i)}
           told  == Outcome(timed, gone)
           t     == [told EXCEPT !.queue = @ \ gone]
<1>1. CASE ~Accepted(s)
  BY <1>1 DEF Prune
<1>2. CASE Accepted(s)
  <2>1. RootState(timed) /\ Budgeted(timed) /\ timed.status = s.status
    <3>1. s.status # "broken"
      BY DEF Budgeted
    <3>2. /\ RootState(timed) /\ Fewer(s, timed) /\ SamePromise(s, timed)
          /\ timed.status = s.status
      BY <3>1, ReleaseWork, CancelledType
    <3> HIDE DEF timed
    <3>3. QED BY <3>2, FewerBudgeted
  <2> HIDE DEF timed, gone
  <2>2. RootState(told) /\ SameWork(timed, told) /\ told.status = timed.status
    BY <2>1, OutcomeType, TreeWork
  <2>3. Budgeted(told)
    BY <2>1, <2>2, SameWorkBudgeted DEF Budgeted
  <2> HIDE DEF told
  <2>4. RootState(t)
    BY <2>2 DEF RootState
  <2>5. /\ t.queue \subseteq told.queue /\ t.active = told.active /\ t.reserved = told.reserved
        /\ t.receipt = told.receipt /\ t.slots = told.slots /\ t.messages = told.messages
        /\ t.timers = told.timers /\ t.serial = told.serial /\ t.entries = told.entries
        /\ t.status = told.status
    BY <2>2 DEF RootState
  <2>6. t = Prune(s)
    BY <1>2 DEF Prune, told, gone, timed
  <2> HIDE DEF t
  <2>7. Fewer(told, t)
    BY <2>2, <2>3, <2>5, Numbers DEF Fewer, Budgeted
  <2>8. SamePromise(told, t)
    BY <2>2, <2>5, NothingVoided DEF SamePromise
  <2>9. Budgeted(t)
    BY <2>2, <2>3, <2>4, <2>7, <2>8, FewerBudgeted
  <2>10. QED BY <2>1, <2>2, <2>5, <2>6, <2>9
<1>3. QED BY <1>1, <1>2

(* The follow-ups of a committed candidate are admitted: apply_intents/2 cannot fail. *)
LEMMA AppliedBudgeted ==
  ASSUME NEW s, RootState(s), Budgeted(s),
         NEW t, RootState(t), Fewer(s, t), t.queue = s.queue, t.active = {}, t.reserved = 0,
         t.slots = s.slots,
         NEW u, u = ApplyIntents(t, s.messages, s.timers)
  PROVE  /\ RootState(u) /\ Finite(u) /\ Within(u) /\ u.reserved = 0 /\ u.status = t.status
         /\ u.receipt + u.slots <= MaxReceipt /\ u.serial <= MaxSerial /\ u.active = {}
<1> DEFINE m      == s.messages
           longer == Appended(t, m)
           done   == AppliedTimers(longer, s.timers)
<1>0. m \in Seq(Item) /\ s.timers \in Seq(Item) /\ s.serial \in Nat
  BY Numbers
<1>a. /\ Len(m) = s.reserved /\ Headroom(s, s.reserved) /\ Within(s)
      /\ \A k \in DOMAIN m : m[k].class = "message"
      /\ IsFiniteSet(s.queue) /\ IsFiniteSet(s.active) /\ IsFiniteSet(DOMAIN s.entries)
      /\ Preflight(s, s.timers) /\ t.receipt = s.receipt /\ t.serial = s.serial
      /\ DOMAIN t.entries \subseteq DOMAIN s.entries
  BY DEF Budgeted, Promised, Finite, Fewer
<1>1. AppendFits(t, m) /\ IsFiniteSet(longer.queue)
  <2> HIDE DEF m
  <2>1. QED BY <1>0, <1>a, WithinAppended
<1>2. Preflight(t, s.timers)
  <2>1. Voided(s.timers, s.timers, {}) /\ DOMAIN t.entries \cap {} = {}
    BY DEF Voided
  <2>2. QED BY <1>0, <1>a, <2>1, PreflightShrinks
<1>3. u = done
  BY <1>1, <1>2 DEF ApplyIntents, CommitFits
<1>4. RootState(longer)
  <2> HIDE DEF m
  <2>1. QED BY <1>0, <1>1, AppendedType
<1>5. /\ longer.active = {} /\ longer.reserved = 0 /\ longer.slots = t.slots
      /\ longer.receipt = t.receipt + Len(m) /\ longer.serial = t.serial
      /\ longer.entries = t.entries /\ longer.status = t.status
  <2> HIDE DEF m
  <2>1. QED BY DEF Appended, RootState
<1> HIDE DEF longer
<1>6. RootState(done)
  BY <1>0, <1>4, AppliedTimersType
<1>7. /\ done.queue = longer.queue /\ done.active = {} /\ done.reserved = 0
      /\ done.slots = t.slots /\ done.receipt = t.receipt + Len(m)
      /\ done.serial = t.serial + Starts(s.timers, Len(s.timers)) /\ done.status = t.status
      /\ DOMAIN done.entries = KeysAfter(longer, s.timers, Len(s.timers))
  BY <1>4, <1>5 DEF AppliedTimers, RootState
<1> HIDE DEF done, m
<1>8. IsFiniteSet(DOMAIN done.entries)
  <2>1. IsFiniteSet(DOMAIN longer.entries) /\ Len(s.timers) \in Nat
    BY <1>a, <1>5, FS_Subset, <1>0
  <2>2. QED BY <1>7, <2>1, KeysAfterFinite
<1>9. Within(done) /\ Finite(done)
  <2>1. Within(longer) /\ IsFiniteSet(longer.active)
    BY <1>1, <1>5, FS_EmptySet DEF AppendFits, longer
  <2>2. done.reserved <= longer.reserved /\ done.slots <= longer.slots
    BY <1>4, <1>5, <1>7, Numbers
  <2>3. Within(done) /\ IsFiniteSet(done.queue) /\ IsFiniteSet(done.active)
    BY <1>1, <1>4, <1>5, <1>6, <1>7, <2>1, <2>2, WithinShrinks
  <2>4. QED BY <1>8, <2>3 DEF Finite
<1>10. done.receipt + done.slots <= MaxReceipt
  <2>1. Len(m) \in Nat /\ t.receipt \in Nat /\ t.slots \in Nat /\ t.reserved = 0
    BY <1>0, Numbers
  <2>2. Headroom(t, Len(m) + t.reserved)
    BY <1>1 DEF AppendFits
  <2>3. QED BY <1>7, <2>1, <2>2, ScheduleAssumption DEF Headroom
<1>11. done.serial <= MaxSerial
  BY <1>0, <1>a, <1>2, <1>7, PreflightSerial
<1>12. QED BY <1>3, <1>6, <1>7, <1>9, <1>10, <1>11

(* Resolving the active item keeps the budgets, and its promises are over. *)
LEMMA SettleActiveBudgeted ==
  ASSUME NEW s, RootState(s), Budgeted(s)
  PROVE  Budgeted(SettleActive(s))
<1>1. CASE Pending(s) \/ s.active = {}
  BY <1>1 DEF SettleActive
<1>2. CASE ~(Pending(s) \/ s.active = {})
  <2> DEFINE item     == CHOOSE i \in s.active : TRUE
             told     == Outcome(s, s.active)
             freed    == Finish(told)
             finished == FinishedTick(freed, item)
             applied  == IF ActiveCommitted(s) /\ s.status = "ready"
                         THEN ApplyIntents(finished, s.messages, s.timers)
                         ELSE finished
             reported == IF ActiveCommitted(s) THEN applied.reported \cup ReceiptsOf(s.active)
                                               ELSE applied.reported
             t        == [applied EXCEPT !.activeCorr = NoCorrelation, !.messages = <<>>,
                            !.timers = <<>>, !.reported = reported]
  <2>1. /\ RootState(told) /\ Budgeted(told) /\ SameWork(s, told) /\ told.status = s.status
        /\ told.status # "broken"
    <3>1. RootState(told) /\ SameWork(s, told) /\ told.status = s.status
      BY OutcomeType, TreeWork
    <3> HIDE DEF told
    <3>2. QED BY <3>1, SameWorkBudgeted DEF Budgeted
  <2> HIDE DEF told
  <2>2. /\ RootState(freed) /\ Fewer(told, freed) /\ freed.active = {} /\ freed.reserved = 0
        /\ freed.queue = told.queue /\ freed.slots = told.slots /\ freed.status = told.status
    BY <2>1, FinishType, ReleaseWork
  <2> HIDE DEF freed
  <2>3. /\ RootState(finished) /\ Fewer(freed, finished) /\ finished.active = {}
        /\ finished.reserved = 0 /\ finished.queue = freed.queue
        /\ finished.slots = freed.slots /\ finished.status = freed.status
    <3>1. freed.status # "broken"
      BY <2>1, <2>2
    <3>2. /\ RootState(finished) /\ Fewer(freed, finished) /\ SamePromise(freed, finished)
          /\ finished.queue = freed.queue /\ finished.slots = freed.slots
          /\ finished.status = freed.status
      BY <2>2, <3>1, FinishedTickType, ReleaseWork
    <3> HIDE DEF finished
    <3>3. QED BY <2>2, <3>2 DEF SamePromise
  <2> HIDE DEF finished, item
  <2>4. Fewer(s, finished) /\ finished.queue = s.queue /\ finished.slots = s.slots
          /\ finished.status = s.status /\ finished.status # "broken"
    BY <2>1, <2>2, <2>3, Numbers DEF Fewer, SameWork
  <2>5. /\ RootState(applied) /\ Finite(applied) /\ Within(applied) /\ applied.reserved = 0
        /\ applied.status = finished.status
        /\ applied.receipt + applied.slots <= MaxReceipt /\ applied.serial <= MaxSerial
        /\ applied.active = {}
    <3>1. CASE ActiveCommitted(s) /\ s.status = "ready"
      BY <2>3, <2>4, <3>1, AppliedBudgeted
    <3>2. CASE ~(ActiveCommitted(s) /\ s.status = "ready")
      <4>1. applied = finished
        BY <3>2
      <4>2. Within(finished) /\ IsFiniteSet(finished.queue) /\ IsFiniteSet(finished.active)
        <5>1. finished.reserved <= s.reserved /\ finished.slots <= s.slots
          BY <2>3, <2>4, Numbers
        <5>2. finished.queue \subseteq s.queue /\ finished.active \subseteq s.active
          BY <2>3, <2>4
        <5>3. QED BY <2>3, <5>1, <5>2, WithinShrinks DEF Budgeted, Finite
      <4>3. IsFiniteSet(DOMAIN finished.entries)
        BY <2>4, FS_Subset DEF Fewer, Budgeted, Finite
      <4>4. finished.receipt + finished.slots <= MaxReceipt
        BY <2>4, Numbers DEF Fewer, Budgeted, Promised, Headroom
      <4>5. finished.serial <= MaxSerial
        <5>1. s.serial <= MaxSerial
          BY Numbers, PreflightSerial DEF Budgeted, Promised
        <5>2. QED BY <2>4, <5>1 DEF Fewer
      <4>6. QED BY <2>3, <4>1, <4>2, <4>3, <4>4, <4>5 DEF Finite
    <3>3. QED BY <3>1, <3>2
  <2> HIDE DEF applied
  <2>6. SettleActive(s) = t
    BY <1>2 DEF SettleActive, applied, finished, freed, told, item
  <2>7. RootState(SettleActive(s))
    BY SettleActiveType
  <2> HIDE DEF reported
  <2>8. /\ t.queue = applied.queue /\ t.active = applied.active /\ t.reserved = 0
        /\ t.slots = applied.slots /\ t.receipt = applied.receipt /\ t.serial = applied.serial
        /\ t.entries = applied.entries /\ t.status = applied.status
        /\ t.messages = <<>> /\ t.timers = <<>>
    BY <2>5 DEF RootState
  <2> HIDE DEF t
  <2>9. Within(t) /\ Finite(t)
    <3>1. t.reserved <= applied.reserved /\ t.slots <= applied.slots
      BY <2>5, <2>8, Numbers
    <3>2. Within(t) /\ IsFiniteSet(t.queue) /\ IsFiniteSet(t.active)
      BY <2>5, <2>6, <2>7, <2>8, <3>1, WithinShrinks DEF Finite
    <3>3. QED BY <2>5, <2>8, <3>2 DEF Finite
  <2>10. NoPromise(t) /\ t.status # "broken"
    BY <2>4, <2>5, <2>8 DEF NoPromise
  <2>11. Budgeted(t)
    BY <2>5, <2>6, <2>7, <2>8, <2>9, <2>10, UnpromisedBudgeted
  <2>12. QED BY <2>6, <2>11
<1>3. QED BY <1>1, <1>2

(* settle/1 keeps the budgets. *)
LEMMA SettleBudgeted ==
  ASSUME NEW s, RootState(s), Budgeted(s)
  PROVE  Budgeted(Settle(s))
<1> DEFINE done == Prune(SettleActive(s))
<1>1. RootState(done) /\ Budgeted(done)
  BY SettleActiveType, PruneType, SettleActiveBudgeted, PruneBudgeted
<1> HIDE DEF done
<1>2. Budgeted(CloseSchedule(done))
  BY <1>1, CloseScheduleBudgeted
<1>3. Budgeted([done EXCEPT !.drain = TRUE])
  <2> DEFINE t == [done EXCEPT !.drain = TRUE]
  <2>1. RootState(t) /\ SameWork(done, t) /\ t.status = done.status
    BY <1>1 DEF RootState, SameWork
  <2> HIDE DEF t
  <2>2. Budgeted(t)
    BY <1>1, <2>1, SameWorkBudgeted DEF Budgeted
  <2>3. QED BY <2>2 DEF t
<1>4. QED BY <1>1, <1>2, <1>3 DEF Settle, done

-----------------------------------------------------------------------------
(* Submitting a transition and beginning one of the lifecycle leave the schedule alone. *)
LEMMA SubmitWork ==
  ASSUME NEW s, RootState(s), NEW candidate \in Candidate, NEW stopping \in BOOLEAN, NEW answer
  PROVE  /\ SameWork(s, Submit(s, candidate, stopping, answer))
         /\ Submit(s, candidate, stopping, answer).status # "broken"
         /\ Submit(s, candidate, stopping, answer).accepted = s.accepted
<1> DEFINE submitted == [s EXCEPT !.pending = candidate,
                                  !.status  = IF stopping THEN "stopping" ELSE "awaiting_commit"]
<1>1. /\ RootState(submitted) /\ SameWork(s, submitted) /\ submitted.status # "broken"
      /\ submitted.accepted = s.accepted
  BY DEF RootState, Statuses, SameWork
<1> HIDE DEF submitted
<1>2. /\ SameWork(submitted, Abandon(submitted, answer = "refused"))
      /\ Abandon(submitted, answer = "refused").status # "broken"
      /\ Abandon(submitted, answer = "refused").accepted = submitted.accepted
  BY <1>1, TreeWork
<1>3. QED BY <1>1, <1>2, SameWorkTrans DEF Submit, submitted

LEMMA BeginSameWork ==
  ASSUME NEW s, RootState(s), NEW op \in Operations, NEW plan \in Plans, NEW prepared, NEW answer
  PROVE  /\ SameWork(s, Begin(s, op, plan, prepared, answer))
         /\ Begin(s, op, plan, prepared, answer).status # "broken"
         /\ Begin(s, op, plan, prepared, answer).accepted = s.accepted
<1> DEFINE corr  == NextCorrelation(s, op)
           tried == [s EXCEPT !.attempt = corr.seq, !.status = "evaluating"]
           candidate == [corr |-> corr, comps |-> plan.comps]
           t     == Begin(s, op, plan, prepared, answer)
<1>1. corr \in Correlation /\ corr.seq \in Nat
  BY CorrelationType DEF Correlation
<1>2. candidate \in Candidate
  <2> HIDE DEF corr
  <2>1. plan.comps \in SUBSET Components
    BY RootAssumption
  <2>2. QED BY <1>1, <2>1 DEF Candidate
<1>3. RootState(tried) /\ SameWork(s, tried) /\ tried.accepted = s.accepted
  <2> HIDE DEF corr
  <2>1. QED BY <1>1 DEF RootState, Statuses, SameWork
<1>4. t = IF prepared THEN Submit(tried, candidate, FALSE, answer) ELSE Rejected(tried)
  BY DEF Begin
<1> HIDE DEF tried, candidate, t
<1>5. SameWork(tried, t) /\ t.status # "broken" /\ t.accepted = tried.accepted
  <2>1. CASE prepared
    BY <1>2, <1>3, <1>4, <2>1, SubmitWork
  <2>2. CASE ~prepared
    BY <1>3, <1>4, <2>2, TreeWork
  <2>3. QED BY <2>1, <2>2
<1>6. SameWork(s, t) /\ t.status # "broken" /\ t.accepted = s.accepted
  BY <1>3, <1>5, SameWorkTrans
<1>7. QED BY <1>6 DEF t

LEMMA BeginBudgeted ==
  ASSUME NEW s, RootState(s), Budgeted(s), NEW op \in Operations, NEW plan \in Plans,
         NEW prepared, NEW answer
  PROVE  Budgeted(Begin(s, op, plan, prepared, answer))
<1> DEFINE t == Begin(s, op, plan, prepared, answer)
<1>1. RootState(t) /\ SameWork(s, t) /\ t.status # "broken"
  BY BeginType, BeginSameWork
<1> HIDE DEF t
<1>2. Budgeted(t)
  BY <1>1, SameWorkBudgeted
<1>3. QED BY <1>2 DEF t

(* Work is submitted only with room for its follow-ups, which are then promised. *)
LEMMA BeginWorkBudgeted ==
  ASSUME NEW s, RootState(s), Budgeted(s), s.active # {}, NEW plan \in Plans,
         NEW prepared, NEW answer
  PROVE  Budgeted(BeginWork(s, plan, prepared, answer))
<1> DEFINE corr  == NextCorrelation(s, "update")
           tried == [s EXCEPT !.attempt = corr.seq, !.status = "evaluating", !.activeCorr = corr]
           n     == Len(plan.messages)
           m     == Stamped(plan.messages, corr)
           timers == Stamped(plan.timers, corr)
           ready == [tried EXCEPT !.reserved = n, !.messages = m, !.timers = timers]
           candidate == [corr |-> corr, comps |-> plan.comps]
           t     == BeginWork(s, plan, prepared, answer)
<1>1. corr \in Correlation /\ corr.seq \in Nat
  BY CorrelationType DEF Correlation, Operations
<1>2. candidate \in Candidate /\ plan.messages \in Seq(Item) /\ plan.timers \in Seq(Item)
  <2> HIDE DEF corr
  <2>1. plan.comps \in SUBSET Components /\ plan.messages \in Seq(Item) /\ plan.timers \in Seq(Item)
    BY RootAssumption
  <2>2. QED BY <1>1, <2>1 DEF Candidate
<1>3. RootState(tried) /\ SameWork(s, tried)
  <2> HIDE DEF corr
  <2>1. QED BY <1>1 DEF RootState, Statuses, SameWork
<1>4. m \in Seq(Item) /\ timers \in Seq(Item)
  <2> HIDE DEF corr
  <2>1. QED BY <1>1, <1>2, StampedType
<1>5. Len(m) = n /\ n \in Nat /\ DOMAIN m = 1 .. n
        /\ \A k \in 1 .. n : m[k].class = "message" /\ m[k].kind = "message"
  <2>1. \A k \in 1 .. n : plan.messages[k] \in Item /\ k \in DOMAIN plan.messages
    BY <1>2
  <2>2. \A k \in 1 .. n : plan.messages[k].class = "message" /\ plan.messages[k].kind = "message"
    BY <2>1, RootAssumption
  <2> HIDE DEF corr
  <2>3. m = [k \in 1 .. n |-> [plan.messages[k] EXCEPT !.gen = corr.gen]]
    BY <1>2 DEF Stamped
  <2> HIDE DEF m
  <2>4. ASSUME NEW k \in 1 .. n PROVE m[k].class = "message" /\ m[k].kind = "message"
    BY <2>1, <2>2, <2>3 DEF Item
  <2>5. Len(m) = n /\ n \in Nat /\ DOMAIN m = 1 .. n
    BY <1>2, <1>4, <2>3
  <2>6. QED BY <2>4, <2>5
<1>6. t = IF prepared /\ Reservable(s, plan, corr) THEN Submit(ready, candidate, FALSE, answer)
                                                   ELSE Rejected(tried)
  BY DEF BeginWork
<1>7. RootState(t)
  BY BeginWorkType
<1>8. Reservable(s, plan, corr) => /\ Preflight(s, timers) /\ Headroom(s, n)
                                   /\ Within([s EXCEPT !.reserved = n])
  BY DEF Reservable, ReserveFits
<1> HIDE DEF candidate, corr, t, m, timers, n
<1>9. /\ RootState(ready)
      /\ ready.queue = s.queue /\ ready.active = s.active /\ ready.receipt = s.receipt
      /\ ready.slots = s.slots /\ ready.serial = s.serial /\ ready.entries = s.entries
      /\ ready.reserved = n /\ ready.messages = m /\ ready.timers = timers
      /\ ready.status = "evaluating"
  BY <1>1, <1>4, <1>5 DEF RootState, Statuses
<1>10. CASE prepared /\ Reservable(s, plan, corr)
  <2> DEFINE spared == [s EXCEPT !.reserved = n]
  <2>1. /\ RootState(spared) /\ Within(spared) /\ spared.queue = s.queue
        /\ spared.active = s.active /\ spared.reserved = n /\ spared.slots = s.slots
    BY <1>5, <1>8, <1>10 DEF RootState
  <2> HIDE DEF spared, ready
  <2>2. Finite(ready)
    BY <1>9 DEF Finite, Budgeted
  <2>3. Within(ready)
    <3>1. ready.reserved <= spared.reserved /\ ready.slots <= spared.slots
      BY <1>9, <2>1, Numbers
    <3>2. QED BY <1>9, <2>1, <2>2, <3>1, WithinShrinks DEF Finite
  <2>4. Preflight(ready, ready.timers)
    <3>1. Preflight(s, timers) /\ IsFiniteSet(DOMAIN s.entries) /\ s.serial \in Nat
      BY <1>8, <1>10, Numbers DEF Budgeted, Finite
    <3>2. Voided(timers, timers, {}) /\ DOMAIN ready.entries \cap {} = {}
      BY DEF Voided
    <3>3. QED BY <1>4, <1>9, <3>1, <3>2, PreflightShrinks
  <2>5. Headroom(ready, ready.reserved)
    BY <1>8, <1>9, <1>10 DEF Headroom
  <2>6. Budgeted(ready)
    BY <1>5, <1>9, <2>2, <2>3, <2>4, <2>5 DEF Budgeted, Promised
  <2>7. SameWork(ready, t) /\ t.status # "broken"
    BY <1>2, <1>6, <1>9, <1>10, SubmitWork
  <2>8. Budgeted(t)
    BY <1>7, <1>9, <2>6, <2>7, SameWorkBudgeted
  <2>9. QED BY <2>8 DEF t
<1>11. CASE ~(prepared /\ Reservable(s, plan, corr))
  <2> HIDE DEF tried
  <2>1. SameWork(tried, t) /\ t.status # "broken"
    BY <1>3, <1>6, <1>11, TreeWork
  <2>2. Budgeted(t)
    BY <1>3, <1>7, <2>1, SameWorkTrans, SameWorkBudgeted
  <2>3. QED BY <2>2 DEF t
<1>12. QED BY <1>10, <1>11

(* Selecting the oldest item moves it from the queue to the active slot. *)
LEMMA SelectedBudgeted ==
  ASSUME RootState(root), Budgeted(root), root.queue # {}, root.active = {}
  PROVE  /\ RootState(Selected) /\ Budgeted(Selected) /\ Selected.active # {}
         /\ Selected.messages = <<>> /\ Selected.timers = <<>> /\ Selected.status = root.status
<1> DEFINE item == Oldest(root.queue)
           t    == Selected
<1>1. item \in root.queue
  BY OldestType DEF RootState
<1>2. RootState(t)
  BY SelectedType
<1>3. /\ t.active = {item} /\ t.queue = root.queue \ {item} /\ t.reserved = root.reserved
      /\ t.slots = root.slots /\ t.receipt = root.receipt /\ t.serial = root.serial
      /\ t.entries = root.entries /\ t.status = root.status
      /\ t.messages = root.messages /\ t.timers = root.timers
  BY DEF Selected, Select, RootState
<1>4. root.messages = <<>> /\ root.timers = <<>> /\ root.reserved = 0
  BY DEF Budgeted, Promised
<1> HIDE DEF t, item
<1>5. /\ IsFiniteSet(t.queue) /\ Cardinality(t.queue) = Cardinality(root.queue) - 1
      /\ IsFiniteSet(t.active) /\ Cardinality(t.active) = 1 /\ Cardinality(root.active) = 0
      /\ Cardinality(root.queue) \in Nat
  <2>1. IsFiniteSet(root.queue) /\ root.active = {}
    BY DEF Budgeted, Finite
  <2>2. /\ IsFiniteSet(root.queue \ {item})
        /\ Cardinality(root.queue \ {item}) = Cardinality(root.queue) - 1
    BY <1>1, <2>1, FS_RemoveElement
  <2>3. IsFiniteSet({item}) /\ Cardinality({item}) = 1
    BY FS_Singleton
  <2>4. Cardinality({}) = 0 /\ Cardinality(root.queue) \in Nat
    BY <2>1, FS_EmptySet, FS_CardinalityType
  <2>5. QED BY <1>3, <2>1, <2>2, <2>3, <2>4
<1>6. t.queue \cup t.active = root.queue \cup root.active
  BY <1>1, <1>3
<1>7. Within(t)
  <2>1. Depth(t) = Depth(root)
    BY <1>3, <1>5, Numbers DEF Depth
  <2>2. \A class \in Classes : ClassCount(t, class) = ClassCount(root, class)
    BY <1>3, <1>6 DEF ClassCount
  <2>3. QED BY <2>1, <2>2 DEF Within, Budgeted
<1>8. t.receipt + t.slots <= MaxReceipt /\ t.serial <= MaxSerial
  <2>1. root.receipt + root.reserved + root.slots <= MaxReceipt
    BY DEF Budgeted, Promised, Headroom
  <2>2. root.serial <= MaxSerial
    BY Numbers, PreflightSerial DEF Budgeted, Promised
  <2>3. QED BY <1>3, <1>4, <2>1, <2>2, Numbers
<1>9. Finite(t) /\ NoPromise(t) /\ t.status # "broken"
  BY <1>3, <1>4, <1>5 DEF Finite, NoPromise, Budgeted
<1>10. Budgeted(t)
  BY <1>2, <1>7, <1>8, <1>9, UnpromisedBudgeted
<1>11. t.active # {}
  BY <1>3
<1>12. QED BY <1>2, <1>3, <1>4, <1>10, <1>11 DEF t

(* A tick is queued only when the budgets, and the follow-ups in flight, leave room for it. *)
LEMMA TickBudgeted ==
  ASSUME NEW s, RootState(s), Budgeted(s), NEW key \in DOMAIN s.entries
  PROVE  /\ RootState(Fired(s, key)) /\ Budgeted(Fired(s, key))
         /\ InternalFits(s, TickItem(s, key)) =>
              RootState(Internal(Fired(s, key), TickItem(s, key)))
                /\ Budgeted(Internal(Fired(s, key), TickItem(s, key)))
<1> DEFINE fired == Fired(s, key)
           item  == TickItem(s, key)
<1>1. RootState(fired) /\ item \in Item
  BY FiredType
<1>2. /\ fired.queue = s.queue /\ fired.active = s.active /\ fired.reserved = s.reserved
      /\ fired.slots = s.slots /\ fired.receipt = s.receipt /\ fired.serial = s.serial
      /\ DOMAIN fired.entries = DOMAIN s.entries /\ fired.status = s.status
      /\ fired.messages = s.messages /\ fired.timers = s.timers
  BY DEF Fired, RootState
<1> HIDE DEF fired, item
<1>3. Fewer(s, fired) /\ SamePromise(s, fired)
  <2>1. Fewer(s, fired)
    BY <1>2, Numbers DEF Fewer, Budgeted
  <2>2. SamePromise(s, fired)
    BY <1>2, NothingVoided DEF SamePromise
  <2>3. QED BY <2>1, <2>2
<1>4. Budgeted(fired)
  BY <1>1, <1>3, FewerBudgeted
<1>5. ASSUME InternalFits(s, item)
      PROVE  RootState(Internal(fired, item)) /\ Budgeted(Internal(fired, item))
  <2> DEFINE t == Internal(fired, item)
             u == Internal(s, item)
             new == [item EXCEPT !.receipt = s.receipt + 1]
  <2>1. Headroom(s, 1 + s.reserved) /\ Within(u)
    BY <1>5 DEF InternalFits
  <2>2. RootState(t)
    <3>1. Headroom(fired, 1 + fired.reserved)
      BY <1>2, <2>1 DEF Headroom
    <3>2. QED BY <1>1, <3>1, InternalType
  <2>3. RootState(u)
    BY <1>1, <2>1, InternalType
  <2> HIDE DEF new
  <2>4. /\ t.queue = s.queue \cup {new} /\ t.active = s.active /\ t.reserved = s.reserved
        /\ t.slots = s.slots /\ t.receipt = s.receipt + 1 /\ t.serial = s.serial
        /\ t.entries = fired.entries /\ t.status = s.status
        /\ t.messages = s.messages /\ t.timers = s.timers
    BY <1>1, <1>2 DEF Internal, RootState, new
  <2>5. u.queue = s.queue \cup {new} /\ u.active = s.active /\ u.reserved = s.reserved
          /\ u.slots = s.slots
    BY DEF Internal, RootState, new
  <2> HIDE DEF t, u
  <2>6. Finite(t)
    <3>1. IsFiniteSet(s.queue) /\ IsFiniteSet(s.active) /\ IsFiniteSet(DOMAIN s.entries)
      BY DEF Budgeted, Finite
    <3>2. IsFiniteSet(s.queue \cup {new})
      BY <3>1, FS_AddElement
    <3>3. QED BY <1>2, <2>4, <3>1, <3>2 DEF Finite
  <2>7. Within(t)
    <3>1. t.reserved <= u.reserved /\ t.slots <= u.slots
      BY <2>4, <2>5, Numbers
    <3>2. QED BY <2>1, <2>2, <2>3, <2>4, <2>5, <2>6, <3>1, WithinShrinks DEF Finite
  <2>8. Headroom(t, t.reserved)
    <3>1. s.receipt + (1 + s.reserved) + s.slots <= MaxReceipt
      BY <2>1 DEF Headroom
    <3>2. QED BY <2>4, <3>1, Numbers DEF Headroom
  <2>9. Preflight(t, t.timers)
    <3>1. Voided(s.timers, s.timers, {}) /\ DOMAIN t.entries \cap {} = {}
      BY DEF Voided
    <3>2. Preflight(s, s.timers) /\ IsFiniteSet(DOMAIN s.entries)
      BY DEF Budgeted, Promised, Finite
    <3>3. DOMAIN t.entries \subseteq DOMAIN s.entries /\ t.serial = s.serial /\ t.timers = s.timers
      BY <1>2, <2>4
    <3>4. s.serial \in Nat /\ s.timers \in Seq(Item)
      BY Numbers
    <3>5. QED BY <3>1, <3>2, <3>3, <3>4, PreflightShrinks
  <2>10. Promised(t)
    BY <2>4, <2>8, <2>9 DEF Budgeted, Promised
  <2>11. QED BY <2>2, <2>4, <2>6, <2>7, <2>10 DEF Budgeted, t
<1>6. QED BY <1>1, <1>4, <1>5 DEF fired, item

(* An envelope is admitted only when the budgets, and the follow-ups in flight, leave room. *)
LEMMA AdmittedBudgeted ==
  ASSUME NEW s, RootState(s), Budgeted(s), NEW envelope, envelope.item \in Item,
         envelope.sequence \in Nat, NEW g, NEW v, NEW c, Admissible(s, envelope, g, v, c)
  PROVE  Budgeted(Admitted(s, envelope))
<1> DEFINE item == envelope.item
           base == Inserted(s, item)
           t    == Admitted(s, envelope)
           new  == [item EXCEPT !.receipt = s.receipt + 1]
<1>1. RootState(t)
  BY AdmittedType
<1>2. Headroom(s, 1 + s.reserved) /\ (item.kind # "timer_cancel" => Within(base))
  BY DEF Admissible
<1> HIDE DEF new
<1>3. /\ t.queue = base.queue /\ t.active = s.active /\ t.reserved = s.reserved
      /\ t.slots = s.slots /\ t.receipt = s.receipt + 1 /\ t.serial = s.serial
      /\ t.entries = s.entries /\ t.status = s.status
      /\ t.messages = s.messages /\ t.timers = s.timers
  BY DEF Admitted, Inserted, RootState
<1>4. /\ base.active = s.active /\ base.reserved = s.reserved /\ base.slots = s.slots
      /\ item.kind = "timer_cancel" => base = s
      /\ base.queue \subseteq s.queue \cup {new}
  BY DEF Inserted, RootState, new
<1> HIDE DEF t, base, item
<1>5. Within(base)
  BY <1>2, <1>4 DEF Budgeted
<1>6. Finite(t)
  <2>1. IsFiniteSet(s.queue) /\ IsFiniteSet(s.active) /\ IsFiniteSet(DOMAIN s.entries)
    BY DEF Budgeted, Finite
  <2>2. IsFiniteSet(s.queue \cup {new})
    BY <2>1, FS_AddElement
  <2>3. IsFiniteSet(t.queue)
    BY <1>3, <1>4, <2>2, FS_Subset
  <2>4. QED BY <1>3, <2>1, <2>3 DEF Finite
<1>7. Within(t)
  <2>1. Depth(t) = Depth(base)
    BY <1>3, <1>4 DEF Depth
  <2>2. \A class \in Classes : ClassCount(t, class) = ClassCount(base, class)
    BY <1>3, <1>4 DEF ClassCount
  <2>3. QED BY <1>5, <2>1, <2>2 DEF Within
<1>8. Headroom(t, t.reserved)
  <2>1. s.receipt + (1 + s.reserved) + s.slots <= MaxReceipt
    BY <1>2 DEF Headroom
  <2>2. QED BY <1>3, <2>1, Numbers DEF Headroom
<1>9. Preflight(t, t.timers)
  <2>1. Voided(s.timers, s.timers, {}) /\ DOMAIN t.entries \cap {} = {}
    BY DEF Voided
  <2>2. Preflight(s, s.timers) /\ IsFiniteSet(DOMAIN s.entries)
    BY DEF Budgeted, Promised, Finite
  <2>3. s.serial \in Nat /\ s.timers \in Seq(Item)
    BY Numbers
  <2>4. QED BY <1>3, <2>1, <2>2, <2>3, PreflightShrinks
<1>10. Promised(t)
  BY <1>3, <1>8, <1>9 DEF Budgeted, Promised
<1>11. QED BY <1>3, <1>6, <1>7, <1>10 DEF Budgeted, t

(* A cancellation takes away, and voids the starts it finds among the promised timers. *)
LEMMA CancelOwnedBudgeted ==
  ASSUME NEW s, RootState(s), Budgeted(s), NEW item \in Item, NEW cancelled
  PROVE  Budgeted(CancelOwned(s, item, cancelled))
<1> DEFINE key     == Key(item)
           owned   == {i \in s.queue : i.kind \in {"timer_start", "timer_tick"} /\ Key(i) = key}
           told    == Outcome(s, owned)
           base    == Cancelled(told, {key})
           voided  == [k \in DOMAIN base.timers |->
                         IF base.timers[k].kind = "timer_start" /\ Key(base.timers[k]) = key
                         THEN [base.timers[k] EXCEPT !.kind = "void"]
                         ELSE base.timers[k]]
           dropped == [base EXCEPT !.queue = base.queue \ owned, !.timers = voided]
           freed   == Finish(Outcome(dropped, s.active))
           stopped == [freed EXCEPT
                         !.activeCorr = NoCorrelation, !.messages = <<>>, !.timers = <<>>]
           ticking == \E i \in s.active : i.kind = "timer_tick" /\ Key(i) = key
           next    == CASE ~ticking -> dropped
                        [] ticking /\ Pending(s) -> Abandon(stopped, cancelled)
                        [] OTHER -> stopped
<1>0. key \in TimerKeys
  BY KeyType
<1>1. RootState(told) /\ Budgeted(told) /\ told.status # "broken"
  <2>1. RootState(told) /\ SameWork(s, told) /\ told.status = s.status
    BY OutcomeType, TreeWork
  <2> HIDE DEF told
  <2>2. QED BY <2>1, SameWorkBudgeted DEF Budgeted
<1> HIDE DEF told, key
<1>2. /\ RootState(base) /\ Budgeted(base) /\ key \notin DOMAIN base.entries
      /\ base.status = told.status
  <2>1. /\ RootState(base) /\ Fewer(told, base) /\ SamePromise(told, base)
        /\ base.status = told.status
    BY <1>1, CancelledType, ReleaseWork
  <2>2. key \notin DOMAIN base.entries
    BY <1>1 DEF Cancelled, RootState
  <2> HIDE DEF base
  <2>3. Budgeted(base)
    BY <1>1, <2>1, FewerBudgeted
  <2>4. QED BY <2>1, <2>2, <2>3
<1> HIDE DEF base, owned
<1>3. RootState(dropped) /\ Budgeted(dropped) /\ dropped.status # "broken"
  <2>1. base.timers \in Seq(Item)
    BY <1>2 DEF RootState
  <2>2. ASSUME NEW i \in Item PROVE [i EXCEPT !.kind = "void"] \in Item
    BY DEF Item, Kinds
  <2>3. voided \in Seq(Item) /\ Len(voided) = Len(base.timers)
    BY <2>1, <2>2
  <2>4. Voided(base.timers, voided, {key})
    BY <2>1, <2>3 DEF Voided
  <2> HIDE DEF voided
  <2>5. /\ RootState(dropped) /\ dropped.queue \subseteq base.queue
        /\ dropped.active = base.active /\ dropped.reserved = base.reserved
        /\ dropped.slots = base.slots /\ dropped.receipt = base.receipt
        /\ dropped.serial = base.serial /\ dropped.entries = base.entries
        /\ dropped.status = base.status /\ dropped.messages = base.messages
        /\ dropped.timers = voided
    BY <1>2, <2>3 DEF RootState
  <2> HIDE DEF dropped
  <2>6. Fewer(base, dropped)
    BY <1>1, <1>2, <2>5, Numbers DEF Fewer
  <2>7. SamePromise(base, dropped)
    <3>1. {key} \in SUBSET TimerKeys /\ DOMAIN dropped.entries \cap {key} = {}
      BY <1>0, <1>2, <2>5
    <3>2. QED BY <2>4, <2>5, <3>1 DEF SamePromise
  <2>8. QED BY <1>1, <1>2, <2>5, <2>6, <2>7, FewerBudgeted
<1> HIDE DEF dropped
<1>4. RootState(stopped) /\ Budgeted(stopped) /\ stopped.status # "broken"
  <2> DEFINE out == Outcome(dropped, s.active)
  <2>1. RootState(out) /\ SameWork(dropped, out) /\ out.status = dropped.status
    BY <1>3, OutcomeType, TreeWork
  <2> HIDE DEF out
  <2>2. Budgeted(out) /\ out.status # "broken"
    BY <1>3, <2>1, SameWorkBudgeted
  <2>3. /\ RootState(Finish(out)) /\ Fewer(out, Finish(out)) /\ Finish(out).reserved = 0
        /\ Finish(out).status = out.status
    BY <2>1, <2>2, FinishType, ReleaseWork
  <2>4. freed = Finish(out)
    BY DEF out
  <2> HIDE DEF freed
  <2>5. <<>> \in Seq(Item)
    OBVIOUS
  <2>6. /\ RootState(stopped) /\ stopped.queue = freed.queue /\ stopped.active = freed.active
        /\ stopped.reserved = 0 /\ stopped.slots = freed.slots
        /\ stopped.receipt = freed.receipt /\ stopped.serial = freed.serial
        /\ stopped.entries = freed.entries /\ stopped.status = freed.status
        /\ stopped.messages = <<>> /\ stopped.timers = <<>>
    BY <2>3, <2>4, <2>5, NothingTypes DEF RootState
  <2> HIDE DEF stopped
  <2>7. Fewer(out, stopped)
    BY <2>2, <2>3, <2>4, <2>6 DEF Fewer
  <2>8. NoPromise(stopped)
    BY <2>6 DEF NoPromise
  <2>9. QED BY <2>1, <2>2, <2>3, <2>4, <2>6, <2>7, <2>8, FewerBudgeted
<1> HIDE DEF stopped
<1>5. RootState(Abandon(stopped, cancelled)) /\ Budgeted(Abandon(stopped, cancelled))
  <2> DEFINE u == Abandon(stopped, cancelled)
  <2>1. RootState(u) /\ SameWork(stopped, u) /\ u.status # "broken"
    BY <1>4, AbandonType, TreeWork
  <2> HIDE DEF u
  <2>2. Budgeted(u)
    BY <1>4, <2>1, SameWorkBudgeted
  <2>3. QED BY <2>1, <2>2 DEF u
<1>6. RootState(next) /\ Budgeted(next)
  BY <1>3, <1>4, <1>5
<1>7. CancelOwned(s, item, cancelled) = Outcome(next, {item})
  BY DEF CancelOwned, stopped, dropped, base, owned, told, key
<1> HIDE DEF next
<1>8. Budgeted(Outcome(next, {item}))
  <2> DEFINE u == Outcome(next, {item})
  <2>1. RootState(u) /\ SameWork(next, u) /\ u.status = next.status
    BY <1>6, OutcomeType, TreeWork
  <2> HIDE DEF u
  <2>2. Budgeted(u)
    BY <1>6, <2>1, SameWorkBudgeted DEF Budgeted
  <2>3. QED BY <2>2 DEF u
<1>9. QED BY <1>7, <1>8

(* Registering a timer keeps the budgets of work that promised nothing. *)
LEMMA StartBudgeted ==
  ASSUME NEW s, RootState(s), Budgeted(s), s.messages = <<>>, s.timers = <<>>,
         NEW intents \in Seq(Item), Preflight(s, intents)
  PROVE  /\ RootState(AppliedTimers(s, intents)) /\ Budgeted(AppliedTimers(s, intents))
         /\ AppliedTimers(s, intents).messages = <<>> /\ AppliedTimers(s, intents).timers = <<>>
<1> DEFINE t == AppliedTimers(s, intents)
<1>1. RootState(t)
  BY AppliedTimersType
<1>2. /\ t.queue = s.queue /\ t.active = s.active /\ t.reserved = s.reserved
      /\ t.slots = s.slots /\ t.receipt = s.receipt /\ t.status = s.status
      /\ t.messages = <<>> /\ t.timers = <<>>
      /\ t.serial = s.serial + Starts(intents, Len(intents))
      /\ DOMAIN t.entries = KeysAfter(s, intents, Len(intents))
  BY DEF AppliedTimers, RootState
<1>3. s.reserved = 0
  BY DEF Budgeted, Promised
<1> HIDE DEF t
<1>4. IsFiniteSet(DOMAIN t.entries)
  <2>1. Len(intents) \in Nat /\ IsFiniteSet(DOMAIN s.entries)
    BY DEF Budgeted, Finite
  <2>2. QED BY <1>2, <2>1, KeysAfterFinite
<1>5. Within(t) /\ Finite(t)
  <2>1. t.reserved <= s.reserved /\ t.slots <= s.slots
    BY <1>2, Numbers
  <2>2. Within(t) /\ IsFiniteSet(t.queue) /\ IsFiniteSet(t.active)
    BY <1>1, <1>2, <2>1, WithinShrinks DEF Budgeted, Finite
  <2>3. QED BY <1>4, <2>2 DEF Finite
<1>6. t.serial <= MaxSerial
  BY <1>2, Numbers, PreflightSerial
<1>7. t.receipt + t.slots <= MaxReceipt
  <2>1. s.receipt + s.reserved + s.slots <= MaxReceipt
    BY DEF Budgeted, Promised, Headroom
  <2>2. QED BY <1>2, <1>3, <2>1, Numbers
<1>8. NoPromise(t) /\ t.status # "broken"
  BY <1>2, <1>3 DEF NoPromise, Budgeted
<1>9. Budgeted(t)
  BY <1>1, <1>5, <1>6, <1>7, <1>8, UnpromisedBudgeted
<1>10. QED BY <1>1, <1>2, <1>9 DEF t

(* Finishing work that promised nothing more keeps the budgets. *)
LEMMA FinishBudgeted ==
  ASSUME NEW s, RootState(s), Budgeted(s), s.messages = <<>>, s.timers = <<>>, NEW items
  PROVE  /\ RootState(Finish(Outcome(s, items))) /\ Budgeted(Finish(Outcome(s, items)))
         /\ Finish(Outcome(s, items)).status = s.status
<1> DEFINE told == Outcome(s, items)
           t    == Finish(told)
<1>1. RootState(told) /\ SameWork(s, told) /\ told.status = s.status
  BY OutcomeType, TreeWork
<1> HIDE DEF told
<1>2. Budgeted(told) /\ told.status # "broken" /\ told.messages = <<>> /\ told.timers = <<>>
  BY <1>1, SameWorkBudgeted DEF Budgeted, SameWork
<1>3. /\ RootState(t) /\ Fewer(told, t) /\ t.reserved = 0
      /\ t.messages = <<>> /\ t.timers = <<>> /\ t.status = told.status
  BY <1>1, <1>2, FinishType, ReleaseWork
<1> HIDE DEF t
<1>4. Budgeted(t)
  BY <1>1, <1>2, <1>3, FewerBudgeted DEF NoPromise
<1>5. QED BY <1>1, <1>3, <1>4 DEF t, told

-----------------------------------------------------------------------------
(* The budgets hold initially. *)
LEMMA InitBudgeted == Init => Budgeted(root)
<1> SUFFICES ASSUME Init PROVE Budgeted(root)
  OBVIOUS
<1>1. RootState(root)
  BY InitType DEF TypeOK
<1>2. /\ root.queue = {} /\ root.active = {} /\ root.reserved = 0 /\ root.slots = 0
      /\ root.receipt = 0 /\ root.serial = 0 /\ root.messages = <<>> /\ root.timers = <<>>
      /\ DOMAIN root.entries = {} /\ root.status = "starting"
  BY DEF Init
<1>3. IsFiniteSet({}) /\ Cardinality({}) = 0
  BY FS_EmptySet
<1>4. Finite(root)
  BY <1>2, <1>3 DEF Finite
<1>5. Within(root)
  <2>1. Depth(root) = 0
    BY <1>2, <1>3 DEF Depth
  <2>2. ASSUME NEW class \in Classes PROVE ClassCount(root, class) = 0
    <3>1. {i \in root.queue \cup root.active : i.class = class} = {}
      BY <1>2
    <3>2. QED BY <1>2, <1>3, <3>1 DEF ClassCount
  <2>3. TotalLimit \in Nat /\ \A class \in Classes : ClassLimit[class] \in Nat
    BY <1>1, Numbers
  <2>4. QED BY <2>1, <2>2, <2>3 DEF Within
<1>6. root.receipt + root.slots <= MaxReceipt /\ root.serial <= MaxSerial
  BY <1>2, ScheduleAssumption, TimersAssumption
<1>7. NoPromise(root)
  BY <1>2 DEF NoPromise
<1>8. QED BY <1>1, <1>2, <1>4, <1>5, <1>6, <1>7, UnpromisedBudgeted

(* Every handler of the process and every step of the port keeps the budgets. *)
LEMMA NextBudgeted ==
  ASSUME RootState(root), RootState(root'), Quiet(root), Budgeted(root), [Next]_vars
  PROVE  Budgeted(root')
<1>0. "mount" \in Operations /\ "replace" \in Operations /\ "update" \in Operations
  BY DEF Operations
<1>a. ASSUME NEW u, RootState(u), Budgeted(u), root' = Settle(u)
      PROVE  Budgeted(root')
  BY <1>a, SettleBudgeted
<1>b. ASSUME NEW u, RootState(u), SameWork(root, u), u.status # "broken", root' = Settle(u)
      PROVE  Budgeted(root')
  BY <1>a, <1>b, SameWorkBudgeted
<1> USE DEF Answers
<1>1. CASE Boot
  <2>1. PICK plan \in Plans, prepared \in BOOLEAN, answer \in Answers :
           root' = Settle(Begin(root, "mount", plan, prepared, answer))
    BY <1>1 DEF Boot
  <2>2. QED BY <1>0, <1>a, <2>1, BeginType, BeginBudgeted
<1>2. ASSUME NEW seq \in 1 .. root.attempt, Deadline(seq)
      PROVE  Budgeted(root')
  <2>1. PICK cancelled \in BOOLEAN : root' = Settle(Abandon(root, cancelled))
    BY <1>2 DEF Deadline
  <2>2. QED BY <1>b, <2>1, AbandonType, TreeWork
<1>3. CASE DrainNothing
  <2>1. root' = [root EXCEPT !.drain = FALSE]
    BY <1>3 DEF DrainNothing
  <2>2. SameWork(root, root') /\ root'.status = root.status
    BY <2>1 DEF SameWork, RootState
  <2>3. QED BY <2>2, SameWorkBudgeted DEF Budgeted
<1>c. CanDrain => /\ RootState(Selected) /\ Budgeted(Selected) /\ Selected.active # {}
                  /\ Selected.messages = <<>> /\ Selected.timers = <<>>
                  /\ Oldest(root.queue) \in Item
  <2>1. CanDrain => root.queue # {} /\ root.active = {}
    BY DEF CanDrain, Quiet
  <2>2. CanDrain => Oldest(root.queue) \in Item
    BY <2>1, SelectedType
  <2>3. QED BY <2>1, <2>2, SelectedBudgeted
<1>4. CASE DrainRefused
  <2> DEFINE item  == Oldest(root.queue)
             freed == Finish(Outcome(Selected, {item}))
             next  == FinishedTick(freed, item)
  <2>1. CanDrain /\ root' = [next EXCEPT !.drain = TRUE]
    BY <1>4 DEF DrainRefused
  <2>2. RootState(freed) /\ Budgeted(freed) /\ freed.status # "broken"
    <3>1. RootState(freed) /\ Budgeted(freed)
      BY <1>c, <2>1, FinishBudgeted
    <3>2. QED BY <3>1 DEF Budgeted
  <2> HIDE DEF freed
  <2>3. RootState(next) /\ Budgeted(next)
    <3>1. RootState(next) /\ Fewer(freed, next) /\ SamePromise(freed, next)
      BY <2>2, FinishedTickType, ReleaseWork
    <3> HIDE DEF next
    <3>2. QED BY <2>2, <3>1, FewerBudgeted
  <2> HIDE DEF next
  <2>4. SameWork(next, root') /\ root'.status = next.status
    BY <2>1, <2>3 DEF SameWork, RootState
  <2>5. QED BY <2>3, <2>4, SameWorkBudgeted DEF Budgeted
<1>5. CASE DrainTimerStart
  <2> DEFINE item == Oldest(root.queue)
             next == IF Preflight(Selected, <<item>>) THEN AppliedTimers(Selected, <<item>>)
                                                      ELSE Selected
             freed == Finish(Outcome(next, {item}))
  <2>1. CanDrain /\ root' = Settle(freed)
    BY <1>5 DEF DrainTimerStart
  <2>2. RootState(next) /\ Budgeted(next) /\ next.messages = <<>> /\ next.timers = <<>>
    <3>1. <<item>> \in Seq(Item)
      BY <1>c, <2>1
    <3> HIDE DEF item
    <3>2. CASE Preflight(Selected, <<item>>)
      BY <1>c, <2>1, <3>1, <3>2, StartBudgeted
    <3>3. CASE ~Preflight(Selected, <<item>>)
      BY <1>c, <2>1, <3>3
    <3>4. QED BY <3>2, <3>3
  <2> HIDE DEF next, item
  <2>3. RootState(freed) /\ Budgeted(freed)
    BY <2>2, FinishBudgeted
  <2>4. QED BY <1>a, <2>1, <2>3
<1>6. CASE DrainWork
  <2>1. PICK plan \in Plans, prepared \in BOOLEAN, answer \in Answers :
           root' = Settle(BeginWork(Selected, plan, prepared, answer))
    BY <1>6 DEF DrainWork
  <2>2. CanDrain
    BY <1>6 DEF DrainWork
  <2>3. QED BY <1>a, <1>c, <2>1, <2>2, BeginWorkType, BeginWorkBudgeted
<1>7. ASSUME NEW key \in DOMAIN root.entries, NEW epoch, NEW tick, OwnedTick(key, epoch, tick)
      PROVE  Budgeted(root')
  <2> DEFINE item  == TickItem(root, key)
             fired == Fired(root, key)
  <2>1. /\ RootState(fired) /\ Budgeted(fired) /\ fired.status # "broken"
        /\ InternalFits(root, item) =>
             RootState(Internal(fired, item)) /\ Budgeted(Internal(fired, item))
    BY TickBudgeted DEF Budgeted
  <2> HIDE DEF fired, item
  <2>2. RootState(Cancelled(root, {key})) /\ Budgeted(Cancelled(root, {key}))
    <3> DEFINE u == Cancelled(root, {key})
    <3>1. RootState(u) /\ Fewer(root, u) /\ SamePromise(root, u)
      BY CancelledType, ReleaseWork DEF Budgeted
    <3> HIDE DEF u
    <3>2. Budgeted(u)
      BY <3>1, FewerBudgeted
    <3>3. QED BY <3>1, <3>2 DEF u
  <2>3. RootState(FinishedTick(fired, item)) /\ Budgeted(FinishedTick(fired, item))
    <3> DEFINE u == FinishedTick(fired, item)
    <3>1. RootState(u) /\ Fewer(fired, u) /\ SamePromise(fired, u)
      BY <2>1, FinishedTickType, ReleaseWork
    <3> HIDE DEF u
    <3>2. Budgeted(u)
      BY <2>1, <3>1, FewerBudgeted
    <3>3. QED BY <3>1, <3>2 DEF u
  <2>4. \/ root' = Settle(Cancelled(root, {key}))
        \/ root' = Settle(Internal(fired, item)) /\ InternalFits(root, item)
        \/ root' = Settle(FinishedTick(fired, item))
    BY <1>7 DEF OwnedTick, fired, item
  <2>5. QED BY <1>a, <2>1, <2>2, <2>3, <2>4
<1>8. ASSUME NEW ack, NEW cleaned, Ack(ack, cleaned)
      PROVE  Budgeted(root')
  <2>1. root' = Settle(Committed(root, cleaned)) \/ root' = Settle(Rejected(root))
    BY <1>8 DEF Ack
  <2>2. QED BY <1>b, <2>1, CommittedType, RejectedType, TreeWork
<1>9. ASSUME NEW template \in Envelopes, NEW generation, NEW revision,
             NEW sequence \in {root.producers[template.producer],
                               root.producers[template.producer] + 1},
             NEW cancelled, Enqueue(template, generation, revision, sequence, cancelled)
      PROVE  Budgeted(root')
  <2> DEFINE item     == [template EXCEPT !.gen = generation]
             received == [item EXCEPT !.receipt = root.receipt + 1]
             envelope == [item |-> item, rev |-> revision, sequence |-> sequence]
             entered  == Admitted(root, envelope)
             admitted == Outcome(entered,
                           IF item.kind = "timer_cancel" THEN {} ELSE Superseded(root, item))
             next     == IF item.kind = "timer_cancel"
                         THEN CancelOwned(admitted, received, cancelled) ELSE admitted
             last     == [next EXCEPT !.drain = TRUE]
  <2>1. /\ Admissible(root, envelope, root.accepted.corr.gen, root.accepted.corr.rev,
                      root.accepted.comps)
        /\ root' = Settle(last)
    BY <1>9 DEF Enqueue
  <2>2. template \in Item /\ template.producer \in Producers
    BY RootAssumption
  <2>3. generation \in Nat
    <3>1. item.gen = root.accepted.corr.gen
      BY <2>1 DEF Admissible, ValidDispatch
    <3>2. item.gen = generation
      BY <2>2 DEF Item
    <3>3. root.accepted.corr.gen \in Nat
      <4>1. root.accepted.corr \in Correlation
        BY DEF RootState, Candidate
      <4>2. QED BY <4>1 DEF Correlation
    <3>4. QED BY <3>1, <3>2, <3>3
  <2>4. item \in Item
    BY <2>2, <2>3 DEF Item
  <2>5. sequence \in Nat
    <3>1. root.producers[template.producer] \in Nat
      BY <2>2 DEF RootState
    <3>2. QED BY <3>1
  <2>6. received \in Item
    <3>1. root.receipt + 1 \in Nat
      BY Numbers
    <3> HIDE DEF item
    <3>2. QED BY <2>4, <3>1, RenumberedType
  <2>7. RootState(entered) /\ Budgeted(entered)
    <3>1. envelope.item \in Item /\ envelope.sequence \in Nat
      BY <2>4, <2>5
    <3> HIDE DEF envelope
    <3>2. QED BY <2>1, <3>1, AdmittedType, AdmittedBudgeted
  <2> HIDE DEF envelope, entered, last, received
  <2>8. RootState(admitted) /\ Budgeted(admitted)
    <3>1. RootState(admitted) /\ SameWork(entered, admitted) /\ admitted.status = entered.status
      BY <2>7, OutcomeType, TreeWork
    <3> HIDE DEF admitted
    <3>2. QED BY <2>7, <3>1, SameWorkBudgeted DEF Budgeted
  <2> HIDE DEF admitted
  <2>9. RootState(next) /\ Budgeted(next)
    BY <2>6, <2>8, CancelOwnedType, CancelOwnedBudgeted
  <2> HIDE DEF next
  <2>10. RootState(last) /\ SameWork(next, last) /\ last.status = next.status
    BY <2>9 DEF RootState, SameWork, last
  <2>11. Budgeted(last)
    BY <2>9, <2>10, SameWorkBudgeted DEF Budgeted
  <2>12. QED BY <1>a, <2>1, <2>10, <2>11
<1>10. ASSUME NEW plan \in Plans, NEW prepared, NEW answer, Update(plan, prepared, answer)
       PROVE  Budgeted(root')
  <2>1. root' = Begin(root, "update", plan, prepared, answer)
    BY <1>10 DEF Update
  <2>2. QED BY <1>0, <2>1, BeginBudgeted
<1>d. RootState(CloseSchedule(root)) /\ Budgeted(CloseSchedule(root))
  BY CloseScheduleType, CloseScheduleBudgeted
<1>e. RootState(Failed(CloseSchedule(root))) /\ Budgeted(Failed(CloseSchedule(root)))
  <2> DEFINE closed == CloseSchedule(root)
             u      == Failed(closed)
  <2> HIDE DEF closed
  <2>1. RootState(closed) /\ Budgeted(closed)
    BY <1>d DEF closed
  <2>2. RootState(u) /\ SameWork(closed, u) /\ u.status # "broken"
    BY <2>1, RejectedType, TreeWork
  <2> HIDE DEF u
  <2>3. Budgeted(u)
    BY <2>1, <2>2, SameWorkBudgeted
  <2>4. QED BY <2>2, <2>3 DEF u, closed
<1>11. ASSUME NEW plan \in Plans, NEW prepared, NEW answer, NEW cancelled,
              Replace(plan, prepared, answer, cancelled)
       PROVE  Budgeted(root')
  <2> DEFINE closed == CloseSchedule(root)
             freed  == [closed EXCEPT !.pending = NoCandidate]
             u      == Begin(freed, "replace", plan, prepared, answer)
  <2>1. root' = Settle(Failed(closed)) \/ root' = Settle(u)
    BY <1>11 DEF Replace
  <2>2. RootState(freed) /\ Budgeted(freed)
    <3> HIDE DEF closed
    <3>1. RootState(closed) /\ Budgeted(closed)
      BY <1>d DEF closed
    <3>2. RootState(freed) /\ SameWork(closed, freed) /\ freed.status = closed.status
      BY <3>1, NothingTypes DEF RootState, SameWork
    <3> HIDE DEF freed
    <3>3. QED BY <3>1, <3>2, SameWorkBudgeted DEF Budgeted
  <2> HIDE DEF freed
  <2>3. RootState(u) /\ Budgeted(u)
    BY <1>0, <2>2, BeginType, BeginBudgeted
  <2>4. QED BY <1>a, <1>e, <2>1, <2>3
<1>12. ASSUME NEW answer, NEW cancelled, Stop(answer, cancelled)
       PROVE  Budgeted(root')
  <2> DEFINE closed == CloseSchedule(root)
             old    == IF Accepted(root) THEN root.accepted.corr
                                         ELSE [NoCorrelation EXCEPT !.gen = 1, !.rev = 1]
             corr   == [old EXCEPT !.seq = root.attempt + 1, !.op = "dispose"]
             tried  == [closed EXCEPT !.status = "stopping", !.attempt = corr.seq]
             next   == [corr |-> corr, comps |-> {}]
             u      == Submit(tried, next, TRUE, answer)
  <2>1. root' = Settle(Failed(closed)) \/ root' = Settle(u)
    BY <1>12 DEF Stop
  <2>2. old \in Correlation /\ root.attempt + 1 \in Nat
    <3>1. old \in Correlation
      BY NothingTypes DEF RootState, Candidate, Correlation
    <3>2. root.attempt \in Nat
      BY DEF RootState
    <3>3. QED BY <3>1, <3>2
  <2> HIDE DEF old, closed
  <2>3. corr \in Correlation /\ corr.seq \in Nat
    BY <2>2 DEF Correlation, Operations
  <2> HIDE DEF corr
  <2>4. next \in Candidate
    BY <2>3 DEF Candidate
  <2>5. RootState(closed) /\ Budgeted(closed)
    BY <1>d DEF closed
  <2>6. RootState(tried) /\ SameWork(closed, tried) /\ tried.status = "stopping"
    BY <2>3, <2>5 DEF RootState, Statuses, SameWork
  <2> HIDE DEF next, tried
  <2>7. Budgeted(tried)
    BY <2>5, <2>6, SameWorkBudgeted
  <2>8. RootState(u) /\ SameWork(tried, u) /\ u.status # "broken"
    BY <2>4, <2>6, SubmitType, SubmitWork
  <2> HIDE DEF u
  <2>9. Budgeted(u)
    BY <2>6, <2>7, <2>8, SameWorkBudgeted
  <2>10. QED BY <1>a, <1>e, <2>1, <2>8, <2>9 DEF closed
<1>13. ASSUME NEW cancelled, RuntimeLoss(cancelled)
       PROVE  Budgeted(root')
  BY <1>a, <1>e, <1>13 DEF RuntimeLoss
<1>14. UNCHANGED root => Budgeted(root')
  OBVIOUS
<1>15. RendererCommit \/ RendererReject \/ UNCHANGED vars => UNCHANGED root
  BY DEF RendererCommit, RendererReject, vars
<1>16. Drain => Budgeted(root')
  BY <1>3, <1>4, <1>5, <1>6 DEF Drain
<1>17. Calls => Budgeted(root')
  BY <1>8, <1>9, <1>10, <1>11, <1>12, <1>13 DEF Calls
<1>18. QED BY <1>1, <1>2, <1>7, <1>14, <1>15, <1>16, <1>17 DEF Next

(* No interleaving of handlers overdraws the queue, and the follow-ups of a candidate can
   always be admitted when it commits: the matches of apply_intents/2 never fail. *)
THEOREM BudgetsAlwaysHold == Spec => []BudgetsHold
<1> DEFINE Inv == IInv /\ Budgeted(root)
<1>1. Init => Inv
  BY InitIInv, InitBudgeted
<1>2. Inv /\ [Next]_vars => Inv'
  <2> SUFFICES ASSUME IInv, Budgeted(root), [Next]_vars PROVE IInv' /\ Budgeted(root)'
    OBVIOUS
  <2>1. IInv'
    BY NextIInv
  <2>2. RootState(root) /\ Quiet(root) /\ RootState(root)'
    BY <2>1 DEF IInv, TypeOK
  <2>3. RootState(root)' <=> RootState(root')
    BY DEF RootState
  <2>4. Budgeted(root')
    BY <2>2, <2>3, NextBudgeted
  <2>5. Budgeted(root)' <=> Budgeted(root')
    BY DEF Budgeted, Finite, Promised, Within, Depth, ClassCount, Headroom, Preflight, KeysAfter
  <2>6. QED BY <2>1, <2>4, <2>5
<1>3. Inv => BudgetsHold
  BY DEF Budgeted, BudgetsHold, WithinBudget, ReservationHolds
<1>4. QED BY <1>1, <1>2, <1>3, PTL DEF Spec

-----------------------------------------------------------------------------
(* The item is the tick of this registration that is outstanding. *)
Marks(entry, i) ==
  /\ i.kind = "timer_tick" /\ Key(i) = Key(entry.item)
  /\ i.epoch = entry.epoch /\ i.tick = entry.tick
  /\ i.target = entry.item.target /\ i.gen = entry.item.gen

(* A registration is filed under the key of its item, and a firing one has its tick. *)
Registered(s) ==
  \A key \in DOMAIN s.entries :
    /\ Key(s.entries[key].item) = key /\ ~s.entries[key].item.sup
    /\ s.entries[key].status = "firing" => \E i \in Live(s) : Marks(s.entries[key], i)

(* No timer has two ticks, and at most one item runs: a tick that does is of a firing timer
   and no longer queued. *)
Single(s) ==
  /\ \A i, j \in Live(s) :
       i.kind = "timer_tick" /\ j.kind = "timer_tick" /\ Key(i) = Key(j) => i = j
  /\ \A i, j \in s.active : i = j
  /\ \A i \in s.active : ValidTick(s, i) /\ (i.kind = "timer_tick" => i \notin s.queue)

(* No later item of a stream may take the place of a registration or of a tick. *)
Lasting(s) == \A i \in Live(s) : i.kind \in {"timer_start", "timer_tick"} => ~i.sup

(* The candidate's intents: its messages are no ticks, its registrations are kept. *)
Intents(s) ==
  /\ \A k \in DOMAIN s.messages : s.messages[k].kind = "message"
  /\ \A k \in DOMAIN s.timers : ~s.timers[k].sup

(* Without an accepted tree, or without a policy, there is neither work nor a timer. *)
Bare(s) == ~Accepted(s) \/ ~s.scheduled => Live(s) = {} /\ DOMAIN s.entries = {}

(* The timers and their ticks at any point of a handler. *)
Ticking(s) == Registered(s) /\ Single(s) /\ Lasting(s) /\ Intents(s) /\ Bare(s)

(* Every registration belongs to the accepted tree. *)
Owned(s) == \A key \in DOMAIN s.entries : Deliverable(s, s.entries[key].item)

(* The timers and their ticks between two handlers. *)
Punctual(s) == Ticking(s) /\ Owned(s) /\ \A i \in Live(s) : ValidTick(s, i)

(* A step that takes away work and registrations, but no tick of a registration that stays. *)
Less(s, t) ==
  /\ t.queue \subseteq s.queue /\ t.active \subseteq s.active
  /\ DOMAIN t.entries \subseteq DOMAIN s.entries
  /\ \A key \in DOMAIN t.entries : t.entries[key] = s.entries[key]
  /\ \A key \in DOMAIN t.entries, i \in Live(s) :
       s.entries[key].status = "firing" /\ Marks(s.entries[key], i) => i \in Live(t)
  /\ \A i \in t.active : i.kind = "timer_tick" => Key(i) \in DOMAIN t.entries
  /\ t.scheduled = s.scheduled

-----------------------------------------------------------------------------
(* Taking away keeps the ticks, and the owners of the timers. *)
LEMMA LessTicking ==
  ASSUME NEW s, Ticking(s), NEW t, Less(s, t), Intents(t), Accepted(s) => Accepted(t)
  PROVE  /\ Ticking(t)
         /\ Owned(s) /\ t.accepted = s.accepted => Owned(t)
<1>1. Live(t) \subseteq Live(s)
  BY DEF Less, Live
<1>2. Registered(t)
  <2>1. ASSUME NEW key \in DOMAIN t.entries
        PROVE  /\ Key(t.entries[key].item) = key /\ ~t.entries[key].item.sup
               /\ t.entries[key].status = "firing" => \E i \in Live(t) : Marks(t.entries[key], i)
    <3>1. key \in DOMAIN s.entries /\ t.entries[key] = s.entries[key]
      BY DEF Less
    <3>2. /\ Key(s.entries[key].item) = key /\ ~s.entries[key].item.sup
          /\ s.entries[key].status = "firing" => \E i \in Live(s) : Marks(s.entries[key], i)
      BY <3>1 DEF Ticking, Registered
    <3>3. \A i \in Live(s) : s.entries[key].status = "firing" /\ Marks(s.entries[key], i) => i \in Live(t)
      BY DEF Less
    <3>4. QED BY <3>1, <3>2, <3>3
  <2>2. QED BY <2>1 DEF Registered
<1>3. Single(t)
  <2>1. \A i, j \in Live(t) :
          i.kind = "timer_tick" /\ j.kind = "timer_tick" /\ Key(i) = Key(j) => i = j
    BY <1>1 DEF Ticking, Single
  <2>2. \A i, j \in t.active : i = j
    BY DEF Less, Ticking, Single
  <2>3. ASSUME NEW i \in t.active PROVE ValidTick(t, i) /\ (i.kind = "timer_tick" => i \notin t.queue)
    <3>1. ValidTick(s, i) /\ (i.kind = "timer_tick" => i \notin t.queue)
      BY DEF Less, Ticking, Single
    <3>2. i.kind = "timer_tick" => Key(i) \in DOMAIN t.entries /\ t.entries[Key(i)] = s.entries[Key(i)]
      BY DEF Less
    <3>3. QED BY <3>1, <3>2 DEF ValidTick
  <2>4. QED BY <2>1, <2>2, <2>3 DEF Single
<1>4. Lasting(t)
  BY <1>1 DEF Ticking, Lasting
<1>5. Bare(t)
  <2>1. DOMAIN t.entries \subseteq DOMAIN s.entries /\ t.scheduled = s.scheduled
    BY DEF Less
  <2>2. QED BY <1>1, <2>1 DEF Ticking, Bare
<1>6. Owned(s) /\ t.accepted = s.accepted => Owned(t)
  <2>1. /\ DOMAIN t.entries \subseteq DOMAIN s.entries
        /\ \A key \in DOMAIN t.entries : t.entries[key] = s.entries[key]
    BY DEF Less
  <2>2. QED BY <2>1 DEF Owned, Deliverable, Accepted
<1>7. QED BY <1>2, <1>3, <1>4, <1>5, <1>6 DEF Ticking

(* Leaving schedule and timers alone keeps the ticks, and the owners of the timers. *)
LEMMA SameTicking ==
  ASSUME NEW s, Ticking(s), NEW t, SameWork(s, t), Accepted(s) => Accepted(t)
  PROVE  /\ Ticking(t)
         /\ Owned(s) /\ t.accepted = s.accepted => Owned(t)
<1>1. Less(s, t)
  <2>1. \A i \in t.active : i.kind = "timer_tick" => Key(i) \in DOMAIN t.entries
    BY DEF SameWork, Ticking, Single, ValidTick
  <2>2. QED BY <2>1 DEF Less, SameWork, Live
<1>2. Intents(t)
  BY DEF SameWork, Ticking, Intents
<1>3. QED BY <1>1, <1>2, LessTicking

(* Without work and timers there is nothing to be late. *)
LEMMA EmptyPunctual ==
  ASSUME NEW s, Live(s) = {}, DOMAIN s.entries = {}, Intents(s)
  PROVE  Punctual(s)
<1>1. s.active = {}
  BY DEF Live
<1>2. Registered(s) /\ Single(s) /\ Lasting(s) /\ Bare(s) /\ Owned(s)
  BY <1>1 DEF Registered, Single, Lasting, Bare, Owned
<1>3. QED BY <1>2 DEF Punctual, Ticking

-----------------------------------------------------------------------------
(* The end of the item that runs, with its tick settled: no other timer hears of it. *)
LEMMA FinishedTicking ==
  ASSUME NEW s, Ticking(s), NEW item, s.active = {item},
         NEW f, RootState(f), f.entries = s.entries,
         NEW t, t.entries = FinishedTick(f, item).entries, t.queue = s.queue, t.active = {},
         t.accepted = s.accepted, t.scheduled = s.scheduled,
         t.messages = s.messages, t.timers = s.timers
  PROVE  /\ Ticking(t)
         /\ Owned(s) => Owned(t)
         /\ (\A i \in Live(s) : ValidTick(s, i)) => \A i \in Live(t) : ValidTick(t, i)
<1>1. /\ item \in Live(s) /\ ValidTick(s, item) /\ ValidTick(f, item)
      /\ Live(t) = s.queue /\ Live(t) \subseteq Live(s) /\ (item.kind = "timer_tick" => item \notin Live(t))
      /\ Live(s) = Live(t) \cup {item}
  BY DEF Ticking, Single, Live, ValidTick
<1>2. /\ DOMAIN t.entries \subseteq DOMAIN s.entries
      /\ \A key \in DOMAIN t.entries :
           /\ t.entries[key].item = s.entries[key].item
           /\ \/ t.entries[key] = s.entries[key] /\ ~(item.kind = "timer_tick" /\ key = Key(item))
              \/ t.entries[key].status = "waiting" /\ item.kind = "timer_tick" /\ key = Key(item)
  <2>1. CASE item.kind # "timer_tick"
    BY <1>1, <2>1 DEF FinishedTick
  <2>2. CASE item.kind = "timer_tick" /\ item.repeat
    <3>1. FinishedTick(f, item) = [f EXCEPT !.entries[Key(item)].status = "waiting"]
      BY <1>1, <2>2 DEF FinishedTick
    <3>2. /\ f.entries \in [DOMAIN f.entries -> TimerEntry]
          /\ Key(item) \in DOMAIN f.entries
      BY <1>1, <2>2 DEF RootState, ValidTick
    <3>3. t.entries = [f.entries EXCEPT ![Key(item)].status = "waiting"]
      BY <3>1 DEF RootState
    <3>4. f.entries[Key(item)] \in TimerEntry
      BY <3>2
    <3>5. QED BY <2>2, <3>2, <3>3, <3>4 DEF TimerEntry
  <2>3. CASE item.kind = "timer_tick" /\ ~item.repeat
    <3>1. FinishedTick(f, item) = Cancelled(f, {Key(item)})
      BY <1>1, <2>3 DEF FinishedTick
    <3>2. t.entries = [key \in DOMAIN f.entries \ {Key(item)} |-> f.entries[key]]
      BY <3>1 DEF Cancelled, RootState
    <3>3. QED BY <2>3, <3>2
  <2>4. QED BY <2>1, <2>2, <2>3
<1>3. Registered(t)
  <2>1. ASSUME NEW key \in DOMAIN t.entries
        PROVE  /\ Key(t.entries[key].item) = key /\ ~t.entries[key].item.sup
               /\ t.entries[key].status = "firing" => \E i \in Live(t) : Marks(t.entries[key], i)
    <3>1. /\ Key(s.entries[key].item) = key /\ ~s.entries[key].item.sup
          /\ s.entries[key].status = "firing" => \E i \in Live(s) : Marks(s.entries[key], i)
      BY <1>2 DEF Ticking, Registered
    <3>2. CASE t.entries[key] = s.entries[key] /\ ~(item.kind = "timer_tick" /\ key = Key(item))
      <4>1. ~Marks(s.entries[key], item)
        BY <3>1, <3>2 DEF Marks
      <4>2. QED BY <1>1, <3>1, <3>2, <4>1
    <3>3. CASE t.entries[key].status = "waiting"
      BY <1>2, <3>1, <3>3
    <3>4. QED BY <1>2, <3>2, <3>3
  <2>2. QED BY <2>1 DEF Registered
<1>4. Single(t)
  BY <1>1 DEF Ticking, Single
<1>5. Lasting(t) /\ Intents(t) /\ Bare(t)
  BY <1>1, <1>2 DEF Ticking, Lasting, Intents, Bare, Accepted
<1>6. Owned(s) => Owned(t)
  BY <1>2 DEF Owned, Deliverable, Accepted
<1>7. ASSUME \A i \in Live(s) : ValidTick(s, i), NEW i \in Live(t), i.kind = "timer_tick"
      PROVE  ValidTick(t, i)
  <2>1. ValidTick(s, i) /\ i \in Live(s) /\ (item.kind = "timer_tick" => i # item)
    BY <1>1, <1>7
  <2>2. ~(item.kind = "timer_tick" /\ Key(i) = Key(item))
    BY <1>1, <1>7, <2>1 DEF Ticking, Single
  <2>3. Key(i) \in DOMAIN t.entries
    <3>1. Key(i) \in DOMAIN s.entries
      BY <1>7, <2>1 DEF ValidTick
    <3>2. CASE item.kind # "timer_tick"
      BY <3>1, <3>2 DEF FinishedTick
    <3>3. CASE item.kind = "timer_tick" /\ item.repeat
      <4>1. t.entries = [f EXCEPT !.entries[Key(item)].status = "waiting"].entries
        BY <1>1, <3>3 DEF FinishedTick
      <4>2. QED BY <3>1, <4>1 DEF RootState
    <3>4. CASE item.kind = "timer_tick" /\ ~item.repeat
      <4>1. t.entries = Cancelled(f, {Key(item)}).entries
        BY <1>1, <3>4 DEF FinishedTick
      <4>2. QED BY <2>2, <3>1, <3>4, <4>1 DEF Cancelled, RootState
    <3>5. QED BY <3>2, <3>3, <3>4
  <2>4. t.entries[Key(i)] = s.entries[Key(i)]
    BY <1>2, <2>2, <2>3
  <2>5. QED BY <1>7, <2>1, <2>3, <2>4 DEF ValidTick
<1>8. (\A i \in Live(s) : ValidTick(s, i)) => \A i \in Live(t) : ValidTick(t, i)
  BY <1>7 DEF ValidTick
<1>9. QED BY <1>3, <1>4, <1>5, <1>6, <1>8 DEF Ticking

(* Registering timers while no tick runs: they wait for their first wake-up. *)
LEMMA RegisteredTicking ==
  ASSUME NEW s, RootState(s), Ticking(s), \A i \in s.active : i.kind # "timer_tick",
         Accepted(s), s.scheduled,
         NEW intents, \A k \in DOMAIN intents : ~intents[k].sup, intents \in Seq(Item)
  PROVE  Ticking(AppliedTimers(s, intents))
<1> DEFINE n == Len(intents)
           fresh(key) == LET m == CHOOSE l \in LastOn(intents, n, key) : TRUE
                         IN  Entry(intents[m], s.serial + Starts(intents, m))
           t == AppliedTimers(s, intents)
<1>1. /\ t.queue = s.queue /\ t.active = s.active /\ t.accepted = s.accepted
      /\ t.scheduled = s.scheduled /\ t.messages = s.messages /\ t.timers = s.timers
      /\ t.entries = [key \in KeysAfter(s, intents, n) |->
                        IF LastOn(intents, n, key) = {} THEN s.entries[key] ELSE fresh(key)]
  BY DEF AppliedTimers, RootState
<1>2. ASSUME NEW key \in KeysAfter(s, intents, n), LastOn(intents, n, key) # {}
      PROVE  Key(fresh(key).item) = key /\ ~fresh(key).item.sup /\ fresh(key).status = "waiting"
  <2>1. PICK m \in LastOn(intents, n, key) : m = CHOOSE l \in LastOn(intents, n, key) : TRUE
    BY <1>2
  <2>2. fresh(key) = Entry(intents[m], s.serial + Starts(intents, m))
    BY <2>1
  <2>3. m \in DOMAIN intents /\ Key(intents[m]) = key
    BY DEF LastOn
  <2> HIDE DEF fresh
  <2>4. QED BY <2>2, <2>3 DEF Entry
<1>3. ASSUME NEW key \in KeysAfter(s, intents, n), LastOn(intents, n, key) = {}
      PROVE  key \in DOMAIN s.entries
  BY <1>3 DEF KeysAfter, LastOn
<1> HIDE DEF t, fresh, n
<1>4. Live(t) = Live(s)
  BY <1>1 DEF Live
<1>5. Registered(t)
  <2>1. ASSUME NEW key \in DOMAIN t.entries
        PROVE  /\ Key(t.entries[key].item) = key /\ ~t.entries[key].item.sup
               /\ t.entries[key].status = "firing" => \E i \in Live(t) : Marks(t.entries[key], i)
    <3>1. CASE LastOn(intents, n, key) = {}
      <4>1. key \in DOMAIN s.entries /\ t.entries[key] = s.entries[key]
        BY <1>1, <1>3, <2>1, <3>1
      <4>2. QED BY <1>4, <4>1 DEF Ticking, Registered
    <3>2. CASE LastOn(intents, n, key) # {}
      <4>1. t.entries[key] = fresh(key) /\ key \in KeysAfter(s, intents, n)
        BY <1>1, <2>1, <3>2
      <4>2. QED BY <1>2, <3>2, <4>1
    <3>3. QED BY <3>1, <3>2
  <2>2. QED BY <2>1 DEF Registered
<1>6. Single(t)
  <2>1. \A i \in t.active : ValidTick(t, i)
    BY <1>1 DEF ValidTick
  <2>2. QED BY <1>1, <1>4, <2>1 DEF Ticking, Single
<1>7. Lasting(t) /\ Intents(t)
  BY <1>1, <1>4 DEF Ticking, Lasting, Intents
<1>8. Bare(t)
  BY <1>1 DEF Bare, Accepted
<1>9. QED BY <1>5, <1>6, <1>7, <1>8 DEF Ticking, t

(* Follow-up messages are no ticks. *)
LEMMA AppendedTicking ==
  ASSUME NEW s, RootState(s), Ticking(s), Accepted(s), s.scheduled,
         NEW items \in Seq(Item), \A k \in DOMAIN items : items[k].kind = "message"
  PROVE  Ticking(Appended(s, items))
<1> DEFINE t == Appended(s, items)
           more == {[items[k] EXCEPT !.receipt = s.receipt + k] : k \in DOMAIN items}
<1>1. /\ t.queue = s.queue \cup more /\ t.active = s.active /\ t.accepted = s.accepted
      /\ t.scheduled = s.scheduled /\ t.messages = s.messages /\ t.timers = s.timers
      /\ t.entries = s.entries
  BY DEF Appended, RootState
<1>2. \A i \in more : i.kind = "message"
  <2>1. ASSUME NEW k \in DOMAIN items
        PROVE  [items[k] EXCEPT !.receipt = s.receipt + k].kind = "message"
    <3>1. items[k] \in Item /\ items[k].kind = "message"
      OBVIOUS
    <3>2. QED BY <3>1 DEF Item
  <2>2. QED BY <2>1
<1> HIDE DEF t, more
<1>3. Live(t) = Live(s) \cup more
  BY <1>1 DEF Live
<1>4. Registered(t)
  BY <1>1, <1>3 DEF Ticking, Registered
<1>5. Single(t)
  <2>1. \A i, j \in Live(t) :
          i.kind = "timer_tick" /\ j.kind = "timer_tick" /\ Key(i) = Key(j) => i = j
    BY <1>2, <1>3 DEF Ticking, Single
  <2>2. QED BY <1>1, <1>2, <2>1 DEF Ticking, Single, ValidTick
<1>6. Lasting(t) /\ Intents(t)
  BY <1>1, <1>2, <1>3 DEF Ticking, Lasting, Intents
<1>7. Bare(t)
  BY <1>1 DEF Bare, Accepted
<1>8. QED BY <1>4, <1>5, <1>6, <1>7 DEF Ticking, t

(* Resolving the active item keeps the ticks: the follow-ups and timers of its candidate are
   admitted, its own tick is settled. *)
LEMMA SettleActiveTicking ==
  ASSUME NEW s, RootState(s), Ticking(s)
  PROVE  /\ Ticking(SettleActive(s)) /\ SettleActive(s).accepted = s.accepted
         /\ SettleActive(s).active # {} => Pending(s) /\ SettleActive(s) = s
<1>1. CASE Pending(s) \/ s.active = {}
  BY <1>1 DEF SettleActive
<1>2. CASE ~Pending(s) /\ s.active # {}
  <2> DEFINE item == CHOOSE i \in s.active : TRUE
             ended == Finish(Outcome(s, s.active))
             finished == FinishedTick(ended, item)
             commits == ActiveCommitted(s) /\ s.status = "ready"
             applied == IF commits THEN ApplyIntents(finished, s.messages, s.timers) ELSE finished
             t == [applied EXCEPT !.activeCorr = NoCorrelation, !.messages = <<>>, !.timers = <<>>,
                     !.reported = IF ActiveCommitted(s) THEN @ \cup ReceiptsOf(s.active) ELSE @]
  <2>1. t = SettleActive(s)
    BY <1>2 DEF SettleActive
  <2>2. s.active = {item}
    BY <1>2 DEF Ticking, Single
  <2>3. /\ RootState(ended) /\ ended.entries = s.entries /\ ended.queue = s.queue /\ ended.active = {}
        /\ ended.accepted = s.accepted /\ ended.scheduled = s.scheduled
        /\ ended.messages = s.messages /\ ended.timers = s.timers
    <3>1. RootState(ended)
      BY OutcomeType, FinishType
    <3>2. QED BY <3>1 DEF Finish, Outcome, RootState
  <2> HIDE DEF ended, item
  <2>4. /\ RootState(finished) /\ finished.queue = ended.queue /\ finished.active = ended.active
        /\ finished.accepted = ended.accepted /\ finished.scheduled = ended.scheduled
        /\ finished.messages = ended.messages /\ finished.timers = ended.timers
    <3>1. RootState(finished)
      BY <2>3, FinishedTickType
    <3>2. QED BY <2>3, <3>1 DEF FinishedTick, Cancelled, RootState
  <2>5. Ticking(finished)
    <3>1. finished.entries = FinishedTick(ended, item).entries
      OBVIOUS
    <3> HIDE DEF finished
    <3>2. QED BY <2>2, <2>3, <2>4, <3>1, FinishedTicking
  <2> HIDE DEF finished
  <2>6. /\ RootState(applied) /\ Ticking(applied) /\ applied.active = {}
        /\ applied.accepted = s.accepted /\ applied.scheduled = s.scheduled
    <3>1. CASE ~commits
      BY <2>3, <2>4, <2>5, <3>1
    <3>2. CASE commits /\ ~CommitFits(finished, s.messages, s.timers)
      <4> DEFINE u == [finished EXCEPT !.status = "broken"]
      <4>1. applied = u
        BY <3>2 DEF ApplyIntents
      <4>2. RootState(u)
        BY <2>4 DEF RootState, Statuses
      <4>3. SameWork(finished, u) /\ u.accepted = finished.accepted /\ u.active = finished.active
        BY <2>4 DEF SameWork, RootState
      <4> HIDE DEF u
      <4>4. Ticking(u)
        BY <2>5, <4>3, SameTicking DEF Accepted
      <4>5. u.scheduled = finished.scheduled
        BY <4>3 DEF SameWork
      <4> HIDE DEF applied
      <4>6. QED BY <2>3, <2>4, <4>1, <4>2, <4>3, <4>4, <4>5
    <3>3. CASE commits /\ CommitFits(finished, s.messages, s.timers)
      <4> DEFINE more == Appended(finished, s.messages)
                 u == AppliedTimers(more, s.timers)
      <4>1. applied = u
        BY <3>3 DEF ApplyIntents
      <4>2. /\ s.messages \in Seq(Item) /\ s.timers \in Seq(Item)
            /\ \A k \in DOMAIN s.messages : s.messages[k].kind = "message"
            /\ \A k \in DOMAIN s.timers : ~s.timers[k].sup
        BY DEF RootState, Ticking, Intents
      <4>3. Accepted(finished) /\ finished.scheduled
        <5>1. Accepted(s) /\ s.scheduled
          BY <1>2 DEF Ticking, Bare, Live
        <5>2. QED BY <2>3, <2>4, <5>1 DEF Accepted
      <4>4. RootState(more) /\ Ticking(more)
        BY <2>4, <2>5, <3>3, <4>2, <4>3, AppendedType, AppendedTicking DEF CommitFits
      <4>5. more.active = {} /\ more.accepted = s.accepted /\ more.scheduled = s.scheduled
        BY <2>3, <2>4 DEF Appended, RootState
      <4>6. Accepted(more) /\ more.scheduled
        BY <2>3, <2>4, <4>3, <4>5 DEF Accepted
      <4> HIDE DEF more
      <4>7. RootState(u) /\ Ticking(u)
        BY <4>2, <4>4, <4>5, <4>6, AppliedTimersType, RegisteredTicking
      <4>8. u.active = {} /\ u.accepted = s.accepted /\ u.scheduled = s.scheduled
        BY <4>4, <4>5 DEF AppliedTimers, RootState
      <4> HIDE DEF u, applied
      <4>9. QED BY <4>1, <4>7, <4>8
    <3>4. QED BY <3>1, <3>2, <3>3
  <2> HIDE DEF applied
  <2>7. Less(applied, t) /\ Intents(t) /\ t.accepted = applied.accepted /\ t.active = {}
    <3>1. /\ t.queue = applied.queue /\ t.active = applied.active /\ t.entries = applied.entries
          /\ t.scheduled = applied.scheduled /\ t.accepted = applied.accepted
          /\ t.messages = <<>> /\ t.timers = <<>>
      BY <2>6 DEF RootState
    <3> HIDE DEF t
    <3>2. QED BY <2>6, <3>1 DEF Less, Live, Intents
  <2> HIDE DEF t
  <2>8. Ticking(t)
    BY <2>6, <2>7, LessTicking DEF Accepted
  <2>9. QED BY <2>1, <2>6, <2>7, <2>8
<1>3. QED BY <1>1, <1>2

(* Pruning leaves the timers of the accepted tree, and the ticks they still wait for. *)
LEMMA PrunePunctual ==
  ASSUME NEW s, RootState(s), Ticking(s), s.active # {} => Owned(s)
  PROVE  Punctual(Prune(s))
<1>1. CASE ~Accepted(s)
  <2>1. Prune(s) = s
    BY <1>1 DEF Prune
  <2>2. Live(s) = {} /\ DOMAIN s.entries = {} /\ Intents(s)
    BY <1>1 DEF Ticking, Bare
  <2>3. QED BY <2>1, <2>2, EmptyPunctual
<1>2. CASE Accepted(s)
  <2> DEFINE lost  == {k \in DOMAIN s.entries : ~Deliverable(s, s.entries[k].item)}
             timed == Cancelled(s, lost)
             gone  == {i \in s.queue : ~Deliverable(s, i) \/ ~ValidTick(timed, i)}
             t     == [Outcome(timed, gone) EXCEPT !.queue = @ \ gone]
  <2>1. t = Prune(s)
    BY <1>2 DEF Prune
  <2>2. /\ timed.entries = [k \in DOMAIN s.entries \ lost |-> s.entries[k]]
        /\ timed.queue = s.queue /\ RootState(timed)
        /\ timed.active = s.active /\ timed.accepted = s.accepted
        /\ timed.scheduled = s.scheduled /\ timed.messages = s.messages /\ timed.timers = s.timers
    <3>1. RootState(timed)
      BY CancelledType
    <3>2. QED BY <3>1 DEF Cancelled, RootState
  <2> HIDE DEF timed
  <2>3. /\ t.entries = timed.entries /\ t.queue = s.queue \ gone /\ t.active = s.active
        /\ t.accepted = s.accepted /\ t.scheduled = s.scheduled
        /\ t.messages = s.messages /\ t.timers = s.timers
    BY <2>2 DEF Outcome, RootState
  <2> HIDE DEF t
  <2>4. Live(t) \subseteq Live(s) /\ Live(t) = (s.queue \ gone) \cup s.active
    BY <2>3 DEF Live
  <2>5. ASSUME NEW i \in s.active, i.kind = "timer_tick" PROVE Key(i) \in DOMAIN t.entries
    <3>1. ValidTick(s, i) /\ Owned(s)
      BY <2>5 DEF Ticking, Single
    <3>2. Key(i) \in DOMAIN s.entries /\ Key(i) \notin lost
      BY <2>5, <3>1 DEF ValidTick, Owned
    <3>3. QED BY <2>2, <2>3, <3>2
  <2>6. ASSUME NEW key \in DOMAIN t.entries, NEW i \in Live(s),
               s.entries[key].status = "firing", Marks(s.entries[key], i)
        PROVE  i \in Live(t)
    <3>1. key \in DOMAIN s.entries /\ Deliverable(s, s.entries[key].item) /\ timed.entries[key] = s.entries[key]
      BY <2>2, <2>3
    <3>2. Key(s.entries[key].item) = key
      BY <3>1 DEF Ticking, Registered
    <3>3. ValidTick(timed, i)
      BY <2>3, <2>6, <3>1, <3>2 DEF Marks, ValidTick
    <3>4. Deliverable(s, i)
      BY <2>6, <3>1 DEF Marks, Deliverable, ValidDispatch, Key
    <3>5. i \notin gone
      BY <3>3, <3>4
    <3>6. QED BY <2>4, <3>5 DEF Live
  <2>7. Less(s, t)
    <3>1. t.queue \subseteq s.queue
      BY <2>3
    <3> HIDE DEF gone
    <3>2. DOMAIN t.entries \subseteq DOMAIN s.entries /\ \A key \in DOMAIN t.entries : t.entries[key] = s.entries[key]
      BY <2>2, <2>3
    <3>3. QED BY <2>3, <2>5, <2>6, <3>1, <3>2 DEF Less
  <2>8. Ticking(t)
    BY <2>3, <2>7, LessTicking DEF Ticking, Intents, Accepted
  <2>9. Owned(t)
    BY <2>2, <2>3 DEF Owned, Deliverable, Accepted
  <2>10. ASSUME NEW i \in Live(t) PROVE ValidTick(t, i)
    <3>1. CASE i \in s.active
      BY <2>3, <2>8, <3>1 DEF Ticking, Single
    <3>2. CASE i \in s.queue \ gone
      BY <2>3, <3>2 DEF ValidTick
    <3>3. QED BY <2>4, <3>1, <3>2
  <2>11. QED BY <2>1, <2>8, <2>9, <2>10 DEF Punctual
<1>3. QED BY <1>1, <1>2

(* A closed schedule has neither work nor timers; without a policy there never were any. *)
LEMMA ClosedPunctual ==
  ASSUME NEW s, RootState(s), Ticking(s)
  PROVE  Punctual(CloseSchedule(s)) /\ CloseSchedule(s).accepted = s.accepted
<1>1. CASE ~s.scheduled
  <2>1. CloseSchedule(s) = s
    BY <1>1 DEF CloseSchedule
  <2>2. Live(s) = {} /\ DOMAIN s.entries = {} /\ Intents(s)
    BY <1>1 DEF Ticking, Bare
  <2>3. QED BY <2>1, <2>2, EmptyPunctual
<1>2. CASE s.scheduled
  <2> DEFINE t == CloseSchedule(s)
  <2>1. /\ t.queue = {} /\ t.active = {} /\ t.messages = <<>> /\ t.timers = <<>>
        /\ DOMAIN t.entries = {} /\ t.accepted = s.accepted
    BY <1>2 DEF CloseSchedule, Finish, Outcome, RootState
  <2> HIDE DEF t
  <2>2. Live(t) = {} /\ Intents(t)
    BY <2>1 DEF Live, Intents
  <2>3. Punctual(t)
    BY <2>1, <2>2, EmptyPunctual
  <2>4. QED BY <2>1, <2>3 DEF t
<1>3. QED BY <1>1, <1>2

(* Leaving the schedule and the accepted tree alone leaves the timers punctual. *)
LEMMA SamePunctual ==
  ASSUME NEW s, Punctual(s), NEW t, SameWork(s, t), t.accepted = s.accepted
  PROVE  Punctual(t)
<1>1. Ticking(t) /\ Owned(t)
  BY SameTicking DEF Punctual, Accepted
<1>2. \A i \in Live(t) : ValidTick(t, i)
  BY DEF Punctual, SameWork, Live, ValidTick
<1>3. QED BY <1>1, <1>2 DEF Punctual

(* settle/1 leaves the timers punctual.  Only a commit, after which nothing is pending, may
   have moved the tree away from the owner of a timer. *)
LEMMA SettlePunctual ==
  ASSUME NEW s, RootState(s), Ticking(s), Pending(s) => Owned(s)
  PROVE  Punctual(Settle(s))
<1>1. CASE ~s.scheduled
  <2>1. Settle(s) = s
    BY <1>1 DEF Settle
  <2>2. Live(s) = {} /\ DOMAIN s.entries = {} /\ Intents(s)
    BY <1>1 DEF Ticking, Bare
  <2>3. QED BY <2>1, <2>2, EmptyPunctual
<1>2. CASE s.scheduled
  <2> DEFINE done == Prune(SettleActive(s))
             kicked == [done EXCEPT !.drain = TRUE]
  <2>1. Punctual(done) /\ RootState(done)
    <3>1. RootState(SettleActive(s)) /\ Ticking(SettleActive(s))
      BY SettleActiveType, SettleActiveTicking
    <3>2. SettleActive(s).active # {} => Owned(SettleActive(s))
      BY SettleActiveTicking
    <3>3. QED BY <3>1, <3>2, PruneType, PrunePunctual
  <2>2. Settle(s) \in {CloseSchedule(done), kicked, done}
    BY <1>2 DEF Settle
  <2> HIDE DEF done
  <2>3. Punctual(CloseSchedule(done))
    BY <2>1, ClosedPunctual DEF Punctual
  <2>4. Punctual(kicked)
    <3>1. SameWork(done, kicked) /\ kicked.accepted = done.accepted
      BY <2>1 DEF SameWork, RootState
    <3> HIDE DEF kicked
    <3>2. QED BY <2>1, <3>1, SamePunctual
  <2>5. QED BY <2>1, <2>2, <2>3, <2>4
<1>3. QED BY <1>1, <1>2

-----------------------------------------------------------------------------
(* Selecting the oldest item leaves the timers punctual: its tick stays live. *)
LEMMA SelectedPunctual ==
  ASSUME RootState(root), Punctual(root), root.active = {}, root.queue # {}
  PROVE  /\ RootState(Selected) /\ Punctual(Selected)
         /\ Selected.active = {Oldest(root.queue)} /\ Oldest(root.queue) \in root.queue
         /\ Selected.accepted = root.accepted /\ Selected.scheduled = root.scheduled
         /\ Selected.pending = root.pending /\ Selected.entries = root.entries
<1> DEFINE item == Oldest(root.queue)
<1>1. RootState(Selected) /\ item \in root.queue
  <2>1. root.queue \in SUBSET Item
    BY DEF RootState
  <2>2. QED BY <2>1, SelectedType, OldestType
<1>2. /\ Selected.queue = root.queue \ {item} /\ Selected.active = {item}
      /\ Selected.accepted = root.accepted /\ Selected.scheduled = root.scheduled
      /\ Selected.entries = root.entries /\ Selected.messages = root.messages
      /\ Selected.timers = root.timers /\ Selected.pending = root.pending
  BY DEF Selected, Select, RootState
<1> HIDE DEF item
<1> DEFINE t == Selected
<1> HIDE DEF t
<1>3. Live(t) = Live(root)
  BY <1>1, <1>2 DEF Live, t
<1>4. \A i \in Live(t) : ValidTick(t, i)
  BY <1>2, <1>3 DEF Punctual, ValidTick, t
<1>5. Registered(t)
  BY <1>2, <1>3 DEF Punctual, Ticking, Registered, t
<1>6. Single(t)
  <2>1. \A i, j \in Live(t) :
          i.kind = "timer_tick" /\ j.kind = "timer_tick" /\ Key(i) = Key(j) => i = j
    BY <1>3 DEF Punctual, Ticking, Single
  <2>2. \A i \in t.active : i \in Live(t) /\ i \notin t.queue
    BY <1>2 DEF Live, t
  <2>3. \A i, j \in t.active : i = j
    BY <1>2 DEF t
  <2>4. QED BY <1>4, <2>1, <2>2, <2>3 DEF Single
<1>7. Lasting(t) /\ Intents(t) /\ Bare(t) /\ Owned(t)
  BY <1>2, <1>3 DEF Punctual, Ticking, Lasting, Intents, Bare, Owned, Deliverable, Accepted, t
<1>8. QED BY <1>1, <1>2, <1>4, <1>5, <1>6, <1>7 DEF Punctual, Ticking, t, item

(* Beginning the work of the active item keeps the ticks; its intents are messages and timers
   that stay. *)
LEMMA BeginWorkTicking ==
  ASSUME NEW s, RootState(s), Ticking(s), Owned(s), NEW plan \in Plans, NEW prepared, NEW answer
  PROVE  /\ Ticking(BeginWork(s, plan, prepared, answer))
         /\ Owned(BeginWork(s, plan, prepared, answer))
<1> DEFINE corr  == NextCorrelation(s, "update")
           tried == [s EXCEPT !.attempt = corr.seq, !.status = "evaluating", !.activeCorr = corr]
           m     == Stamped(plan.messages, corr)
           timers == Stamped(plan.timers, corr)
           ready == [tried EXCEPT !.reserved = Len(plan.messages), !.messages = m, !.timers = timers]
           candidate == [corr |-> corr, comps |-> plan.comps]
           t     == BeginWork(s, plan, prepared, answer)
<1>1. corr \in Correlation /\ corr.seq \in Nat
  BY CorrelationType DEF Correlation, Operations
<1>2. candidate \in Candidate /\ plan.messages \in Seq(Item) /\ plan.timers \in Seq(Item)
  <2> HIDE DEF corr
  <2>1. plan.comps \in SUBSET Components /\ plan.messages \in Seq(Item) /\ plan.timers \in Seq(Item)
    BY RootAssumption
  <2>2. QED BY <1>1, <2>1 DEF Candidate
<1>3. m \in Seq(Item) /\ timers \in Seq(Item)
  <2> HIDE DEF corr
  <2>1. QED BY <1>1, <1>2, StampedType
<1>4. /\ \A k \in DOMAIN m : m[k].kind = "message"
      /\ \A k \in DOMAIN timers : ~timers[k].sup
  <2> HIDE DEF corr
  <2>1. /\ \A k \in DOMAIN plan.messages : plan.messages[k] \in Item /\ plan.messages[k].kind = "message"
        /\ \A k \in DOMAIN plan.timers : plan.timers[k] \in Item /\ ~plan.timers[k].sup
    BY <1>2, RootAssumption
  <2>2. QED BY <2>1 DEF Stamped, Item
<1>5. t = IF prepared /\ Reservable(s, plan, corr) THEN Submit(ready, candidate, FALSE, answer)
                                                   ELSE Rejected(tried)
  BY DEF BeginWork
<1>6. RootState(tried) /\ SameWork(s, tried) /\ tried.accepted = s.accepted
  <2> HIDE DEF corr
  <2>1. QED BY <1>1 DEF RootState, Statuses, SameWork
<1> HIDE DEF candidate, corr, t, m, timers
<1>7. /\ RootState(ready)
      /\ ready.queue = s.queue /\ ready.active = s.active /\ ready.entries = s.entries
      /\ ready.scheduled = s.scheduled /\ ready.accepted = s.accepted
      /\ ready.messages = m /\ ready.timers = timers
  <2>1. Len(plan.messages) \in Nat
    BY <1>2
  <2>2. QED BY <1>1, <1>3, <2>1 DEF RootState, Statuses
<1> HIDE DEF tried, ready
<1>8. Ticking(ready) /\ Owned(ready)
  <2>1. \A i \in s.active : i.kind = "timer_tick" => Key(i) \in DOMAIN s.entries
    BY DEF Ticking, Single, ValidTick
  <2>2. Less(s, ready)
    BY <1>7, <2>1 DEF Less, Live
  <2>3. Intents(ready)
    BY <1>4, <1>7 DEF Intents
  <2>4. QED BY <1>7, <2>2, <2>3, LessTicking DEF Accepted
<1>9. Ticking(tried) /\ Owned(tried)
  BY <1>6, SameTicking DEF Accepted
<1>10. CASE prepared /\ Reservable(s, plan, corr)
  <2>1. SameWork(ready, t) /\ t.accepted = ready.accepted
    BY <1>2, <1>5, <1>7, <1>10, SubmitWork
  <2>2. QED BY <1>8, <2>1, SameTicking DEF Accepted, t
<1>11. CASE ~(prepared /\ Reservable(s, plan, corr))
  <2>1. SameWork(tried, t) /\ t.accepted = tried.accepted
    BY <1>5, <1>6, <1>11, TreeWork
  <2>2. QED BY <1>9, <2>1, SameTicking DEF Accepted, t
<1>12. QED BY <1>10, <1>11

(* A wake-up puts the one tick of its timer into the queue, or settles it at once. *)
LEMMA WakeTicking ==
  ASSUME NEW s, RootState(s), Punctual(s), NEW key \in DOMAIN s.entries,
         s.entries[key].status = "waiting"
  PROVE  /\ Ticking(Cancelled(s, {key})) /\ Owned(Cancelled(s, {key}))
         /\ InternalFits(s, TickItem(s, key)) =>
              /\ Ticking(Internal(Fired(s, key), TickItem(s, key)))
              /\ Owned(Internal(Fired(s, key), TickItem(s, key)))
         /\ Ticking(FinishedTick(Fired(s, key), TickItem(s, key)))
         /\ Owned(FinishedTick(Fired(s, key), TickItem(s, key)))
<1> DEFINE entry == s.entries[key]
           item  == TickItem(s, key)
           fired == Fired(s, key)
<1>1. /\ Registered(s) /\ Single(s) /\ Lasting(s) /\ Intents(s) /\ Bare(s) /\ Owned(s) /\ Ticking(s)
      /\ \A i \in Live(s) : ValidTick(s, i)
  BY DEF Punctual, Ticking
<1>2. \A i \in Live(s) : i.kind = "timer_tick" => Key(i) # key
  BY <1>1 DEF ValidTick
<1>3. entry \in TimerEntry /\ entry.item \in Item /\ entry.tick \in Nat /\ entry.epoch \in Nat
  BY DEF RootState, TimerEntry
<1>4. /\ item \in Item /\ item.kind = "timer_tick" /\ Key(item) = key /\ ~item.sup
      /\ item.epoch = entry.epoch /\ item.tick = entry.tick + 1
      /\ item.target = entry.item.target /\ item.gen = entry.item.gen
      /\ item.repeat = entry.item.repeat
  <2>1. item = [entry.item EXCEPT !.kind = "timer_tick", !.epoch = entry.epoch, !.tick = entry.tick + 1]
    BY DEF TickItem
  <2>2. Key(entry.item) = key /\ ~entry.item.sup
    BY <1>1 DEF Registered
  <2> HIDE DEF item, entry
  <2>3. entry.tick + 1 \in Nat
    BY <1>3
  <2>4. item \in Item
    BY <1>3, <2>1, <2>3 DEF Item, Kinds
  <2>5. /\ item.kind = "timer_tick" /\ item.source = entry.item.source /\ item.id = entry.item.id
        /\ item.sup = entry.item.sup /\ item.epoch = entry.epoch /\ item.tick = entry.tick + 1
        /\ item.target = entry.item.target /\ item.gen = entry.item.gen
        /\ item.repeat = entry.item.repeat
    BY <1>3, <2>1 DEF Item
  <2>6. QED BY <2>2, <2>4, <2>5 DEF Key
<1>5. /\ RootState(fired) /\ fired.queue = s.queue /\ fired.active = s.active
      /\ fired.accepted = s.accepted /\ fired.scheduled = s.scheduled
      /\ fired.messages = s.messages /\ fired.timers = s.timers
      /\ fired.entries = [s.entries EXCEPT ![key].tick = @ + 1, ![key].status = "firing"]
  <2>1. RootState(fired)
    BY FiredType
  <2>2. QED BY <2>1 DEF Fired, RootState
<1>6. /\ DOMAIN fired.entries = DOMAIN s.entries
      /\ \A k \in DOMAIN s.entries : k # key => fired.entries[k] = s.entries[k]
      /\ fired.entries[key].item = entry.item /\ fired.entries[key].epoch = entry.epoch
      /\ fired.entries[key].tick = entry.tick + 1 /\ fired.entries[key].status = "firing"
  <2>1. s.entries \in [DOMAIN s.entries -> TimerEntry]
    BY DEF RootState
  <2> HIDE DEF fired
  <2>2. QED BY <1>3, <1>5, <2>1 DEF TimerEntry
<1>7. Ticking(Cancelled(s, {key})) /\ Owned(Cancelled(s, {key}))
  <2> DEFINE t == Cancelled(s, {key})
  <2>1. /\ t.queue = s.queue /\ t.active = s.active /\ t.accepted = s.accepted
        /\ t.scheduled = s.scheduled /\ t.messages = s.messages /\ t.timers = s.timers
        /\ t.entries = [k \in DOMAIN s.entries \ {key} |-> s.entries[k]]
    BY DEF Cancelled, RootState
  <2> HIDE DEF t
  <2>2. \A i \in s.active : i.kind = "timer_tick" => Key(i) \in DOMAIN t.entries
    BY <1>1, <1>2, <2>1 DEF Live, ValidTick
  <2>3. Less(s, t)
    BY <2>1, <2>2 DEF Less, Live
  <2>4. Intents(t)
    BY <1>1, <2>1 DEF Intents
  <2>5. QED BY <1>1, <2>1, <2>3, <2>4, LessTicking DEF Accepted, t
<1> HIDE DEF item, fired, entry
<1>8. /\ Ticking(FinishedTick(fired, item)) /\ Owned(FinishedTick(fired, item))
  <2> DEFINE t == FinishedTick(fired, item)
  <2>1. ValidTick(fired, item)
    BY <1>4, <1>6 DEF ValidTick
  <2>2. t = IF item.repeat THEN [fired EXCEPT !.entries[key].status = "waiting"]
                           ELSE Cancelled(fired, {key})
    BY <1>4, <2>1 DEF FinishedTick
  <2>3. /\ t.queue = s.queue /\ t.active = s.active /\ t.accepted = s.accepted
        /\ t.scheduled = s.scheduled /\ t.messages = s.messages /\ t.timers = s.timers
    <3> HIDE DEF t
    <3>1. QED BY <1>5, <2>2 DEF Cancelled, RootState
  <2>4. \/ t.entries = [k \in DOMAIN fired.entries \ {key} |-> fired.entries[k]]
        \/ t.entries = [fired.entries EXCEPT ![key].status = "waiting"]
    <3> HIDE DEF t
    <3>1. QED BY <1>5, <2>2 DEF Cancelled, RootState
  <2> HIDE DEF t
  <2>5. /\ DOMAIN t.entries \subseteq DOMAIN s.entries
        /\ DOMAIN s.entries \ {key} \subseteq DOMAIN t.entries
        /\ \A k \in DOMAIN t.entries : k # key => t.entries[k] = s.entries[k]
        /\ key \in DOMAIN t.entries =>
             t.entries[key].item = entry.item /\ t.entries[key].status = "waiting"
    <3>1. fired.entries \in [DOMAIN fired.entries -> TimerEntry]
      BY <1>5 DEF RootState
    <3>2. fired.entries[key] \in TimerEntry
      BY <1>6, <3>1
    <3>3. QED BY <1>6, <2>4, <3>1, <3>2 DEF TimerEntry
  <2>6. Live(t) = Live(s)
    BY <2>3 DEF Live
  <2>7. Registered(t)
    BY <1>1, <2>5, <2>6 DEF Registered, entry
  <2>8. Single(t)
    <3>1. ASSUME NEW i \in t.active PROVE ValidTick(t, i)
      <4>1. i \in Live(s) /\ ValidTick(s, i)
        BY <1>1, <2>3 DEF Live
      <4>2. i.kind = "timer_tick" => Key(i) # key
        BY <1>2, <4>1
      <4>3. QED BY <2>5, <4>1, <4>2 DEF ValidTick
    <3>2. QED BY <1>1, <2>3, <2>6, <3>1 DEF Single
  <2>9. Lasting(t) /\ Intents(t)
    BY <1>1, <2>3, <2>6 DEF Lasting, Intents
  <2>10. Bare(t)
    BY <1>1, <2>3, <2>5, <2>6 DEF Bare, Accepted
  <2>11. Owned(t)
    BY <1>1, <2>3, <2>5 DEF Owned, Deliverable, Accepted, entry
  <2>12. QED BY <2>7, <2>8, <2>9, <2>10, <2>11 DEF Ticking, t
<1>9. Ticking(Internal(fired, item)) /\ Owned(Internal(fired, item))
  <2> DEFINE t == Internal(fired, item)
             new == [item EXCEPT !.receipt = fired.receipt + 1]
  <2>1. /\ t.queue = s.queue \cup {new} /\ t.active = s.active /\ t.accepted = s.accepted
        /\ t.scheduled = s.scheduled /\ t.messages = s.messages /\ t.timers = s.timers
        /\ t.entries = fired.entries
    BY <1>5 DEF Internal, RootState
  <2>2. /\ new.kind = "timer_tick" /\ Key(new) = key /\ ~new.sup
        /\ new.epoch = entry.epoch /\ new.tick = entry.tick + 1
        /\ new.target = entry.item.target /\ new.gen = entry.item.gen
    BY <1>4 DEF Item, Key
  <2> HIDE DEF t, new
  <2>3. Live(t) = Live(s) \cup {new}
    BY <2>1 DEF Live
  <2>4. Registered(t)
    <3>1. ASSUME NEW k \in DOMAIN t.entries
          PROVE  /\ Key(t.entries[k].item) = k /\ ~t.entries[k].item.sup
                 /\ t.entries[k].status = "firing" => \E i \in Live(t) : Marks(t.entries[k], i)
      <4>1. k \in DOMAIN s.entries /\ Key(s.entries[k].item) = k /\ ~s.entries[k].item.sup
        BY <1>1, <1>6, <2>1 DEF Registered
      <4>2. CASE k # key
        BY <1>1, <1>6, <2>1, <2>3, <4>1, <4>2 DEF Registered
      <4>3. CASE k = key
        <5>1. Marks(t.entries[key], new)
          BY <1>6, <2>1, <2>2, <4>1, <4>3 DEF Marks, entry
        <5>2. QED BY <1>6, <2>1, <2>3, <4>1, <4>3, <5>1 DEF entry
      <4>4. QED BY <4>2, <4>3
    <3>2. QED BY <3>1 DEF Registered
  <2>5. Single(t)
    <3>1. \A i, j \in Live(t) :
            i.kind = "timer_tick" /\ j.kind = "timer_tick" /\ Key(i) = Key(j) => i = j
      BY <1>1, <1>2, <2>2, <2>3 DEF Single
    <3>2. ASSUME NEW i \in t.active
          PROVE  ValidTick(t, i) /\ (i.kind = "timer_tick" => i \notin t.queue)
      <4>1. i \in Live(s) /\ ValidTick(s, i) /\ (i.kind = "timer_tick" => i \notin s.queue)
        BY <1>1, <2>1 DEF Live, Single
      <4>2. i.kind = "timer_tick" => Key(i) # key /\ i # new
        BY <1>2, <2>2, <4>1
      <4>3. QED BY <1>6, <2>1, <4>1, <4>2 DEF ValidTick
    <3>3. QED BY <1>1, <2>1, <3>1, <3>2 DEF Single
  <2>6. Lasting(t) /\ Intents(t)
    BY <1>1, <2>1, <2>2, <2>3 DEF Lasting, Intents
  <2>7. Bare(t)
    BY <1>1, <2>1 DEF Bare, Accepted
  <2>8. Owned(t)
    BY <1>1, <1>6, <2>1 DEF Owned, Deliverable, Accepted, entry
  <2>9. QED BY <2>4, <2>5, <2>6, <2>7, <2>8 DEF Ticking, t
<1>10. QED BY <1>7, <1>8, <1>9 DEF item, fired

(* An envelope is no tick, and none takes the place of one. *)
LEMMA AdmittedTicking ==
  ASSUME NEW s, RootState(s), Ticking(s), Accepted(s), s.scheduled,
         NEW envelope, envelope.item \in Item, envelope.item.kind # "timer_tick",
         envelope.item.kind = "timer_start" => ~envelope.item.sup
  PROVE  /\ Ticking(Admitted(s, envelope)) /\ Admitted(s, envelope).accepted = s.accepted
         /\ Owned(s) => Owned(Admitted(s, envelope))
<1> DEFINE item == envelope.item
           new  == [item EXCEPT !.receipt = s.receipt + 1]
           gone == Superseded(s, item)
           t    == Admitted(s, envelope)
<1>1. /\ t.queue = IF item.kind = "timer_cancel" THEN s.queue ELSE (s.queue \ gone) \cup {new}
      /\ t.active = s.active /\ t.entries = s.entries /\ t.accepted = s.accepted
      /\ t.scheduled = s.scheduled /\ t.messages = s.messages /\ t.timers = s.timers
  BY DEF Admitted, Inserted, RootState
<1>2. new.kind = item.kind /\ new.sup = item.sup
  BY DEF Item
<1>3. \A i \in gone : i \in s.queue /\ i.sup
  BY DEF Superseded
<1> HIDE DEF new, gone, t
<1>4. \A i \in Live(s) : i.kind = "timer_tick" => i \in Live(t)
  <2>1. \A i \in s.queue : i.kind = "timer_tick" => i \notin gone
    BY <1>3 DEF Ticking, Lasting, Live
  <2>2. QED BY <1>1, <2>1 DEF Live
<1>5. Live(t) \subseteq Live(s) \cup {new} /\ (new \in Live(t) => new \in Live(s) \/ item.kind # "timer_cancel")
  BY <1>1 DEF Live
<1>6. Registered(t)
  BY <1>1, <1>4 DEF Ticking, Registered, Marks
<1>7. Single(t)
  <2>1. \A i \in Live(t) : i.kind = "timer_tick" => i \in Live(s)
    BY <1>2, <1>5
  <2>2. \A i \in t.active : i.kind = "timer_tick" => i \notin t.queue
    BY <1>1, <1>2 DEF Ticking, Single
  <2>3. \A i \in t.active : ValidTick(t, i)
    BY <1>1 DEF Ticking, Single, ValidTick
  <2>4. QED BY <1>1, <2>1, <2>2, <2>3 DEF Ticking, Single
<1>8. Lasting(t) /\ Intents(t)
  BY <1>1, <1>2, <1>5 DEF Ticking, Lasting, Intents
<1>9. Bare(t)
  BY <1>1 DEF Bare, Accepted
<1>10. Owned(s) => Owned(t)
  BY <1>1 DEF Owned, Deliverable, Accepted
<1>11. QED BY <1>1, <1>6, <1>7, <1>8, <1>9, <1>10 DEF Ticking, t

(* A cancellation takes the registration away with its tick, wherever that is. *)
LEMMA CancelOwnedTicking ==
  ASSUME NEW s, RootState(s), Ticking(s), NEW item, NEW cancelled
  PROVE  /\ Ticking(CancelOwned(s, item, cancelled))
         /\ Owned(s) => Owned(CancelOwned(s, item, cancelled))
<1> DEFINE key     == Key(item)
           owned   == {i \in s.queue : i.kind \in {"timer_start", "timer_tick"} /\ Key(i) = key}
           base    == Cancelled(Outcome(s, owned), {key})
           voided  == [k \in DOMAIN base.timers |->
                         IF base.timers[k].kind = "timer_start" /\ Key(base.timers[k]) = key
                         THEN [base.timers[k] EXCEPT !.kind = "void"]
                         ELSE base.timers[k]]
           dropped == [base EXCEPT !.queue = base.queue \ owned, !.timers = voided]
           freed   == Finish(Outcome(dropped, s.active))
           stopped == [freed EXCEPT
                         !.activeCorr = NoCorrelation, !.messages = <<>>, !.timers = <<>>]
           ticking == \E i \in s.active : i.kind = "timer_tick" /\ Key(i) = key
           next    == CASE ~ticking -> dropped
                        [] ticking /\ Pending(s) -> Abandon(stopped, cancelled)
                        [] OTHER -> stopped
           Good(u) == RootState(u) /\ Ticking(u) /\ u.accepted = s.accepted /\ (Owned(s) => Owned(u))
<1>1. RootState(base)
  BY OutcomeType, CancelledType
<1>2. /\ base.queue = s.queue /\ base.active = s.active /\ base.accepted = s.accepted
      /\ base.scheduled = s.scheduled /\ base.messages = s.messages /\ base.timers = s.timers
      /\ base.entries = [k \in DOMAIN s.entries \ {key} |-> s.entries[k]]
  BY DEF Cancelled, Outcome, RootState
<1>3. voided \in Seq(Item) /\ \A k \in DOMAIN voided : ~voided[k].sup
  <2>1. base.timers \in Seq(Item)
    BY <1>1 DEF RootState
  <2>2. ASSUME NEW i \in Item
        PROVE  [i EXCEPT !.kind = "void"] \in Item /\ [i EXCEPT !.kind = "void"].sup = i.sup
    BY DEF Item, Kinds
  <2>3. \A k \in DOMAIN base.timers : base.timers[k] \in Item /\ ~base.timers[k].sup
    BY <1>2, <2>1 DEF Ticking, Intents
  <2> HIDE DEF base
  <2>4. QED BY <2>1, <2>2, <2>3
<1> HIDE DEF base, voided, owned, key
<1>4. /\ RootState(dropped) /\ dropped.queue = s.queue \ owned /\ dropped.active = s.active
      /\ dropped.accepted = s.accepted /\ dropped.scheduled = s.scheduled
      /\ dropped.messages = s.messages /\ dropped.timers = voided
      /\ dropped.entries = base.entries
  BY <1>1, <1>2, <1>3 DEF RootState
<1> HIDE DEF dropped
<1>5. /\ RootState(stopped) /\ stopped.queue = s.queue \ owned /\ stopped.active = {}
      /\ stopped.accepted = s.accepted /\ stopped.scheduled = s.scheduled
      /\ stopped.messages = <<>> /\ stopped.timers = <<>>
      /\ stopped.entries = base.entries
  <2>1. RootState(freed)
    BY <1>4, OutcomeType, FinishType
  <2>2. /\ freed.queue = s.queue \ owned /\ freed.active = {}
        /\ freed.accepted = s.accepted /\ freed.scheduled = s.scheduled
        /\ freed.entries = base.entries
    BY <1>4 DEF Outcome, Finish, RootState
  <2> HIDE DEF freed
  <2>3. <<>> \in Seq(Item)
    OBVIOUS
  <2>4. QED BY <2>1, <2>2, <2>3, NothingTypes DEF RootState
<1> HIDE DEF stopped
<1>6. /\ DOMAIN base.entries \subseteq DOMAIN s.entries /\ key \notin DOMAIN base.entries
      /\ DOMAIN s.entries \ {key} \subseteq DOMAIN base.entries
      /\ \A k \in DOMAIN base.entries : base.entries[k] = s.entries[k]
  BY <1>2
<1>7. ASSUME NEW k \in DOMAIN base.entries, NEW i \in Live(s), Marks(s.entries[k], i)
      PROVE  i.kind = "timer_tick" /\ Key(i) = k /\ Key(i) # key /\ i \notin owned
  BY <1>6, <1>7 DEF Marks, Ticking, Registered, owned
<1>8. Good(dropped) \/ ticking
  <2>1. ASSUME ~ticking, NEW i \in s.active, i.kind = "timer_tick" PROVE Key(i) \in DOMAIN base.entries
    BY <1>6, <2>1 DEF Ticking, Single, ValidTick
  <2>2. ~ticking => Less(s, dropped)
    BY <1>4, <1>6, <1>7, <2>1 DEF Less, Live
  <2>3. Intents(dropped)
    BY <1>3, <1>4 DEF Ticking, Intents
  <2>4. QED BY <1>4, <2>2, <2>3, LessTicking DEF Accepted
<1>9. Good(stopped) \/ ~ticking
  <2>1. ASSUME ticking, NEW i \in s.active PROVE i.kind = "timer_tick" /\ Key(i) = key
    BY <2>1 DEF Ticking, Single
  <2>2. ticking => Less(s, stopped)
    BY <1>5, <1>6, <1>7, <2>1 DEF Less, Live
  <2>3. Intents(stopped)
    BY <1>5 DEF Intents
  <2>4. QED BY <1>5, <2>2, <2>3, LessTicking DEF Accepted
<1>10. Good(Abandon(stopped, cancelled)) \/ ~ticking
  <2> DEFINE u == Abandon(stopped, cancelled)
  <2>1. RootState(u) /\ SameWork(stopped, u) /\ u.accepted = stopped.accepted
    BY <1>5, AbandonType, TreeWork
  <2> HIDE DEF u
  <2>2. Good(stopped) => Good(u)
    BY <1>5, <2>1, SameTicking DEF Accepted
  <2>3. QED BY <1>9, <2>2 DEF u
<1>11. Good(next)
  <2> HIDE DEF Good
  <2>1. QED BY <1>8, <1>9, <1>10
<1>12. CancelOwned(s, item, cancelled) = Outcome(next, {item})
  BY DEF CancelOwned, stopped, dropped, voided, base, owned, key
<1> HIDE DEF next
<1>13. Good(Outcome(next, {item}))
  <2> DEFINE u == Outcome(next, {item})
  <2>1. RootState(u) /\ SameWork(next, u) /\ u.accepted = next.accepted
    BY <1>11, OutcomeType, TreeWork
  <2> HIDE DEF u
  <2>2. Good(u)
    BY <1>11, <2>1, SameTicking DEF Accepted
  <2>3. QED BY <2>2 DEF u
<1>14. QED BY <1>12, <1>13

(* After a commit nothing is pending, and a root that had an accepted tree has one. *)
LEMMA CommittedAccepts ==
  ASSUME NEW s, RootState(s), Pending(s), NEW cleaned
  PROVE  /\ ~Pending(Committed(s, cleaned))
         /\ Accepted(s) => Accepted(Committed(s, cleaned))
<1>1. \A u : RootState(u) => ~Pending(Failed(u)) /\ Failed(u).accepted = u.accepted
  BY DEF Failed, Pending, RootState
<1>2. ~Pending(Disposed(s, cleaned)) /\ (Accepted(s) => Accepted(Disposed(s, cleaned)))
  <2> DEFINE next == IF Accepted(s) THEN Retire(s, s.accepted.corr.gen) ELSE s
             done == [next EXCEPT !.pending = NoCandidate, !.status = "disposed"]
  <2>1. RootState(next) /\ next.accepted = s.accepted
    <3>1. Retire(s, s.accepted.corr.gen).accepted = s.accepted
      BY DEF Retire, RootState
    <3>2. QED BY <3>1, RetireType
  <2> HIDE DEF next
  <2>2. ~Pending(done) /\ done.accepted = next.accepted
    BY <2>1 DEF Pending, RootState
  <2>3. Disposed(s, cleaned) \in {done, Failed(next)}
    BY DEF Disposed, next
  <2> HIDE DEF done
  <2>4. QED BY <1>1, <2>1, <2>2, <2>3 DEF Accepted
<1>3. ~Pending(Promoted(s, cleaned)) /\ Accepted(Promoted(s, cleaned))
  <2> DEFINE replaced == Accepted(s) /\ s.pending.corr.op = "replace"
             base == IF replaced THEN Retire(s, s.accepted.corr.gen) ELSE s
             next == [base EXCEPT !.accepted = s.pending, !.pending = NoCandidate, !.status = "ready",
                        !.published = @ \cup ReceiptsOf(s.active)]
  <2>1. RootState(base)
    BY RetireType
  <2>2. Promoted(s, cleaned) \in {next, Failed(next)}
    BY DEF Promoted
  <2> HIDE DEF base
  <2>3. /\ ~Pending(next) /\ next.accepted = s.pending
        /\ ~Pending(Failed(next)) /\ Failed(next).accepted = s.pending
    BY <2>1 DEF Pending, RootState, Failed
  <2> HIDE DEF next
  <2>4. QED BY <2>2, <2>3 DEF Accepted, Pending
<1>4. QED BY <1>2, <1>3 DEF Committed

-----------------------------------------------------------------------------
(* There are no timers initially. *)
LEMMA InitPunctual == Init => Punctual(root)
<1> SUFFICES ASSUME Init PROVE Punctual(root)
  OBVIOUS
<1>1. /\ root.queue = {} /\ root.active = {} /\ DOMAIN root.entries = {}
      /\ root.messages = <<>> /\ root.timers = <<>>
  BY DEF Init
<1>2. QED BY <1>1, EmptyPunctual DEF Live, Intents

(* Every handler of the process and every step of the port leaves the timers punctual. *)
LEMMA NextPunctual ==
  ASSUME RootState(root), Quiet(root), Punctual(root), [Next]_vars
  PROVE  Punctual(root')
<1>0. "mount" \in Operations /\ "replace" \in Operations /\ "update" \in Operations
  BY DEF Operations
<1>a. ASSUME NEW u, RootState(u), Ticking(u), Owned(u), root' = Settle(u)
      PROVE  Punctual(root')
  BY <1>a, SettlePunctual
<1>b. ASSUME NEW u, RootState(u), SameWork(root, u), u.accepted = root.accepted, root' = Settle(u)
      PROVE  Punctual(root')
  BY <1>a, <1>b, SamePunctual DEF Punctual
<1> USE DEF Answers
<1>1. CASE Boot
  <2>1. PICK plan \in Plans, prepared \in BOOLEAN, answer \in Answers :
           root' = Settle(Begin(root, "mount", plan, prepared, answer))
    BY <1>1 DEF Boot
  <2>2. QED BY <1>0, <1>b, <2>1, BeginType, BeginSameWork
<1>2. ASSUME NEW seq \in 1 .. root.attempt, Deadline(seq)
      PROVE  Punctual(root')
  <2>1. PICK cancelled \in BOOLEAN : root' = Settle(Abandon(root, cancelled))
    BY <1>2 DEF Deadline
  <2>2. QED BY <1>b, <2>1, AbandonType, TreeWork
<1>3. CASE DrainNothing
  <2>1. root' = [root EXCEPT !.drain = FALSE]
    BY <1>3 DEF DrainNothing
  <2>2. SameWork(root, root') /\ root'.accepted = root.accepted
    BY <2>1 DEF SameWork, RootState
  <2>3. QED BY <2>2, SamePunctual
<1>c. CanDrain =>
        /\ RootState(Selected) /\ Punctual(Selected)
        /\ Selected.active = {Oldest(root.queue)} /\ Oldest(root.queue) \in Item
        /\ Selected.accepted = root.accepted /\ Selected.scheduled = root.scheduled
        /\ Selected.pending = root.pending /\ Oldest(root.queue) \in Live(Selected)
  <2>1. CanDrain => root.queue # {} /\ root.active = {}
    BY DEF CanDrain, Quiet
  <2>2. CanDrain => Oldest(root.queue) \in Item
    BY <2>1, SelectedType
  <2>3. QED BY <2>1, <2>2, SelectedPunctual DEF Live
<1>4. CASE DrainRefused
  <2> DEFINE item  == Oldest(root.queue)
             told  == Outcome(Selected, {item})
             freed == Finish(told)
             next  == FinishedTick(freed, item)
  <2>1. CanDrain /\ root' = [next EXCEPT !.drain = TRUE]
    BY <1>4 DEF DrainRefused
  <2>2. /\ RootState(freed) /\ freed.entries = Selected.entries /\ freed.queue = Selected.queue
        /\ freed.active = {} /\ freed.accepted = Selected.accepted
        /\ freed.scheduled = Selected.scheduled /\ freed.messages = Selected.messages
        /\ freed.timers = Selected.timers
    <3>1. RootState(freed)
      BY <1>c, <2>1, OutcomeType, FinishType
    <3>2. RootState(Selected)
      BY <1>c, <2>1
    <3> DEFINE sel == Selected
    <3> HIDE DEF sel, item
    <3>3. QED BY <3>1, <3>2 DEF Finish, Outcome, RootState
  <2> HIDE DEF freed
  <2>3. /\ RootState(next) /\ next.queue = freed.queue /\ next.active = freed.active
        /\ next.accepted = freed.accepted /\ next.scheduled = freed.scheduled
        /\ next.messages = freed.messages /\ next.timers = freed.timers
    <3>1. RootState(next)
      BY <2>2, FinishedTickType
    <3> HIDE DEF item
    <3>2. QED BY <2>2, <3>1 DEF FinishedTick, Cancelled, RootState
  <2>4. Punctual(next)
    <3>1. Ticking(Selected) /\ Owned(Selected) /\ (\A i \in Live(Selected) : ValidTick(Selected, i))
      BY <1>c, <2>1 DEF Punctual
    <3>2. next.entries = FinishedTick(freed, item).entries /\ Selected.active = {item}
      BY <1>c, <2>1
    <3> HIDE DEF next, item
    <3>3. Ticking(next) /\ Owned(next) /\ \A i \in Live(next) : ValidTick(next, i)
      BY <2>2, <2>3, <3>1, <3>2, FinishedTicking
    <3>4. QED BY <3>3 DEF Punctual
  <2> HIDE DEF next
  <2>5. SameWork(next, root') /\ root'.accepted = next.accepted
    BY <2>1, <2>3 DEF SameWork, RootState
  <2>6. QED BY <2>4, <2>5, SamePunctual
<1>5. CASE DrainTimerStart
  <2> DEFINE item  == Oldest(root.queue)
             next  == IF Preflight(Selected, <<item>>) THEN AppliedTimers(Selected, <<item>>)
                                                       ELSE Selected
             freed == Finish(Outcome(next, {item}))
  <2>1. CanDrain /\ root' = Settle(freed) /\ item.kind = "timer_start"
    BY <1>5 DEF DrainTimerStart
  <2>2. ~item.sup /\ Ticking(Selected) /\ Accepted(Selected) /\ Selected.scheduled
    <3>1. Ticking(Selected) /\ item \in Live(Selected)
      BY <1>c, <2>1 DEF Punctual
    <3>2. QED BY <2>1, <3>1 DEF Ticking, Lasting, Bare
  <2>3. /\ RootState(next) /\ Ticking(next) /\ next.active = {item} /\ ~Pending(next)
    <3>1. <<item>> \in Seq(Item) /\ \A k \in DOMAIN <<item>> : ~<<item>>[k].sup
      BY <1>c, <2>1, <2>2
    <3>2. RootState(Selected) /\ Selected.active = {item} /\ ~Pending(Selected)
      BY <1>c, <2>1 DEF CanDrain, Pending
    <3> HIDE DEF item
    <3>3. CASE Preflight(Selected, <<item>>)
      <4> DEFINE u == AppliedTimers(Selected, <<item>>)
      <4>1. RootState(u)
        BY <3>1, <3>2, AppliedTimersType
      <4>2. Ticking(u)
        BY <2>1, <2>2, <3>1, <3>2, RegisteredTicking
      <4>3. u.active = Selected.active /\ u.pending = Selected.pending
        BY <3>2 DEF AppliedTimers, RootState
      <4>4. next = u
        BY <3>3
      <4> HIDE DEF u, next
      <4>5. QED BY <3>2, <4>1, <4>2, <4>3, <4>4 DEF Pending
    <3>4. CASE ~Preflight(Selected, <<item>>)
      BY <2>2, <3>2, <3>4
    <3>5. QED BY <3>3, <3>4
  <2> HIDE DEF next, item
  <2>4. /\ RootState(freed) /\ freed.queue = next.queue /\ freed.active = {}
        /\ freed.entries = next.entries /\ freed.scheduled = next.scheduled
        /\ freed.accepted = next.accepted /\ freed.messages = next.messages
        /\ freed.timers = next.timers /\ freed.pending = next.pending
    <3>1. RootState(freed)
      BY <2>3, OutcomeType, FinishType
    <3>2. QED BY <2>3, <3>1 DEF Finish, Outcome, RootState
  <2> HIDE DEF freed
  <2>5. Less(next, freed)
    <3>1. \A i \in next.active : i.kind # "timer_tick"
      BY <2>1, <2>3
    <3>2. QED BY <2>4, <3>1 DEF Less, Live, Marks
  <2>6. Ticking(freed) /\ ~Pending(freed)
    <3>1. Intents(freed)
      BY <2>3, <2>4 DEF Ticking, Intents
    <3>2. QED BY <2>3, <2>4, <2>5, <3>1, LessTicking DEF Accepted, Pending
  <2>7. QED BY <2>1, <2>4, <2>6, SettlePunctual
<1>6. CASE DrainWork
  <2>1. PICK plan \in Plans, prepared \in BOOLEAN, answer \in Answers :
           root' = Settle(BeginWork(Selected, plan, prepared, answer))
    BY <1>6 DEF DrainWork
  <2>2. RootState(Selected) /\ Ticking(Selected) /\ Owned(Selected)
    BY <1>c, <1>6 DEF DrainWork, Punctual
  <2>3. QED BY <1>a, <2>1, <2>2, BeginWorkType, BeginWorkTicking
<1>7. ASSUME NEW key \in DOMAIN root.entries, NEW epoch, NEW tick, OwnedTick(key, epoch, tick)
      PROVE  Punctual(root')
  <2> DEFINE item  == TickItem(root, key)
             fired == Fired(root, key)
  <2>1. RootState(fired) /\ item \in Item
    BY FiredType
  <2>2. root.entries[key].status = "waiting"
    BY <1>7 DEF OwnedTick, Wakes
  <2>3. /\ Ticking(Cancelled(root, {key})) /\ Owned(Cancelled(root, {key}))
        /\ InternalFits(root, item) => Ticking(Internal(fired, item)) /\ Owned(Internal(fired, item))
        /\ Ticking(FinishedTick(fired, item)) /\ Owned(FinishedTick(fired, item))
    BY <2>2, WakeTicking
  <2>4. /\ RootState(Cancelled(root, {key})) /\ RootState(FinishedTick(fired, item))
        /\ InternalFits(root, item) => RootState(Internal(fired, item))
    <3>1. InternalFits(root, item) => Headroom(fired, 1 + fired.reserved)
      BY <2>1 DEF InternalFits, Headroom, Fired, RootState
    <3> HIDE DEF fired, item
    <3>2. QED BY <2>1, <3>1, CancelledType, FinishedTickType, InternalType
  <2> HIDE DEF fired, item
  <2>5. \/ root' = Settle(Cancelled(root, {key}))
        \/ root' = Settle(Internal(fired, item)) /\ InternalFits(root, item)
        \/ root' = Settle(FinishedTick(fired, item))
    BY <1>7 DEF OwnedTick, fired, item
  <2>6. QED BY <1>a, <2>3, <2>4, <2>5
<1>8. ASSUME NEW ack, NEW cleaned, Ack(ack, cleaned)
      PROVE  Punctual(root')
  <2>1. CASE root' = Settle(Rejected(root))
    BY <1>b, <2>1, RejectedType, TreeWork
  <2>2. CASE root' = Settle(Committed(root, cleaned))
    <3> DEFINE u == Committed(root, cleaned)
    <3>1. RootState(u) /\ SameWork(root, u) /\ ~Pending(u) /\ (Accepted(root) => Accepted(u))
      BY <1>8, CommittedType, TreeWork, CommittedAccepts DEF Ack
    <3> HIDE DEF u
    <3>2. Ticking(u)
      BY <3>1, SameTicking DEF Punctual
    <3>3. QED BY <2>2, <3>1, <3>2, SettlePunctual DEF u
  <2>3. QED BY <1>8, <2>1, <2>2 DEF Ack
<1>9. ASSUME NEW template \in Envelopes, NEW generation, NEW revision,
             NEW sequence \in {root.producers[template.producer],
                               root.producers[template.producer] + 1},
             NEW cancelled, Enqueue(template, generation, revision, sequence, cancelled)
      PROVE  Punctual(root')
  <2> DEFINE item     == [template EXCEPT !.gen = generation]
             received == [item EXCEPT !.receipt = root.receipt + 1]
             envelope == [item |-> item, rev |-> revision, sequence |-> sequence]
             entered  == Admitted(root, envelope)
             admitted == Outcome(entered,
                           IF item.kind = "timer_cancel" THEN {} ELSE Superseded(root, item))
             next     == IF item.kind = "timer_cancel"
                         THEN CancelOwned(admitted, received, cancelled) ELSE admitted
             last     == [next EXCEPT !.drain = TRUE]
  <2>1. /\ Admissible(root, envelope, root.accepted.corr.gen, root.accepted.corr.rev,
                      root.accepted.comps)
        /\ root' = Settle(last) /\ root.scheduled /\ Accepted(root)
    BY <1>9 DEF Enqueue
  <2>2. /\ template \in Item /\ template.producer \in Producers
        /\ template.kind # "timer_tick" /\ (template.kind = "timer_start" => ~template.sup)
    BY RootAssumption DEF IsControl
  <2>3. generation \in Nat
    <3>1. item.gen = root.accepted.corr.gen
      BY <2>1 DEF Admissible, ValidDispatch
    <3>2. item.gen = generation
      BY <2>2 DEF Item
    <3>3. root.accepted.corr.gen \in Nat
      <4>1. root.accepted.corr \in Correlation
        BY DEF RootState, Candidate
      <4>2. QED BY <4>1 DEF Correlation
    <3>4. QED BY <3>1, <3>2, <3>3
  <2>4. item \in Item /\ item.kind # "timer_tick" /\ (item.kind = "timer_start" => ~item.sup)
    BY <2>2, <2>3 DEF Item
  <2>5. sequence \in Nat
    <3>1. root.producers[template.producer] \in Nat
      BY <2>2 DEF RootState
    <3>2. QED BY <3>1
  <2>6. received \in Item
    <3>1. root.receipt + 1 \in Nat
      BY Numbers
    <3> HIDE DEF item
    <3>2. QED BY <2>4, <3>1, RenumberedType
  <2>7. RootState(entered) /\ Ticking(entered) /\ Owned(entered)
    <3>1. /\ envelope.item \in Item /\ envelope.sequence \in Nat
          /\ envelope.item.kind # "timer_tick"
          /\ envelope.item.kind = "timer_start" => ~envelope.item.sup
      BY <2>4, <2>5
    <3> HIDE DEF envelope
    <3>2. QED BY <2>1, <3>1, AdmittedType, AdmittedTicking DEF Punctual
  <2> HIDE DEF envelope, entered, last, received
  <2>8. RootState(admitted) /\ Ticking(admitted) /\ Owned(admitted)
    <3>1. RootState(admitted) /\ SameWork(entered, admitted) /\ admitted.accepted = entered.accepted
      BY <2>7, OutcomeType, TreeWork
    <3> HIDE DEF admitted
    <3>2. QED BY <2>7, <3>1, SameTicking DEF Accepted
  <2> HIDE DEF admitted
  <2>9. RootState(next) /\ Ticking(next) /\ Owned(next)
    BY <2>6, <2>8, CancelOwnedType, CancelOwnedTicking
  <2> HIDE DEF next
  <2>10. RootState(last) /\ SameWork(next, last) /\ last.accepted = next.accepted
    BY <2>9 DEF RootState, SameWork, last
  <2>11. Ticking(last) /\ Owned(last)
    BY <2>9, <2>10, SameTicking DEF Accepted
  <2>12. QED BY <1>a, <2>1, <2>10, <2>11
<1>10. ASSUME NEW plan \in Plans, NEW prepared, NEW answer, Update(plan, prepared, answer)
       PROVE  Punctual(root')
  <2>1. root' = Begin(root, "update", plan, prepared, answer)
    BY <1>10 DEF Update
  <2>2. QED BY <1>0, <2>1, BeginSameWork, SamePunctual
<1>d. /\ RootState(CloseSchedule(root)) /\ Punctual(CloseSchedule(root))
  BY CloseScheduleType, ClosedPunctual DEF Punctual
<1>e. ASSUME NEW u, RootState(u), SameWork(CloseSchedule(root), u),
             u.accepted = CloseSchedule(root).accepted, root' = Settle(u)
      PROVE  Punctual(root')
  BY <1>a, <1>d, <1>e, SamePunctual DEF Punctual
<1>f. root' = Settle(Failed(CloseSchedule(root))) => Punctual(root')
  BY <1>d, <1>e, RejectedType, TreeWork
<1>11. ASSUME NEW plan \in Plans, NEW prepared, NEW answer, NEW cancelled,
              Replace(plan, prepared, answer, cancelled)
       PROVE  Punctual(root')
  <2> DEFINE closed == CloseSchedule(root)
             freed  == [closed EXCEPT !.pending = NoCandidate]
             u      == Begin(freed, "replace", plan, prepared, answer)
  <2>1. root' = Settle(Failed(closed)) \/ root' = Settle(u)
    BY <1>11 DEF Replace
  <2> HIDE DEF closed
  <2>2. RootState(closed)
    BY <1>d DEF closed
  <2>3. RootState(freed) /\ SameWork(closed, freed) /\ freed.accepted = closed.accepted
    BY <2>2, NothingTypes DEF RootState, SameWork
  <2> HIDE DEF freed
  <2>4. RootState(u) /\ SameWork(freed, u) /\ u.accepted = freed.accepted
    BY <1>0, <2>3, BeginType, BeginSameWork
  <2> HIDE DEF u
  <2>5. SameWork(closed, u)
    BY <2>3, <2>4, SameWorkTrans
  <2>6. QED BY <1>e, <1>f, <2>1, <2>3, <2>4, <2>5 DEF closed
<1>12. ASSUME NEW answer, NEW cancelled, Stop(answer, cancelled)
       PROVE  Punctual(root')
  <2> DEFINE closed == CloseSchedule(root)
             old    == IF Accepted(root) THEN root.accepted.corr
                                         ELSE [NoCorrelation EXCEPT !.gen = 1, !.rev = 1]
             corr   == [old EXCEPT !.seq = root.attempt + 1, !.op = "dispose"]
             tried  == [closed EXCEPT !.status = "stopping", !.attempt = corr.seq]
             next   == [corr |-> corr, comps |-> {}]
             u      == Submit(tried, next, TRUE, answer)
  <2>1. root' = Settle(Failed(closed)) \/ root' = Settle(u)
    BY <1>12 DEF Stop
  <2>2. old \in Correlation /\ root.attempt + 1 \in Nat
    <3>1. old \in Correlation
      BY NothingTypes DEF RootState, Candidate, Correlation
    <3>2. root.attempt \in Nat
      BY DEF RootState
    <3>3. QED BY <3>1, <3>2
  <2> HIDE DEF old, closed
  <2>3. corr \in Correlation /\ corr.seq \in Nat
    BY <2>2 DEF Correlation, Operations
  <2> HIDE DEF corr
  <2>4. next \in Candidate
    BY <2>3 DEF Candidate
  <2>5. RootState(closed)
    BY <1>d DEF closed
  <2>6. RootState(tried) /\ SameWork(closed, tried) /\ tried.accepted = closed.accepted
    BY <2>3, <2>5 DEF RootState, Statuses, SameWork
  <2> HIDE DEF next, tried
  <2>7. RootState(u) /\ SameWork(tried, u) /\ u.accepted = tried.accepted
    BY <2>4, <2>6, SubmitType, SubmitWork
  <2> HIDE DEF u
  <2>8. SameWork(closed, u)
    BY <2>6, <2>7, SameWorkTrans
  <2>9. QED BY <1>e, <1>f, <2>1, <2>6, <2>7, <2>8 DEF closed
<1>13. ASSUME NEW cancelled, RuntimeLoss(cancelled)
       PROVE  Punctual(root')
  BY <1>f, <1>13 DEF RuntimeLoss
<1>14. UNCHANGED root => Punctual(root')
  OBVIOUS
<1>15. RendererCommit \/ RendererReject \/ UNCHANGED vars => UNCHANGED root
  BY DEF RendererCommit, RendererReject, vars
<1>16. Drain => Punctual(root')
  BY <1>3, <1>4, <1>5, <1>6 DEF Drain
<1>17. Calls => Punctual(root')
  BY <1>8, <1>9, <1>10, <1>11, <1>12, <1>13 DEF Calls
<1>18. QED BY <1>1, <1>2, <1>7, <1>14, <1>15, <1>16, <1>17 DEF Next

(* A firing timer has one tick, a waiting one none. *)
LEMMA PunctualWakes ==
  ASSUME Punctual(root)
  PROVE  OneWakePerTimer
<1> SUFFICES ASSUME NEW key \in DOMAIN root.entries
             PROVE  Cardinality({i \in Live(root) : i.kind = "timer_tick" /\ Key(i) = key})
                      = IF root.entries[key].status = "firing" THEN 1 ELSE 0
  BY DEF OneWakePerTimer, Punctual
<1> DEFINE ticks == {i \in Live(root) : i.kind = "timer_tick" /\ Key(i) = key}
<1>1. CASE root.entries[key].status = "firing"
  <2>1. PICK i \in Live(root) : Marks(root.entries[key], i)
    BY <1>1 DEF Punctual, Ticking, Registered
  <2>2. i \in ticks
    BY <2>1 DEF Marks, Punctual, Ticking, Registered
  <2>3. \A j \in ticks : j = i
    BY <2>2 DEF Punctual, Ticking, Single
  <2>4. ticks = {i}
    BY <2>2, <2>3
  <2>5. QED BY <1>1, <2>4, FS_Singleton
<1>2. CASE root.entries[key].status # "firing"
  <2>1. ticks = {}
    BY <1>2 DEF Punctual, ValidTick
  <2>2. QED BY <1>2, <2>1, FS_EmptySet
<1>3. QED BY <1>1, <1>2

(* A timer waits for its wake-up or has exactly one tick queued or running: a repeating timer
   neither stalls nor bursts, whatever is cancelled, replaced or refused in between. *)
THEOREM OneWakeAlways == Spec => []OneWakePerTimer
<1> DEFINE Inv == IInv /\ Punctual(root)
<1>1. Init => Inv
  BY InitIInv, InitPunctual
<1>2. Inv /\ [Next]_vars => Inv'
  <2> SUFFICES ASSUME IInv, Punctual(root), [Next]_vars PROVE IInv' /\ Punctual(root)'
    OBVIOUS
  <2>1. IInv'
    BY NextIInv
  <2>2. RootState(root) /\ Quiet(root)
    BY DEF IInv, TypeOK
  <2>3. Punctual(root')
    BY <2>2, NextPunctual
  <2>4. Punctual(root)' <=> Punctual(root')
    BY DEF Punctual, Ticking, Owned, Registered, Single, Lasting, Intents, Bare, Live, Accepted,
           Deliverable, ValidTick, Marks, Key, ValidDispatch
  <2>5. QED BY <2>1, <2>3, <2>4
<1>3. Inv => OneWakePerTimer
  BY PunctualWakes
<1>4. QED BY <1>1, <1>2, <1>3, PTL DEF Spec

-----------------------------------------------------------------------------
(* What the display shows once a transaction is committed. *)
Display(corr) == IF corr.op = "dispose" THEN NoCorrelation ELSE corr

(* The statuses of a root that waits for an answer of the port. *)
Busy == {"awaiting_commit", "stopping"}

(* A candidate is pending exactly while the root is busy; a ready root has accepted one. *)
Standing(s) ==
  /\ s.status # "evaluating"
  /\ Pending(s) <=> s.status \in Busy
  /\ s.status = "ready" => Accepted(s)
  /\ s.status = "starting" => ~Accepted(s)
  /\ s.accepted.corr.seq <= s.attempt
  /\ Accepted(s) => s.accepted.corr.gen >= 1 /\ s.accepted.corr.rev >= 1

(* The version a transition would accept follows the accepted one. *)
Follows(s, corr) ==
  /\ corr.op \in {"mount", "update", "replace", "dispose"}
  /\ corr.op = "mount" => ~Accepted(s) /\ corr.gen = 1 /\ corr.rev = 1
  /\ corr.op = "update" => Accepted(s) /\ corr.gen = s.accepted.corr.gen
                                       /\ corr.rev = s.accepted.corr.rev + 1
  /\ corr.op = "replace" => Accepted(s) /\ corr.gen = s.accepted.corr.gen + 1 /\ corr.rev = 1

(* The pending candidate is the last transition tried, and follows the accepted one. *)
Awaited(s) ==
  Pending(s) =>
    /\ Follows(s, s.pending.corr)
    /\ s.pending.corr.seq = s.attempt
    /\ s.accepted.corr.seq < s.attempt
    /\ s.pending.corr.op = "dispose" <=> s.status = "stopping"

(* The generations before the accepted one are cleaned up once, those after it never. *)
CleanedUp(s) ==
  \A g \in 1 .. MaxGeneration :
    /\ g < s.accepted.corr.gen => s.retired[g] = 1
    /\ g > s.accepted.corr.gen => s.retired[g] = 0
    /\ g = s.accepted.corr.gen =>
         /\ s.retired[g] <= 1
         /\ s.status \notin Terminal => s.retired[g] = 0
         /\ s.status = "disposed" => s.retired[g] = 1

(* The accepted tree of a root and its candidate are consistent. *)
Tree(s) == Standing(s) /\ Awaited(s) /\ CleanedUp(s)

(* The active item is the pending candidate's, and what was published was reported. *)
Told(s) ==
  /\ s.active # {} => s.activeCorr = s.pending.corr
  /\ s.reported = s.published

(* The same before settle/1: the outcome of the active item may still have to be told. *)
Owes(s) ==
  /\ s.active # {} /\ Pending(s) => s.activeCorr = s.pending.corr
  /\ s.published = IF s.active # {} /\ ~Pending(s) /\ ActiveCommitted(s)
                   THEN s.reported \cup ReceiptsOf(s.active)
                   ELSE s.reported
  /\ ~s.scheduled => s.active = {}

(* The port and a running root know the same transaction, and every answer that may still
   arrive to it tells what the port did. *)
Agrees(r, s) ==
  /\ r.tx.seq <= s.attempt
  /\ \A a \in r.acks : a.corr.seq <= s.attempt
  /\ s.status \notin Terminal =>
       /\ r.phase = "open" => Pending(s)
       /\ Pending(s) /\ r.phase # "idle" => r.tx = s.pending.corr
       /\ r.shown = IF Pending(s) /\ r.phase = "committed" THEN Display(s.pending.corr)
                                                           ELSE s.accepted.corr
       /\ Pending(s) /\ r.phase = "committed" => r.prev = s.accepted.corr
       /\ \A a \in r.acks : Pending(s) /\ a.corr = s.pending.corr =>
            r.phase = IF a.result = "committed" THEN "committed" ELSE "idle"

(* The inductive invariant: what every handler finds and leaves behind. *)
TreeInv == IInv /\ Tree(root) /\ Told(root) /\ Agrees(renderer, root)

(* The fields these are about, but for the active slot. *)
SameCourse(s, t) ==
  /\ t.status = s.status /\ t.accepted = s.accepted /\ t.pending = s.pending
  /\ t.attempt = s.attempt /\ t.retired = s.retired /\ t.scheduled = s.scheduled
  /\ t.reported = s.reported /\ t.published = s.published /\ t.activeCorr = s.activeCorr

(* What settle/1 leaves of a state as far as the tree goes: only applying the intents of a
   committed candidate may still fail. *)
Settled(s, t) ==
  /\ t.accepted = s.accepted /\ t.pending = s.pending /\ t.attempt = s.attempt
  /\ t.retired = s.retired /\ t.scheduled = s.scheduled /\ t.published = s.published
  /\ \/ t.status = s.status
     \/ s.status = "ready" /\ t.status = "broken"

(* What evaluating, submitting and dropping a transition leave alone. *)
SameAccepted(s, t) ==
  /\ t.accepted = s.accepted /\ t.retired = s.retired /\ t.scheduled = s.scheduled
  /\ t.reported = s.reported /\ t.published = s.published /\ t.active = s.active

(* The transition ended without a commit. *)
Dropped(s, t) ==
  /\ t.pending = NoCandidate
  /\ t.status \in {"ready", "failed"}
  /\ t.status = "ready" => Accepted(s)

(* The transition corr was tried: it is pending at the port, or was dropped at once. *)
Tried(s, t, corr) ==
  /\ SameAccepted(s, t)
  /\ t.attempt = corr.seq
  /\ \/ Dropped(s, t)
     \/ /\ t.pending.corr = corr
        /\ t.status = IF corr.op = "dispose" THEN "stopping" ELSE "awaiting_commit"

(* What a handler may do to the accepted tree: accept what was pending, try one more
   transition, or leave it alone. *)
Moves(s, t) ==
  \/ /\ Pending(s) /\ ~Pending(t) /\ s.pending.corr.op # "dispose"
     /\ t.attempt = s.attempt /\ t.accepted = s.pending
  \/ t.attempt \in {s.attempt, s.attempt + 1} /\ t.accepted = s.accepted

-----------------------------------------------------------------------------
(* The operations on the queue and on the timers do not touch the tree. *)
LEMMA ScheduleCourse ==
  ASSUME NEW s, RootState(s), NEW items, NEW keys, NEW intents, NEW item, NEW key
  PROVE  /\ SameCourse(s, Outcome(s, items))
         /\ SameCourse(s, Finish(s))
         /\ SameCourse(s, Cancelled(s, keys))
         /\ SameCourse(s, AppliedTimers(s, intents))
         /\ SameCourse(s, Appended(s, intents))
         /\ SameCourse(s, Fired(s, key))
         /\ SameCourse(s, Internal(s, item))
         /\ SameCourse(s, FinishedTick(s, item))
<1> USE DEF SameCourse, RootState
<1>1. SameCourse(s, Outcome(s, items)) /\ SameCourse(s, Finish(s))
  BY DEF Outcome, Finish
<1>2. \A ks : SameCourse(s, Cancelled(s, ks))
  BY DEF Cancelled
<1>3. SameCourse(s, AppliedTimers(s, intents)) /\ SameCourse(s, Fired(s, key))
  BY DEF AppliedTimers, Fired
<1>4. SameCourse(s, Appended(s, intents)) /\ SameCourse(s, Internal(s, item))
  BY DEF Appended, Internal
<1>5. SameCourse(s, FinishedTick(s, item))
  <2>1. SameCourse(s, [s EXCEPT !.entries[Key(item)].status = "waiting"])
    OBVIOUS
  <2>2. QED BY <1>2, <2>1 DEF FinishedTick
<1>6. QED BY <1>1, <1>2, <1>3, <1>4, <1>5

(* Resolving the active item tells its outcome exactly when its candidate was accepted. *)
LEMMA SettleActiveTold ==
  ASSUME NEW s, RootState(s), Owes(s)
  PROVE  /\ Settled(s, SettleActive(s)) /\ Told(SettleActive(s))
<1>1. CASE Pending(s) \/ s.active = {}
  <2>1. SettleActive(s) = s
    BY <1>1 DEF SettleActive
  <2>2. Settled(s, s) /\ Told(s)
    BY <1>1 DEF Settled, Told, Owes
  <2>3. QED BY <2>1, <2>2
<1>2. CASE ~(Pending(s) \/ s.active = {})
  <2> DEFINE item     == CHOOSE i \in s.active : TRUE
             told     == Outcome(s, s.active)
             freed    == Finish(told)
             finished == FinishedTick(freed, item)
             applied  == IF ActiveCommitted(s) /\ s.status = "ready"
                         THEN ApplyIntents(finished, s.messages, s.timers)
                         ELSE finished
  <2>1. RootState(told) /\ RootState(freed) /\ RootState(finished)
    BY OutcomeType, FinishType, FinishedTickType
  <2>2. SameCourse(s, finished)
    <3>1. SameCourse(s, told)
      BY ScheduleCourse
    <3> HIDE DEF told
    <3>2. SameCourse(told, freed)
      BY <2>1, ScheduleCourse
    <3> HIDE DEF freed
    <3>3. SameCourse(freed, finished)
      BY <2>1, ScheduleCourse
    <3>4. QED BY <3>1, <3>2, <3>3 DEF SameCourse
  <2>3. finished.active = {}
    <3>1. freed.active = {} /\ Books(finished) = Books(freed)
      BY <2>1, TimerBooks DEF Finish, RootState
    <3>2. QED BY <3>1 DEF Books
  <2> HIDE DEF finished, freed, told
  <2>4. /\ RootState(applied) /\ applied.active = {} /\ Settled(s, applied)
        /\ applied.reported = s.reported
    <3>0. s.messages \in Seq(Item) /\ s.timers \in Seq(Item)
      BY DEF RootState
    <3>1. CASE ~(ActiveCommitted(s) /\ s.status = "ready")
      BY <2>1, <2>2, <2>3, <3>1 DEF SameCourse, Settled
    <3>2. CASE ActiveCommitted(s) /\ s.status = "ready" /\ CommitFits(finished, s.messages, s.timers)
      <4> DEFINE longer == Appended(finished, s.messages)
      <4>1. RootState(longer) /\ SameCourse(s, longer) /\ longer.active = {}
        <5>1. longer.active = {}
          BY <2>1, <2>3 DEF Appended, RootState
        <5>2. RootState(longer) /\ SameCourse(finished, longer)
          BY <2>1, <3>0, <3>2, AppendedType, ScheduleCourse DEF CommitFits
        <5>3. QED BY <2>2, <5>1, <5>2 DEF SameCourse
      <4> HIDE DEF longer
      <4>2. RootState(AppliedTimers(longer, s.timers))
              /\ SameCourse(s, AppliedTimers(longer, s.timers))
        <5>1. SameCourse(longer, AppliedTimers(longer, s.timers))
          BY <4>1, ScheduleCourse
        <5>2. QED BY <3>0, <4>1, <5>1, AppliedTimersType DEF SameCourse
      <4>3. AppliedTimers(longer, s.timers).active = {}
        BY <4>1, TimerBooks DEF Books
      <4>4. applied = AppliedTimers(longer, s.timers)
        BY <3>2 DEF ApplyIntents, longer
      <4> HIDE DEF applied
      <4>5. QED BY <4>2, <4>3, <4>4 DEF SameCourse, Settled
    <3>3. CASE ActiveCommitted(s) /\ s.status = "ready" /\ ~CommitFits(finished, s.messages, s.timers)
      <4> DEFINE broken == [finished EXCEPT !.status = "broken"]
      <4>1. /\ RootState(broken) /\ broken.active = {} /\ broken.status = "broken"
            /\ broken.accepted = finished.accepted /\ broken.pending = finished.pending
            /\ broken.attempt = finished.attempt /\ broken.retired = finished.retired
            /\ broken.scheduled = finished.scheduled /\ broken.reported = finished.reported
            /\ broken.published = finished.published
        BY <2>1, <2>3 DEF RootState, Statuses
      <4>2. applied = broken
        BY <3>3 DEF ApplyIntents
      <4> HIDE DEF applied, broken
      <4>3. QED BY <3>3, <2>2, <4>1, <4>2 DEF SameCourse, Settled
    <3>4. QED BY <3>1, <3>2, <3>3
  <2> DEFINE reports == IF ActiveCommitted(s) THEN applied.reported \cup ReceiptsOf(s.active)
                                              ELSE applied.reported
             last    == [applied EXCEPT !.activeCorr = NoCorrelation, !.messages = <<>>,
                                        !.timers = <<>>, !.reported = reports]
  <2> HIDE DEF applied, reports
  <2>5. /\ last.reported = reports /\ last.active = {} /\ Settled(applied, last)
        /\ last.status = applied.status /\ last.published = applied.published
    BY <2>4 DEF RootState, Settled
  <2>6. SettleActive(s) = last
    BY <1>2 DEF SettleActive, applied, reports, finished, freed, told
  <2>7. last.published = reports
    BY <1>2, <2>4, <2>5 DEF Owes, Settled, reports
  <2> HIDE DEF last
  <2>8. Settled(s, last)
    BY <2>4, <2>5 DEF Settled
  <2>9. QED BY <2>5, <2>6, <2>7, <2>8 DEF Told
<1>3. QED BY <1>1, <1>2

(* Pruning and closing do not touch the tree. *)
LEMMA PruneCourse ==
  ASSUME NEW s, RootState(s)
  PROVE  SameCourse(s, Prune(s)) /\ Prune(s).active = s.active
<1> DEFINE timed == Cancelled(s, {k \in DOMAIN s.entries : ~Deliverable(s, s.entries[k].item)})
           gone  == {i \in s.queue : ~Deliverable(s, i) \/ ~ValidTick(timed, i)}
           told  == Outcome(timed, gone)
           t     == [told EXCEPT !.queue = @ \ gone]
<1>1. RootState(timed) /\ SameCourse(s, timed) /\ timed.active = s.active
  BY CancelledType, ScheduleCourse, TimerBooks DEF Books
<1> HIDE DEF timed, gone
<1>2. RootState(told) /\ SameCourse(s, told) /\ told.active = s.active
  <2>1. RootState(told) /\ SameCourse(timed, told) /\ told.active = timed.active
    BY <1>1, OutcomeType, ScheduleCourse, OutcomeBooks DEF Books
  <2>2. QED BY <1>1, <2>1 DEF SameCourse
<1> HIDE DEF told
<1>3. SameCourse(s, t) /\ t.active = s.active
  BY <1>2 DEF SameCourse, RootState
<1> HIDE DEF t
<1>4. Prune(s) = IF ~Accepted(s) THEN s ELSE t
  BY DEF Prune, t, told, gone, timed
<1>5. QED BY <1>3, <1>4 DEF SameCourse

(* Closing the schedule leaves the tree and the status alone and empties the active slot. *)
LEMMA CloseScheduleCourse ==
  ASSUME NEW s, RootState(s)
  PROVE  /\ Settled(s, CloseSchedule(s)) /\ CloseSchedule(s).status = s.status
         /\ CloseSchedule(s).reported = s.reported
         /\ s.scheduled => CloseSchedule(s).active = {}
         /\ ~s.scheduled => CloseSchedule(s) = s
<1>1. CASE ~s.scheduled
  <2>1. CloseSchedule(s) = s
    BY <1>1 DEF CloseSchedule
  <2>2. QED BY <1>1, <2>1 DEF Settled
<1>2. CASE s.scheduled
  <2> DEFINE told == Outcome(s, Live(s))
             t    == CloseSchedule(s)
  <2>1. RootState(told) /\ SameCourse(s, told)
    BY OutcomeType, ScheduleCourse
  <2>2. t = [Finish(told) EXCEPT
          !.queue = {}, !.slots = 0, !.activeCorr = NoCorrelation,
          !.messages = <<>>, !.timers = <<>>, !.entries = [k \in {} |-> 0]]
    BY <1>2 DEF CloseSchedule
  <2> HIDE DEF told, t
  <2>3. /\ t.active = {}
        /\ t.status = told.status /\ t.accepted = told.accepted /\ t.pending = told.pending
        /\ t.attempt = told.attempt /\ t.retired = told.retired /\ t.scheduled = told.scheduled
        /\ t.reported = told.reported /\ t.published = told.published
    BY <2>1, <2>2 DEF Finish, RootState
  <2>4. QED BY <1>2, <2>1, <2>3 DEF SameCourse, Settled, t
<1>3. QED BY <1>1, <1>2

(* settle/1 keeps the tree and leaves nothing to be told. *)
LEMMA SettleTold ==
  ASSUME NEW s, RootState(s), Owes(s)
  PROVE  Settled(s, Settle(s)) /\ Told(Settle(s))
<1>1. CASE ~s.scheduled
  <2>1. Settle(s) = s
    BY <1>1 DEF Settle
  <2>2. Settled(s, s) /\ Told(s)
    BY <1>1 DEF Settled, Owes, Told
  <2>3. QED BY <2>1, <2>2
<1>2. CASE s.scheduled
  <2> DEFINE done == Prune(SettleActive(s))
  <2>1. RootState(done) /\ Settled(s, done) /\ Told(done) /\ done.scheduled
    <3>1. RootState(SettleActive(s)) /\ Settled(s, SettleActive(s)) /\ Told(SettleActive(s))
      BY SettleActiveType, SettleActiveTold
    <3>2. QED BY <1>2, <3>1, PruneType, PruneCourse DEF Settled, Told, SameCourse
  <2> HIDE DEF done
  <2>2. Settled(s, CloseSchedule(done)) /\ Told(CloseSchedule(done))
    BY <2>1, CloseScheduleCourse DEF Settled, Told
  <2>3. Settled(s, [done EXCEPT !.drain = TRUE]) /\ Told([done EXCEPT !.drain = TRUE])
    BY <2>1 DEF Settled, Told, RootState
  <2>4. QED BY <1>2, <2>1, <2>2, <2>3 DEF Settle, done
<1>3. QED BY <1>1, <1>2

(* The conditions on the tree and on the port survive settle/1. *)
LEMMA SettledTree ==
  ASSUME NEW s, NEW t, Settled(s, t), Tree(s), NEW r
  PROVE  /\ Tree(t)
         /\ Agrees(r, s) => Agrees(r, t)
BY DEF Settled, Tree, Standing, Awaited, Follows, CleanedUp, Agrees, Pending, Accepted, Terminal, Busy

-----------------------------------------------------------------------------
(* The fields of a typed state the tree is about. *)
LEMMA TreeTypes ==
  ASSUME NEW s, RootState(s)
  PROVE  /\ s.attempt \in Nat /\ s.accepted \in Candidate /\ s.pending \in Candidate
         /\ s.accepted.corr \in Correlation /\ s.pending.corr \in Correlation
         /\ s.accepted.corr.seq \in Nat /\ s.accepted.corr.gen \in Nat
         /\ s.accepted.corr.rev \in Nat /\ s.pending.corr.seq \in Nat
         /\ s.pending.corr.gen \in Nat /\ s.pending.corr.rev \in Nat
         /\ s.retired \in [1 .. MaxGeneration -> Nat] /\ s.status \in Statuses
<1>1. s.attempt \in Nat /\ s.accepted \in Candidate /\ s.pending \in Candidate
        /\ s.retired \in [1 .. MaxGeneration -> Nat] /\ s.status \in Statuses
  BY DEF RootState
<1>2. s.accepted.corr \in Correlation /\ s.pending.corr \in Correlation
  BY <1>1 DEF Candidate
<1>3. QED BY <1>1, <1>2 DEF Correlation

(* A transition that ends without a commit leaves the accepted tree as it was. *)
LEMMA DroppedTree ==
  ASSUME NEW s, RootState(s), Tree(s), s.status \notin Terminal, NEW t, RootState(t),
         t.accepted = s.accepted, t.attempt >= s.attempt, t.retired = s.retired,
         t.pending = NoCandidate, t.status \in {"ready", "failed"},
         t.status = "ready" => Accepted(s)
  PROVE  Tree(t)
<1>1. Standing(t)
  BY TreeTypes DEF Tree, Standing, Pending, Accepted, Busy
<1>2. Awaited(t)
  BY DEF Awaited, Pending
<1>3. CleanedUp(t)
  BY TreeTypes DEF Tree, CleanedUp, Terminal
<1>4. QED BY <1>1, <1>2, <1>3 DEF Tree

(* A transition that is submitted follows the accepted tree. *)
LEMMA SubmittedTree ==
  ASSUME NEW s, RootState(s), Tree(s), s.status \notin Terminal, NEW t, RootState(t),
         t.accepted = s.accepted, t.attempt = s.attempt + 1, t.retired = s.retired,
         Follows(s, t.pending.corr), t.pending.corr.seq = t.attempt,
         t.status = IF t.pending.corr.op = "dispose" THEN "stopping" ELSE "awaiting_commit"
  PROVE  Tree(t) /\ Pending(t)
<1>1. Pending(t)
  BY DEF Pending, NoCandidate, NoCorrelation, Follows
<1>2. Standing(t)
  BY <1>1, TreeTypes DEF Tree, Standing, Accepted, Busy
<1>3. Awaited(t)
  BY TreeTypes DEF Tree, Standing, Awaited, Follows, Accepted
<1>4. CleanedUp(t)
  BY TreeTypes DEF Tree, CleanedUp, Terminal
<1>5. QED BY <1>1, <1>2, <1>3, <1>4 DEF Tree

(* A root that is terminal asks nothing of the port. *)
LEMMA AgreesTerminal ==
  ASSUME NEW s, RootState(s), NEW t, RootState(t), t.attempt >= s.attempt, t.status \in Terminal,
         NEW r \in RendererState, Agrees(r, s)
  PROVE  Agrees(r, t) /\ Agrees(CancelTx(r), t)
<1>1. r.tx.seq \in Nat /\ \A a \in r.acks : a.corr.seq \in Nat
  BY DEF RendererState, Correlation
<1>2. CancelTx(r).acks = r.acks /\ CancelTx(r).tx.seq = 0
  BY DEF CancelTx, NoCorrelation, RendererState
<1>3. QED BY <1>1, <1>2, TreeTypes DEF Agrees

(* What the port shows once the transaction it held is gone. *)
LEMMA AgreesFreed ==
  ASSUME NEW s, RootState(s), s.status \notin Terminal, NEW t, RootState(t),
         t.attempt >= s.attempt, t.accepted = s.accepted, ~Pending(t),
         NEW r \in RendererState, Agrees(r, s)
  PROVE  /\ Pending(s) => Agrees(CancelTx(r), t)
         /\ ~Pending(s) \/ r.phase = "idle" => Agrees(r, t)
<1>1. r.tx.seq \in Nat /\ \A a \in r.acks : a.corr.seq \in Nat
  BY DEF RendererState, Correlation
<1>2. /\ CancelTx(r).acks = r.acks /\ CancelTx(r).tx.seq = 0 /\ CancelTx(r).phase = "idle"
      /\ CancelTx(r).shown = IF r.phase = "committed" THEN r.prev ELSE r.shown
  BY DEF CancelTx, NoCorrelation, RendererState
<1>3. ASSUME Pending(s)
      PROVE  Agrees(CancelTx(r), t)
  BY <1>1, <1>2, <1>3, TreeTypes DEF Agrees
<1>4. ASSUME ~Pending(s) \/ r.phase = "idle"
      PROVE  Agrees(r, t)
  <2>1. r.tx.seq <= t.attempt /\ \A a \in r.acks : a.corr.seq <= t.attempt
    BY <1>1, TreeTypes DEF Agrees
  <2>2. r.phase # "open" /\ r.shown = s.accepted.corr
    BY <1>4 DEF Agrees
  <2>3. QED BY <2>1, <2>2 DEF Agrees, Pending
<1>5. QED BY <1>3, <1>4

(* What the port shows when it has just been given a transaction. *)
LEMMA AgreesSubmitted ==
  ASSUME NEW s, RootState(s), s.status \notin Terminal, ~Pending(s), NEW t, RootState(t),
         t.attempt = s.attempt + 1, t.accepted = s.accepted, Pending(t),
         t.pending.corr.seq = t.attempt,
         NEW r \in RendererState, Agrees(r, s)
  PROVE  Agrees(SubmitTo(r, t.pending.corr), t)
<1> DEFINE p == SubmitTo(r, t.pending.corr)
<1>1. r.tx.seq \in Nat /\ \A a \in r.acks : a.corr.seq \in Nat
  BY DEF RendererState, Correlation
<1>2. /\ p.acks \subseteq r.acks /\ p.tx = t.pending.corr /\ p.phase = "open"
      /\ p.shown = r.shown
  BY DEF SubmitTo, RendererState
<1> HIDE DEF p
<1>3. \A a \in p.acks : a.corr.seq <= s.attempt
  BY <1>2 DEF Agrees
<1>4. \A a \in p.acks : a.corr # t.pending.corr
  BY <1>1, <1>2, <1>3, TreeTypes
<1>5. \A a \in p.acks : a.corr.seq <= t.attempt
  BY <1>1, <1>2, <1>3, TreeTypes
<1>6. QED BY <1>2, <1>4, <1>5, TreeTypes DEF Agrees, p
(* A transition of the accepted tree, once tried, agrees with the port it was submitted to. *)
LEMMA TriedAgrees ==
  ASSUME NEW s, RootState(s), Tree(s), s.status \notin Terminal, s.reported = s.published,
         NEW t, RootState(t), NEW corr, Follows(s, corr), corr.seq = s.attempt + 1,
         Tried(s, t, corr), t.active # {} => t.activeCorr = corr, ~t.scheduled => t.active = {},
         NEW r \in RendererState, Agrees(r, s)
  PROVE  LET freed == IF Pending(s) THEN CancelTx(r) ELSE r
             port  == IF Pending(t) THEN SubmitTo(freed, t.pending.corr) ELSE freed
         IN  Tree(t) /\ Owes(t) /\ Agrees(port, t)
<1> DEFINE freed == IF Pending(s) THEN CancelTx(r) ELSE r
           u     == [s EXCEPT !.pending = NoCandidate, !.status = "ready"]
<1>1. RootState(u) /\ u.accepted = s.accepted /\ u.attempt = s.attempt /\ ~Pending(u)
        /\ u.status \notin Terminal
  BY NothingTypes DEF RootState, Statuses, Pending, Terminal
<1> HIDE DEF u
<1>2. Agrees(freed, u)
  BY <1>1, TreeTypes, AgreesFreed
<1>3. freed \in RendererState
  BY PortedType
<1> HIDE DEF freed
<1>4. t.attempt = s.attempt + 1 /\ t.attempt >= s.attempt
  BY TreeTypes DEF Tried
<1>5. s.accepted.corr # corr
  BY TreeTypes DEF Tree, Standing
<1>6. CASE Dropped(s, t)
  <2>1. t.accepted = s.accepted /\ t.retired = s.retired /\ ~Pending(t)
          /\ t.reported = t.published
    BY <1>6 DEF Tried, SameAccepted, Dropped, Pending
  <2>2. Tree(t)
    BY <1>4, <1>6, <2>1, DroppedTree DEF Dropped
  <2>3. Agrees(freed, t)
    BY <1>1, <1>2, <1>3, <1>4, <2>1, AgreesFreed
  <2>4. Owes(t)
    BY <1>5, <2>1 DEF Owes, ActiveCommitted
  <2>5. QED BY <2>1, <2>2, <2>3, <2>4 DEF freed
<1>7. CASE ~Dropped(s, t)
  <2>1. t.accepted = s.accepted /\ t.retired = s.retired /\ t.pending.corr = corr
          /\ t.status = (IF corr.op = "dispose" THEN "stopping" ELSE "awaiting_commit")
          /\ t.reported = t.published
    BY <1>7 DEF Tried, SameAccepted
  <2>2. Tree(t) /\ Pending(t)
    BY <1>4, <2>1, SubmittedTree
  <2>3. Agrees(SubmitTo(freed, t.pending.corr), t)
    BY <1>1, <1>2, <1>3, <1>4, <2>1, <2>2, AgreesSubmitted
  <2>4. Owes(t)
    BY <2>1, <2>2 DEF Owes
  <2>5. QED BY <2>2, <2>3, <2>4 DEF freed
<1>8. QED BY <1>6, <1>7

(* submit/5 leaves its transition pending, or drops it. *)
LEMMA SubmitTried ==
  ASSUME NEW s, RootState(s), NEW candidate \in Candidate, NEW stopping \in BOOLEAN, NEW answer,
         s.attempt = candidate.corr.seq, stopping <=> candidate.corr.op = "dispose"
  PROVE  /\ Tried(s, Submit(s, candidate, stopping, answer), candidate.corr)
         /\ Submit(s, candidate, stopping, answer).activeCorr = s.activeCorr
<1> DEFINE submitted == [s EXCEPT !.pending = candidate,
                             !.status  = IF stopping THEN "stopping" ELSE "awaiting_commit"]
<1>1. /\ SameAccepted(s, submitted) /\ submitted.pending = candidate /\ RootState(submitted)
      /\ submitted.attempt = s.attempt /\ submitted.activeCorr = s.activeCorr
      /\ submitted.status = IF stopping THEN "stopping" ELSE "awaiting_commit"
  BY DEF RootState, Statuses, SameAccepted
<1> HIDE DEF submitted
<1>2. ASSUME NEW status \in {"ready", "failed"}
      PROVE  LET t == [submitted EXCEPT !.pending = NoCandidate, !.status = status]
             IN  /\ SameAccepted(s, t) /\ t.attempt = s.attempt /\ t.activeCorr = s.activeCorr
                 /\ t.pending = NoCandidate /\ t.status = status
  BY <1>1 DEF RootState, SameAccepted
<1>3. Accepted(submitted) <=> Accepted(s)
  BY <1>1 DEF Accepted, SameAccepted
<1>4. \A cancelled \in BOOLEAN :
        LET t == Abandon(submitted, cancelled)
        IN  /\ SameAccepted(s, t) /\ t.attempt = s.attempt /\ t.activeCorr = s.activeCorr
            /\ Dropped(s, t)
  BY <1>2, <1>3 DEF Abandon, Rejected, Failed, Dropped
<1>5. Submit(s, candidate, stopping, answer)
        = IF answer = "ok" THEN submitted ELSE Abandon(submitted, answer = "refused")
  BY DEF Submit, submitted
<1>6. CASE answer = "ok"
  BY <1>1, <1>5, <1>6 DEF Tried
<1>7. CASE answer # "ok"
  <2>1. (answer = "refused") \in BOOLEAN
    OBVIOUS
  <2>2. QED BY <1>4, <1>5, <1>7, <2>1 DEF Tried
<1>8. QED BY <1>6, <1>7

(* The number and the version of the next transition (next_correlation/2). *)
LEMMA NextFollows ==
  ASSUME NEW s, RootState(s), NEW op \in {"mount", "update", "replace"},
         op = "mount" <=> ~Accepted(s)
  PROVE  /\ Follows(s, NextCorrelation(s, op)) /\ NextCorrelation(s, op).seq = s.attempt + 1
         /\ NextCorrelation(s, op).op = op
<1>1. ~Accepted(s) => s.accepted.corr.rev = 0
  BY DEF Accepted, NoCandidate, NoCorrelation
<1>2. QED
  BY <1>1, TreeTypes DEF Follows, NextCorrelation

(* begin/4 tries its transition. *)
LEMMA BeginTried ==
  ASSUME NEW s, RootState(s), NEW op \in {"mount", "update", "replace"}, NEW plan \in Plans,
         NEW prepared \in BOOLEAN, NEW answer
  PROVE  /\ Tried(s, Begin(s, op, plan, prepared, answer), NextCorrelation(s, op))
         /\ Begin(s, op, plan, prepared, answer).activeCorr = s.activeCorr
<1> DEFINE corr  == NextCorrelation(s, op)
           tried == [s EXCEPT !.attempt = corr.seq, !.status = "evaluating"]
           candidate == [corr |-> corr, comps |-> plan.comps]
<1>1. corr \in Correlation /\ corr.op = op /\ corr.seq \in Nat
  <2>1. corr \in Correlation
    BY CorrelationType DEF Operations
  <2>2. corr.op = op
    BY DEF NextCorrelation
  <2> HIDE DEF corr
  <2>3. QED BY <2>1, <2>2 DEF Correlation
<1> HIDE DEF corr
<1>2. /\ RootState(tried) /\ SameAccepted(s, tried) /\ tried.attempt = corr.seq
      /\ tried.status = "evaluating" /\ tried.activeCorr = s.activeCorr
  BY <1>1 DEF RootState, Statuses, SameAccepted
<1>3. candidate \in Candidate /\ candidate.corr = corr
  BY <1>1, RootAssumption DEF Candidate
<1> HIDE DEF tried, candidate
<1>4. Tried(tried, Submit(tried, candidate, FALSE, answer), corr)
        /\ Submit(tried, candidate, FALSE, answer).activeCorr = s.activeCorr
  BY <1>1, <1>2, <1>3, SubmitTried
<1>5. Tried(tried, Rejected(tried), corr) /\ Rejected(tried).activeCorr = s.activeCorr
  <2>1. ASSUME NEW status \in {"ready", "failed"}
        PROVE  LET t == [tried EXCEPT !.pending = NoCandidate, !.status = status]
               IN  /\ SameAccepted(tried, t) /\ t.attempt = corr.seq /\ t.activeCorr = s.activeCorr
                   /\ t.pending = NoCandidate /\ t.status = status
    BY <1>2 DEF RootState, SameAccepted
  <2>2. QED BY <1>2, <2>1 DEF Rejected, Failed, Tried, Dropped
<1>6. \A t : Tried(tried, t, corr) => Tried(s, t, corr)
  BY <1>2 DEF Tried, SameAccepted, Dropped, Accepted
<1>7. Begin(s, op, plan, prepared, answer)
        = IF prepared THEN Submit(tried, candidate, FALSE, answer) ELSE Rejected(tried)
  BY DEF Begin, corr, tried, candidate
<1>8. QED BY <1>4, <1>5, <1>6, <1>7 DEF corr

(* begin/4 of a work item tries its transition and names it as the active one. *)
LEMMA BeginWorkTried ==
  ASSUME NEW s, RootState(s), NEW plan \in Plans, NEW prepared \in BOOLEAN, NEW answer
  PROVE  /\ Tried(s, BeginWork(s, plan, prepared, answer), NextCorrelation(s, "update"))
         /\ BeginWork(s, plan, prepared, answer).activeCorr = NextCorrelation(s, "update")
<1> DEFINE corr  == NextCorrelation(s, "update")
           tried == [s EXCEPT !.attempt = corr.seq, !.status = "evaluating", !.activeCorr = corr]
           ready == [tried EXCEPT !.reserved = Len(plan.messages),
                                  !.messages = Stamped(plan.messages, corr),
                                  !.timers   = Stamped(plan.timers, corr)]
           candidate == [corr |-> corr, comps |-> plan.comps]
<1>1. corr \in Correlation /\ corr.op = "update" /\ corr.seq \in Nat
  <2>1. corr \in Correlation
    BY CorrelationType DEF Operations
  <2>2. corr.op = "update"
    BY DEF NextCorrelation
  <2> HIDE DEF corr
  <2>3. QED BY <2>1, <2>2 DEF Correlation
<1>a. Stamped(plan.messages, corr) \in Seq(Item) /\ Stamped(plan.timers, corr) \in Seq(Item)
  BY <1>1, StampedType, RootAssumption
<1>b. Len(plan.messages) \in Nat
  BY RootAssumption
<1> HIDE DEF corr
<1>2. /\ RootState(tried) /\ SameAccepted(s, tried) /\ tried.attempt = corr.seq
      /\ tried.status = "evaluating" /\ tried.activeCorr = corr
  BY <1>1 DEF RootState, Statuses, SameAccepted
<1>3. candidate \in Candidate /\ candidate.corr = corr
  BY <1>1, RootAssumption DEF Candidate
<1> HIDE DEF tried
<1>c. /\ RootState(ready) /\ SameAccepted(tried, ready) /\ ready.attempt = corr.seq
      /\ ready.activeCorr = corr
  BY <1>a, <1>b, <1>2 DEF RootState, SameAccepted
<1> HIDE DEF ready, candidate
<1>4. Tried(ready, Submit(ready, candidate, FALSE, answer), corr)
        /\ Submit(ready, candidate, FALSE, answer).activeCorr = corr
  BY <1>1, <1>3, <1>c, SubmitTried
<1>5. Tried(tried, Rejected(tried), corr) /\ Rejected(tried).activeCorr = corr
  <2>1. ASSUME NEW status \in {"ready", "failed"}
        PROVE  LET t == [tried EXCEPT !.pending = NoCandidate, !.status = status]
               IN  /\ SameAccepted(tried, t) /\ t.attempt = corr.seq /\ t.activeCorr = corr
                   /\ t.pending = NoCandidate /\ t.status = status
    BY <1>2 DEF RootState, SameAccepted
  <2>2. QED BY <1>2, <2>1 DEF Rejected, Failed, Tried, Dropped
<1>6. \A t : Tried(tried, t, corr) \/ Tried(ready, t, corr) => Tried(s, t, corr)
  BY <1>2, <1>c DEF Tried, SameAccepted, Dropped, Accepted
<1>7. BeginWork(s, plan, prepared, answer)
        = IF prepared /\ Reservable(s, plan, corr) THEN Submit(ready, candidate, FALSE, answer)
                                                   ELSE Rejected(tried)
  BY DEF BeginWork, corr, tried, ready, candidate
<1>8. QED BY <1>4, <1>5, <1>6, <1>7 DEF corr

(* A transition that is rejected or abandoned drops its candidate. *)
LEMMA RejectedDropped ==
  ASSUME NEW s, RootState(s), NEW cancelled \in BOOLEAN
  PROVE  \A t \in {Failed(s), Rejected(s), Abandon(s, cancelled)} :
           /\ RootState(t) /\ SameAccepted(s, t) /\ Dropped(s, t)
           /\ t.attempt = s.attempt /\ t.activeCorr = s.activeCorr
<1>1. ASSUME NEW status \in {"ready", "failed"}
      PROVE  LET t == [s EXCEPT !.pending = NoCandidate, !.status = status]
             IN  /\ RootState(t) /\ SameAccepted(s, t) /\ t.attempt = s.attempt
                 /\ t.activeCorr = s.activeCorr /\ t.pending = NoCandidate /\ t.status = status
  BY NothingTypes DEF RootState, SameAccepted, Statuses
<1>2. \A t \in {Failed(s), Rejected(s)} :
           /\ RootState(t) /\ SameAccepted(s, t) /\ Dropped(s, t)
           /\ t.attempt = s.attempt /\ t.activeCorr = s.activeCorr
  BY <1>1 DEF Failed, Rejected, Dropped
<1>3. QED BY <1>2 DEF Abandon

(* A dropped transition leaves the accepted tree, and its work item was not committed. *)
LEMMA DroppedOwes ==
  ASSUME NEW s, RootState(s), Tree(s), s.status \notin Terminal, Told(s),
         s.active # {} => Pending(s), ~s.scheduled => s.active = {},
         NEW t, RootState(t), SameAccepted(s, t), Dropped(s, t), t.attempt = s.attempt,
         t.activeCorr = s.activeCorr
  PROVE  Tree(t) /\ Owes(t)
<1>1. Tree(t)
  BY TreeTypes, DroppedTree DEF SameAccepted, Dropped
<1>2. s.active # {} => s.activeCorr # s.accepted.corr
  BY TreeTypes DEF Told, Tree, Awaited
<1>3. Owes(t)
  BY <1>2 DEF Owes, Told, ActiveCommitted, SameAccepted, Dropped, Pending
<1>4. QED BY <1>1, <1>3

(* The cleanup of a generation counts for that generation alone. *)
LEMMA RetireFields ==
  ASSUME NEW s, RootState(s), NEW g
  PROVE  LET n == Retire(s, g) IN
         /\ RootState(n) /\ n.active = s.active
         /\ n.status = s.status /\ n.accepted = s.accepted /\ n.pending = s.pending
         /\ n.attempt = s.attempt /\ n.scheduled = s.scheduled
         /\ n.reported = s.reported /\ n.published = s.published /\ n.activeCorr = s.activeCorr
         /\ \A h \in 1 .. MaxGeneration :
              n.retired[h] = IF h = g THEN s.retired[h] + 1 ELSE s.retired[h]
<1>1. RootState(Retire(s, g))
  BY RetireType
<1>2. Retire(s, g).retired = [s.retired EXCEPT ![g] = @ + 1] /\ Retire(s, g).active = s.active
  BY DEF Retire, RootState
<1>3. LET n == Retire(s, g) IN
        /\ n.status = s.status /\ n.accepted = s.accepted /\ n.pending = s.pending
        /\ n.attempt = s.attempt /\ n.scheduled = s.scheduled
        /\ n.reported = s.reported /\ n.published = s.published /\ n.activeCorr = s.activeCorr
  BY DEF Retire, RootState
<1>4. s.retired \in [1 .. MaxGeneration -> Nat]
  BY TreeTypes
<1>5. QED BY <1>1, <1>2, <1>3, <1>4

(* A commit acknowledgement accepts the pending candidate, or ends the root. *)
LEMMA CommittedTree ==
  ASSUME NEW s, RootState(s), Tree(s), Told(s), Pending(s), s.status \notin Terminal,
         ~s.scheduled => s.active = {}, NEW cleaned \in BOOLEAN
  PROVE  LET t == Committed(s, cleaned)
         IN  /\ Tree(t) /\ Owes(t) /\ ~Pending(t) /\ t.attempt = s.attempt
             /\ IF s.status = "stopping"
                THEN t.accepted = s.accepted /\ t.status \in Terminal
                ELSE t.accepted = s.pending
<1>1. CASE s.status = "stopping"
  <2> DEFINE next == IF Accepted(s) THEN Retire(s, s.accepted.corr.gen) ELSE s
             t    == Disposed(s, cleaned)
  <2>1. /\ RootState(next) /\ next.active = s.active
        /\ next.status = s.status /\ next.accepted = s.accepted /\ next.pending = s.pending
        /\ next.attempt = s.attempt /\ next.scheduled = s.scheduled
        /\ next.reported = s.reported /\ next.published = s.published
        /\ next.activeCorr = s.activeCorr
        /\ \A h \in 1 .. MaxGeneration : next.retired[h] =
             IF Accepted(s) /\ h = s.accepted.corr.gen THEN s.retired[h] + 1 ELSE s.retired[h]
    <3>1. CASE Accepted(s)
      BY <3>1, RetireFields
    <3>2. CASE ~Accepted(s)
      BY <3>2
    <3>3. QED BY <3>1, <3>2
  <2> HIDE DEF next
  <2>2. ASSUME NEW status \in {"disposed", "failed"}
        PROVE  LET u == [next EXCEPT !.pending = NoCandidate, !.status = status]
               IN  /\ u.pending = NoCandidate /\ u.status = status /\ u.retired = next.retired
                   /\ u.accepted = s.accepted /\ u.attempt = s.attempt /\ u.active = s.active
                   /\ u.activeCorr = s.activeCorr /\ u.scheduled = s.scheduled
                   /\ u.reported = s.reported /\ u.published = s.published
    BY <2>1 DEF RootState
  <2>3. /\ t.pending = NoCandidate /\ t.status \in {"disposed", "failed"}
        /\ t.retired = next.retired
        /\ t.accepted = s.accepted /\ t.attempt = s.attempt /\ t.active = s.active
        /\ t.activeCorr = s.activeCorr /\ t.scheduled = s.scheduled
        /\ t.reported = s.reported /\ t.published = s.published
    BY <2>2 DEF Disposed, Failed, next
  <2> HIDE DEF t
  <2>4. ~Pending(t) /\ t.status \in Terminal
    BY <2>3 DEF Pending, Terminal
  <2>5. Standing(t) /\ Awaited(t)
    BY <2>3, <2>4 DEF Tree, Standing, Awaited, Busy, Accepted
  <2>6. CleanedUp(t)
    <3>1. ~Accepted(s) => s.accepted.corr.gen = 0
      BY DEF Accepted, NoCandidate, NoCorrelation
    <3>2. s.retired \in [1 .. MaxGeneration -> Nat] /\ s.accepted.corr.gen \in Nat
      BY TreeTypes
    <3> SUFFICES ASSUME NEW g \in 1 .. MaxGeneration
                 PROVE  /\ g < t.accepted.corr.gen => t.retired[g] = 1
                        /\ g > t.accepted.corr.gen => t.retired[g] = 0
                        /\ g = t.accepted.corr.gen => t.retired[g] = 1
      BY <2>3 DEF CleanedUp, Terminal
    <3>3. t.retired[g] =
             IF Accepted(s) /\ g = s.accepted.corr.gen THEN s.retired[g] + 1 ELSE s.retired[g]
      BY <2>1, <2>3
    <3>4. /\ g < s.accepted.corr.gen => s.retired[g] = 1
          /\ g > s.accepted.corr.gen => s.retired[g] = 0
          /\ g = s.accepted.corr.gen => s.retired[g] = 0
      BY DEF Tree, CleanedUp
    <3>5. g = s.accepted.corr.gen => Accepted(s)
      BY <3>1
    <3>6. QED BY <2>3, <3>2, <3>3, <3>4, <3>5
  <2>7. Owes(t)
    <3>1. s.active # {} => s.activeCorr # s.accepted.corr
      BY TreeTypes DEF Told, Tree, Awaited
    <3>2. QED BY <2>3, <2>4, <3>1 DEF Owes, Told, ActiveCommitted
  <2>8. Committed(s, cleaned) = t
    BY <1>1 DEF Committed, t
  <2>9. QED BY <1>1, <2>3, <2>4, <2>5, <2>6, <2>7, <2>8 DEF Tree
<1>2. CASE s.status # "stopping"
  <2> DEFINE replaced == Accepted(s) /\ s.pending.corr.op = "replace"
             base == IF replaced THEN Retire(s, s.accepted.corr.gen) ELSE s
             shown == base.published \cup ReceiptsOf(s.active)
             t    == Promoted(s, cleaned)
  <2>1. /\ RootState(base) /\ base.active = s.active
        /\ base.attempt = s.attempt /\ base.scheduled = s.scheduled
        /\ base.reported = s.reported /\ base.published = s.published
        /\ base.activeCorr = s.activeCorr
        /\ \A h \in 1 .. MaxGeneration : base.retired[h] =
             IF replaced /\ h = s.accepted.corr.gen THEN s.retired[h] + 1 ELSE s.retired[h]
    <3>1. CASE replaced
      BY <3>1, RetireFields
    <3>2. CASE ~replaced
      BY <3>2
    <3>3. QED BY <3>1, <3>2
  <2> HIDE DEF base
  <2>2. ASSUME NEW status \in {"ready", "failed"}
        PROVE  LET u == [[base EXCEPT !.accepted = s.pending, !.pending = NoCandidate,
                                      !.status = "ready", !.published = shown]
                           EXCEPT !.pending = NoCandidate, !.status = status]
               IN  /\ u.pending = NoCandidate /\ u.status = status /\ u.retired = base.retired
                   /\ u.accepted = s.pending /\ u.attempt = s.attempt /\ u.active = s.active
                   /\ u.activeCorr = s.activeCorr /\ u.scheduled = s.scheduled
                   /\ u.reported = s.reported
                   /\ u.published = s.published \cup ReceiptsOf(s.active)
    BY <2>1 DEF RootState
  <2>a. LET u == [base EXCEPT !.accepted = s.pending, !.pending = NoCandidate,
                                      !.status = "ready", !.published = shown]
               IN  /\ u.pending = NoCandidate /\ u.status = "ready" /\ u.retired = base.retired
                   /\ u.accepted = s.pending /\ u.attempt = s.attempt /\ u.active = s.active
                   /\ u.activeCorr = s.activeCorr /\ u.scheduled = s.scheduled
                   /\ u.reported = s.reported
                   /\ u.published = s.published \cup ReceiptsOf(s.active)
    BY <2>1 DEF RootState
  <2>3. /\ t.pending = NoCandidate /\ t.status \in {"ready", "failed"}
        /\ t.retired = base.retired
        /\ t.accepted = s.pending /\ t.attempt = s.attempt /\ t.active = s.active
        /\ t.activeCorr = s.activeCorr /\ t.scheduled = s.scheduled
        /\ t.reported = s.reported /\ t.published = s.published \cup ReceiptsOf(s.active)
    BY <2>2, <2>a DEF Promoted, Failed, base
  <2> HIDE DEF t
  <2>4. ~Pending(t) /\ Accepted(t)
    BY <2>3 DEF Pending, Accepted
  <2>b. Follows(s, s.pending.corr) /\ s.pending.corr.op # "dispose"
          /\ s.pending.corr.seq = s.attempt
    BY <1>2 DEF Tree, Awaited
  <2>5. Standing(t) /\ Awaited(t)
    <3>1. t.accepted.corr.gen >= 1 /\ t.accepted.corr.rev >= 1
      BY <2>3, <2>b, TreeTypes DEF Follows, Tree, Standing
    <3>2. QED BY <2>3, <2>4, <2>b, <3>1, TreeTypes DEF Standing, Awaited, Busy
  <2>6. CleanedUp(t)
    <3>2. s.retired \in [1 .. MaxGeneration -> Nat] /\ s.accepted.corr.gen \in Nat
            /\ s.pending.corr.gen \in Nat
      BY TreeTypes
    <3>a. ~Accepted(s) => s.accepted.corr.gen = 0
      BY DEF Accepted, NoCandidate, NoCorrelation
    <3> SUFFICES ASSUME NEW g \in 1 .. MaxGeneration
                 PROVE  /\ g < t.accepted.corr.gen => t.retired[g] = 1
                        /\ g > t.accepted.corr.gen => t.retired[g] = 0
                        /\ g = t.accepted.corr.gen => t.retired[g] = 0
      BY <2>3 DEF CleanedUp, Terminal
    <3>3. t.retired[g] =
             IF replaced /\ g = s.accepted.corr.gen THEN s.retired[g] + 1 ELSE s.retired[g]
      BY <2>1, <2>3
    <3>4. /\ g < s.accepted.corr.gen => s.retired[g] = 1
          /\ g > s.accepted.corr.gen => s.retired[g] = 0
          /\ g = s.accepted.corr.gen => s.retired[g] = 0
      BY DEF Tree, CleanedUp
    <3>5. CASE replaced
      <4>1. t.accepted.corr.gen = s.accepted.corr.gen + 1
        BY <2>3, <2>b, <3>5 DEF Follows
      <4>2. QED BY <3>2, <3>3, <3>4, <3>5, <4>1
    <3>6. CASE ~replaced
      <4>1. \/ t.accepted.corr.gen = s.accepted.corr.gen
            \/ s.accepted.corr.gen = 0 /\ t.accepted.corr.gen = 1
        BY <2>3, <2>b, <3>6, <3>a DEF Follows
      <4>2. QED BY <3>2, <3>3, <3>4, <3>6, <4>1
    <3>7. QED BY <3>5, <3>6
  <2>7. Owes(t)
    <3>1. ReceiptsOf({}) = {}
      BY DEF ReceiptsOf
    <3>2. s.active # {} => ActiveCommitted(t)
      BY <2>3, <2>4 DEF ActiveCommitted, Told
    <3>3. QED BY <2>3, <2>4, <3>1, <3>2 DEF Owes, Told
  <2>8. Committed(s, cleaned) = t
    BY <1>2 DEF Committed, t
  <2>9. QED BY <1>2, <2>3, <2>4, <2>5, <2>6, <2>7, <2>8 DEF Tree
<1>3. QED BY <1>1, <1>2

(* An operation that does not touch the tree leaves it settled. *)
LEMMA SameSettled ==
  ASSUME NEW s, NEW t, SameCourse(s, t)
  PROVE  Settled(s, t)
BY DEF SameCourse, Settled

(* A handler ends with settle/1: what holds of the tree before it holds after it. *)
LEMMA StepSettles ==
  ASSUME NEW s, RootState(s), NEW u, RootState(u), Tree(u), Owes(u), NEW r, Agrees(r, u),
         Moves(s, u)
  PROVE  LET t == Settle(u)
         IN  Tree(t) /\ Told(t) /\ Agrees(r, t) /\ Moves(s, t) /\ Settled(u, t)
<1> DEFINE t == Settle(u)
<1>1. Settled(u, t) /\ Told(t)
  BY SettleTold
<1> HIDE DEF t
<1>2. Tree(t) /\ Agrees(r, t)
  BY <1>1, SettledTree
<1>3. Moves(s, t)
  BY <1>1 DEF Settled, Moves, Pending
<1>4. QED BY <1>1, <1>2, <1>3 DEF t

(* A handler that tries a transition: what it leaves behind and what it asks of the port. *)
LEMMA TriedSettles ==
  ASSUME NEW s, RootState(s), Tree(s), s.status \notin Terminal, s.reported = s.published,
         NEW u, RootState(u), NEW corr, Follows(s, corr), corr.seq = s.attempt + 1,
         Tried(s, u, corr), u.active # {} => u.activeCorr = corr, ~u.scheduled => u.active = {},
         NEW r \in RendererState, Agrees(r, s), NEW cancels \in BOOLEAN, cancels <=> Pending(s)
  PROVE  LET t == Settle(u)
         IN  Tree(t) /\ Told(t) /\ Agrees(Ported(r, s, t, cancels), t) /\ Moves(s, t)
<1> DEFINE freed == IF Pending(s) THEN CancelTx(r) ELSE r
           port  == IF Pending(u) THEN SubmitTo(freed, u.pending.corr) ELSE freed
           t     == Settle(u)
<1>1. Tree(u) /\ Owes(u) /\ Agrees(port, u)
  BY TriedAgrees
<1>2. Moves(s, u)
  BY TreeTypes DEF Tried, SameAccepted, Moves
<1> HIDE DEF port, t
<1>3. Tree(t) /\ Told(t) /\ Agrees(port, t) /\ Moves(s, t) /\ Settled(u, t)
  BY <1>1, <1>2, StepSettles DEF t
<1>4. t.pending = u.pending
  BY <1>3 DEF Settled
<1>5. Pending(u) => u.pending # s.pending
  <2>1. SUFFICES ASSUME Pending(u), u.pending = s.pending PROVE FALSE
    OBVIOUS
  <2>2. u.pending.corr.seq = u.attempt /\ s.pending.corr.seq = s.attempt
    BY <1>1, <2>1 DEF Tree, Awaited, Pending
  <2>3. u.attempt = s.attempt + 1
    BY DEF Tried
  <2>4. QED BY <2>1, <2>2, <2>3, TreeTypes
<1>6. Ported(r, s, t, cancels) = port
  BY <1>4, <1>5 DEF Ported, Pending, port
<1>7. QED BY <1>3, <1>6 DEF t

(* A handler that ends the pending transition without a commit. *)
LEMMA DroppedSettles ==
  ASSUME NEW s, RootState(s), Tree(s), s.status \notin Terminal, Told(s),
         s.active # {} => Pending(s), ~s.scheduled => s.active = {},
         NEW u, RootState(u), SameAccepted(s, u), Dropped(s, u), u.attempt = s.attempt,
         u.activeCorr = s.activeCorr,
         NEW r \in RendererState, Agrees(r, s), NEW p,
         \/ p = CancelTx(r) /\ Pending(s)
         \/ p = r /\ (r.phase = "idle" \/ u.status = "failed" \/ ~Pending(s))
  PROVE  LET t == Settle(u)
         IN  Tree(t) /\ Told(t) /\ Agrees(p, t) /\ Moves(s, t)
<1>1. Tree(u) /\ Owes(u)
  BY DroppedOwes
<1>2. Moves(s, u)
  BY DEF SameAccepted, Moves
<1>3. Agrees(p, u)
  <2>1. ~Pending(u) /\ u.accepted = s.accepted /\ u.attempt >= s.attempt
    BY TreeTypes DEF SameAccepted, Dropped, Pending
  <2>2. CASE u.status = "failed"
    BY <2>1, <2>2, AgreesTerminal DEF Terminal
  <2>3. CASE u.status # "failed"
    BY <2>1, <2>3, AgreesFreed
  <2>4. QED BY <2>2, <2>3
<1>4. QED BY <1>1, <1>2, <1>3, StepSettles

(* cancel_owned/2 leaves the tree alone, unless it stops the tick being evaluated. *)
LEMMA CancelOwnedCourse ==
  ASSUME NEW s, RootState(s), NEW item, NEW cancelled \in BOOLEAN
  PROVE  LET t == CancelOwned(s, item, cancelled)
         IN  \/ SameCourse(s, t) /\ t.active = s.active
             \/ /\ t.active = {} /\ t.accepted = s.accepted /\ t.retired = s.retired
                /\ t.scheduled = s.scheduled /\ t.attempt = s.attempt
                /\ t.reported = s.reported /\ t.published = s.published
                /\ IF Pending(s)
                   THEN Dropped(s, t) /\ (~cancelled => t.status = "failed")
                   ELSE t.pending = s.pending /\ t.status = s.status
<1> DEFINE key     == Key(item)
           owned   == {i \in s.queue : i.kind \in {"timer_start", "timer_tick"} /\ Key(i) = key}
           told    == Outcome(s, owned)
           base    == Cancelled(told, {key})
           voided  == [k \in DOMAIN base.timers |->
                         IF base.timers[k].kind = "timer_start" /\ Key(base.timers[k]) = key
                         THEN [base.timers[k] EXCEPT !.kind = "void"]
                         ELSE base.timers[k]]
           dropped == [base EXCEPT !.queue = base.queue \ owned, !.timers = voided]
           told2   == Outcome(dropped, s.active)
           freed   == Finish(told2)
           stopped == [freed EXCEPT
                         !.activeCorr = NoCorrelation, !.messages = <<>>, !.timers = <<>>]
           ticking == \E i \in s.active : i.kind = "timer_tick" /\ Key(i) = key
           next    == CASE ~ticking -> dropped
                        [] ticking /\ Pending(s) -> Abandon(stopped, cancelled)
                        [] OTHER -> stopped
           t       == Outcome(next, {item})
<1>1. /\ RootState(told) /\ SameCourse(s, told) /\ told.active = s.active
      /\ RootState(base) /\ SameCourse(told, base) /\ base.active = told.active
  <2>1. RootState(told) /\ SameCourse(s, told) /\ told.active = s.active
    BY OutcomeType, ScheduleCourse, OutcomeBooks DEF Books
  <2> HIDE DEF told
  <2>2. RootState(base) /\ SameCourse(told, base) /\ base.active = told.active
    BY <2>1, CancelledType, ScheduleCourse, TimerBooks DEF Books
  <2>3. QED BY <2>1, <2>2
<1>2. RootState(dropped) /\ SameCourse(base, dropped) /\ dropped.active = base.active
  <2>1. base.timers \in Seq(Item)
    BY <1>1 DEF RootState
  <2>2. ASSUME NEW i \in Item PROVE [i EXCEPT !.kind = "void"] \in Item
    BY DEF Item, Kinds
  <2> HIDE DEF base, key, owned
  <2>3. voided \in Seq(Item)
    BY <2>1, <2>2
  <2> HIDE DEF voided
  <2>4. QED BY <1>1, <2>3 DEF RootState, SameCourse
<1>3. SameCourse(s, dropped) /\ dropped.active = s.active
  BY <1>1, <1>2 DEF SameCourse
<1> HIDE DEF dropped
<1>4. /\ RootState(told2) /\ SameCourse(dropped, told2)
      /\ RootState(freed) /\ SameCourse(told2, freed) /\ freed.active = {}
  <2>1. RootState(told2) /\ SameCourse(dropped, told2)
    BY <1>2, OutcomeType, ScheduleCourse
  <2> HIDE DEF told2
  <2>2. RootState(freed) /\ SameCourse(told2, freed) /\ freed.active = {}
    BY <2>1, FinishType, ScheduleCourse, FinishBooks DEF Books
  <2>3. QED BY <2>1, <2>2
<1> HIDE DEF freed
<1>5. /\ RootState(stopped) /\ stopped.active = {} /\ stopped.accepted = freed.accepted
      /\ stopped.pending = freed.pending /\ stopped.status = freed.status
      /\ stopped.retired = freed.retired /\ stopped.scheduled = freed.scheduled
      /\ stopped.attempt = freed.attempt /\ stopped.reported = freed.reported
      /\ stopped.published = freed.published
  <2>1. <<>> \in Seq(Item)
    OBVIOUS
  <2>2. QED BY <1>4, <2>1, NothingTypes DEF RootState
<1>6. /\ stopped.accepted = s.accepted /\ stopped.pending = s.pending
      /\ stopped.status = s.status /\ stopped.retired = s.retired
      /\ stopped.scheduled = s.scheduled /\ stopped.attempt = s.attempt
      /\ stopped.reported = s.reported /\ stopped.published = s.published
  BY <1>3, <1>4, <1>5 DEF SameCourse
<1> HIDE DEF stopped
<1>7. LET a == Abandon(stopped, cancelled)
      IN  /\ RootState(a) /\ SameAccepted(stopped, a) /\ Dropped(stopped, a)
          /\ a.attempt = stopped.attempt /\ (~cancelled => a.status = "failed")
  <2>1. LET a == Abandon(stopped, cancelled)
        IN  /\ RootState(a) /\ SameAccepted(stopped, a) /\ Dropped(stopped, a)
            /\ a.attempt = stopped.attempt
    BY <1>5, RejectedDropped
  <2>2. ~cancelled => Abandon(stopped, cancelled).status = "failed"
    BY <1>5 DEF Abandon, Failed, RootState
  <2>3. QED BY <2>1, <2>2
<1>8. \/ RootState(next) /\ SameCourse(s, next) /\ next.active = s.active
      \/ /\ RootState(next)
         /\ next.active = {} /\ next.accepted = s.accepted /\ next.retired = s.retired
         /\ next.scheduled = s.scheduled /\ next.attempt = s.attempt
         /\ next.reported = s.reported /\ next.published = s.published
         /\ IF Pending(s)
            THEN Dropped(s, next) /\ (~cancelled => next.status = "failed")
            ELSE next.pending = s.pending /\ next.status = s.status
  <2>1. CASE ~ticking
    BY <1>2, <1>3, <2>1
  <2>2. CASE ticking /\ Pending(s)
    BY <1>5, <1>6, <1>7, <2>2 DEF SameAccepted, Dropped, Accepted
  <2>3. CASE ticking /\ ~Pending(s)
    BY <1>5, <1>6, <2>3
  <2>4. QED BY <2>1, <2>2, <2>3
<1>9. CancelOwned(s, item, cancelled) = t
  BY DEF CancelOwned, stopped, freed, dropped
<1> HIDE DEF next
<1>10. SameCourse(next, t) /\ t.active = next.active
  BY <1>8, ScheduleCourse, OutcomeBooks DEF Books
<1>11. QED BY <1>8, <1>9, <1>10 DEF SameCourse, Dropped

(* Admitting an envelope does not touch the tree. *)
LEMMA AdmittedCourse ==
  ASSUME NEW s, RootState(s), NEW envelope
  PROVE  SameCourse(s, Admitted(s, envelope)) /\ Admitted(s, envelope).active = s.active
BY DEF SameCourse, Admitted, Inserted, RootState

-----------------------------------------------------------------------------
(* A root process and its port start in agreement. *)
LEMMA InitTree == Init => TreeInv
<1> SUFFICES ASSUME Init PROVE TreeInv
  OBVIOUS
<1>1. /\ root.status = "starting" /\ root.accepted = NoCandidate /\ root.pending = NoCandidate
      /\ root.attempt = 0 /\ root.active = {} /\ root.reported = {} /\ root.published = {}
      /\ root.retired = [g \in 1 .. MaxGeneration |-> 0]
      /\ renderer.tx = NoCorrelation /\ renderer.phase = "idle" /\ renderer.acks = {}
      /\ renderer.shown = NoCorrelation
  BY DEF Init
<1>2. NoCandidate.corr = NoCorrelation /\ NoCorrelation.seq = 0 /\ NoCorrelation.gen = 0
  BY DEF NoCandidate, NoCorrelation
<1>3. Standing(root) /\ Awaited(root)
  BY <1>1, <1>2 DEF Standing, Awaited, Pending, Accepted, Busy
<1>4. CleanedUp(root)
  BY <1>1, <1>2, RootAssumption DEF CleanedUp
<1>5. Told(root) /\ Agrees(renderer, root)
  BY <1>1, <1>2 DEF Told, Agrees, Pending
<1>6. QED BY InitIInv, <1>3, <1>4, <1>5 DEF TreeInv, Tree

(* Every handler and every answer of the port keeps root and port in agreement, and a terminal
   root changes no more. *)
LEMMA NextTree ==
  TreeInv /\ [Next]_vars =>
    /\ TreeInv'
    /\ UNCHANGED root \/ (root.status \notin Terminal /\ Moves(root, root'))
<1> SUFFICES ASSUME RootState(root), renderer \in RendererState, Ledger(root, {}), Quiet(root),
                    Tree(root), Told(root), Agrees(renderer, root), [Next]_vars,
                    RootState(root')
             PROVE  /\ Tree(root') /\ Told(root') /\ Agrees(renderer', root')
                    /\ UNCHANGED root \/ (root.status \notin Terminal /\ Moves(root, root'))
  <2>1. IInv /\ [Next]_vars => IInv'
    BY NextIInv
  <2>2. RootState(root)' <=> RootState(root')
    BY DEF RootState
  <2>3. Tree(root)' <=> Tree(root')
    BY DEF Tree, Standing, Awaited, CleanedUp, Pending, Accepted, Follows
  <2>4. Told(root)' <=> Told(root')
    BY DEF Told
  <2>5. Agrees(renderer, root)' <=> Agrees(renderer', root')
    BY DEF Agrees, Pending
  <2>6. QED BY <2>1, <2>2, <2>3, <2>4, <2>5 DEF TreeInv, IInv, TypeOK
<1> DEFINE Kept == Tree(root') /\ Told(root') /\ Agrees(renderer', root') /\ Moves(root, root')
<1> HIDE DEF Kept
<1> USE DEF Answers
<1>a. root.active # {} => Pending(root)
  BY DEF Quiet
<1>b. ~root.scheduled => root.active = {}
  BY DEF Quiet, Live
<1>c. root.reported = root.published
  BY DEF Told
<1>d. root.status = "starting" => ~Pending(root) /\ ~Accepted(root)
  BY DEF Tree, Standing, Busy
<1>e. root.status = "ready" => ~Pending(root) /\ Accepted(root)
  BY DEF Tree, Standing, Busy
<1>f. Terminal = {"disposed", "failed", "broken"}
  BY DEF Terminal
(* A handler that does not touch the tree. *)
<1>g. ASSUME NEW u, RootState(u), SameCourse(root, u), u.active = root.active
      PROVE  LET t == Settle(u)
             IN  Tree(t) /\ Told(t) /\ Agrees(renderer, t) /\ Moves(root, t)
  <2>1. Settled(root, u)
    BY <1>g, SameSettled
  <2>2. Tree(u) /\ Agrees(renderer, u)
    BY <2>1, SettledTree
  <2>3. Owes(u)
    BY <1>g, <1>a, <1>b, <1>c DEF SameCourse, Owes, Told, Pending
  <2>4. Moves(root, u)
    BY <1>g, TreeTypes DEF SameCourse, Moves
  <2>5. QED BY <1>g, <2>2, <2>3, <2>4, StepSettles
(* The same with the active slot emptied on the way. *)
<1>h. ASSUME NEW u, RootState(u), Settled(root, u), u.reported = root.reported, u.active = {}
      PROVE  LET t == Settle(u)
             IN  Tree(t) /\ Told(t) /\ Agrees(renderer, t) /\ Moves(root, t)
  <2>2. Tree(u) /\ Agrees(renderer, u)
    BY <1>h, SettledTree
  <2>3. Owes(u)
    BY <1>h, <1>c DEF Settled, Owes
  <2>4. Moves(root, u)
    BY <1>h, TreeTypes DEF Settled, Moves
  <2>5. QED BY <1>h, <2>2, <2>3, <2>4, StepSettles
<1>1. CASE Boot
  <2>1. PICK plan \in Plans, prepared \in BOOLEAN, answer \in Answers :
           root' = Settle(Begin(root, "mount", plan, prepared, answer))
    BY <1>1 DEF Boot
  <2> DEFINE u == Begin(root, "mount", plan, prepared, answer)
             corr == NextCorrelation(root, "mount")
  <2>2. root.status = "starting" /\ renderer' = Ported(renderer, root, root', FALSE)
    BY <1>1 DEF Boot
  <2>3. Tried(root, u, corr) /\ u.activeCorr = root.activeCorr /\ RootState(u)
    BY BeginTried, BeginType DEF Operations
  <2>4. Follows(root, corr) /\ corr.seq = root.attempt + 1
    BY <1>d, <2>2, NextFollows
  <2>5. u.active = {}
    BY <1>a, <1>d, <2>2, <2>3 DEF Tried, SameAccepted
  <2> HIDE DEF u, corr
  <2>6. Kept
    BY <1>c, <1>d, <1>f, <2>1, <2>2, <2>3, <2>4, <2>5, TriedSettles DEF u, Kept
  <2>7. QED BY <1>f, <2>2, <2>6 DEF Kept
<1>2. ASSUME NEW seq \in 1 .. root.attempt, Deadline(seq)
      PROVE  Kept /\ root.status \notin Terminal
  <2>1. PICK cancelled \in BOOLEAN :
          /\ root' = Settle(Abandon(root, cancelled))
          /\ renderer' = IF cancelled THEN CancelTx(renderer) ELSE renderer
    BY <1>2 DEF Deadline
  <2> DEFINE u == Abandon(root, cancelled)
  <2>2. Pending(root) /\ root.status \notin Terminal
    BY <1>2 DEF Deadline, Running
  <2>3. RootState(u) /\ SameAccepted(root, u) /\ Dropped(root, u) /\ u.attempt = root.attempt
          /\ u.activeCorr = root.activeCorr
    BY RejectedDropped
  <2>4. ~cancelled => u.status = "failed"
    BY DEF Abandon, Failed, RootState
  <2> HIDE DEF u
  <2>5. QED BY <1>a, <1>b, <2>1, <2>2, <2>3, <2>4, DroppedSettles DEF u, Kept
<1>3. CASE DrainNothing
  <2> DEFINE u == [root EXCEPT !.drain = FALSE]
  <2>1. root' = u /\ renderer' = renderer /\ root.status \notin Terminal
    BY <1>3 DEF DrainNothing, Drains, Running
  <2>2. SameCourse(root, u) /\ u.active = root.active
    BY DEF SameCourse, RootState
  <2> HIDE DEF u
  <2>3. Tree(u) /\ Agrees(renderer, u)
    BY <2>2, SameSettled, SettledTree
  <2>4. Told(u) /\ Moves(root, u)
    BY <2>2, TreeTypes DEF SameCourse, Told, Moves
  <2>5. QED BY <2>1, <2>3, <2>4
<1>i. ASSUME CanDrain
      PROVE  /\ RootState(Selected) /\ SameCourse(root, Selected)
             /\ Selected.active = {Oldest(root.queue)} /\ root.active = {}
             /\ root.scheduled /\ root.status = "ready" /\ Oldest(root.queue) \in Item
  <2>1. root.status = "ready" /\ root.queue # {} /\ root.active = {}
    BY <1>i, <1>a DEF CanDrain
  <2>2. root.scheduled
    BY <2>1 DEF Quiet, Live
  <2>3. SameCourse(root, Selected) /\ Selected.active = {Oldest(root.queue)}
    BY DEF Selected, Select, SameCourse, RootState
  <2>4. QED BY <2>1, <2>2, <2>3, SelectedType
<1>4. CASE DrainRefused
  <2> DEFINE item  == Oldest(root.queue)
             told  == Outcome(Selected, {item})
             freed == Finish(told)
             next  == FinishedTick(freed, item)
             u     == [next EXCEPT !.drain = TRUE]
  <2>1. CanDrain /\ root' = u /\ renderer' = renderer
    BY <1>4 DEF DrainRefused
  <2>2. RootState(Selected) /\ SameCourse(root, Selected) /\ root.active = {}
          /\ root.status = "ready"
    BY <1>i, <2>1
  <2>3. RootState(told) /\ SameCourse(root, told)
    BY <2>2, OutcomeType, ScheduleCourse DEF SameCourse
  <2> HIDE DEF told
  <2>4. RootState(freed) /\ SameCourse(root, freed) /\ freed.active = {}
    <3>1. SameCourse(told, freed)
      BY <2>3, ScheduleCourse
    <3>2. freed.active = {}
      BY <2>3 DEF Finish, RootState
    <3>3. QED BY <2>3, <3>1, <3>2, FinishType DEF SameCourse
  <2> HIDE DEF freed
  <2>5. RootState(next) /\ SameCourse(root, next) /\ next.active = {}
    <3>1. SameCourse(freed, next)
      BY <2>4, ScheduleCourse
    <3>2. next.active = {}
      BY <2>4, TimerBooks DEF Books
    <3>3. QED BY <2>4, <3>1, <3>2, FinishedTickType DEF SameCourse
  <2> HIDE DEF next
  <2>6. SameCourse(root, u) /\ u.active = {}
    BY <2>5 DEF SameCourse, RootState
  <2> HIDE DEF u
  <2>7. Tree(u) /\ Agrees(renderer, u)
    BY <2>6, SameSettled, SettledTree
  <2>8. Told(u) /\ Moves(root, u)
    BY <2>6, TreeTypes DEF SameCourse, Told, Moves
  <2>9. QED BY <1>f, <2>1, <2>2, <2>7, <2>8
<1>5. CASE DrainTimerStart
  <2> DEFINE item == Oldest(root.queue)
             next == IF Preflight(Selected, <<item>>) THEN AppliedTimers(Selected, <<item>>)
                                                      ELSE Selected
             told == Outcome(next, {item})
             u    == Finish(told)
  <2>1. CanDrain /\ root' = Settle(u) /\ renderer' = renderer
    BY <1>5 DEF DrainTimerStart
  <2>2. RootState(Selected) /\ SameCourse(root, Selected) /\ root.active = {}
          /\ root.status = "ready" /\ item \in Item
    BY <1>i, <2>1
  <2>3. RootState(next) /\ SameCourse(root, next)
    <3>1. <<item>> \in Seq(Item)
      BY <2>2
    <3> HIDE DEF item
    <3>2. SameCourse(Selected, AppliedTimers(Selected, <<item>>))
      BY <2>2, ScheduleCourse
    <3>3. QED BY <2>2, <3>1, <3>2, AppliedTimersType DEF SameCourse
  <2> HIDE DEF next
  <2>4. RootState(told) /\ SameCourse(root, told)
    BY <2>3, OutcomeType, ScheduleCourse DEF SameCourse
  <2> HIDE DEF told
  <2>5. RootState(u) /\ SameCourse(root, u) /\ u.active = root.active
    <3>1. SameCourse(told, u)
      BY <2>4, ScheduleCourse
    <3>2. u.active = {}
      BY <2>4 DEF Finish, RootState
    <3>3. QED BY <2>2, <2>4, <3>1, <3>2, FinishType DEF SameCourse
  <2> HIDE DEF u
  <2>6. QED BY <1>f, <1>g, <2>1, <2>2, <2>5
<1>6. CASE DrainWork
  <2>1. PICK plan \in Plans, prepared \in BOOLEAN, answer \in Answers :
           root' = Settle(BeginWork(Selected, plan, prepared, answer))
    BY <1>6 DEF DrainWork
  <2> DEFINE s == Selected
             u == BeginWork(s, plan, prepared, answer)
             corr == NextCorrelation(s, "update")
  <2>2. CanDrain /\ renderer' = Ported(renderer, root, root', FALSE)
    BY <1>6 DEF DrainWork
  <2>3. RootState(s) /\ SameCourse(root, s) /\ root.scheduled /\ root.status = "ready"
    BY <1>i, <2>2
  <2> HIDE DEF s
  <2>4. /\ s.scheduled /\ ~Pending(s) /\ s.status \notin Terminal /\ Accepted(s)
        /\ s.reported = s.published /\ s.pending = root.pending /\ s.attempt = root.attempt
        /\ s.accepted = root.accepted
    BY <1>c, <1>e, <1>f, <2>3 DEF SameCourse, Pending, Accepted
  <2>5. Tree(s) /\ Agrees(renderer, s)
    BY <2>3, SameSettled, SettledTree
  <2>6. Tried(s, u, corr) /\ u.activeCorr = corr /\ RootState(u)
    BY <2>3, BeginWorkTried, BeginWorkType
  <2>7. Follows(s, corr) /\ corr.seq = s.attempt + 1
    BY <2>3, <2>4, NextFollows
  <2>8. u.scheduled
    BY <2>4, <2>6 DEF Tried, SameAccepted
  <2>9. root' = Settle(u)
    BY <2>1 DEF s
  <2> HIDE DEF u, corr
  <2>10. LET t == Settle(u)
         IN  Tree(t) /\ Told(t) /\ Agrees(Ported(renderer, s, t, FALSE), t) /\ Moves(s, t)
    BY <2>3, <2>4, <2>5, <2>6, <2>7, <2>8, TriedSettles
  <2>11. Ported(renderer, root, root', FALSE) = Ported(renderer, s, root', FALSE)
    BY <2>4 DEF Ported
  <2>12. Moves(root, root')
    BY <2>4, <2>9, <2>10 DEF Moves, Pending
  <2>13. QED BY <1>f, <2>2, <2>3, <2>9, <2>10, <2>11, <2>12
<1>7. ASSUME NEW key \in DOMAIN root.entries, NEW epoch, NEW tick, OwnedTick(key, epoch, tick)
      PROVE  Kept /\ root.status \notin Terminal
  <2> DEFINE item  == TickItem(root, key)
             fired == Fired(root, key)
  <2>1. root.status \notin Terminal /\ renderer' = renderer
    BY <1>7 DEF OwnedTick, Running
  <2>2. RootState(fired) /\ item \in Item /\ SameCourse(root, fired) /\ fired.active = root.active
    BY FiredType, ScheduleCourse, TimerBooks DEF Books
  <2>3. InternalFits(root, item) => Headroom(fired, 1 + fired.reserved)
    <3>1. fired.receipt = root.receipt /\ fired.reserved = root.reserved
            /\ fired.slots = root.slots
      BY DEF Fired, RootState
    <3>2. QED BY <3>1 DEF InternalFits, Headroom
  <2>4. /\ RootState(Cancelled(root, {key})) /\ SameCourse(root, Cancelled(root, {key}))
        /\ Cancelled(root, {key}).active = root.active
    BY CancelledType, ScheduleCourse, TimerBooks DEF Books
  <2> HIDE DEF fired, item
  <2>5. ASSUME InternalFits(root, item)
        PROVE  LET u == Internal(fired, item) IN
               RootState(u) /\ SameCourse(root, u) /\ u.active = root.active
    <3>1. RootState(Internal(fired, item))
      BY <2>2, <2>3, <2>5, InternalType
    <3>2. SameCourse(fired, Internal(fired, item)) /\ Internal(fired, item).active = fired.active
      BY <2>2, ScheduleCourse DEF Internal, RootState
    <3>3. QED BY <2>2, <3>1, <3>2 DEF SameCourse
  <2>6. LET u == FinishedTick(fired, item) IN
               RootState(u) /\ SameCourse(root, u) /\ u.active = root.active
    <3>1. SameCourse(fired, FinishedTick(fired, item)) /\ FinishedTick(fired, item).active = fired.active
      BY <2>2, ScheduleCourse, TimerBooks DEF Books
    <3>2. QED BY <2>2, <3>1, FinishedTickType DEF SameCourse
  <2>7. \E u : RootState(u) /\ SameCourse(root, u) /\ u.active = root.active /\ root' = Settle(u)
    BY <1>7, <2>4, <2>5, <2>6 DEF OwnedTick, item, fired
  <2>8. QED BY <1>g, <2>1, <2>7 DEF Kept
<1>8. ASSUME NEW ack \in renderer.acks, NEW cleaned \in BOOLEAN, Ack(ack, cleaned)
      PROVE  Kept /\ root.status \notin Terminal
  <2>1. /\ root.status \notin Terminal /\ Pending(root) /\ ack.corr = root.pending.corr
        /\ renderer' = renderer
    BY <1>8 DEF Ack, Running
  <2>2. CASE ack.result = "committed"
    <3> DEFINE u == Committed(root, cleaned)
    <3>1. root' = Settle(u)
      BY <1>8, <2>2 DEF Ack
    <3>2. /\ Tree(u) /\ Owes(u) /\ ~Pending(u) /\ u.attempt = root.attempt
          /\ IF root.status = "stopping"
             THEN u.accepted = root.accepted /\ u.status \in Terminal
             ELSE u.accepted = root.pending
      BY <1>b, <2>1, CommittedTree
    <3>3. RootState(u)
      BY CommittedType
    <3> HIDE DEF u
    <3>4. renderer.phase = "committed" /\ renderer.shown = Display(root.pending.corr)
      BY <2>1, <2>2 DEF Agrees
    <3>5. root.pending.corr.op = "dispose" <=> root.status = "stopping"
      BY <2>1 DEF Tree, Awaited
    <3>6. Agrees(renderer, u)
      <4>1. CASE root.status = "stopping"
        BY <3>2, <3>3, <4>1, TreeTypes, AgreesTerminal
      <4>2. CASE root.status # "stopping"
        <5>1. renderer.shown = u.accepted.corr
          BY <3>2, <3>4, <3>5, <4>2 DEF Display
        <5>2. renderer.tx.seq <= u.attempt /\ \A a \in renderer.acks : a.corr.seq <= u.attempt
          BY <3>2 DEF Agrees
        <5>3. QED BY <3>2, <3>4, <5>1, <5>2 DEF Agrees
      <4>3. QED BY <4>1, <4>2
    <3>7. Moves(root, u)
      BY <2>1, <3>2, <3>5 DEF Moves
    <3>8. QED BY <2>1, <3>1, <3>2, <3>3, <3>6, <3>7, StepSettles DEF Kept
  <2>3. CASE ack.result # "committed"
    <3> DEFINE u == Rejected(root)
    <3>1. root' = Settle(u)
      BY <1>8, <2>3 DEF Ack
    <3>2. RootState(u) /\ SameAccepted(root, u) /\ Dropped(root, u) /\ u.attempt = root.attempt
            /\ u.activeCorr = root.activeCorr
      BY RejectedDropped
    <3> HIDE DEF u
    <3>3. renderer.phase = "idle"
      BY <2>1, <2>3 DEF Agrees
    <3>4. QED BY <1>a, <1>b, <2>1, <3>1, <3>2, <3>3, DroppedSettles DEF Kept
  <2>4. QED BY <2>2, <2>3
<1>9. ASSUME NEW template \in Envelopes, NEW generation, NEW revision,
             NEW sequence \in {root.producers[template.producer],
                               root.producers[template.producer] + 1},
             NEW cancelled \in BOOLEAN, Enqueue(template, generation, revision, sequence, cancelled)
      PROVE  Kept /\ root.status \notin Terminal
  <2> DEFINE item     == [template EXCEPT !.gen = generation]
             received == [item EXCEPT !.receipt = root.receipt + 1]
             envelope == [item |-> item, rev |-> revision, sequence |-> sequence]
             entered  == Admitted(root, envelope)
             admitted == Outcome(entered,
                           IF item.kind = "timer_cancel" THEN {} ELSE Superseded(root, item))
             next     == IF item.kind = "timer_cancel"
                         THEN CancelOwned(admitted, received, cancelled) ELSE admitted
             last     == [next EXCEPT !.drain = TRUE]
  <2>1. /\ Admissible(root, envelope, root.accepted.corr.gen, root.accepted.corr.rev,
                      root.accepted.comps)
        /\ root.scheduled /\ root.status \in {"ready", "awaiting_commit"} /\ Accepted(root)
        /\ root' = Settle(last)
        /\ renderer' = Ported(renderer, root, root', cancelled /\ Pending(root) /\ ~Pending(root'))
    BY <1>9 DEF Enqueue
  <2>2. template \in Item /\ template.producer \in Producers
    BY RootAssumption
  <2>3. generation \in Nat
    <3>1. item.gen = root.accepted.corr.gen
      BY <2>1 DEF Admissible, ValidDispatch
    <3>2. item.gen = generation
      BY <2>2 DEF Item
    <3>3. QED BY <3>1, <3>2, TreeTypes
  <2>4. item \in Item
    BY <2>2, <2>3 DEF Item
  <2>5. sequence \in Nat
    <3>1. root.producers[template.producer] \in Nat
      BY <2>2 DEF RootState
    <3>2. QED BY <3>1
  <2>6. RootState(entered)
    <3>1. envelope.item \in Item /\ envelope.sequence \in Nat
      BY <2>4, <2>5
    <3> HIDE DEF envelope
    <3>2. QED BY <2>1, <3>1, AdmittedType
  <2> HIDE DEF envelope
  <2>7. SameCourse(root, entered) /\ entered.active = root.active
    BY AdmittedCourse
  <2> HIDE DEF entered, last, received
  <2>8. RootState(admitted) /\ SameCourse(root, admitted) /\ admitted.active = root.active
    <3>1. SameCourse(entered, admitted) /\ admitted.active = entered.active
      BY <2>6, ScheduleCourse, OutcomeBooks DEF Books
    <3>2. QED BY <2>6, <2>7, <3>1, OutcomeType DEF SameCourse
  <2> HIDE DEF admitted
  <2>9. RootState(next)
    BY <2>8, CancelOwnedType
  <2> HIDE DEF item
  <2>10. \/ SameCourse(root, next) /\ next.active = root.active
         \/ /\ next.active = {} /\ next.accepted = root.accepted /\ next.retired = root.retired
            /\ next.scheduled = root.scheduled /\ next.attempt = root.attempt
            /\ next.reported = root.reported /\ next.published = root.published
            /\ IF Pending(root)
               THEN Dropped(root, next) /\ (~cancelled => next.status = "failed")
               ELSE next.pending = root.pending /\ next.status = root.status
    BY <2>8, CancelOwnedCourse DEF SameCourse, Pending, Dropped, Accepted
  <2> HIDE DEF next
  <2>11. /\ RootState(last) /\ last.active = next.active /\ last.accepted = next.accepted
         /\ last.retired = next.retired /\ last.scheduled = next.scheduled
         /\ last.attempt = next.attempt /\ last.reported = next.reported
         /\ last.published = next.published /\ last.pending = next.pending
         /\ last.status = next.status /\ last.activeCorr = next.activeCorr
    BY <2>9 DEF RootState, last
  <2>12. root.status \notin Terminal
    BY <1>f, <2>1
  <2>13. CASE SameCourse(root, next) /\ next.active = root.active
    <3>1. SameCourse(root, last) /\ last.active = root.active
      BY <2>11, <2>13 DEF SameCourse
    <3>2. Settled(last, root')
      <4>1. Tree(last) /\ Agrees(renderer, last)
        BY <3>1, SameSettled, SettledTree
      <4>2. Owes(last)
        BY <3>1, <1>a, <1>b, <1>c DEF SameCourse, Owes, Told, Pending
      <4>3. QED BY <2>1, <2>11, <4>2, SettleTold
    <3>3. root'.pending = root.pending
      BY <3>1, <3>2 DEF SameCourse, Settled
    <3>4. renderer' = renderer
      BY <2>1, <3>3 DEF Ported, Pending
    <3>5. QED BY <1>g, <2>1, <2>11, <2>12, <3>1, <3>4 DEF Kept
  <2>14. CASE /\ next.active = {} /\ next.accepted = root.accepted /\ next.retired = root.retired
              /\ next.scheduled = root.scheduled /\ next.attempt = root.attempt
              /\ next.reported = root.reported /\ next.published = root.published
              /\ ~Pending(root) /\ next.pending = root.pending /\ next.status = root.status
    <3>1. Settled(root, last)
      BY <2>11, <2>14 DEF Settled
    <3>2. /\ Tree(root') /\ Told(root') /\ Agrees(renderer, root') /\ Moves(root, root')
      BY <1>h, <2>1, <2>11, <2>14, <3>1
    <3>3. ~Pending(root')
      <4>1. Owes(last)
        BY <1>c, <2>11, <2>14 DEF Owes
      <4>2. Settled(last, root')
        BY <2>1, <2>11, <4>1, SettleTold
      <4>3. QED BY <2>11, <2>14, <4>2 DEF Settled, Pending
    <3>4. renderer' = renderer
      BY <2>1, <2>14, <3>3 DEF Ported
    <3>5. QED BY <2>12, <3>2, <3>4 DEF Kept
  <2>15. CASE /\ next.active = {} /\ next.accepted = root.accepted /\ next.retired = root.retired
              /\ next.scheduled = root.scheduled /\ next.attempt = root.attempt
              /\ next.reported = root.reported /\ next.published = root.published
              /\ Pending(root)
              /\ Dropped(root, next) /\ (~cancelled => next.status = "failed")
    <3>1. Tree(last)
      BY <2>11, <2>12, <2>15, TreeTypes, DroppedTree DEF Dropped
    <3>2. Owes(last)
      BY <1>c, <2>11, <2>15 DEF Owes
    <3>3. ~Pending(last)
      BY <2>11, <2>15 DEF Dropped, Pending
    <3>4. Moves(root, last)
      BY <2>11, <2>15 DEF Moves
    <3>5. ~Pending(root')
      <4>1. Settled(last, root')
        BY <2>1, <2>11, <3>2, SettleTold
      <4>2. QED BY <3>3, <4>1 DEF Settled, Pending
    <3>6. renderer' = IF cancelled THEN CancelTx(renderer) ELSE renderer
      BY <2>1, <2>15, <3>5 DEF Ported
    <3>7. Agrees(renderer', last)
      <4>1. CASE cancelled
        BY <2>11, <2>12, <2>15, <3>3, <3>6, <4>1, TreeTypes, AgreesFreed
      <4>2. CASE ~cancelled
        BY <1>f, <2>11, <2>15, <3>6, <4>2, TreeTypes, AgreesTerminal
      <4>3. QED BY <4>1, <4>2
    <3>8. QED BY <2>1, <2>11, <2>12, <3>1, <3>2, <3>4, <3>7, StepSettles DEF Kept
  <2>16. QED BY <2>10, <2>13, <2>14, <2>15
<1>10. ASSUME NEW plan \in Plans, NEW prepared \in BOOLEAN, NEW answer, Update(plan, prepared, answer)
       PROVE  Kept /\ root.status \notin Terminal
  <2> DEFINE u == Begin(root, "update", plan, prepared, answer)
             corr == NextCorrelation(root, "update")
  <2>1. /\ ~root.scheduled /\ root.status = "ready" /\ root' = u
        /\ renderer' = Ported(renderer, root, root', FALSE)
    BY <1>10 DEF Update
  <2>2. Tried(root, u, corr) /\ u.activeCorr = root.activeCorr /\ RootState(u)
    BY BeginTried, BeginType DEF Operations
  <2>3. Follows(root, corr) /\ corr.seq = root.attempt + 1
    BY <1>e, <2>1, NextFollows
  <2>4. u.active = {} /\ ~u.scheduled
    BY <1>b, <2>1, <2>2 DEF Tried, SameAccepted
  <2> HIDE DEF u, corr
  <2>5. Settle(u) = u
    BY <2>4 DEF Settle
  <2>6. QED BY <1>c, <1>e, <1>f, <2>1, <2>2, <2>3, <2>4, <2>5, TriedSettles DEF Kept
(* Replacing, stopping and losing the runtime begin by closing the schedule. *)
<1>j. LET closed == CloseSchedule(root) IN
        /\ RootState(closed) /\ Settled(root, closed) /\ closed.status = root.status
        /\ closed.reported = root.reported /\ closed.active = {}
  BY <1>b, CloseScheduleType, CloseScheduleCourse
<1>k. ASSUME root.status \notin Terminal, root' = Settle(Failed(CloseSchedule(root))),
             renderer' \in {renderer, CancelTx(renderer)}
      PROVE  Kept
  <2> DEFINE closed == CloseSchedule(root)
             u == Failed(closed)
  <2>1. RootState(u) /\ SameAccepted(closed, u) /\ Dropped(closed, u)
          /\ u.attempt = closed.attempt
    BY <1>j, RejectedDropped
  <2>2. u.status = "failed"
    BY <1>j DEF Failed, RootState
  <2>3. /\ u.accepted = root.accepted /\ u.retired = root.retired /\ u.attempt = root.attempt
        /\ u.pending = NoCandidate /\ u.active = {} /\ u.reported = u.published
    BY <1>c, <1>j, <2>1 DEF SameAccepted, Settled, Dropped
  <2> HIDE DEF u
  <2>4. Tree(u)
    <3>1. u.attempt >= root.attempt
      BY <2>3, TreeTypes
    <3>2. RootState(u) /\ u.status \in {"ready", "failed"} /\ u.status # "ready"
      BY <2>1, <2>2
    <3>3. QED BY <1>k, <2>3, <3>1, <3>2, DroppedTree
  <2>5. Owes(u)
    BY <2>3 DEF Owes
  <2>6. Agrees(renderer', u)
    BY <1>f, <1>k, <2>1, <2>2, <2>3, TreeTypes, AgreesTerminal
  <2>7. Moves(root, u)
    BY <2>3 DEF Moves
  <2>8. QED BY <1>k, <2>1, <2>4, <2>5, <2>6, <2>7, StepSettles DEF u, Kept
<1>l. ASSUME NEW u, RootState(u), root.status \notin Terminal, root' = Settle(u),
             NEW cancelled \in BOOLEAN, Pending(root) => cancelled,
             renderer' = Ported(renderer, root, root', cancelled /\ Pending(root)),
             NEW corr, Follows(root, corr), corr.seq = root.attempt + 1,
             NEW s, Tried(s, u, corr), s.accepted = root.accepted, s.retired = root.retired,
             s.active = {}, s.reported = root.reported, s.published = root.published
      PROVE  Kept
  <2> DEFINE v == [root EXCEPT !.scheduled = s.scheduled, !.active = {}]
  <2>1. u.active = {}
    BY <1>l DEF Tried, SameAccepted
  <2>2. u.scheduled = s.scheduled
    BY <1>l DEF Tried, SameAccepted
  <2>3. s.scheduled = u.scheduled /\ s.scheduled \in BOOLEAN
    BY <1>l, <2>2 DEF RootState
  <2>4. /\ RootState(v) /\ v.accepted = root.accepted /\ v.retired = root.retired
        /\ v.attempt = root.attempt /\ v.pending = root.pending /\ v.status = root.status
        /\ v.reported = root.reported /\ v.published = root.published /\ v.active = {}
        /\ v.scheduled = s.scheduled
    BY <2>3 DEF RootState
  <2> HIDE DEF v
  <2>5. Tried(v, u, corr)
    BY <1>l, <2>4 DEF Tried, SameAccepted, Dropped, Accepted
  <2>6. Tree(v) /\ Agrees(renderer, v) /\ Follows(v, corr)
    BY <1>l, <2>4 DEF Tree, Standing, Awaited, CleanedUp, Follows, Agrees, Accepted, Pending
  <2>7. Pending(v) <=> Pending(root)
    BY <2>4 DEF Pending
  <2>8. LET t == Settle(u)
        IN  Tree(t) /\ Told(t) /\ Agrees(Ported(renderer, v, t, cancelled /\ Pending(root)), t)
              /\ Moves(v, t)
    BY <1>c, <1>l, <2>1, <2>4, <2>5, <2>6, <2>7, TriedSettles
  <2>9. Ported(renderer, v, root', cancelled /\ Pending(root)) = renderer'
    BY <1>l, <2>4 DEF Ported
  <2>10. Moves(v, root') => Moves(root, root')
    BY <2>4 DEF Moves, Pending
  <2>11. QED BY <1>l, <2>8, <2>9, <2>10 DEF Kept
<1>11. ASSUME NEW plan \in Plans, NEW prepared \in BOOLEAN, NEW answer, NEW cancelled \in BOOLEAN,
              Replace(plan, prepared, answer, cancelled)
       PROVE  Kept /\ root.status \notin Terminal
  <2> DEFINE closed == CloseSchedule(root)
             freed  == [closed EXCEPT !.pending = NoCandidate]
             u      == Begin(freed, "replace", plan, prepared, answer)
             corr   == NextCorrelation(freed, "replace")
  <2>1. /\ Accepted(root) /\ root.status \notin Terminal
        /\ renderer' = Ported(renderer, root, root', cancelled /\ Pending(root))
        /\ root' = Settle(IF Pending(root) /\ ~cancelled THEN Failed(closed) ELSE u)
    BY <1>e, <1>f, <1>11 DEF Replace, Replaceable, Running
  <2>2. CASE Pending(root) /\ ~cancelled
    <3>1. root' = Settle(Failed(CloseSchedule(root)))
      BY <2>1, <2>2
    <3>2. ~Pending(root')
      <4>1. RootState(Failed(closed)) /\ SameAccepted(closed, Failed(closed))
              /\ Dropped(closed, Failed(closed))
        BY <1>j, RejectedDropped
      <4>2. Owes(Failed(closed))
        BY <1>c, <1>j, <4>1 DEF Owes, SameAccepted, Settled
      <4>3. Settled(Failed(closed), root')
        BY <3>1, <4>1, <4>2, SettleTold
      <4>4. QED BY <4>1, <4>3 DEF Settled, Dropped, Pending
    <3>3. renderer' = renderer
      BY <2>1, <2>2, <3>2 DEF Ported
    <3>4. QED BY <1>k, <2>1, <3>1, <3>3
  <2>3. CASE ~(Pending(root) /\ ~cancelled)
    <3>1. /\ RootState(freed) /\ freed.accepted = root.accepted /\ freed.retired = root.retired
          /\ freed.attempt = root.attempt /\ freed.active = {} /\ freed.reported = root.reported
          /\ freed.published = root.published
      <4> HIDE DEF closed
      <4>1. QED BY <1>j, NothingTypes DEF RootState, Settled, closed
    <3> HIDE DEF freed
    <3>2. Tried(freed, u, corr) /\ RootState(u)
      BY <3>1, BeginTried, BeginType DEF Operations
    <3>3. Follows(freed, corr) /\ corr.seq = freed.attempt + 1
      BY <2>1, <3>1, NextFollows DEF Accepted
    <3> HIDE DEF u, corr
    <3>4. Follows(root, corr) /\ corr.seq = root.attempt + 1
      BY <3>1, <3>3 DEF Follows, Accepted
    <3>5. root' = Settle(u)
      BY <2>1, <2>3
    <3>6. QED BY <1>l, <2>1, <2>3, <3>1, <3>2, <3>4, <3>5
  <2>4. QED BY <2>2, <2>3
<1>12. ASSUME NEW answer, NEW cancelled \in BOOLEAN, Stop(answer, cancelled)
       PROVE  Kept /\ root.status \notin Terminal
  <2> DEFINE closed == CloseSchedule(root)
             old    == IF Accepted(root) THEN root.accepted.corr
                                         ELSE [NoCorrelation EXCEPT !.gen = 1, !.rev = 1]
             corr   == [old EXCEPT !.seq = root.attempt + 1, !.op = "dispose"]
             tried  == [closed EXCEPT !.status = "stopping", !.attempt = corr.seq]
             next   == [corr |-> corr, comps |-> {}]
             u      == Submit(tried, next, TRUE, answer)
  <2>1. /\ root.status \notin Terminal
        /\ renderer' = Ported(renderer, root, root', cancelled /\ Pending(root))
        /\ root' = Settle(IF Pending(root) /\ ~cancelled THEN Failed(closed) ELSE u)
    BY <1>12 DEF Stop, Running
  <2>2. CASE Pending(root) /\ ~cancelled
    <3>1. root' = Settle(Failed(CloseSchedule(root)))
      BY <2>1, <2>2
    <3>2. ~Pending(root')
      <4>1. RootState(Failed(closed)) /\ SameAccepted(closed, Failed(closed))
              /\ Dropped(closed, Failed(closed))
        BY <1>j, RejectedDropped
      <4>2. Owes(Failed(closed))
        BY <1>c, <1>j, <4>1 DEF Owes, SameAccepted, Settled
      <4>3. Settled(Failed(closed), root')
        BY <3>1, <4>1, <4>2, SettleTold
      <4>4. QED BY <4>1, <4>3 DEF Settled, Dropped, Pending
    <3>3. renderer' = renderer
      BY <2>1, <2>2, <3>2 DEF Ported
    <3>4. QED BY <1>k, <2>1, <3>1, <3>3
  <2>3. CASE ~(Pending(root) /\ ~cancelled)
    <3>1. old \in Correlation
      BY NothingTypes DEF RootState, Candidate, Correlation
    <3>2. root.attempt + 1 \in Nat
      BY TreeTypes
    <3> HIDE DEF old
    <3>3. corr \in Correlation /\ corr.op = "dispose" /\ corr.seq = root.attempt + 1
      BY <3>1, <3>2 DEF Correlation, Operations
    <3> HIDE DEF corr
    <3>4. next \in Candidate /\ next.corr = corr
      BY <3>3 DEF Candidate
    <3> HIDE DEF next
    <3>5. /\ RootState(tried) /\ tried.accepted = root.accepted /\ tried.retired = root.retired
          /\ tried.attempt = corr.seq /\ tried.active = {} /\ tried.reported = root.reported
          /\ tried.published = root.published
      <4> HIDE DEF closed
      <4>1. QED BY <1>j, <3>2, <3>3 DEF RootState, Settled, Statuses, closed
    <3> HIDE DEF tried
    <3>6. Tried(tried, u, corr) /\ RootState(u)
      BY <3>3, <3>4, <3>5, SubmitTried, SubmitType
    <3> HIDE DEF u
    <3>7. Follows(root, corr)
      BY <3>3 DEF Follows
    <3>8. root' = Settle(u)
      BY <2>1, <2>3
    <3>9. QED BY <1>l, <2>1, <2>3, <3>3, <3>5, <3>6, <3>7, <3>8
  <2>4. QED BY <2>2, <2>3
<1>13. ASSUME NEW cancelled \in BOOLEAN, RuntimeLoss(cancelled)
       PROVE  Kept /\ root.status \notin Terminal
  <2> DEFINE closed == CloseSchedule(root)
  <2>1. /\ root.status \notin Terminal /\ root' = Settle(Failed(CloseSchedule(root)))
        /\ renderer' = Ported(renderer, root, root', cancelled /\ Pending(root))
    BY <1>13 DEF RuntimeLoss, Running
  <2>2. ~Pending(root')
    <3>1. RootState(Failed(closed)) /\ SameAccepted(closed, Failed(closed))
            /\ Dropped(closed, Failed(closed))
      BY <1>j, RejectedDropped
    <3>2. Owes(Failed(closed))
      BY <1>c, <1>j, <3>1 DEF Owes, SameAccepted, Settled
    <3>3. Settled(Failed(closed), root')
      BY <2>1, <3>1, <3>2, SettleTold
    <3>4. QED BY <3>1, <3>3 DEF Settled, Dropped, Pending
  <2>3. renderer' \in {renderer, CancelTx(renderer)}
    BY <2>1, <2>2 DEF Ported
  <2>4. QED BY <1>k, <2>1, <2>3
<1>14. CASE RendererCommit
  <2>1. renderer.phase = "open" /\ root' = root
    BY <1>14 DEF RendererCommit
  <2>2. /\ renderer'.tx = renderer.tx /\ renderer'.phase = "committed"
        /\ renderer'.prev = renderer.shown /\ renderer'.shown = Display(renderer.tx)
        /\ renderer'.acks = renderer.acks \cup {[corr |-> renderer.tx, result |-> "committed"]}
    BY <1>14 DEF RendererCommit, RendererState, Display
  <2>3. Agrees(renderer', root)
    <3>1. renderer.tx.seq <= root.attempt
            /\ \A a \in renderer'.acks : a.corr.seq <= root.attempt
      BY <2>2 DEF Agrees
    <3>2. ASSUME root.status \notin Terminal
          PROVE  /\ Pending(root) /\ renderer.tx = root.pending.corr
                 /\ renderer.shown = root.accepted.corr
                 /\ \A a \in renderer.acks : a.corr # root.pending.corr
      BY <2>1, <3>2 DEF Agrees
    <3>3. ASSUME root.status \notin Terminal
          PROVE  \A a \in renderer'.acks : a.corr = root.pending.corr => a.result = "committed"
      BY <2>2, <3>2, <3>3
    <3>4. QED BY <2>2, <3>1, <3>2, <3>3 DEF Agrees
  <2>4. QED BY <2>1, <2>3
<1>15. CASE RendererReject
  <2>1. renderer.phase = "open" /\ root' = root
    BY <1>15 DEF RendererReject
  <2>2. /\ renderer'.tx = NoCorrelation /\ renderer'.phase = "idle"
        /\ renderer'.shown = renderer.shown
        /\ renderer'.acks = renderer.acks \cup {[corr |-> renderer.tx, result |-> "rejected"]}
    BY <1>15 DEF RendererReject, RendererState
  <2>3. Agrees(renderer', root)
    <3>1. \A a \in renderer'.acks : a.corr.seq <= root.attempt
      BY <2>2 DEF Agrees
    <3>a. NoCorrelation.seq = 0 /\ 0 <= root.attempt
      BY TreeTypes DEF NoCorrelation
    <3>2. ASSUME root.status \notin Terminal
          PROVE  /\ Pending(root) /\ renderer.tx = root.pending.corr
                 /\ renderer.shown = root.accepted.corr
                 /\ \A a \in renderer.acks : a.corr # root.pending.corr
      BY <2>1, <3>2 DEF Agrees
    <3>3. ASSUME root.status \notin Terminal
          PROVE  \A a \in renderer'.acks : a.corr = root.pending.corr => a.result = "rejected"
      BY <2>2, <3>2, <3>3
    <3>4. QED BY <2>2, <3>1, <3>a, <3>2, <3>3 DEF Agrees
  <2>4. QED BY <2>1, <2>3
<1>16. CASE UNCHANGED vars
  BY <1>16 DEF vars
<1>17. QED
  BY <1>1, <1>2, <1>3, <1>4, <1>5, <1>6, <1>7, <1>8, <1>9, <1>10, <1>11, <1>12, <1>13, <1>14,
     <1>15, <1>16 DEF Next, Drain, Calls, Kept


-----------------------------------------------------------------------------
(* Root and port agree in every state: the tree is consistent, what was published was told, and
   every answer that may still arrive tells what the port did. *)
THEOREM RootAndPortAgree == Spec => []TreeInv
<1>1. TreeInv /\ [Next]_vars => TreeInv'
  BY NextTree
<1>2. QED BY InitTree, <1>1, PTL DEF Spec

(* A ready root shows exactly its accepted candidate, a busy one that or the candidate whose
   acknowledgement is on its way, the port holds no transaction the running root does not wait
   for, and work is reported committed exactly when its candidate was accepted
   (await_commit, accept, outcome), whatever is late, lost or repeated. *)
THEOREM RootShowsCommitted == Spec => []ShownIsCommitted
<1>1. TreeInv => ShownIsCommitted
  BY DEF TreeInv, Agrees, Told, Display, Running, Pending, ShownIsCommitted, RendererAgreement,
         CommittedMeansAccepted
<1>2. QED BY <1>1, RootAndPortAgree, PTL

(* Each generation of a root is cleaned up at most once, never while it is the accepted one of a
   running root, and a disposed root has cleaned all of them up (committed/1). *)
THEOREM RootRetiresOnce == Spec => []RetiredOnce
<1>1. TreeInv => RetiredOnce
  <2> SUFFICES ASSUME TreeInv, NEW g \in 1 .. MaxGeneration
               PROVE  /\ root.retired[g] <= 1
                      /\ root.retired[g] = 1 /\ Running => g < root.accepted.corr.gen
                      /\ root.status = "disposed" /\ g <= root.accepted.corr.gen
                           => root.retired[g] = 1
    BY DEF RetiredOnce
  <2>1. RootState(root) /\ CleanedUp(root)
    BY DEF TreeInv, IInv, TypeOK, Tree
  <2>2. root.accepted.corr.gen \in Nat /\ root.retired[g] \in Nat
    BY <2>1, TreeTypes
  <2>3. QED BY <2>1, <2>2 DEF CleanedUp, Running, Terminal
<1>2. QED BY <1>1, RootAndPortAgree, PTL

-----------------------------------------------------------------------------
(* Receipts are only handed out and outcomes only added. *)
Grows(s, t) ==
  /\ t.scheduled = s.scheduled
  /\ t.receipt >= s.receipt
  /\ \A r \in Receipts : t.outcomes[r] >= s.outcomes[r]

(* A terminal root of a schedule has nothing live. *)
Closed(s) == s.status \in {"disposed", "failed"} => Live(s) = {}

(* Growth composes. *)
LEMMA GrowsOn ==
  ASSUME NEW s, NEW t, NEW u, RootState(s), RootState(t), RootState(u), Grows(s, t), Grows(t, u)
  PROVE  Grows(s, u)
<1>1. s.receipt \in Nat /\ t.receipt \in Nat /\ u.receipt \in Nat
  BY ScheduleAssumption DEF RootState
<1>2. \A r \in Receipts : s.outcomes[r] \in Nat /\ t.outcomes[r] \in Nat /\ u.outcomes[r] \in Nat
  BY DEF RootState
<1>3. QED BY <1>1, <1>2 DEF Grows

(* The same books have not shrunk. *)
LEMMA SameGrows ==
  ASSUME NEW s, RootState(s), NEW t, t.receipt = s.receipt, t.outcomes = s.outcomes,
         t.scheduled = s.scheduled
  PROVE  Grows(s, t)
<1>1. s.receipt \in Nat /\ \A r \in Receipts : s.outcomes[r] \in Nat
  BY ScheduleAssumption DEF RootState
<1>2. QED BY <1>1 DEF Grows

(* Telling outcomes adds to them. *)
LEMMA OutcomeGrows ==
  ASSUME NEW s, RootState(s), NEW items
  PROVE  Grows(s, Outcome(s, items)) /\ Outcome(s, items).receipt = s.receipt
<1>1. s.receipt \in Nat /\ \A r \in Receipts : s.outcomes[r] \in Nat
  BY ScheduleAssumption DEF RootState
<1>2. Outcome(s, items).receipt = s.receipt /\ Outcome(s, items).scheduled = s.scheduled
  BY DEF Outcome, RootState
<1>3. \A r \in Receipts : Outcome(s, items).outcomes[r]
                            = IF r \in ReceiptsOf(items) THEN s.outcomes[r] + 1 ELSE s.outcomes[r]
  BY DEF Outcome, RootState
<1>4. QED BY <1>1, <1>2, <1>3 DEF Grows

(* Telling the outcome of an item and emptying the active slot. *)
LEMMA ToldGrows ==
  ASSUME NEW s, RootState(s), NEW items
  PROVE  RootState(Finish(Outcome(s, items))) /\ Grows(s, Finish(Outcome(s, items)))
<1> DEFINE told == Outcome(s, items)
<1>1. RootState(told) /\ Grows(s, told)
  BY OutcomeType, OutcomeGrows
<1> HIDE DEF told
<1>2. RootState(Finish(told)) /\ Grows(told, Finish(told))
  BY <1>1, FinishType, FinishBooks, SameGrows DEF Books
<1>3. QED BY <1>1, <1>2, GrowsOn DEF told

(* Closing tells outcomes and leaves nothing live. *)
LEMMA CloseScheduleGrows ==
  ASSUME NEW s, RootState(s)
  PROVE  /\ Grows(s, CloseSchedule(s)) /\ RootState(CloseSchedule(s))
         /\ s.scheduled => Live(CloseSchedule(s)) = {}
<1>1. CASE ~s.scheduled
  BY <1>1, SameGrows DEF CloseSchedule
<1>2. CASE s.scheduled
  <2> DEFINE freed == Finish(Outcome(s, Live(s)))
             t     == CloseSchedule(s)
  <2>1. RootState(freed) /\ Grows(s, freed) /\ freed.active = {}
    <3>1. RootState(freed) /\ Grows(s, freed)
      BY ToldGrows
    <3>2. freed.active = {}
      BY OutcomeType DEF Finish, RootState
    <3>3. QED BY <3>1, <3>2
  <2>2. t = [freed EXCEPT
          !.queue = {}, !.slots = 0, !.activeCorr = NoCorrelation,
          !.messages = <<>>, !.timers = <<>>, !.entries = [k \in {} |-> 0]]
    BY <1>2 DEF CloseSchedule
  <2>3. RootState(t)
    BY CloseScheduleType
  <2> HIDE DEF freed, t
  <2>4. /\ t.receipt = freed.receipt /\ t.outcomes = freed.outcomes
        /\ t.queue = {} /\ t.active = {} /\ t.scheduled = freed.scheduled
    BY <2>1, <2>2 DEF RootState
  <2>5. Grows(freed, t)
    BY <2>1, <2>4, SameGrows
  <2>6. QED BY <2>1, <2>3, <2>4, <2>5, GrowsOn DEF Live, t
<1>3. QED BY <1>1, <1>2

(* settle/1 hands out receipts and tells outcomes, and closes a root it finds terminal. *)
LEMMA SettleActiveGrows ==
  ASSUME NEW s, RootState(s)
  PROVE  Grows(s, SettleActive(s)) /\ RootState(SettleActive(s))
<1>1. RootState(SettleActive(s))
  BY SettleActiveType
<1>2. CASE Pending(s) \/ s.active = {}
  BY <1>1, <1>2, SameGrows DEF SettleActive
<1>3. CASE ~(Pending(s) \/ s.active = {})
  <2> DEFINE item     == CHOOSE i \in s.active : TRUE
             freed    == Finish(Outcome(s, s.active))
             finished == FinishedTick(freed, item)
             applied  == IF ActiveCommitted(s) /\ s.status = "ready"
                         THEN ApplyIntents(finished, s.messages, s.timers)
                         ELSE finished
  <2>1. RootState(freed) /\ Grows(s, freed)
    BY ToldGrows
  <2> HIDE DEF freed
  <2>2. RootState(finished) /\ Grows(s, finished)
    <3>1. RootState(finished) /\ Grows(freed, finished)
      BY <2>1, FinishedTickType, TimerBooks, SameGrows DEF Books
    <3>2. QED BY <2>1, <3>1, GrowsOn
  <2>3. s.messages \in Seq(Item) /\ s.timers \in Seq(Item)
    BY DEF RootState
  <2> HIDE DEF finished
  <2>4. RootState(applied) /\ Grows(finished, applied)
    <3>1. CASE ~(ActiveCommitted(s) /\ s.status = "ready")
      BY <2>2, <3>1, SameGrows
    <3>2. CASE ActiveCommitted(s) /\ s.status = "ready" /\ CommitFits(finished, s.messages, s.timers)
      <4> DEFINE longer == Appended(finished, s.messages)
      <4>1. RootState(longer)
        BY <2>2, <2>3, <3>2, AppendedType DEF CommitFits
      <4>2. Grows(finished, longer)
        <5>1. longer.receipt = finished.receipt + Len(s.messages)
                /\ longer.outcomes = finished.outcomes /\ longer.scheduled = finished.scheduled
          BY <2>2 DEF Appended, RootState
        <5>2. finished.receipt \in Nat /\ Len(s.messages) \in Nat
                /\ \A r \in Receipts : finished.outcomes[r] \in Nat
          BY <2>2, <2>3, ScheduleAssumption DEF RootState
        <5> HIDE DEF longer
        <5>3. QED BY <5>1, <5>2 DEF Grows
      <4> HIDE DEF longer
      <4>3. RootState(AppliedTimers(longer, s.timers))
              /\ Grows(longer, AppliedTimers(longer, s.timers))
        <5>1. RootState(AppliedTimers(longer, s.timers))
          BY <4>1, <2>3, AppliedTimersType
        <5>2. Books(AppliedTimers(longer, s.timers)) = Books(longer)
          BY <4>1, TimerBooks
        <5>3. QED BY <4>1, <5>1, <5>2, SameGrows DEF Books
      <4>4. applied = AppliedTimers(longer, s.timers)
        BY <3>2 DEF ApplyIntents, longer
      <4> HIDE DEF applied
      <4>5. QED BY <2>2, <4>1, <4>2, <4>3, <4>4, GrowsOn
    <3>3. CASE ActiveCommitted(s) /\ s.status = "ready" /\ ~CommitFits(finished, s.messages, s.timers)
      <4> DEFINE broken == [finished EXCEPT !.status = "broken"]
      <4>1. RootState(broken) /\ broken.receipt = finished.receipt
              /\ broken.outcomes = finished.outcomes /\ broken.scheduled = finished.scheduled
        BY <2>2 DEF RootState, Statuses
      <4>2. applied = broken
        BY <3>3 DEF ApplyIntents
      <4> HIDE DEF applied, broken
      <4>3. QED BY <2>2, <4>1, <4>2, SameGrows
    <3>4. QED BY <3>1, <3>2, <3>3
  <2> DEFINE reports == IF ActiveCommitted(s) THEN applied.reported \cup ReceiptsOf(s.active)
                                              ELSE applied.reported
             last    == [applied EXCEPT !.activeCorr = NoCorrelation, !.messages = <<>>,
                                        !.timers = <<>>, !.reported = reports]
  <2>5. SettleActive(s) = last
    BY <1>3 DEF SettleActive, freed, finished
  <2> HIDE DEF applied, reports
  <2>6. last.receipt = applied.receipt /\ last.outcomes = applied.outcomes
          /\ last.scheduled = applied.scheduled
    BY <2>4 DEF RootState
  <2> HIDE DEF last
  <2>7. RootState(last) /\ Grows(applied, last)
    BY <1>1, <2>4, <2>5, <2>6, SameGrows
  <2>8. Grows(finished, last)
    BY <2>2, <2>4, <2>7, GrowsOn
  <2>9. QED BY <1>1, <2>2, <2>5, <2>7, <2>8, GrowsOn
<1>4. QED BY <1>2, <1>3

(* Pruning tells outcomes. *)
LEMMA PruneGrows ==
  ASSUME NEW s, RootState(s)
  PROVE  Grows(s, Prune(s)) /\ RootState(Prune(s))
<1> DEFINE timed == Cancelled(s, {k \in DOMAIN s.entries : ~Deliverable(s, s.entries[k].item)})
           gone  == {i \in s.queue : ~Deliverable(s, i) \/ ~ValidTick(timed, i)}
           told  == Outcome(timed, gone)
           t     == [told EXCEPT !.queue = @ \ gone]
<1>1. RootState(timed) /\ Grows(s, timed)
  BY CancelledType, TimerBooks, SameGrows DEF Books
<1> HIDE DEF timed, gone
<1>2. RootState(told) /\ Grows(timed, told)
  BY <1>1, OutcomeType, OutcomeGrows
<1> HIDE DEF told
<1>3. RootState(t) /\ Grows(told, t)
  <2>1. RootState(t) /\ t.receipt = told.receipt /\ t.outcomes = told.outcomes
          /\ t.scheduled = told.scheduled
    BY <1>2 DEF RootState
  <2> HIDE DEF t
  <2>2. QED BY <1>2, <2>1, SameGrows
<1> HIDE DEF t
<1>4. Grows(s, t)
  BY <1>1, <1>2, <1>3, GrowsOn
<1>5. Prune(s) = IF ~Accepted(s) THEN s ELSE t
  BY DEF Prune, t, told, gone, timed
<1>6. QED BY <1>3, <1>4, <1>5, SameGrows

(* settle/1 hands out receipts and tells outcomes, and closes a root it finds terminal. *)
LEMMA SettleGrows ==
  ASSUME NEW s, RootState(s)
  PROVE  Grows(s, Settle(s)) /\ (s.scheduled => Closed(Settle(s)))
<1>1. CASE ~s.scheduled
  BY <1>1, SameGrows DEF Settle
<1>2. CASE s.scheduled
  <2> DEFINE done == Prune(SettleActive(s))
  <2>1. RootState(done) /\ Grows(s, done)
    BY SettleActiveGrows, PruneGrows, GrowsOn
  <2>2. done.scheduled
    BY <1>2, <2>1 DEF Grows
  <2> HIDE DEF done
  <2>3. Grows(s, CloseSchedule(done)) /\ Live(CloseSchedule(done)) = {}
    BY <2>1, <2>2, CloseScheduleGrows, GrowsOn
  <2> DEFINE asked == [done EXCEPT !.drain = TRUE]
  <2>4. RootState(asked) /\ Grows(done, asked) /\ asked.status = done.status
    <3>1. RootState(asked) /\ asked.receipt = done.receipt /\ asked.outcomes = done.outcomes
            /\ asked.status = done.status /\ asked.scheduled = done.scheduled
      BY <2>1 DEF RootState
    <3> HIDE DEF asked
    <3>2. QED BY <2>1, <3>1, SameGrows
  <2> HIDE DEF asked
  <2>5. Settle(s) = CASE done.status \in {"disposed", "failed"} -> CloseSchedule(done)
                      [] done.status = "ready" /\ ~Pending(done) /\ done.queue # {} -> asked
                      [] OTHER -> done
    BY <1>2 DEF Settle, done, asked
  <2>6. CASE done.status \in {"disposed", "failed"}
    BY <2>3, <2>5, <2>6 DEF Closed
  <2>7. CASE done.status \notin {"disposed", "failed"}
    BY <2>1, <2>4, <2>5, <2>7, GrowsOn DEF Closed
  <2>8. QED BY <2>6, <2>7
<1>3. QED BY <1>1, <1>2

(* Books that did not change. *)
LEMMA BooksGrow ==
  ASSUME NEW s, RootState(s), NEW t, Books(t) = Books(s)
  PROVE  Grows(s, t)
BY SameGrows DEF Books

(* A handler that ends with settle/1 grows the books and closes a terminal schedule. *)
LEMMA StepGrows ==
  ASSUME NEW s, RootState(s), NEW u, RootState(u), Grows(s, u), RootState(Settle(u))
  PROVE  Grows(s, Settle(u)) /\ (s.scheduled => Closed(Settle(u)))
BY SettleGrows, GrowsOn DEF Grows

(* cancel_owned/2 only adds outcomes. *)
LEMMA CancelOwnedGrows ==
  ASSUME NEW s, RootState(s), NEW item \in Item, NEW cancelled
  PROVE  Grows(s, CancelOwned(s, item, cancelled))
<1> DEFINE key     == Key(item)
           owned   == {i \in s.queue : i.kind \in {"timer_start", "timer_tick"} /\ Key(i) = key}
           told    == Outcome(s, owned)
           base    == Cancelled(told, {key})
           voided  == [k \in DOMAIN base.timers |->
                         IF base.timers[k].kind = "timer_start" /\ Key(base.timers[k]) = key
                         THEN [base.timers[k] EXCEPT !.kind = "void"]
                         ELSE base.timers[k]]
           dropped == [base EXCEPT !.queue = base.queue \ owned, !.timers = voided]
           freed   == Finish(Outcome(dropped, s.active))
           stopped == [freed EXCEPT
                         !.activeCorr = NoCorrelation, !.messages = <<>>, !.timers = <<>>]
           ticking == \E i \in s.active : i.kind = "timer_tick" /\ Key(i) = key
           next    == CASE ~ticking -> dropped
                        [] ticking /\ Pending(s) -> Abandon(stopped, cancelled)
                        [] OTHER -> stopped
<1>1. RootState(base) /\ Grows(s, base)
  <2>1. RootState(told) /\ Grows(s, told)
    BY OutcomeType, OutcomeGrows
  <2> HIDE DEF told, key
  <2>2. RootState(base) /\ Books(base) = Books(told)
    BY <2>1, CancelledType, TimerBooks
  <2> HIDE DEF base
  <2>3. QED BY <2>1, <2>2, BooksGrow, GrowsOn
<1>2. RootState(dropped) /\ Grows(s, dropped)
  <2>1. base.timers \in Seq(Item)
    BY <1>1 DEF RootState
  <2>2. ASSUME NEW i \in Item PROVE [i EXCEPT !.kind = "void"] \in Item
    BY DEF Item, Kinds
  <2> HIDE DEF base, key, owned
  <2>3. voided \in Seq(Item)
    BY <2>1, <2>2
  <2> HIDE DEF voided
  <2>4. RootState(dropped) /\ dropped.receipt = base.receipt /\ dropped.outcomes = base.outcomes
          /\ dropped.scheduled = base.scheduled
    BY <1>1, <2>3 DEF RootState
  <2> HIDE DEF dropped
  <2>5. QED BY <1>1, <2>4, SameGrows, GrowsOn
<1> HIDE DEF dropped
<1>3. RootState(stopped) /\ Grows(s, stopped)
  <2>1. RootState(freed) /\ Grows(dropped, freed)
    BY <1>2, ToldGrows
  <2>2. <<>> \in Seq(Item)
    OBVIOUS
  <2> HIDE DEF freed
  <2>3. RootState(stopped) /\ stopped.receipt = freed.receipt
          /\ stopped.outcomes = freed.outcomes /\ stopped.scheduled = freed.scheduled
    BY <2>1, <2>2, NothingTypes DEF RootState
  <2> HIDE DEF stopped
  <2>4. Grows(freed, stopped)
    BY <2>1, <2>3, SameGrows
  <2>5. QED BY <1>2, <2>1, <2>3, <2>4, GrowsOn
<1> HIDE DEF stopped
<1>4. RootState(Abandon(stopped, cancelled)) /\ Grows(s, Abandon(stopped, cancelled))
  <2>1. RootState(Abandon(stopped, cancelled))
          /\ Books(Abandon(stopped, cancelled)) = Books(stopped)
    BY <1>3, AbandonType, AbandonBooks
  <2>2. QED BY <1>3, <2>1, BooksGrow, GrowsOn
<1>5. RootState(next) /\ Grows(s, next)
  BY <1>2, <1>3, <1>4
<1>6. CancelOwned(s, item, cancelled) = Outcome(next, {item})
  BY DEF CancelOwned, stopped, dropped
<1> HIDE DEF next
<1>7. RootState(Outcome(next, {item})) /\ Grows(next, Outcome(next, {item}))
  BY <1>5, OutcomeType, OutcomeGrows
<1>8. QED BY <1>5, <1>6, <1>7, GrowsOn

(* No handler takes a receipt or an outcome back, and one that ends the root leaves nothing
   live. *)
LEMMA NextGrows ==
  ASSUME RootState(root), RootState(root'), Ledger(root, {}), Quiet(root), Quiet(root'), Next
  PROVE  UNCHANGED root \/ (Grows(root, root') /\ Closed(root'))
<1> DEFINE Kept == Grows(root, root') /\ (root.scheduled => Closed(root'))
<1>0. "mount" \in Operations /\ "replace" \in Operations /\ "update" \in Operations
  BY DEF Operations
<1>a. Kept => Grows(root, root') /\ Closed(root')
  BY DEF Grows, Closed, Quiet
<1>b. ASSUME NEW u, RootState(u), Grows(root, u), root' = Settle(u)
      PROVE  Kept
  BY <1>b, StepGrows
<1>c. ASSUME NEW u, RootState(u), Books(u) = Books(root), root' = Settle(u)
      PROVE  Kept
  BY <1>b, <1>c, BooksGrow
<1> HIDE DEF Kept
<1> USE DEF Answers
<1>1. CASE Boot
  <2>1. PICK plan \in Plans, prepared \in BOOLEAN, answer \in Answers :
           root' = Settle(Begin(root, "mount", plan, prepared, answer))
    BY <1>1 DEF Boot
  <2>2. QED BY <1>0, <1>a, <1>c, <2>1, BeginType, TransitionBooks
<1>2. ASSUME NEW seq \in 1 .. root.attempt, Deadline(seq)
      PROVE  Kept
  <2>1. PICK cancelled \in BOOLEAN : root' = Settle(Abandon(root, cancelled))
    BY <1>2 DEF Deadline
  <2>2. QED BY <1>c, <2>1, AbandonType, AbandonBooks
<1>d. Drains => root.status \notin {"disposed", "failed"}
  BY DEF Drains, Running, Terminal
<1>3. CASE DrainNothing
  <2>1. root' = [root EXCEPT !.drain = FALSE] /\ root.status \notin {"disposed", "failed"}
    BY <1>3, <1>d DEF DrainNothing
  <2>2. Books(root') = Books(root) /\ root'.status = root.status
    BY <2>1 DEF Books, RootState
  <2>3. QED BY <1>a, <2>1, <2>2, BooksGrow DEF Closed
<1>e. \/ /\ RootState(Selected) /\ Grows(root, Selected)
         /\ Selected.status = root.status /\ Selected.scheduled = root.scheduled
      \/ ~CanDrain
  <2>1. CanDrain => RootState(Selected)
    BY SelectedType DEF CanDrain
  <2>2. Selected.receipt = root.receipt /\ Selected.outcomes = root.outcomes
          /\ Selected.scheduled = root.scheduled /\ Selected.status = root.status
    BY DEF Selected, Select, RootState
  <2>3. QED BY <2>1, <2>2, SameGrows
<1>4. CASE DrainRefused
  <2> DEFINE item  == Oldest(root.queue)
             freed == Finish(Outcome(Selected, {item}))
             next  == FinishedTick(freed, item)
  <2>1. CanDrain /\ root' = [next EXCEPT !.drain = TRUE]
          /\ root.status \notin {"disposed", "failed"}
    BY <1>4, <1>d DEF DrainRefused, CanDrain
  <2>2. RootState(freed) /\ Grows(Selected, freed) /\ freed.status = root.status
    <3>1. RootState(freed) /\ Grows(Selected, freed)
      BY <1>e, <2>1, ToldGrows
    <3>2. freed.status = root.status
      BY <1>e, <2>1 DEF Finish, Outcome, RootState
    <3>3. QED BY <3>1, <3>2
  <2> HIDE DEF freed
  <2>3. RootState(next) /\ Grows(freed, next) /\ next.status = freed.status
    <3>1. RootState(next) /\ Books(next) = Books(freed)
      BY <2>2, FinishedTickType, TimerBooks
    <3>2. next.status = freed.status
      BY <2>2, ScheduleCourse DEF SameCourse
    <3> HIDE DEF next
    <3>3. QED BY <2>2, <3>1, <3>2, BooksGrow
  <2> HIDE DEF next
  <2>4. Books(root') = Books(next) /\ root'.status = next.status
    BY <2>1, <2>3 DEF Books, RootState
  <2>5. Grows(next, root')
    BY <2>3, <2>4, BooksGrow
  <2>6. Grows(root, next)
    BY <1>e, <2>1, <2>2, <2>3, GrowsOn
  <2>7. QED BY <2>1, <2>2, <2>3, <2>4, <2>5, <2>6, GrowsOn DEF Closed
<1>5. CASE DrainTimerStart
  <2> DEFINE item == Oldest(root.queue)
             next == IF Preflight(Selected, <<item>>) THEN AppliedTimers(Selected, <<item>>)
                                                      ELSE Selected
             freed == Finish(Outcome(next, {item}))
  <2>1. CanDrain /\ root' = Settle(freed)
    BY <1>5 DEF DrainTimerStart
  <2>2. RootState(next) /\ Grows(Selected, next)
    <3>1. <<item>> \in Seq(Item)
      <4>1. root.queue # {} /\ root.queue \subseteq Item
        BY <2>1 DEF CanDrain, RootState
      <4>2. item \in root.queue
        BY <4>1, OldestType
      <4>3. QED BY <4>1, <4>2
    <3> HIDE DEF item
    <3>2. RootState(AppliedTimers(Selected, <<item>>))
            /\ Books(AppliedTimers(Selected, <<item>>)) = Books(Selected)
      BY <1>e, <2>1, <3>1, AppliedTimersType, TimerBooks
    <3>3. QED BY <1>e, <2>1, <3>2, BooksGrow
  <2> HIDE DEF next, item
  <2>3. RootState(freed) /\ Grows(next, freed)
    BY <2>2, ToldGrows
  <2> HIDE DEF freed
  <2>4. Grows(root, next)
    BY <1>e, <2>1, <2>2, GrowsOn
  <2>5. Grows(root, freed)
    BY <2>2, <2>3, <2>4, GrowsOn
  <2>6. Kept
    BY <1>b, <2>1, <2>3, <2>5
  <2>7. QED BY <1>a, <2>6
<1>6. CASE DrainWork
  <2>1. PICK plan \in Plans, prepared \in BOOLEAN, answer \in Answers :
           root' = Settle(BeginWork(Selected, plan, prepared, answer))
    BY <1>6 DEF DrainWork
  <2> DEFINE u == BeginWork(Selected, plan, prepared, answer)
  <2>2. RootState(Selected) /\ Grows(root, Selected)
    BY <1>6, <1>e DEF DrainWork
  <2>3. RootState(u) /\ Books(u) = Books(Selected)
    BY <1>0, <2>2, BeginWorkType, TransitionBooks
  <2> HIDE DEF u
  <2>4. Grows(root, u)
    BY <2>2, <2>3, BooksGrow, GrowsOn
  <2>5. Kept
    BY <1>b, <2>1, <2>3, <2>4 DEF u
  <2>6. QED BY <1>a, <2>5
<1>7. ASSUME NEW key \in DOMAIN root.entries, NEW epoch, NEW tick, OwnedTick(key, epoch, tick)
      PROVE  Kept
  <2> DEFINE item  == TickItem(root, key)
             fired == Fired(root, key)
  <2>1. RootState(fired) /\ item \in Item /\ Books(fired) = Books(root)
    BY FiredType, TimerBooks
  <2>2. InternalFits(root, item) => Headroom(fired, 1 + fired.reserved)
    <3>1. fired.receipt = root.receipt /\ fired.reserved = root.reserved
            /\ fired.slots = root.slots
      BY DEF Fired, RootState
    <3>2. QED BY <3>1 DEF InternalFits, Headroom
  <2> HIDE DEF fired, item
  <2>3. ASSUME InternalFits(root, item)
        PROVE  RootState(Internal(fired, item)) /\ Grows(root, Internal(fired, item))
    <3> DEFINE u == Internal(fired, item)
    <3>1. RootState(u)
      BY <2>1, <2>2, <2>3, InternalType
    <3>2. u.receipt = root.receipt + 1 /\ u.outcomes = root.outcomes
            /\ u.scheduled = root.scheduled
      BY <2>1 DEF Internal, Books, RootState
    <3>3. root.receipt \in Nat /\ \A r \in Receipts : root.outcomes[r] \in Nat
      BY ScheduleAssumption DEF RootState
    <3> HIDE DEF u
    <3>4. QED BY <3>1, <3>2, <3>3 DEF Grows, u
  <2>4. RootState(Cancelled(root, {key})) /\ Books(Cancelled(root, {key})) = Books(root)
    BY CancelledType, TimerBooks
  <2>5. RootState(FinishedTick(fired, item)) /\ Books(FinishedTick(fired, item)) = Books(root)
    BY <2>1, FinishedTickType, TimerBooks
  <2>6. \/ root' = Settle(Cancelled(root, {key}))
        \/ root' = Settle(Internal(fired, item)) /\ InternalFits(root, item)
        \/ root' = Settle(FinishedTick(fired, item))
    BY <1>7 DEF OwnedTick, fired, item
  <2>7. QED BY <1>b, <1>c, <2>3, <2>4, <2>5, <2>6
<1>8. ASSUME NEW ack, NEW cleaned, Ack(ack, cleaned)
      PROVE  Kept
  <2>1. RootState(Committed(root, cleaned)) /\ Books(Committed(root, cleaned)) = Books(root)
    BY CommittedType, CommittedBooks
  <2>2. RootState(Rejected(root)) /\ Books(Rejected(root)) = Books(root)
    BY RejectedType, RejectedBooks
  <2>3. root' = Settle(Committed(root, cleaned)) \/ root' = Settle(Rejected(root))
    BY <1>8 DEF Ack
  <2>4. QED BY <1>c, <2>1, <2>2, <2>3
<1>9. ASSUME NEW template \in Envelopes, NEW generation, NEW revision,
             NEW sequence \in {root.producers[template.producer],
                               root.producers[template.producer] + 1},
             NEW cancelled, Enqueue(template, generation, revision, sequence, cancelled)
      PROVE  Kept
  <2> DEFINE item     == [template EXCEPT !.gen = generation]
             received == [item EXCEPT !.receipt = root.receipt + 1]
             envelope == [item |-> item, rev |-> revision, sequence |-> sequence]
             entered  == Admitted(root, envelope)
             admitted == Outcome(entered,
                           IF item.kind = "timer_cancel" THEN {} ELSE Superseded(root, item))
             next     == IF item.kind = "timer_cancel"
                         THEN CancelOwned(admitted, received, cancelled) ELSE admitted
             last     == [next EXCEPT !.drain = TRUE]
  <2>1. /\ Admissible(root, envelope, root.accepted.corr.gen, root.accepted.corr.rev,
                      root.accepted.comps)
        /\ root' = Settle(last)
    BY <1>9 DEF Enqueue
  <2>2. template \in Item /\ template.producer \in Producers
    BY RootAssumption
  <2>3. generation \in Nat
    <3>1. item.gen = root.accepted.corr.gen
      BY <2>1 DEF Admissible, ValidDispatch
    <3>2. item.gen = generation
      BY <2>2 DEF Item
    <3>3. QED BY <3>1, <3>2, TreeTypes
  <2>4. item \in Item
    BY <2>2, <2>3 DEF Item
  <2>5. sequence \in Nat
    <3>1. root.producers[template.producer] \in Nat
      BY <2>2 DEF RootState
    <3>2. QED BY <3>1
  <2>a. received \in Item
    <3>1. root.receipt + 1 \in Nat
      BY DEF RootState
    <3> HIDE DEF item
    <3>2. QED BY <2>4, <3>1, RenumberedType
  <2>6. RootState(entered)
    <3>1. envelope.item \in Item /\ envelope.sequence \in Nat
      BY <2>4, <2>5
    <3> HIDE DEF envelope
    <3>2. QED BY <2>1, <3>1, AdmittedType
  <2> HIDE DEF envelope
  <2>7. Grows(root, entered)
    <3>1. entered.receipt = root.receipt + 1 /\ entered.outcomes = root.outcomes
            /\ entered.scheduled = root.scheduled
      BY DEF Admitted, Inserted, RootState
    <3>2. root.receipt \in Nat /\ \A r \in Receipts : root.outcomes[r] \in Nat
      BY ScheduleAssumption DEF RootState
    <3> HIDE DEF entered
    <3>3. QED BY <3>1, <3>2 DEF Grows
  <2> HIDE DEF entered, last, received
  <2>8. RootState(admitted) /\ Grows(root, admitted)
    BY <2>6, <2>7, OutcomeType, OutcomeGrows, GrowsOn
  <2> HIDE DEF admitted
  <2>9. RootState(next) /\ Grows(root, next)
    BY <2>8, <2>a, CancelOwnedType, CancelOwnedGrows, GrowsOn
  <2> HIDE DEF next
  <2>10. RootState(last) /\ Books(last) = Books(next)
    BY <2>9 DEF RootState, Books, last
  <2>11. Grows(root, last)
    BY <2>9, <2>10, BooksGrow, GrowsOn
  <2>12. QED BY <1>b, <2>1, <2>10, <2>11
<1>10. ASSUME NEW plan \in Plans, NEW prepared, NEW answer, Update(plan, prepared, answer)
       PROVE  Kept
  <2>1. ~root.scheduled /\ root' = Begin(root, "update", plan, prepared, answer)
    BY <1>10 DEF Update
  <2>2. Books(root') = Books(root)
    BY <1>0, <2>1, TransitionBooks
  <2>3. QED BY <2>1, <2>2, BooksGrow DEF Kept
<1>f. RootState(CloseSchedule(root)) /\ Grows(root, CloseSchedule(root))
  BY CloseScheduleGrows
<1>g. ASSUME NEW u, RootState(u), Books(u) = Books(CloseSchedule(root)), root' = Settle(u)
      PROVE  Kept
  BY <1>b, <1>f, <1>g, BooksGrow, GrowsOn
<1>h. RootState(Failed(CloseSchedule(root)))
        /\ Books(Failed(CloseSchedule(root))) = Books(CloseSchedule(root))
  BY <1>f, RejectedType, RejectedBooks
<1>11. ASSUME NEW plan \in Plans, NEW prepared, NEW answer, NEW cancelled,
              Replace(plan, prepared, answer, cancelled)
       PROVE  Kept
  <2> DEFINE closed == CloseSchedule(root)
             freed  == [closed EXCEPT !.pending = NoCandidate]
             u      == Begin(freed, "replace", plan, prepared, answer)
  <2>1. root' = Settle(Failed(closed)) \/ root' = Settle(u)
    BY <1>11 DEF Replace
  <2>2. RootState(freed) /\ Books(freed) = Books(closed)
    <3> HIDE DEF closed
    <3>1. QED BY <1>f, NothingTypes DEF RootState, Books, closed
  <2> HIDE DEF freed
  <2>3. RootState(u) /\ Books(u) = Books(closed)
    BY <1>0, <2>2, BeginType, TransitionBooks
  <2>4. QED BY <1>g, <1>h, <2>1, <2>3
<1>12. ASSUME NEW answer, NEW cancelled, Stop(answer, cancelled)
       PROVE  Kept
  <2> DEFINE closed == CloseSchedule(root)
             old    == IF Accepted(root) THEN root.accepted.corr
                                         ELSE [NoCorrelation EXCEPT !.gen = 1, !.rev = 1]
             corr   == [old EXCEPT !.seq = root.attempt + 1, !.op = "dispose"]
             tried  == [closed EXCEPT !.status = "stopping", !.attempt = corr.seq]
             next   == [corr |-> corr, comps |-> {}]
             u      == Submit(tried, next, TRUE, answer)
  <2>1. root' = Settle(Failed(closed)) \/ root' = Settle(u)
    BY <1>12 DEF Stop
  <2>2. old \in Correlation /\ root.attempt + 1 \in Nat
    <3>1. old \in Correlation
      BY NothingTypes DEF RootState, Candidate, Correlation
    <3>2. QED BY <3>1, TreeTypes
  <2> HIDE DEF old, closed
  <2>3. corr \in Correlation /\ corr.seq \in Nat
    BY <2>2 DEF Correlation, Operations
  <2> HIDE DEF corr
  <2>4. next \in Candidate
    BY <2>3 DEF Candidate
  <2>5. RootState(tried) /\ Books(tried) = Books(closed)
    BY <1>f, <2>3 DEF RootState, Statuses, Books, closed
  <2> HIDE DEF next, tried
  <2>6. RootState(u) /\ Books(u) = Books(closed)
    BY <2>4, <2>5, SubmitType, SubmitBooks
  <2>7. QED BY <1>g, <1>h, <2>1, <2>6 DEF closed
<1>13. ASSUME NEW cancelled, RuntimeLoss(cancelled)
       PROVE  Kept
  BY <1>g, <1>h, <1>13 DEF RuntimeLoss
<1>14. RendererCommit \/ RendererReject => UNCHANGED root
  BY DEF RendererCommit, RendererReject
<1>15. Drain => UNCHANGED root \/ (Grows(root, root') /\ Closed(root'))
  BY <1>3, <1>4, <1>5, <1>6 DEF Drain
<1>16. Calls => Kept
  BY <1>8, <1>9, <1>10, <1>11, <1>12, <1>13 DEF Calls
<1>17. QED BY <1>a, <1>1, <1>2, <1>7, <1>14, <1>15, <1>16 DEF Next

-----------------------------------------------------------------------------
(* What the contract reads of a balanced ledger: the receipts with an outcome are those handed
   out and not live, hence all of them when nothing is live. *)
LEMMA ResolvedReceipts ==
  ASSUME NEW s, RootState(s), Ledger(s, {})
  PROVE  LET resolved == {r \in Receipts : s.outcomes[r] >= 1}
         IN  /\ s.receipt \in Nat
             /\ resolved \subseteq 1 .. s.receipt
             /\ Live(s) = {} => resolved = 1 .. s.receipt
<1>1. s.receipt \in Nat /\ 1 .. s.receipt \subseteq Receipts
  BY ScheduleAssumption DEF RootState, Receipts
<1>2. \A r \in Receipts : r \in Nat /\ r >= 1
  BY DEF Receipts
<1>3. \A r \in Receipts : s.outcomes[r] = IF r <= s.receipt /\ r \notin ReceiptsOf(Live(s)) THEN 1 ELSE 0
  BY DEF Ledger
<1>4. \A r \in Receipts : s.outcomes[r] >= 1 => r \in 1 .. s.receipt
  BY <1>1, <1>2, <1>3
<1>5. Live(s) = {} => \A r \in 1 .. s.receipt : s.outcomes[r] >= 1
  BY <1>1, <1>2, <1>3 DEF ReceiptsOf
<1>6. QED BY <1>1, <1>4, <1>5

(* A root starts as its contract says. *)
LEMMA InitContract == Init => Contract!Init
<1> SUFFICES ASSUME Init PROVE Contract!Init
  OBVIOUS
<1>1. /\ root.status = "starting" /\ root.accepted = NoCandidate /\ root.pending = NoCandidate
      /\ root.attempt = 0 /\ root.receipt = 0 /\ root.outcomes = [r \in Receipts |-> 0]
  BY DEF Init
<1>2. root.accepted.corr.gen = 0 /\ root.accepted.corr.rev = 0
  BY <1>1 DEF NoCandidate, NoCorrelation
<1>3. {r \in Receipts : root.outcomes[r] >= 1} = {}
  BY <1>1
<1>4. QED BY <1>1, <1>2, <1>3 DEF Contract!Init, Pending

(* Every handler is a step of the contract, or is not seen by it. *)
LEMMA NextContract ==
  TreeInv /\ TreeInv' /\ [Next]_vars => [Contract!Next]_(Contract!vars)
<1> SUFFICES ASSUME TreeInv, TreeInv', [Next]_vars
             PROVE  [Contract!Next]_(Contract!vars)
  OBVIOUS
<1>1. CASE UNCHANGED root
  BY <1>1 DEF Contract!vars, Pending
<1>2. CASE ~(UNCHANGED root)
  <2>1. /\ RootState(root) /\ Ledger(root, {}) /\ Quiet(root) /\ Tree(root)
        /\ RootState(root') /\ Ledger(root', {}) /\ Quiet(root')
    BY DEF TreeInv, IInv, TypeOK, RootState, Ledger, Quiet, Live, Pending
  <2>2. Next
    BY <1>2 DEF vars
  <2>3. root.status \notin Terminal /\ Moves(root, root')
    BY <1>2, NextTree
  <2>4. Grows(root, root') /\ Closed(root')
    BY <1>2, <2>1, <2>2, NextGrows
  <2>5. ~(root.status \in {"disposed", "failed"})
    BY <2>3 DEF Terminal
  <2> DEFINE version  == <<root.accepted.corr.gen, root.accepted.corr.rev>>
             version_ == <<root'.accepted.corr.gen, root'.accepted.corr.rev>>
             resolved  == {r \in Receipts : root.outcomes[r] >= 1}
             resolved_ == {r \in Receipts : root'.outcomes[r] >= 1}
  <2>6. \/ /\ Pending(root) /\ ~Pending(root')
           /\ root'.attempt = root.attempt /\ version_ \in Contract!Later(version)
        \/ root'.attempt = root.attempt + 1 /\ version_ = version
        \/ root'.attempt = root.attempt /\ version_ = version
    <3>1. CASE /\ Pending(root) /\ ~Pending(root') /\ root.pending.corr.op # "dispose"
               /\ root'.attempt = root.attempt /\ root'.accepted = root.pending
      <4> DEFINE corr == root.pending.corr
      <4>1. Follows(root, corr) /\ corr.op \in {"mount", "update", "replace"}
        BY <2>1, <3>1 DEF Tree, Awaited, Follows
      <4>2. /\ Accepted(root) => root.accepted.corr.gen >= 1
            /\ ~Accepted(root) => root.accepted.corr.gen = 0 /\ root.accepted.corr.rev = 0
        BY <2>1 DEF Tree, Standing, Accepted, NoCandidate, NoCorrelation
      <4>3. version_ = <<corr.gen, corr.rev>>
        BY <3>1
      <4>4. <<corr.gen, corr.rev>> \in Contract!Later(version)
        <5>1. CASE corr.op = "mount"
          BY <4>1, <4>2, <5>1 DEF Contract!Later, Follows
        <5>2. CASE corr.op \in {"update", "replace"}
          <6>1. version # <<0, 0>>
            BY <4>1, <4>2, <5>2, <2>1, TreeTypes DEF Follows
          <6>2. QED BY <4>1, <5>2, <6>1 DEF Contract!Later, Follows
        <5>3. QED BY <4>1, <5>1, <5>2
      <4>5. QED BY <3>1, <4>3, <4>4
    <3>2. CASE root'.attempt \in {root.attempt, root.attempt + 1} /\ root'.accepted = root.accepted
      BY <3>2
    <3>3. QED BY <2>3, <3>1, <3>2 DEF Moves
  <2>7. /\ root'.receipt \in Nat /\ root'.receipt >= root.receipt
        /\ resolved \subseteq resolved_ /\ resolved_ \subseteq 1 .. root'.receipt
    <3>1. \A r \in Receipts : root.outcomes[r] \in Nat /\ root'.outcomes[r] \in Nat
      BY <2>1 DEF RootState
    <3>2. resolved \subseteq resolved_
      BY <2>4, <3>1 DEF Grows
    <3>3. QED BY <2>1, <2>4, <3>2, ResolvedReceipts DEF Grows
  <2>8. root'.status \in {"disposed", "failed"} => resolved_ = 1 .. root'.receipt
    BY <2>1, <2>4, ResolvedReceipts DEF Closed
  <2>9. Contract!Next
    <3>1. Pending(root)' <=> Pending(root')
      BY DEF Pending
    <3> HIDE DEF version, version_, resolved, resolved_
    <3>2. Contract!Publishes \/ Contract!Tries \/ Contract!Keeps
      BY <2>6, <3>1 DEF Contract!Publishes, Contract!Tries, Contract!Keeps, version, version_
    <3>3. Contract!Accounts
      BY <2>7 DEF Contract!Accounts, resolved, resolved_
    <3>4. QED BY <2>5, <2>8, <3>2, <3>3 DEF Contract!Next, resolved_
  <2>10. QED BY <2>9
<1>3. QED BY <1>1, <1>2

(* The coordinator implements the contract of a root: the accepted version moves only forward
   and only by committing the transition in flight, an outcome once given is never taken back,
   and a root that is disposed or failed owes nobody an outcome and never changes again. *)
THEOREM RootImplementsContract == Spec => ImplementsContract
<1>1. TreeInv /\ [Next]_vars => TreeInv'
  BY NextTree
<1>2. QED BY InitTree, InitContract, NextContract, <1>1, PTL
          DEF Spec, ImplementsContract, Contract!Spec
=============================================================================
