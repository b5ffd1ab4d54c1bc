---------------------------- MODULE RootSchedule ----------------------------
(***************************************************************************)
(* Admission and FIFO scheduling of one root (root_schedule.ex).           *)
(*                                                                         *)
(* A schedule is a record with the fields                                  *)
(*   queue      the queued work items                                      *)
(*   active     {} or {item}: the application transition being evaluated   *)
(*   reserved   messages the candidate in flight may still emit            *)
(*   slots      result slots of the pending effect and command requests    *)
(*   receipt    the last root-global receipt handed out                    *)
(*   producers  the last sequence accepted of each producer                *)
(* and any other field: RootProcess and ActionRoot keep their whole state  *)
(* in one record and hand it to these operators.                           *)
(*                                                                         *)
(* The source keeps the queue as a list.  Every insertion appends an item  *)
(* with a larger receipt than any before it, and every removal keeps the   *)
(* order, so the list is the set of its items in receipt order.  A         *)
(* component stands for an identity together with its schema digest.       *)
(***************************************************************************)
EXTENDS Naturals, FiniteSets, Sequences

CONSTANTS
  TotalLimit,    (* queued + active + reserved + slots  (256 in the source)      *)
  EventLimit,    (* the per-class bounds              (256, 64, 128, 32)         *)
  UpdateLimit,
  MessageLimit,
  TimerLimit,
  IntentLimit,   (* follow-ups one candidate may reserve (16)                    *)
  MaxReceipt     (* the largest safe integer a receipt may reach                 *)

ASSUME ScheduleAssumption ==
  /\ {TotalLimit, EventLimit, UpdateLimit, MessageLimit, TimerLimit} \subseteq Nat
  /\ IntentLimit \in Nat
  /\ MaxReceipt \in Nat

Classes == {"event", "update", "message", "timer"}

Kinds == {"event", "update", "message", "timer_start", "timer_cancel", "timer_tick", "void"}

Receipts == 1 .. MaxReceipt

ClassLimit == [event |-> EventLimit, update |-> UpdateLimit,
               message |-> MessageLimit, timer |-> TimerLimit]

-----------------------------------------------------------------------------
(* Budgets: work/1, depth/1, counts/1 and within?/1. *)

Depth(s) == Cardinality(s.queue) + Cardinality(s.active) + s.reserved + s.slots

ClassCount(s, class) ==
  Cardinality({i \in s.queue \cup s.active : i.class = class})
    + (IF class = "message" THEN s.reserved + s.slots ELSE 0)

Within(s) ==
  /\ Depth(s) <= TotalLimit
  /\ \A class \in Classes : ClassCount(s, class) <= ClassLimit[class]

(* Mutant: the safe-integer bound is off by one. *)
MutantHeadroom(s, n) == s.receipt + n + s.slots <= MaxReceipt + 1

(* Headroom of the receipt counter for n more receipts. *)
Headroom(s, n) == s.receipt + n + s.slots <= MaxReceipt

-----------------------------------------------------------------------------
(* Selection and removal. *)

Oldest(q) == CHOOSE i \in q : \A j \in q : i.receipt <= j.receipt

Newest(q) == CHOOSE i \in q : \A j \in q : j.receipt <= i.receipt

Select(s) == [s EXCEPT !.active = {Oldest(s.queue)},
                       !.queue  = @ \ {Oldest(s.queue)}]

Finish(s) == [s EXCEPT !.active = {}, !.reserved = 0]

(* An item may still run: its generation is the accepted one and both of its ends are
   in the accepted tree with the digests they had at admission.  The route (self, child,
   message to the root) and the role of the source are looked up again by the code too.
   Both follow from the identities, which carry their paths, and their digests; only a
   :parent route depends on what lies between its ends, and it is kept here.  An item may
   still be refused when it is dispatched (DrainRefused). *)
ValidDispatch(item, generation, comps) ==
  /\ item.gen = generation
  /\ {item.source, item.target} \subseteq comps

-----------------------------------------------------------------------------
(* Admission of an external envelope: normalize/4, insert/2 and admit/4. *)

Stream(i) == <<i.producer, i.class, i.source, i.target, i.name>>

(* The queued tail an equivalent supersedable item replaces: {} or {tail}. *)
Superseded(s, item) ==
  {t \in s.queue : /\ t = Newest(s.queue)
                   /\ item.sup /\ t.sup
                   /\ Stream(t) = Stream(item)}

Inserted(s, item) ==
  IF item.kind = "timer_cancel"
  THEN s
  ELSE [s EXCEPT !.queue = (@ \ Superseded(s, item)) \cup {[item EXCEPT !.receipt = s.receipt + 1]}]

(* An envelope carries the item, the revision its sender saw and the producer's sequence:
   none of the last two is read again once the item is admitted.  It is admissible when it
   is fresh, exactly next of its producer, and a receipt and the budgets allow it. *)
Admissible(s, envelope, generation, revision, comps) ==
  LET item == envelope.item IN
  /\ envelope.rev = revision
  /\ ValidDispatch(item, generation, comps)
  /\ envelope.sequence = s.producers[item.producer] + 1
  /\ Headroom(s, 1 + s.reserved)
  /\ item.kind # "timer_cancel" => Within(Inserted(s, item))

Admitted(s, envelope) ==
  [Inserted(s, envelope.item) EXCEPT !.receipt = s.receipt + 1,
                                     !.producers[envelope.item.producer] = envelope.sequence]

-----------------------------------------------------------------------------
(* Work the runtime admits itself: internal/2, reserve/2, followups/2, results/2. *)

Internal(s, item) ==
  [s EXCEPT !.queue = @ \cup {[item EXCEPT !.receipt = s.receipt + 1]},
            !.receipt = @ + 1]

(* Mutant: internal work is queued without asking within?/1. *)
MutantInternalFits(s, item) == Headroom(s, 1 + s.reserved)

InternalFits(s, item) ==
  /\ Headroom(s, 1 + s.reserved)
  /\ Within(Internal(s, item))

(* Mutant: a reservation counts its items but not what is queued. *)
MutantReserveFits(s, n) == n <= IntentLimit /\ Headroom(s, n)

ReserveFits(s, n) ==
  /\ n <= IntentLimit
  /\ Headroom(s, n)
  /\ Within([s EXCEPT !.reserved = n])

(* Appending a sequence of items one after the other; the budgets only grow on the way,
   so all the steps fit exactly when the result does. *)
Appended(s, items) ==
  [s EXCEPT !.queue = @ \cup {[items[k] EXCEPT !.receipt = s.receipt + k] : k \in DOMAIN items},
            !.receipt = @ + Len(items)]

AppendFits(s, items) ==
  /\ Headroom(s, Len(items) + s.reserved)
  /\ Within(Appended(s, items))

=============================================================================
