----------------------------- MODULE RootTimers -----------------------------
(***************************************************************************)
(* The owned timers of one root (root_timers.ex).                          *)
(*                                                                         *)
(* A state record s has the fields                                         *)
(*   entries    timer key -> [item, epoch, tick, status]                   *)
(*   serial     the epoch of the last registration                         *)
(* The private token of a wake-up is renewed each time a timer is armed:   *)
(* at the installation and after each tick.  The pair of its epoch and its *)
(* tick count names it, so a wake-up message is <<key, epoch, tick>>.      *)
(***************************************************************************)
EXTENDS Naturals, FiniteSets, Sequences

CONSTANTS
  MaxTimers,   (* simultaneous timers of a root (32)                       *)
  MaxSerial,   (* the largest safe integer a registration may reach        *)
  MaxTick      (* the largest safe integer a tick count may reach          *)

ASSUME TimersAssumption == {MaxTimers, MaxSerial, MaxTick} \subseteq Nat

Key(item) == <<item.source, item.id>>

IsControl(item) == item.kind \in {"timer_start", "timer_cancel"}

Starts(intents, n) == Cardinality({m \in 1 .. n : intents[m].kind = "timer_start"})

(* The last of the first n intents that starts or cancels the timer: {} or {m}. *)
LastOn(intents, n, key) ==
  {m \in 1 .. n : /\ IsControl(intents[m])
                  /\ Key(intents[m]) = key
                  /\ \A l \in (m + 1) .. n : IsControl(intents[l]) => Key(intents[l]) # key}

(* The timers registered once the first n intents are applied. *)
KeysAfter(s, intents, n) ==
  {key \in DOMAIN s.entries : LastOn(intents, n, key) = {}}
    \cup {Key(intents[m]) : m \in {l \in 1 .. n :
             /\ intents[l].kind = "timer_start"
             /\ l \in LastOn(intents, n, Key(intents[l]))}}

(* preflight/2: every start finds its key free and a slot left. *)
Preflight(s, intents) ==
  /\ s.serial + Starts(intents, Len(intents)) <= MaxSerial
  /\ \A n \in DOMAIN intents : intents[n].kind = "timer_start" =>
       LET before == KeysAfter(s, intents, n - 1)
       IN  Key(intents[n]) \notin before /\ Cardinality(before) < MaxTimers

Entry(item, epoch) == [item |-> item, epoch |-> epoch, tick |-> 0, status |-> "waiting"]

(* install/2 and cancel/2 over the intents of a committed candidate, in order. *)
AppliedTimers(s, intents) ==
  LET n == Len(intents) IN
  [s EXCEPT
     !.entries = [key \in KeysAfter(s, intents, n) |->
                    IF LastOn(intents, n, key) = {}
                    THEN s.entries[key]
                    ELSE LET m == CHOOSE l \in LastOn(intents, n, key) : TRUE
                         IN  Entry(intents[m], s.serial + Starts(intents, m))],
     !.serial  = @ + Starts(intents, n)]

Cancelled(s, keys) ==
  [s EXCEPT !.entries = [key \in (DOMAIN s.entries) \ keys |-> s.entries[key]]]

(* A wake-up counts only for the current registration, armed and not yet fired. *)
Wakes(s, key, epoch, tick) ==
  /\ key \in DOMAIN s.entries
  /\ s.entries[key].epoch = epoch
  /\ s.entries[key].tick = tick
  /\ s.entries[key].status = "waiting"

(* The tick item a wake-up queues, and the entry while that tick is outstanding. *)
TickItem(s, key) ==
  LET entry == s.entries[key] IN
  [entry.item EXCEPT !.kind = "timer_tick", !.epoch = entry.epoch, !.tick = entry.tick + 1]

Fired(s, key) ==
  [s EXCEPT !.entries[key].tick = @ + 1, !.entries[key].status = "firing"]

ValidTick(s, item) ==
  item.kind = "timer_tick" =>
    /\ Key(item) \in DOMAIN s.entries
    /\ s.entries[Key(item)].status = "firing"
    /\ s.entries[Key(item)].epoch = item.epoch
    /\ s.entries[Key(item)].tick = item.tick

(* Mutant: only the tick of a one-shot timer ends its registration's turn. *)
MutantFinishedTick(s, item) ==
  IF item.kind = "timer_tick" /\ ValidTick(s, item) /\ ~item.repeat
  THEN Cancelled(s, {Key(item)})
  ELSE s

(* A terminal tick rearms a repeating timer and retires a one-shot one. *)
FinishedTick(s, item) ==
  CASE item.kind # "timer_tick" \/ ~ValidTick(s, item) -> s
    [] item.kind = "timer_tick" /\ ValidTick(s, item) /\ item.repeat ->
         [s EXCEPT !.entries[Key(item)].status = "waiting"]
    [] OTHER -> Cancelled(s, {Key(item)})

=============================================================================
