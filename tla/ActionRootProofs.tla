-------------------------- MODULE ActionRootProofs --------------------------
(***************************************************************************)
(* The action ledger of a root, for every value of the constants: no       *)
(* reserved result or message is ever without room (ResultsFit), requests  *)
(* end once, the ceilings hold and every lease is accounted for.           *)
(*                                                                         *)
(* None of these is inductive alone.  Between the preparation of a         *)
(* candidate and its commit, time-outs and results of earlier requests     *)
(* change the ledger the candidate was validated against, so the invariant *)
(* says what the plan in flight may still rely on: its requests are fresh  *)
(* (PlanFits), its leases are still held, and the room and the ceilings    *)
(* hold with its reservations added in (Room, Ceil).                       *)
(***************************************************************************)
EXTENDS ActionRoot, TLAPS, FiniteSetTheorems

(* The state has its type, its sets are finite, and no match of the coordinator failed. *)
Whole(s) ==
  /\ s \in RootState
  /\ s.status # "broken"
  /\ IsFiniteSet(s.queue) /\ IsFiniteSet(s.active)
  /\ IsFiniteSet(s.pending) /\ IsFiniteSet(s.leases) /\ IsFiniteSet(s.plan)

(* No lease is held twice, and the leases held and given back are those handed over. *)
LeasesFit(s, handed) ==
  /\ \A x, y \in s.leases : x.id = y.id => x = y
  /\ \A x \in s.leases : x.id \in handed
  /\ \A l \in LeaseIds :
       s.releases[l] = IF l \in handed /\ (\A x \in s.leases : x.id # l) THEN 1 ELSE 0

(* What was requested, what was answered and what is pending agree, and what was requested in
   this generation lies below the watermark of its owner. *)
RequestFits(s, requested, r) ==
  /\ requested[r] \in {0, 1}
  /\ s.called[r] <= requested[r]
  /\ r \in s.pending => requested[r] = 1 /\ s.called[r] = 0
  /\ requested[r] = 1 => /\ r.gen <= s.gen
                         /\ r.gen = s.gen => r.seq <= s.watermark[r.owner]

RequestsFit(s, requested) == \A r \in Request : RequestFits(s, requested, r)

(* The queue has room for n more messages besides the results of the pending requests. *)
OfClass(s, class) == {i \in s.queue \cup s.active : i.class = class}

Room(s, n) ==
  /\ s.receipt + n + s.slots <= MaxReceipt
  /\ Cardinality(s.queue) + Cardinality(s.active) + n + s.slots <= TotalLimit
  /\ Cardinality(OfClass(s, "event")) <= EventLimit
  /\ Cardinality(OfClass(s, "message")) + n + s.slots <= MessageLimit

(* n more requests, and all the leases they may bring, stay below the ceilings. *)
Ceil(s, n) ==
  /\ Cardinality(s.pending) + n <= MaxPending
  /\ Cardinality(s.leases) + LeaseLimit * (Cardinality(s.pending) + n) <= MaxLeases

(* What holds of the ledger and the schedule at every step of a handler. *)
Ledger(s, handed, requested) ==
  /\ Whole(s)
  /\ s.timers = s.pending
  /\ LeasesFit(s, handed)
  /\ RequestsFit(s, requested)
  /\ s.slots = Cardinality(s.pending)
  /\ Room(s, s.reserved)
  /\ Ceil(s, Cardinality(Requests(s.plan)))

(* The queue and the ledger belong to the accepted tree, and a root that ended has none. *)
Live(s) ==
  /\ \A i \in s.queue : ValidDispatch(i, s.gen, s.comps)
  /\ \A x \in s.leases \cup s.pending : OwnerLive(x, s.comps, s.gen)

Ended == {"stopping", "disposed", "failed"}

Empty(s) == s.queue = {} /\ s.pending = {} /\ s.leases = {}

(* The plan of the candidate in flight: its requests are fresh, and it transfers each lease
   once, one the ledger holds. *)
PlanFits(s) ==
  /\ s.reserved = Reservations(s.plan)
  /\ \A r \in Requests(s.plan) : r.gen = s.gen /\ r.seq > s.watermark[r.owner]
  /\ \A a \in s.plan : a.kind = "transfer" => a.lease \in s.leases
  /\ \A a, b \in s.plan : a.kind = "transfer" /\ b.kind = "transfer" /\ a.lease = b.lease => a = b

(* A candidate is in flight exactly while the root awaits the renderer; it is an item's, of
   this generation, or the replacement's, of the next and with nothing to carry out. *)
Flight(s) ==
  /\ s.cand # {} <=> s.status = "awaiting_commit"
  /\ s.cand = {} => s.active = {}
  /\ s.active = {} => s.plan = {}
  /\ \A c, d \in s.cand : c = d
  /\ \A c \in s.cand : /\ s.active # {} => c.plan = s.plan /\ c.gen = s.gen
                       /\ s.active = {} => c.plan = {} /\ c.gen = s.gen + 1

(* What holds between two handlers. *)
Sound(s, handed, requested) ==
  /\ Ledger(s, handed, requested)
  /\ Live(s)
  /\ s.status \in Ended => Empty(s)
  /\ PlanFits(s)
  /\ Flight(s)

IInv ==
  /\ provider \in [requested : [Request -> Nat], handed : SUBSET LeaseIds]
  /\ Sound(root, provider.handed, provider.requested)

-----------------------------------------------------------------------------
(* Lemmas about numbers, finite sets and the state record. *)

(* The bounds are natural numbers. *)
LEMMA Bounds ==
  /\ TotalLimit \in Nat /\ EventLimit \in Nat /\ UpdateLimit \in Nat
  /\ MessageLimit \in Nat /\ TimerLimit \in Nat /\ MaxReceipt \in Nat
  /\ MaxPending \in Nat /\ MaxLeases \in Nat /\ LeaseLimit \in Nat
  /\ MaxSequence \in Nat /\ MaxGeneration \in Nat /\ MaxGeneration >= 1
BY ScheduleAssumption, ActionAssumption

(* The leases of n requests: a product with the limit of a declaration grows with n. *)
LEMMA Products ==
  ASSUME NEW m \in Nat, NEW n \in Nat
  PROVE  /\ LeaseLimit * m \in Nat
         /\ LeaseLimit * (m + 1) = LeaseLimit * m + LeaseLimit
         /\ m <= n => LeaseLimit * m <= LeaseLimit * n
BY Bounds

(* The values of a function on a finite set are no more than its arguments. *)
LEMMA ImageBound ==
  ASSUME NEW S, IsFiniteSet(S), NEW f, f \in [S -> {f[x] : x \in S}]
  PROVE  /\ IsFiniteSet({f[x] : x \in S})
         /\ Cardinality({f[x] : x \in S}) <= Cardinality(S)
<1>1. f \in Surjection(S, {f[x] : x \in S})
  BY DEF Surjection
<1>2. QED BY <1>1, FS_Surjection

(* A union is no larger than its parts together. *)
LEMMA UnionBound ==
  ASSUME NEW S, NEW T, IsFiniteSet(S), IsFiniteSet(T)
  PROVE  /\ IsFiniteSet(S \cup T)
         /\ Cardinality(S \cup T) <= Cardinality(S) + Cardinality(T)
         /\ Cardinality(S) \in Nat /\ Cardinality(T) \in Nat /\ Cardinality(S \cup T) \in Nat
<1>1. IsFiniteSet(S \cap T) /\ IsFiniteSet(S \cup T)
  BY FS_Intersection, FS_Union
<1>2. Cardinality(S \cap T) \in Nat /\ Cardinality(S \cup T) \in Nat
        /\ Cardinality(S) \in Nat /\ Cardinality(T) \in Nat
  BY <1>1, FS_CardinalityType
<1>3. Cardinality(S \cup T) = Cardinality(S) + Cardinality(T) - Cardinality(S \cap T)
  BY FS_Union
<1>4. QED BY <1>1, <1>2, <1>3

(* A part of a finite set is finite and no larger. *)
LEMMA PartBound ==
  ASSUME NEW S, IsFiniteSet(S), NEW T, T \subseteq S
  PROVE  IsFiniteSet(T) /\ Cardinality(T) \in Nat /\ Cardinality(S) \in Nat
           /\ Cardinality(T) <= Cardinality(S)
BY FS_Subset, FS_CardinalityType

(* The elements of a finite set in some order: each of them once. *)
LEMMA InSomeOrder ==
  ASSUME NEW S, IsFiniteSet(S)
  PROVE  /\ Cardinality(S) \in Nat
         /\ SetToSeq(S) \in [1 .. Cardinality(S) -> S]
         /\ \A x \in S : \E k \in 1 .. Cardinality(S) : SetToSeq(S)[k] = x
         /\ \A j, k \in 1 .. Cardinality(S) : SetToSeq(S)[j] = SetToSeq(S)[k] => j = k
<1>1. Cardinality(S) \in Nat /\ ExistsBijection(1 .. Cardinality(S), S)
  BY FS_CardinalityType
<1> DEFINE n == Cardinality(S)
<1>2. PICK f \in [1 .. n -> S] : IsInjective(f)
  BY <1>1 DEF ExistsBijection, Bijection, Injection, IsInjective
<1>3. SetToSeq(S) \in [1 .. n -> S] /\ IsInjective(SetToSeq(S))
  BY <1>2 DEF SetToSeq
<1>4. SetToSeq(S) \in Injection(1 .. n, S)
  BY <1>3 DEF Injection, IsInjective
<1>5. IsFiniteSet(1 .. n) /\ Cardinality(1 .. n) = n
  BY <1>1, FS_Interval
<1>6. SetToSeq(S) \in Surjection(1 .. n, S)
  BY <1>4, <1>5, FS_Injection
<1>7. \A x \in S : \E k \in 1 .. n : SetToSeq(S)[k] = x
  BY <1>6 DEF Surjection
<1>8. \A j, k \in 1 .. n : SetToSeq(S)[j] = SetToSeq(S)[k] => j = k
  BY <1>3 DEF IsInjective
<1>9. QED BY <1>1, <1>3, <1>7, <1>8

(* The fields of the state and their sizes. *)
LEMMA Fields ==
  ASSUME NEW s, Whole(s)
  PROVE  /\ s.status \in {"ready", "awaiting_commit", "stopping", "disposed", "failed"}
         /\ s.comps \subseteq Components /\ s.gen \in 1 .. MaxGeneration
         /\ s.cand \subseteq Candidate /\ s.plan \subseteq Action
         /\ s.queue \subseteq Item /\ s.active \subseteq Item
         /\ s.reserved \in Nat /\ s.slots \in Nat /\ s.receipt \in 0 .. MaxReceipt
         /\ s.pending \subseteq Request /\ s.timers \subseteq Request /\ s.leases \subseteq Lease
         /\ s.watermark \in [Components -> 0 .. MaxSequence]
         /\ s.called \in [Request -> Nat] /\ s.releases \in [LeaseIds -> Nat]
         /\ s.refused \subseteq LeaseIds
         /\ Cardinality(s.queue) \in Nat /\ Cardinality(s.active) \in Nat
         /\ Cardinality(s.pending) \in Nat /\ Cardinality(s.leases) \in Nat
<1>1. /\ Cardinality(s.queue) \in Nat /\ Cardinality(s.active) \in Nat
      /\ Cardinality(s.pending) \in Nat /\ Cardinality(s.leases) \in Nat
  BY FS_CardinalityType DEF Whole
<1>2. s \in RootState /\ s.status # "broken"
  BY DEF Whole
<1>3. QED BY <1>1, <1>2 DEF RootState, Closed

(* The items of a class, queued or active, are finitely many. *)
LEMMA ClassFinite ==
  ASSUME NEW s, IsFiniteSet(s.queue), IsFiniteSet(s.active), NEW class
  PROVE  IsFiniteSet(OfClass(s, class)) /\ Cardinality(OfClass(s, class)) \in Nat
<1>1. IsFiniteSet(s.queue \cup s.active)
  BY UnionBound
<1>2. OfClass(s, class) \subseteq s.queue \cup s.active
  BY DEF OfClass
<1>3. QED BY <1>1, <1>2, PartBound

(* The requests of a finite plan are no more than its request actions. *)
LEMMA RequestsBound ==
  ASSUME NEW plan, IsFiniteSet(plan), plan \subseteq Action
  PROVE  /\ Requests(plan) \subseteq Request
         /\ IsFiniteSet(Requests(plan)) /\ Cardinality(Requests(plan)) \in Nat
         /\ IsFiniteSet({a \in plan : a.kind = "message"})
         /\ Cardinality({a \in plan : a.kind = "message"}) \in Nat
         /\ Reservations(plan) \in Nat
         /\ Cardinality({a \in plan : a.kind = "message"}) + Cardinality(Requests(plan))
              <= Reservations(plan)
<1> DEFINE asked == {a \in plan : a.kind = "request"}
           told  == {a \in plan : a.kind = "message"}
           f     == [a \in asked |-> a.req]
<1>1. IsFiniteSet(asked) /\ IsFiniteSet(told)
  BY PartBound
<1>2. Requests(plan) = {f[a] : a \in asked}
  BY DEF Requests
<1>3. f \in [asked -> {f[a] : a \in asked}]
  OBVIOUS
<1>4. IsFiniteSet(Requests(plan)) /\ Cardinality(Requests(plan)) <= Cardinality(asked)
  <2> HIDE DEF asked, f
  <2> QED BY <1>1, <1>2, <1>3, ImageBound
<1>5. /\ Cardinality(Requests(plan)) \in Nat /\ Cardinality(asked) \in Nat
      /\ Cardinality(told) \in Nat
  BY <1>1, <1>4, FS_CardinalityType
<1>6. Reservations(plan) = Cardinality(told) + Cardinality(asked)
  <2>1. {a \in plan : a.kind \in {"message", "request"}} = told \cup asked
    OBVIOUS
  <2>2. told \cap asked = {}
    OBVIOUS
  <2>3. Cardinality(told \cup asked) = Cardinality(told) + Cardinality(asked)
    <3> HIDE DEF told, asked
    <3>1. Cardinality(told \cup asked) = Cardinality(told) + Cardinality(asked) - Cardinality({})
      BY <1>1, <2>2, FS_Union
    <3>2. QED BY <3>1, <1>5, FS_EmptySet
  <2>4. QED BY <2>1, <2>3 DEF Reservations
<1>7. Requests(plan) \subseteq Request
  BY DEF Requests, Action
<1> HIDE DEF asked, told
<1>8. QED BY <1>1, <1>4, <1>5, <1>6, <1>7 DEF told

(* A function on 1 .. n is a sequence of length n. *)
LEMMA Listed ==
  ASSUME NEW S, NEW n \in Nat, NEW f \in [1 .. n -> S]
  PROVE  f \in Seq(S) /\ Len(f) = n /\ DOMAIN f = 1 .. n
OBVIOUS

(* Work of a component of the tree is an item. *)
LEMMA WorkType ==
  /\ \A c \in Components, g \in 1 .. MaxGeneration, kind \in {"event", "message"} :
       Work(kind, c, g) \in Item /\ Work(kind, c, g).class = kind
  /\ \A r \in Request, ids \in SUBSET LeaseIds :
       /\ ResultItem(r, ids) \in Item
       /\ ResultItem(r, ids).class = "message" /\ ResultItem(r, ids).req = r
BY DEF Work, ResultItem, Item, Request

(* An item stays one, of its class and kind, when admission gives it its receipt. *)
LEMMA Renumbered ==
  ASSUME NEW i \in Item, NEW n \in Nat
  PROVE  /\ [i EXCEPT !.receipt = n] \in Item
         /\ [i EXCEPT !.receipt = n].class = i.class
BY DEF Item

(* A list of n items that count as messages: messages and results do. *)
Messages(items, n) == items \in [1 .. n -> Item] /\ \A k \in 1 .. n : items[k].class = "message"

(* followups/2 and results/2: when there is room for m more messages, the first of them find
   it, and leave room for the rest. *)
LEMMA AppendedFits ==
  ASSUME NEW s, Whole(s), NEW m \in Nat, Room(s, m), NEW n \in Nat, NEW items,
         Messages(items, n), n + s.reserved <= m
  PROVE  /\ AppendFits(s, items)
         /\ Whole(Appended(s, items)) /\ Room(Appended(s, items), m - n)
<1> DEFINE f     == [k \in 1 .. n |-> [items[k] EXCEPT !.receipt = s.receipt + k]]
           added == {[items[k] EXCEPT !.receipt = s.receipt + k] : k \in DOMAIN items}
           t     == Appended(s, items)
<1>1. Len(items) = n /\ DOMAIN items = 1 .. n
  BY Listed DEF Messages
<1>2. /\ s.receipt \in 0 .. MaxReceipt /\ s.slots \in Nat /\ s.reserved \in Nat
      /\ s.queue \subseteq Item /\ s.active \subseteq Item
      /\ Cardinality(s.queue) \in Nat /\ Cardinality(s.active) \in Nat
  BY Fields
<1>3. \A k \in 1 .. n : f[k] \in Item /\ f[k].class = "message"
  <2> SUFFICES ASSUME NEW k \in 1 .. n PROVE f[k] \in Item /\ f[k].class = "message"
    OBVIOUS
  <2>1. items[k] \in Item /\ items[k].class = "message" /\ s.receipt + k \in Nat
    BY <1>2, Bounds DEF Messages
  <2>2. QED BY <2>1, Renumbered
<1>4. added = {f[k] : k \in 1 .. n}
  BY <1>1
<1>5. IsFiniteSet(added) /\ Cardinality(added) <= n /\ Cardinality(added) \in Nat
  <2>1. IsFiniteSet(1 .. n) /\ Cardinality(1 .. n) = n
    BY FS_Interval
  <2>2. f \in [1 .. n -> {f[k] : k \in 1 .. n}]
    OBVIOUS
  <2> HIDE DEF f
  <2>3. IsFiniteSet({f[k] : k \in 1 .. n}) /\ Cardinality({f[k] : k \in 1 .. n}) <= n
    BY <2>1, <2>2, ImageBound
  <2> HIDE DEF added
  <2>4. IsFiniteSet(added) /\ Cardinality(added) <= n
    BY <1>4, <2>3
  <2>5. QED BY <2>4, FS_CardinalityType
<1>6. added \subseteq Item /\ \A i \in added : i.class = "message"
  <2> HIDE DEF f, added
  <2> QED BY <1>3, <1>4
<1> HIDE DEF f, added
<1>7. t = [s EXCEPT !.queue = @ \cup added, !.receipt = @ + n]
  BY <1>1 DEF Appended, added
<1>8. /\ t.queue = s.queue \cup added /\ t.active = s.active /\ t.receipt = s.receipt + n
      /\ t.slots = s.slots /\ t.reserved = s.reserved
  BY <1>7 DEF Whole, RootState
<1> HIDE DEF t
<1>9. /\ IsFiniteSet(t.queue) /\ Cardinality(t.queue) \in Nat
      /\ Cardinality(t.queue) <= Cardinality(s.queue) + n
  BY <1>2, <1>5, <1>8, UnionBound DEF Whole
<1>10. /\ Cardinality(OfClass(s, "message")) \in Nat /\ Cardinality(OfClass(t, "message")) \in Nat
       /\ Cardinality(OfClass(t, "message")) <= Cardinality(OfClass(s, "message")) + n
  <2>1. OfClass(t, "message") = OfClass(s, "message") \cup added
    BY <1>6, <1>8 DEF OfClass
  <2>2. IsFiniteSet(OfClass(s, "message"))
    BY ClassFinite DEF Whole
  <2>3. QED BY <1>5, <2>1, <2>2, UnionBound
<1>11. OfClass(t, "event") = OfClass(s, "event")
  BY <1>6, <1>8 DEF OfClass
<1>12. OfClass(t, "update") = {} /\ OfClass(t, "timer") = {}
  <2>1. \A i \in t.queue \cup t.active : i.class \in {"event", "message"}
    BY <1>2, <1>6, <1>8 DEF Item
  <2>2. QED BY <2>1 DEF OfClass
<1>13. Room(t, m - n)
  BY <1>2, <1>8, <1>9, <1>10, <1>11, Bounds DEF Room
<1>14. Within(t)
  <2>1. Depth(t) <= TotalLimit
    BY <1>2, <1>8, <1>9, <1>13, Bounds DEF Depth, Room
  <2>2. ClassCount(t, "event") <= ClassLimit["event"]
    <3>1. Cardinality(OfClass(t, "event")) \in Nat
      BY <1>8, <1>9, ClassFinite DEF Whole
    <3>2. ClassCount(t, "event") = Cardinality(OfClass(t, "event"))
      BY <3>1 DEF ClassCount, OfClass
    <3>3. QED BY <1>13, <3>2 DEF ClassLimit, Room
  <2>3. ClassCount(t, "message") <= ClassLimit["message"]
    BY <1>2, <1>8, <1>10, <1>13, Bounds DEF ClassCount, ClassLimit, OfClass, Room
  <2>4. ClassCount(t, "update") = 0 /\ ClassCount(t, "timer") = 0
    <3>1. Cardinality(OfClass(t, "update")) = 0 /\ Cardinality(OfClass(t, "timer")) = 0
      BY <1>12, FS_EmptySet
    <3>2. /\ ClassCount(t, "update") = Cardinality(OfClass(t, "update")) + 0
          /\ ClassCount(t, "timer") = Cardinality(OfClass(t, "timer")) + 0
      BY DEF ClassCount, OfClass
    <3>3. QED BY <3>1, <3>2
  <2>5. ClassCount(t, "update") <= ClassLimit["update"] /\ ClassCount(t, "timer") <= ClassLimit["timer"]
    BY <2>4, Bounds DEF ClassLimit
  <2>6. QED BY <2>1, <2>2, <2>3, <2>4, <2>5 DEF Within, Classes
<1>15. AppendFits(s, items)
  <2>1. Headroom(s, Len(items) + s.reserved)
    <3>1. s.receipt + m + s.slots <= MaxReceipt
      BY DEF Room
    <3>2. s.receipt + (n + s.reserved) + s.slots <= MaxReceipt
      BY <1>2, <3>1, Bounds
    <3>3. QED BY <1>1, <3>2 DEF Headroom
  <2>2. QED BY <2>1, <1>14 DEF AppendFits, t
<1>16. Whole(t)
  <2>1. s.receipt + n \in 0 .. MaxReceipt
    BY <1>2, Bounds DEF Room
  <2>2. t \in RootState
    BY <1>2, <1>6, <1>7, <2>1 DEF Whole, RootState
  <2>3. QED BY <1>7, <1>9, <2>2 DEF Whole, RootState
<1>17. QED BY <1>13, <1>15, <1>16 DEF t

(* Fewer items and fewer slots leave at least the room there was. *)
LEMMA RoomGrows ==
  ASSUME NEW s, Whole(s), NEW t, Whole(t), NEW m \in Nat, NEW n \in Nat, Room(s, m),
         t.queue \subseteq s.queue, t.active \subseteq s.active,
         t.receipt <= s.receipt, n + t.slots <= m + s.slots
  PROVE  Room(t, n)
<1>1. /\ Cardinality(t.queue) <= Cardinality(s.queue)
      /\ Cardinality(t.active) <= Cardinality(s.active)
  BY PartBound DEF Whole
<1>2. \A class : /\ Cardinality(OfClass(t, class)) <= Cardinality(OfClass(s, class))
                 /\ Cardinality(OfClass(t, class)) \in Nat /\ Cardinality(OfClass(s, class)) \in Nat
  <2> TAKE class
  <2>1. IsFiniteSet(OfClass(s, class))
    BY ClassFinite DEF Whole
  <2>2. OfClass(t, class) \subseteq OfClass(s, class)
    BY DEF OfClass
  <2>3. QED BY <2>1, <2>2, PartBound
<1>3. /\ s.slots \in Nat /\ t.slots \in Nat /\ s.receipt \in Nat /\ t.receipt \in Nat
      /\ Cardinality(s.queue) \in Nat /\ Cardinality(t.queue) \in Nat
      /\ Cardinality(s.active) \in Nat /\ Cardinality(t.active) \in Nat
  BY Fields
<1>4. QED BY <1>1, <1>2, <1>3, Bounds DEF Room

-----------------------------------------------------------------------------
(* The ledger's operators. *)

(* What releasing leases leaves alone. *)
Alike(s, t) ==
  /\ t.status = s.status /\ t.comps = s.comps /\ t.gen = s.gen /\ t.cand = s.cand
  /\ t.plan = s.plan /\ t.active = s.active /\ t.reserved = s.reserved
  /\ t.receipt = s.receipt /\ t.watermark = s.watermark /\ t.called = s.called

(* Releasing leases (release/2) gives each of them back once and forgets it. *)
LEMMA ReleasedFits ==
  ASSUME NEW s, Whole(s), NEW handed \in SUBSET LeaseIds, LeasesFit(s, handed), NEW ids
  PROVE  /\ Whole(Released(s, ids)) /\ LeasesFit(Released(s, ids), handed)
         /\ Released(s, ids).leases = {l \in s.leases : l.id \notin ids}
         /\ Alike(s, Released(s, ids))
         /\ Released(s, ids).queue = s.queue /\ Released(s, ids).slots = s.slots
         /\ Released(s, ids).pending = s.pending /\ Released(s, ids).timers = s.timers
         /\ Released(s, ids).refused = s.refused
<1> DEFINE held == {l \in s.leases : l.id \in ids}
           given == [id \in LeaseIds |-> IF id \in {l.id : l \in held}
                                         THEN s.releases[id] + 1 ELSE s.releases[id]]
           t == Released(s, ids)
<1>1. t = [s EXCEPT !.leases = @ \ held, !.releases = given]
  BY DEF Released
<1>2. s.releases \in [LeaseIds -> Nat] /\ s.leases \subseteq Lease
  BY Fields
<1>3. given \in [LeaseIds -> Nat]
  BY <1>2
<1> HIDE DEF given
<1>4. /\ t.leases = s.leases \ held /\ t.releases = given /\ Alike(s, t)
      /\ t.queue = s.queue /\ t.slots = s.slots /\ t.pending = s.pending /\ t.timers = s.timers
      /\ t.refused = s.refused
  <2> HIDE DEF held
  <2> QED BY <1>1 DEF Alike, Whole, RootState
<1>5. Whole(t)
  <2>1. IsFiniteSet(t.leases)
    BY <1>4, PartBound DEF Whole
  <2>2. t \in RootState
    <3> HIDE DEF held
    <3> QED BY <1>1, <1>3 DEF Whole, RootState
  <2> HIDE DEF t
  <2>3. QED BY <1>4, <2>1, <2>2 DEF Whole, Alike
<1>6. LeasesFit(t, handed)
  <2>1. ASSUME NEW l \in LeaseIds
        PROVE  given[l] = IF l \in handed /\ (\A x \in t.leases : x.id # l) THEN 1 ELSE 0
    <3>1. CASE \E x \in held : x.id = l
      <4>1. given[l] = s.releases[l] + 1 /\ s.releases[l] = 0 /\ l \in handed
        BY <3>1, <1>2 DEF LeasesFit, given
      <4>2. \A x \in t.leases : x.id # l
        BY <3>1, <1>4
      <4>3. QED BY <4>1, <4>2
    <3>2. CASE ~\E x \in held : x.id = l
      <4>1. given[l] = s.releases[l]
        BY <3>2 DEF given
      <4>2. (\A x \in t.leases : x.id # l) <=> (\A x \in s.leases : x.id # l)
        BY <3>2, <1>4
      <4>3. QED BY <4>1, <4>2 DEF LeasesFit
    <3>3. QED BY <3>1, <3>2
  <2>2. t.leases \subseteq s.leases
    BY <1>4
  <2>3. QED BY <1>4, <2>1, <2>2 DEF LeasesFit
<1>7. t.leases = {l \in s.leases : l.id \notin ids}
  BY <1>4
<1>8. QED BY <1>4, <1>5, <1>6, <1>7 DEF t

(* A step that only takes away keeps the ledger: pending requests with their time-outs and
   slots, leases, queued work, the active transition, its plan and its reservations. *)
LEMMA LedgerShrinks ==
  ASSUME NEW s, NEW t, NEW handed, NEW requested, Ledger(s, handed, requested),
         Whole(t), LeasesFit(t, handed),
         t.pending \subseteq s.pending, t.timers = t.pending, t.leases \subseteq s.leases,
         t.slots = Cardinality(t.pending), t.queue \subseteq s.queue, t.active \subseteq s.active,
         t.plan \subseteq s.plan, t.reserved <= s.reserved, t.receipt = s.receipt,
         t.gen = s.gen, t.watermark = s.watermark, t.called = s.called
  PROVE  Ledger(t, handed, requested)
<1>1. Whole(s) /\ s.slots = Cardinality(s.pending) /\ Room(s, s.reserved)
        /\ RequestsFit(s, requested) /\ Ceil(s, Cardinality(Requests(s.plan)))
  BY DEF Ledger
<1>2. /\ Cardinality(t.pending) <= Cardinality(s.pending)
      /\ Cardinality(t.leases) <= Cardinality(s.leases)
  BY <1>1, PartBound DEF Whole
<1>3. /\ Cardinality(s.pending) \in Nat /\ Cardinality(t.pending) \in Nat
      /\ Cardinality(s.leases) \in Nat /\ Cardinality(t.leases) \in Nat
      /\ s.reserved \in Nat /\ t.reserved \in Nat /\ s.receipt \in Nat
      /\ s.plan \subseteq Action /\ t.plan \subseteq Action
  BY <1>1, Fields
<1>4. Room(t, t.reserved)
  BY <1>1, <1>2, <1>3, RoomGrows
<1>5. Ceil(t, Cardinality(Requests(t.plan)))
  <2> DEFINE m == Cardinality(Requests(s.plan))
             n == Cardinality(Requests(t.plan))
  <2>1. Requests(t.plan) \subseteq Requests(s.plan)
    BY DEF Requests
  <2>2. IsFiniteSet(Requests(s.plan)) /\ m \in Nat
    BY <1>1, <1>3, RequestsBound DEF Whole
  <2>3. n \in Nat /\ n <= m
    BY <2>1, <2>2, PartBound
  <2> HIDE DEF m, n
  <2>4. Cardinality(t.pending) + n <= Cardinality(s.pending) + m
    BY <1>2, <1>3, <2>2, <2>3
  <2>5. LeaseLimit * (Cardinality(t.pending) + n) <= LeaseLimit * (Cardinality(s.pending) + m)
    BY <1>3, <2>2, <2>3, <2>4, Products
  <2>6. /\ LeaseLimit * (Cardinality(t.pending) + n) \in Nat
        /\ LeaseLimit * (Cardinality(s.pending) + m) \in Nat
    BY <1>3, <2>2, <2>3, Products
  <2>7. /\ Cardinality(s.pending) + m <= MaxPending
        /\ Cardinality(s.leases) + LeaseLimit * (Cardinality(s.pending) + m) <= MaxLeases
    BY <1>1 DEF Ceil, m
  <2>8. /\ Cardinality(t.pending) + n <= MaxPending
        /\ Cardinality(t.leases) + LeaseLimit * (Cardinality(t.pending) + n) <= MaxLeases
    BY <1>2, <1>3, <2>2, <2>3, <2>4, <2>5, <2>6, <2>7, Bounds
  <2>9. QED BY <2>8 DEF Ceil, n
<1>6. RequestsFit(t, requested)
  <2> SUFFICES ASSUME NEW r \in Request PROVE RequestFits(t, requested, r)
    BY DEF RequestsFit
  <2>1. RequestFits(s, requested, r)
    BY <1>1 DEF RequestsFit
  <2>2. QED BY <2>1 DEF RequestFits
<1>7. QED BY <1>4, <1>5, <1>6 DEF Ledger

(* The results of the requests E, each once, in some order. *)
Results(items, n, E) ==
  /\ Messages(items, n)
  /\ \A k \in 1 .. n : /\ items[k].req \in E
                       /\ items[k].source = items[k].req.owner /\ items[k].target = items[k].req.owner
                       /\ items[k].gen = items[k].req.gen
  /\ \A r \in E : \E k \in 1 .. n : items[k].req = r
  /\ \A j, k \in 1 .. n : items[j].req = items[k].req => j = k

(* The sequences the runtime makes are such: the one of a single result, and the one of the
   requests a batch ends. *)
LEMMA ResultsMade ==
  /\ \A r \in Request, ids \in SUBSET LeaseIds : Results(<<ResultItem(r, ids)>>, 1, {r})
  /\ \A E \in SUBSET Request : IsFiniteSet(E) =>
       Results([k \in 1 .. Cardinality(E) |-> ResultItem(SetToSeq(E)[k], {})], Cardinality(E), E)
<1>1. ASSUME NEW r \in Request, NEW ids \in SUBSET LeaseIds
      PROVE  /\ ResultItem(r, ids) \in Item /\ ResultItem(r, ids).class = "message"
             /\ ResultItem(r, ids).req = r /\ ResultItem(r, ids).source = r.owner
             /\ ResultItem(r, ids).target = r.owner /\ ResultItem(r, ids).gen = r.gen
  BY WorkType DEF ResultItem, Work
<1>2. ASSUME NEW r \in Request, NEW ids \in SUBSET LeaseIds
      PROVE  Results(<<ResultItem(r, ids)>>, 1, {r})
  <2> DEFINE i == ResultItem(r, ids)
  <2>1. /\ i \in Item /\ i.class = "message" /\ i.req = r /\ i.source = r.owner
        /\ i.target = r.owner /\ i.gen = r.gen
    BY <1>1
  <2> HIDE DEF i
  <2>2. <<i>> \in [1 .. 1 -> Item] /\ \A k \in 1 .. 1 : <<i>>[k] = i
    BY <2>1
  <2>3. Results(<<i>>, 1, {r})
    BY <2>1, <2>2 DEF Results, Messages
  <2>4. QED BY <2>3 DEF i
<1>3. ASSUME NEW E \in SUBSET Request, IsFiniteSet(E)
      PROVE  Results([k \in 1 .. Cardinality(E) |-> ResultItem(SetToSeq(E)[k], {})],
                     Cardinality(E), E)
  <2> DEFINE n == Cardinality(E)
             q == SetToSeq(E)
             items == [k \in 1 .. n |-> ResultItem(q[k], {})]
  <2>1. /\ n \in Nat /\ q \in [1 .. n -> E]
        /\ \A x \in E : \E k \in 1 .. n : q[k] = x
        /\ \A j, k \in 1 .. n : q[j] = q[k] => j = k
    BY <1>3, InSomeOrder
  <2> HIDE DEF n, q
  <2>2. ASSUME NEW k \in 1 .. n
        PROVE  /\ items[k] \in Item /\ items[k].class = "message"
               /\ items[k].req = q[k] /\ items[k].source = q[k].owner
               /\ items[k].target = q[k].owner /\ items[k].gen = q[k].gen
    <3>1. q[k] \in Request /\ items[k] = ResultItem(q[k], {})
      BY <2>1
    <3> HIDE DEF items
    <3>2. QED BY <3>1, <1>1
  <2>3. DOMAIN items = 1 .. n /\ items \in [1 .. n -> Item]
    BY <2>2
  <2> HIDE DEF items
  <2>4. Messages(items, n)
    BY <2>2, <2>3 DEF Messages
  <2>5. Results(items, n, E)
    BY <2>1, <2>2, <2>4 DEF Results
  <2>6. QED BY <2>5 DEF items, n, q
<1>4. QED BY <1>2, <1>3

(* Each of these requests has one result among them. *)
LEMMA OneEach ==
  ASSUME NEW n \in Nat, NEW items, NEW E, Results(items, n, E), NEW r
  PROVE  Cardinality({k \in DOMAIN items : items[k].req = r}) = IF r \in E THEN 1 ELSE 0
<1>1. DOMAIN items = 1 .. n
  BY DEF Results, Messages
<1>2. CASE r \in E
  <2>1. PICK k \in 1 .. n : items[k].req = r
    BY <1>2 DEF Results
  <2>2. {j \in DOMAIN items : items[j].req = r} = {k}
    BY <1>1, <2>1 DEF Results
  <2>3. QED BY <1>2, <2>2, FS_Singleton
<1>3. CASE r \notin E
  <2>1. {j \in DOMAIN items : items[j].req = r} = {}
    BY <1>1, <1>3 DEF Results
  <2>2. QED BY <1>3, <2>1, FS_EmptySet
<1>4. QED BY <1>2, <1>3

(* What queueing results leaves alone. *)
Kept(s, t) ==
  /\ t.status = s.status /\ t.comps = s.comps /\ t.gen = s.gen /\ t.cand = s.cand
  /\ t.plan = s.plan /\ t.active = s.active /\ t.reserved = s.reserved
  /\ t.pending = s.pending /\ t.timers = s.timers /\ t.leases = s.leases
  /\ t.watermark = s.watermark /\ t.releases = s.releases /\ t.refused = s.refused

(* The requests E just left the ledger: none is pending, each was made and none has a result. *)
Answerable(s, requested, E) ==
  \A r \in E : requested[r] = 1 /\ s.called[r] = 0 /\ r \notin s.pending

(* action_result_ready/3: the slots of the requests that ended, and what was reserved beside,
   are room enough for their results; each of these requests has its result now. *)
LEMMA ResultsQueued ==
  ASSUME NEW s, Whole(s), NEW handed, NEW requested, NEW m \in Nat, NEW n \in Nat, NEW items, NEW E,
         Results(items, n, E), Room(s, m),
         n + Cardinality(s.pending) + s.reserved <= m + s.slots,
         s.timers = s.pending, LeasesFit(s, handed), RequestsFit(s, requested),
         Answerable(s, requested, E), Ceil(s, Cardinality(Requests(s.plan)))
  PROVE  /\ Ledger(ResultReady(s, items), handed, requested)
         /\ Kept(s, ResultReady(s, items))
         /\ \A i \in ResultReady(s, items).queue \ s.queue :
              \E r \in E : i.source = r.owner /\ i.target = r.owner /\ i.gen = r.gen
<1> DEFINE freed  == [s EXCEPT !.slots = Cardinality(s.pending)]
           calls  == [r \in Request |-> s.called[r] + Cardinality({k \in DOMAIN items : items[k].req = r})]
           queued == Appended(freed, items)
           t      == [queued EXCEPT !.called = calls]
<1>1. /\ Cardinality(s.pending) \in Nat /\ s.reserved \in Nat /\ s.slots \in Nat
      /\ s.receipt \in Nat /\ s.called \in [Request -> Nat]
  BY Fields
<1>2. Whole(freed)
  <2>1. freed \in RootState
    BY <1>1 DEF Whole, RootState
  <2>2. QED BY <2>1 DEF Whole, RootState
<1>3. /\ Kept(s, freed) /\ freed.slots = Cardinality(s.pending) /\ freed.called = s.called
      /\ freed.queue = s.queue /\ freed.receipt = s.receipt
  BY DEF Whole, RootState, Kept
<1> HIDE DEF freed
<1>4. Room(freed, n + s.reserved)
  <2>1. /\ freed.queue \subseteq s.queue /\ freed.active \subseteq s.active
        /\ freed.receipt <= s.receipt /\ n + s.reserved + freed.slots <= m + s.slots
        /\ n + s.reserved \in Nat
    BY <1>1, <1>3 DEF Kept
  <2>2. QED BY <1>2, <2>1, RoomGrows
<1>5. AppendFits(freed, items) /\ Whole(queued) /\ Room(queued, s.reserved)
  <2>1. Messages(items, n) /\ n + s.reserved \in Nat /\ n + freed.reserved <= n + s.reserved
    BY <1>1, <1>3 DEF Results, Kept
  <2>2. /\ AppendFits(freed, items) /\ Whole(queued)
        /\ Room(queued, (n + s.reserved) - n)
    BY <1>2, <1>4, <2>1, AppendedFits
  <2>3. (n + s.reserved) - n = s.reserved
    BY <1>1
  <2>4. QED BY <2>2, <2>3
<1>6. ResultReady(s, items) = t
  <2>1. queued.called = s.called
    BY <1>2, <1>3 DEF Appended, Whole, RootState
  <2>2. queued \in RootState
    BY <1>5 DEF Whole
  <2>3. [queued EXCEPT !.called = [r \in Request |-> @[r] + Cardinality({k \in DOMAIN items : items[k].req = r})]] = t
    BY <2>1
  <2> HIDE DEF queued, t
  <2>4. QED BY <1>5, <2>3 DEF ResultReady, freed, queued
<1>7. \A r \in Request : calls[r] = s.called[r] + (IF r \in E THEN 1 ELSE 0)
  <2>1. \A r : Cardinality({k \in DOMAIN items : items[k].req = r}) = IF r \in E THEN 1 ELSE 0
    BY OneEach
  <2>2. QED BY <2>1
<1>8. calls \in [Request -> Nat]
  <2>1. \A r \in Request : calls[r] \in Nat
    BY <1>1, <1>7
  <2>2. QED BY <2>1
<1> HIDE DEF calls
<1>9. Whole(t) /\ Kept(s, t) /\ t.called = calls /\ t.slots = Cardinality(s.pending)
        /\ t.queue = queued.queue /\ t.receipt = queued.receipt
  <2>1. /\ Kept(freed, queued) /\ queued.slots = freed.slots
    BY <1>2 DEF Appended, Whole, RootState, Kept
  <2> HIDE DEF queued
  <2>2. t \in RootState
    BY <1>5, <1>8 DEF Whole, RootState
  <2>3. /\ Kept(queued, t) /\ t.slots = queued.slots /\ t.queue = queued.queue
        /\ t.receipt = queued.receipt /\ t.called = calls
    BY <1>5 DEF Whole, RootState, Kept
  <2> HIDE DEF t
  <2>4. Kept(s, t)
    BY <1>3, <2>1, <2>3 DEF Kept
  <2>5. QED BY <1>3, <1>5, <2>1, <2>2, <2>3, <2>4 DEF Whole, Kept
<1>10. \A i \in queued.queue \ s.queue :
          \E r \in E : i.source = r.owner /\ i.target = r.owner /\ i.gen = r.gen
  <2>1. DOMAIN items = 1 .. n
    BY DEF Results, Messages
  <2>2. queued.queue = s.queue \cup {[items[k] EXCEPT !.receipt = freed.receipt + k] : k \in DOMAIN items}
    BY <1>2, <1>3 DEF Appended, Whole, RootState
  <2> SUFFICES ASSUME NEW i \in queued.queue \ s.queue
               PROVE  \E r \in E : i.source = r.owner /\ i.target = r.owner /\ i.gen = r.gen
    OBVIOUS
  <2>3. PICK k \in 1 .. n : i = [items[k] EXCEPT !.receipt = freed.receipt + k]
    <3> HIDE DEF queued
    <3> QED BY <2>1, <2>2
  <2>4. items[k] \in Item
    BY DEF Results, Messages
  <2>5. i.source = items[k].source /\ i.target = items[k].target /\ i.gen = items[k].gen
    BY <2>3, <2>4 DEF Item
  <2>6. QED BY <2>5 DEF Results
<1>11. RequestsFit(t, requested)
  <2> SUFFICES ASSUME NEW r \in Request PROVE RequestFits(t, requested, r)
    BY DEF RequestsFit
  <2>1. RequestFits(s, requested, r)
    BY DEF RequestsFit
  <2>2. t.called[r] = s.called[r] + (IF r \in E THEN 1 ELSE 0) /\ s.called[r] \in Nat
    BY <1>1, <1>7, <1>9
  <2>3. t.pending = s.pending /\ t.gen = s.gen /\ t.watermark = s.watermark
    BY <1>9 DEF Kept
  <2> HIDE DEF t
  <2>4. CASE r \in E
    BY <2>1, <2>2, <2>3, <2>4 DEF RequestFits, Answerable
  <2>5. CASE r \notin E
    BY <2>1, <2>2, <2>3, <2>5 DEF RequestFits
  <2>6. QED BY <2>4, <2>5
<1>12. Room(t, t.reserved)
  <2> HIDE DEF t, queued
  <2>1. t.slots = queued.slots /\ t.active = queued.active /\ t.reserved = s.reserved
    <3>1. queued.slots = freed.slots /\ queued.active = freed.active
      BY <1>2 DEF queued, Appended, Whole, RootState
    <3>2. QED BY <1>3, <1>9, <3>1 DEF Kept
  <2>2. \A class : OfClass(t, class) = OfClass(queued, class)
    BY <1>9, <2>1 DEF OfClass
  <2>3. QED BY <1>5, <1>9, <2>1, <2>2 DEF Room
<1> HIDE DEF t
<1>13. LeasesFit(t, handed) /\ Ceil(t, Cardinality(Requests(t.plan)))
  BY <1>9 DEF LeasesFit, Ceil, Kept
<1>14. Ledger(t, handed, requested)
  BY <1>9, <1>11, <1>12, <1>13 DEF Ledger, Kept
<1> HIDE DEF queued
<1>15. QED BY <1>6, <1>9, <1>10, <1>14

-----------------------------------------------------------------------------
(* settle/1. *)

(* What pruning leaves alone: all but the queue, its leases and the ledger. *)
Pruned(s, t) ==
  /\ Alike(s, t) /\ t.refused = s.refused
  /\ t.queue \subseteq s.queue /\ t.pending \subseteq s.pending /\ t.leases \subseteq s.leases

(* Pruning the queue leaves work of the accepted tree; nothing goes if all of it is. *)
LEMMA PruneQueueFits ==
  ASSUME NEW s, NEW handed \in SUBSET LeaseIds, NEW requested, Ledger(s, handed, requested)
  PROVE  /\ Ledger(PruneQueue(s), handed, requested)
         /\ Pruned(s, PruneQueue(s))
         /\ \A i \in PruneQueue(s).queue : ValidDispatch(i, s.gen, s.comps)
         /\ Live(s) => PruneQueue(s).leases = s.leases /\ PruneQueue(s).pending = s.pending
<1> DEFINE removed == {i \in s.queue : ~ValidDispatch(i, s.gen, s.comps)}
           left    == [s EXCEPT !.queue = @ \ removed]
           t       == Released(left, Carried(removed))
<1>1. PruneQueue(s) = t
  BY DEF PruneQueue
<1>2. Whole(s) /\ LeasesFit(s, handed) /\ s.timers = s.pending /\ s.slots = Cardinality(s.pending)
  BY DEF Ledger
<1>3. /\ Alike(s, left) /\ left.queue = s.queue \ removed /\ left.slots = s.slots
      /\ left.pending = s.pending /\ left.timers = s.timers /\ left.leases = s.leases
      /\ left.releases = s.releases /\ left.refused = s.refused
  <2> HIDE DEF removed
  <2> QED BY <1>2 DEF Whole, RootState, Alike
<1>4. Whole(left)
  <2>1. IsFiniteSet(left.queue)
    BY <1>2, <1>3, PartBound DEF Whole
  <2>2. left \in RootState
    <3> HIDE DEF removed
    <3> QED BY <1>2 DEF Whole, RootState
  <2> HIDE DEF left
  <2>3. QED BY <1>2, <1>3, <2>1, <2>2 DEF Whole, Alike
<1>5. LeasesFit(left, handed)
  <2> HIDE DEF left
  <2> QED BY <1>2, <1>3 DEF LeasesFit
<1>6. \A i \in left.queue : ValidDispatch(i, s.gen, s.comps)
  BY <1>3
<1>7. Live(s) => Carried(removed) = {}
  BY DEF Live, Carried
<1> HIDE DEF removed, left
<1>8. /\ Whole(t) /\ LeasesFit(t, handed) /\ Alike(left, t) /\ t.queue = left.queue
      /\ t.slots = left.slots /\ t.pending = left.pending /\ t.timers = left.timers
      /\ t.leases = {l \in left.leases : l.id \notin Carried(removed)} /\ t.refused = left.refused
  BY <1>4, <1>5, ReleasedFits
<1> HIDE DEF t
<1>9. Pruned(s, t)
  BY <1>3, <1>8 DEF Pruned, Alike
<1>10. Ledger(t, handed, requested)
  <2>1. s.reserved \in Nat
    BY <1>2, Fields
  <2>2. QED BY <1>2, <1>3, <1>8, <1>9, <2>1, LedgerShrinks DEF Pruned, Alike
<1>11. Live(s) => t.leases = s.leases /\ t.pending = s.pending
  BY <1>3, <1>7, <1>8
<1>12. QED BY <1>1, <1>6, <1>8, <1>9, <1>10, <1>11

(* Pruning the ledger leaves requests and leases of the accepted tree; nothing goes if all
   are. *)
LEMMA PruneLedgerFits ==
  ASSUME NEW s, NEW handed \in SUBSET LeaseIds, NEW requested, Ledger(s, handed, requested)
  PROVE  /\ Ledger(PruneLedger(s), handed, requested)
         /\ Pruned(s, PruneLedger(s)) /\ PruneLedger(s).queue = s.queue
         /\ \A x \in PruneLedger(s).leases \cup PruneLedger(s).pending : OwnerLive(x, s.comps, s.gen)
         /\ Live(s) => PruneLedger(s).leases = s.leases /\ PruneLedger(s).pending = s.pending
<1> DEFINE gone == {r \in s.pending : ~OwnerLive(r, s.comps, s.gen)}
           lost == {l.id : l \in {x \in s.leases : ~OwnerLive(x, s.comps, s.gen)}}
           left == Completed(s, gone)
           next == Released(left, lost)
           t    == [next EXCEPT !.slots = Cardinality(next.pending)]
<1>1. PruneLedger(s) = t
  BY DEF PruneLedger
<1>2. Whole(s) /\ LeasesFit(s, handed) /\ s.timers = s.pending
  BY DEF Ledger
<1>3. /\ Alike(s, left) /\ left.queue = s.queue /\ left.pending = s.pending \ gone
      /\ left.timers = s.timers \ gone /\ left.leases = s.leases
      /\ left.releases = s.releases /\ left.refused = s.refused
  <2> HIDE DEF gone
  <2> QED BY <1>2 DEF Completed, Whole, RootState, Alike
<1>4. Whole(left)
  <2>1. IsFiniteSet(left.pending)
    BY <1>2, <1>3, PartBound DEF Whole
  <2>2. left \in RootState
    <3> HIDE DEF gone
    <3> QED BY <1>2 DEF Completed, Whole, RootState
  <2> HIDE DEF left
  <2>3. QED BY <1>2, <1>3, <2>1, <2>2 DEF Whole, Alike
<1>5. LeasesFit(left, handed)
  <2> HIDE DEF left
  <2> QED BY <1>2, <1>3 DEF LeasesFit
<1>6. Live(s) => gone = {} /\ lost = {}
  BY DEF Live
<1>7. \A l \in s.leases : l.id \notin lost => OwnerLive(l, s.comps, s.gen)
  OBVIOUS
<1>8. \A r \in s.pending \ gone : OwnerLive(r, s.comps, s.gen)
  OBVIOUS
<1> HIDE DEF gone, lost, left
<1>9. /\ Whole(next) /\ LeasesFit(next, handed) /\ Alike(left, next) /\ next.queue = left.queue
      /\ next.pending = left.pending /\ next.timers = left.timers
      /\ next.leases = {l \in left.leases : l.id \notin lost} /\ next.refused = left.refused
  BY <1>4, <1>5, ReleasedFits
<1> HIDE DEF next
<1>10. /\ Alike(next, t) /\ t.queue = next.queue /\ t.pending = next.pending
       /\ t.timers = next.timers /\ t.leases = next.leases /\ t.releases = next.releases
       /\ t.refused = next.refused /\ t.slots = Cardinality(t.pending)
  BY <1>9 DEF Whole, RootState, Alike
<1>11. Whole(t)
  <2>1. Cardinality(next.pending) \in Nat
    BY <1>9, Fields
  <2>2. t \in RootState
    BY <1>9, <2>1 DEF Whole, RootState
  <2> HIDE DEF t
  <2>3. QED BY <1>9, <1>10, <2>2 DEF Whole, Alike
<1> HIDE DEF t
<1>12. LeasesFit(t, handed)
  BY <1>9, <1>10 DEF LeasesFit
<1>13. Pruned(s, t)
  BY <1>3, <1>9, <1>10 DEF Pruned, Alike
<1>14. Ledger(t, handed, requested)
  <2>1. s.reserved \in Nat
    BY <1>2, Fields
  <2>2. t.timers = t.pending
    BY <1>2, <1>3, <1>9, <1>10
  <2>3. QED BY <1>10, <1>11, <1>12, <1>13, <2>1, <2>2, LedgerShrinks DEF Pruned, Alike
<1>15. \A x \in t.leases \cup t.pending : OwnerLive(x, s.comps, s.gen)
  BY <1>3, <1>7, <1>8, <1>9, <1>10
<1>16. Live(s) => t.leases = s.leases /\ t.pending = s.pending
  BY <1>3, <1>6, <1>9, <1>10
<1>17. QED BY <1>1, <1>3, <1>9, <1>10, <1>13, <1>14, <1>15, <1>16

(* Both together make the state one of the accepted tree. *)
LEMMA PrunedFits ==
  ASSUME NEW s, NEW handed \in SUBSET LeaseIds, NEW requested, Ledger(s, handed, requested)
  PROVE  LET t == PruneLedger(PruneQueue(s))
         IN  /\ Ledger(t, handed, requested) /\ Pruned(s, t) /\ Live(t)
             /\ Live(s) => t.leases = s.leases /\ t.pending = s.pending
<1> DEFINE u == PruneQueue(s)
           t == PruneLedger(u)
<1>1. /\ Ledger(u, handed, requested) /\ Pruned(s, u)
      /\ \A i \in u.queue : ValidDispatch(i, s.gen, s.comps)
      /\ Live(s) => u.leases = s.leases /\ u.pending = s.pending
  BY PruneQueueFits
<1> HIDE DEF u
<1>2. /\ Ledger(t, handed, requested) /\ Pruned(u, t) /\ t.queue = u.queue
      /\ \A x \in t.leases \cup t.pending : OwnerLive(x, u.comps, u.gen)
      /\ Live(u) => t.leases = u.leases /\ t.pending = u.pending
  BY <1>1, PruneLedgerFits
<1> HIDE DEF t
<1>3. Pruned(s, t)
  BY <1>1, <1>2 DEF Pruned, Alike
<1>4. t.gen = s.gen /\ t.comps = s.comps /\ u.gen = s.gen /\ u.comps = s.comps
  BY <1>1, <1>3 DEF Pruned, Alike
<1>5. Live(t)
  BY <1>1, <1>2, <1>4 DEF Live
<1>6. Live(s) => Live(u)
  BY <1>1, <1>4 DEF Live
<1>7. QED BY <1>1, <1>2, <1>3, <1>5, <1>6 DEF t, u

(* Closing the root leaves no work, no request and no lease; each lease was given back. *)
LEMMA ClosedFits ==
  ASSUME NEW s, NEW handed \in SUBSET LeaseIds, NEW requested, Ledger(s, handed, requested)
  PROVE  LET t == ClosedAll(s)
         IN  /\ Ledger(t, handed, requested) /\ Empty(t) /\ Live(t)
             /\ t.active = {} /\ t.plan = {} /\ t.reserved = 0
             /\ t.status = s.status /\ t.comps = s.comps /\ t.gen = s.gen /\ t.cand = s.cand
<1> DEFINE u == Released(s, {l.id : l \in s.leases})
           v == [u EXCEPT !.pending = {}, !.timers = {}]
           t == [v EXCEPT !.queue = {}, !.active = {}, !.reserved = 0, !.slots = 0, !.plan = {}]
<1>1. ClosedAll(s) = t
  BY DEF ClosedAll, ClosedActions
<1>2. Whole(s) /\ LeasesFit(s, handed)
  BY DEF Ledger
<1>3. /\ Whole(u) /\ LeasesFit(u, handed) /\ Alike(s, u) /\ u.leases = {}
  <2>1. u.leases = {l \in s.leases : l.id \notin {m.id : m \in s.leases}}
    BY <1>2, ReleasedFits
  <2>2. QED BY <1>2, <2>1, ReleasedFits
<1> HIDE DEF u
<1>4. /\ t.queue = {} /\ t.active = {} /\ t.reserved = 0 /\ t.slots = 0 /\ t.plan = {}
      /\ t.pending = {} /\ t.timers = {} /\ t.leases = u.leases /\ t.releases = u.releases
      /\ t.status = u.status /\ t.comps = u.comps /\ t.gen = u.gen /\ t.cand = u.cand
      /\ t.receipt = u.receipt /\ t.watermark = u.watermark /\ t.called = u.called
  BY <1>3 DEF Whole, RootState
<1>5. Whole(t)
  <2>1. t \in RootState
    BY <1>3 DEF Whole, RootState
  <2> HIDE DEF t
  <2>2. QED BY <1>3, <1>4, <2>1, FS_EmptySet DEF Whole
<1> HIDE DEF t, v
<1>6. LeasesFit(t, handed)
  BY <1>3, <1>4 DEF LeasesFit
<1>7. Ledger(t, handed, requested)
  <2>1. Cardinality(t.pending) = 0 /\ s.reserved \in Nat
    BY <1>2, <1>4, FS_EmptySet, Fields
  <2>2. QED BY <1>3, <1>4, <1>5, <1>6, <2>1, LedgerShrinks DEF Alike
<1>8. Empty(t) /\ Live(t)
  BY <1>3, <1>4 DEF Empty, Live
<1>9. QED BY <1>1, <1>3, <1>4, <1>7, <1>8 DEF Alike

(* A set of naturals with a bound has a greatest element. *)
LEMMA Greatest ==
  ASSUME NEW n \in Nat, NEW S, S \subseteq 0 .. n, S # {}
  PROVE  Max(S) \in S /\ \A m \in S : m <= Max(S)
<1> DEFINE R == OpToRel(<, Nat)
           T == {n - m : m \in S}
<1>1. IsWellFoundedOn(R, Nat)
  BY NatLessThanWellFounded
<1>2. T \subseteq Nat /\ T # {}
  <2>1. \A m \in S : n - m \in Nat
    OBVIOUS
  <2>2. PICK m \in S : TRUE
    OBVIOUS
  <2>3. n - m \in T
    OBVIOUS
  <2>4. QED BY <2>1, <2>3
<1>3. \A x, y \in Nat : x < y => <<x, y>> \in R
  BY DEF OpToRel
<1> HIDE DEF R
<1>4. PICK x \in T : \A y \in T : <<y, x>> \notin R
  <2> HIDE DEF T
  <2> QED BY <1>1, <1>2, WFMin, Zenon
<1>5. PICK m \in S : x = n - m
  OBVIOUS
<1>6. \A k \in S : k <= m
  <2> SUFFICES ASSUME NEW k \in S, ~(k <= m) PROVE FALSE
    OBVIOUS
  <2>1. n - k \in T /\ n - k < x /\ n - k \in Nat /\ x \in Nat
    BY <1>5
  <2>2. QED BY <2>1, <1>3, <1>4
<1>7. \E p \in S : \A k \in S : p >= k
  BY <1>6
<1>8. Max(S) \in S /\ \A k \in S : Max(S) >= k
  BY <1>7 DEF Max
<1>9. QED BY <1>8

(* A rejected transition gives back the leases its result brought; a transition still in
   flight, and none at all, are left alone. *)
LEMMA OwedFits ==
  ASSUME NEW s, NEW handed \in SUBSET LeaseIds, NEW requested, Ledger(s, handed, requested)
  PROVE  LET t == SettleActive(s, FALSE)
         IN  /\ s.cand # {} \/ s.active = {} => t = s
             /\ s.cand = {} /\ s.active # {} =>
                  /\ Ledger(t, handed, requested)
                  /\ t.active = {} /\ t.plan = {} /\ t.reserved = 0
                  /\ t.status = s.status /\ t.comps = s.comps /\ t.gen = s.gen /\ t.cand = s.cand
<1>1. ASSUME s.cand # {} \/ s.active = {}
      PROVE  SettleActive(s, FALSE) = s
  BY <1>1 DEF SettleActive
<1>2. ASSUME s.cand = {}, s.active # {}
      PROVE  LET t == SettleActive(s, FALSE)
             IN  /\ Ledger(t, handed, requested)
                 /\ t.active = {} /\ t.plan = {} /\ t.reserved = 0
                 /\ t.status = s.status /\ t.comps = s.comps /\ t.gen = s.gen /\ t.cand = s.cand
  <2> DEFINE ended == [Finish(s) EXCEPT !.plan = {}]
             u == Released(ended, Carried(s.active))
             t == [u EXCEPT !.refused = @ \cup Carried(s.active)]
  <2>1. SettleActive(s, FALSE) = t
    BY <1>2 DEF SettleActive
  <2>2. /\ Whole(s) /\ LeasesFit(s, handed) /\ s.timers = s.pending /\ s.active \subseteq Item
        /\ s.slots = Cardinality(s.pending) /\ s.reserved \in Nat
    BY Fields DEF Ledger
  <2>3. /\ ended.active = {} /\ ended.plan = {} /\ ended.reserved = 0 /\ ended.cand = s.cand
        /\ ended.status = s.status /\ ended.comps = s.comps /\ ended.gen = s.gen
        /\ ended.queue = s.queue /\ ended.pending = s.pending /\ ended.timers = s.timers
        /\ ended.leases = s.leases /\ ended.slots = s.slots /\ ended.receipt = s.receipt
        /\ ended.watermark = s.watermark /\ ended.called = s.called
        /\ ended.releases = s.releases
    BY <2>2 DEF Finish, Whole, RootState
  <2>4. Whole(ended)
    <3>1. ended \in RootState
      BY <2>2 DEF Finish, Whole, RootState
    <3> HIDE DEF ended
    <3>2. QED BY <2>2, <2>3, <3>1, FS_EmptySet DEF Whole
  <2> HIDE DEF ended
  <2>5. LeasesFit(ended, handed)
    BY <2>2, <2>3 DEF LeasesFit
  <2>6. /\ Whole(u) /\ LeasesFit(u, handed) /\ Alike(ended, u) /\ u.queue = ended.queue
        /\ u.pending = ended.pending /\ u.timers = ended.timers /\ u.slots = ended.slots
        /\ u.leases = {l \in ended.leases : l.id \notin Carried(s.active)}
    BY <2>4, <2>5, ReleasedFits
  <2> HIDE DEF u
  <2>7. Carried(s.active) \subseteq LeaseIds
    BY <2>2 DEF Carried, Item
  <2>8. /\ Alike(u, t) /\ t.queue = u.queue /\ t.pending = u.pending /\ t.timers = u.timers
        /\ t.slots = u.slots /\ t.leases = u.leases /\ t.releases = u.releases
    BY <2>6 DEF Whole, RootState, Alike
  <2>9. Whole(t)
    <3>1. t \in RootState
      BY <2>6, <2>7 DEF Whole, RootState
    <3> HIDE DEF t
    <3>2. QED BY <2>6, <2>8, <3>1 DEF Whole, Alike
  <2> HIDE DEF t
  <2>10. LeasesFit(t, handed)
    BY <2>6, <2>8 DEF LeasesFit
  <2>11. Ledger(t, handed, requested)
    BY <2>2, <2>3, <2>6, <2>8, <2>9, <2>10, LedgerShrinks DEF Alike
  <2>12. QED BY <2>1, <2>3, <2>6, <2>8, <2>11 DEF Alike
<1>3. QED BY <1>1, <1>2

(* What a committed plan relies on: it is finite, its requests are fresh, it transfers each
   lease once, and one the ledger holds. *)
PlanSound(s, plan) ==
  /\ IsFiniteSet(plan) /\ plan \subseteq Action
  /\ \A r \in Requests(plan) : r.gen = s.gen /\ r.seq > s.watermark[r.owner]
  /\ \A a \in plan : a.kind = "transfer" => a.lease \in s.leases
  /\ \A a, b \in plan : a.kind = "transfer" /\ b.kind = "transfer" /\ a.lease = b.lease => a = b

(* The requests made once a plan is carried out. *)
Asked(requested, plan) ==
  [r \in Request |-> requested[r] + IF r \in Requests(plan) THEN 1 ELSE 0]

(* The leases after the transfers of a plan. *)
Transferred(s, plan) ==
  LET moved == {a \in plan : a.kind = "transfer"}
  IN  {l \in s.leases : \A a \in moved : a.lease # l}
        \cup {[a.lease EXCEPT !.owner = a.to] : a \in moved}

(* A transfer moves leases among owners: they stay as many, each with its id. *)
LEMMA TransfersFit ==
  ASSUME NEW s, Whole(s), NEW plan, PlanSound(s, plan), NEW handed \in SUBSET LeaseIds,
         LeasesFit(s, handed)
  PROVE  LET kept == Transferred(s, plan)
         IN  /\ kept \subseteq Lease /\ IsFiniteSet(kept)
             /\ Cardinality(kept) <= Cardinality(s.leases)
             /\ \A x, y \in kept : x.id = y.id => x = y
             /\ \A l : (\E x \in kept : x.id = l) <=> (\E x \in s.leases : x.id = l)
<1> DEFINE moved == {a \in plan : a.kind = "transfer"}
           gone  == {a.lease : a \in moved}
           stay  == s.leases \ gone
           By(l) == CHOOSE a \in moved : a.lease = l
           To(a) == [a.lease EXCEPT !.owner = a.to]
           came  == {To(a) : a \in moved}
           f     == [l \in gone |-> To(By(l))]
<1>1. Transferred(s, plan) = stay \cup came
  BY DEF Transferred
<1>2. /\ s.leases \subseteq Lease /\ IsFiniteSet(s.leases)
      /\ \A a \in moved : a.lease \in s.leases /\ a.to \in Components
      /\ \A a, b \in moved : a.lease = b.lease => a = b
  BY Fields DEF PlanSound, Whole, Action
<1>3. \A a \in moved : To(a) \in Lease /\ To(a).id = a.lease.id
  <2> SUFFICES ASSUME NEW a \in moved PROVE To(a) \in Lease /\ To(a).id = a.lease.id
    OBVIOUS
  <2>1. a.lease \in Lease /\ a.to \in Components
    BY <1>2
  <2> HIDE DEF moved
  <2>2. QED BY <2>1 DEF Lease
<1>4. \A l \in gone : By(l) \in moved /\ By(l).lease = l
  OBVIOUS
<1>5. \A a \in moved : a.lease \in gone /\ By(a.lease) = a
  BY <1>2, <1>4
<1> HIDE DEF By, To, moved
<1>6. gone \subseteq s.leases
  BY <1>2
<1>7. came = {f[l] : l \in gone}
  <2>1. \A a \in moved : a.lease \in gone /\ f[a.lease] = To(a)
    BY <1>5
  <2>2. \A l \in gone : By(l) \in moved /\ f[l] = To(By(l))
    BY <1>4
  <2> HIDE DEF f, gone
  <2>3. QED BY <2>1, <2>2
<1>8. IsFiniteSet(gone) /\ IsFiniteSet(stay)
  BY <1>2, <1>6, PartBound
<1>9. IsFiniteSet(came) /\ Cardinality(came) <= Cardinality(gone)
  <2>1. f \in [gone -> {f[l] : l \in gone}]
    OBVIOUS
  <2> HIDE DEF f, gone
  <2>2. IsFiniteSet({f[l] : l \in gone}) /\ Cardinality({f[l] : l \in gone}) <= Cardinality(gone)
    BY <1>8, <2>1, ImageBound
  <2> HIDE DEF came
  <2>3. QED BY <1>7, <2>2
<1>10. /\ IsFiniteSet(stay \cup came)
       /\ Cardinality(stay \cup came) <= Cardinality(s.leases)
  <2> HIDE DEF stay, came, gone
  <2>1. /\ IsFiniteSet(stay \cup came)
        /\ Cardinality(stay \cup came) <= Cardinality(stay) + Cardinality(came)
        /\ Cardinality(stay) \in Nat /\ Cardinality(came) \in Nat
        /\ Cardinality(stay \cup came) \in Nat
    BY <1>8, <1>9, UnionBound
  <2>2. Cardinality(stay) = Cardinality(s.leases) - Cardinality(gone)
    <3>1. s.leases \cap gone = gone
      BY <1>6
    <3>2. Cardinality(stay) = Cardinality(s.leases) - Cardinality(s.leases \cap gone)
      BY <1>2, FS_Difference DEF stay
    <3>3. QED BY <3>1, <3>2
  <2>3. Cardinality(gone) \in Nat /\ Cardinality(s.leases) \in Nat
    BY <1>2, <1>8, FS_CardinalityType
  <2>4. QED BY <1>9, <2>1, <2>2, <2>3
<1>11. \A x \in came : \E l \in gone : x.id = l.id /\ x = f[l]
  <2> SUFFICES ASSUME NEW a \in moved
               PROVE  \E l \in gone : To(a).id = l.id /\ To(a) = f[l]
    OBVIOUS
  <2>1. a.lease \in gone /\ f[a.lease] = To(a) /\ To(a).id = a.lease.id
    BY <1>3, <1>5
  <2> HIDE DEF gone, f
  <2>2. QED BY <2>1
<1>12. \A l \in gone : f[l] \in came /\ f[l].id = l.id
  BY <1>3, <1>4
<1>13. stay \cup came \subseteq Lease
  BY <1>2, <1>3
<1> HIDE DEF came, gone, f
<1>14. ASSUME NEW x \in stay \cup came, NEW y \in stay \cup came, x.id = y.id
       PROVE  x = y
  <2>1. ASSUME NEW z \in stay \cup came
        PROVE  \E l \in s.leases : /\ l.id = z.id
                                   /\ l \in gone => z = f[l]
                                   /\ l \notin gone => z = l
    <3>1. CASE z \in came
      BY <1>6, <1>11, <3>1
    <3>2. CASE z \in stay
      BY <3>2
    <3>3. QED BY <3>1, <3>2
  <2>2. PICK l \in s.leases : l.id = x.id /\ (l \in gone => x = f[l]) /\ (l \notin gone => x = l)
    BY <2>1
  <2>3. PICK m \in s.leases : m.id = y.id /\ (m \in gone => y = f[m]) /\ (m \notin gone => y = m)
    BY <2>1
  <2>4. l = m
    BY <1>14, <2>2, <2>3 DEF LeasesFit
  <2>5. QED BY <2>2, <2>3, <2>4
<1>15. ASSUME NEW l
       PROVE  (\E x \in stay \cup came : x.id = l) <=> (\E x \in s.leases : x.id = l)
  <2>1. ASSUME NEW x \in stay \cup came, x.id = l PROVE \E y \in s.leases : y.id = l
    BY <1>6, <1>11, <2>1
  <2>2. ASSUME NEW x \in s.leases, x.id = l PROVE \E y \in stay \cup came : y.id = l
    BY <1>12, <2>2
  <2>3. QED BY <2>1, <2>2
<1>16. QED BY <1>1, <1>10, <1>13, <1>14, <1>15

(* The state once a batch is installed (install/3, transfer/3). *)
Installed(s, plan) ==
  [s EXCEPT
     !.pending   = @ \cup Requests(plan),
     !.timers    = @ \cup (Requests(plan) \ Requests({a \in plan : a.kind = "request" /\ ~a.accepted})),
     !.watermark = [c \in Components |->
                      Max({@[c]} \cup {r.seq : r \in {q \in Requests(plan) : q.owner = c}})],
     !.leases    = Transferred(s, plan)]

(* A watermark covers what it covered and the new requests of its owner. *)
LEMMA WatermarkRises ==
  ASSUME NEW w \in [Components -> 0 .. MaxSequence], NEW R \in SUBSET Request, NEW c \in Components
  PROVE  LET n == Max({w[c]} \cup {r.seq : r \in {q \in R : q.owner = c}})
         IN  /\ n \in 0 .. MaxSequence /\ w[c] <= n
             /\ \A r \in R : r.owner = c => r.seq <= n
<1> DEFINE S == {w[c]} \cup {r.seq : r \in {q \in R : q.owner = c}}
<1>1. S \subseteq 0 .. MaxSequence /\ S # {}
  <2>1. \A r \in R : r.seq \in 1 .. MaxSequence
    BY DEF Request
  <2>2. QED BY <2>1, Bounds
<1>2. w[c] \in S /\ \A r \in R : r.owner = c => r.seq \in S
  OBVIOUS
<1> HIDE DEF S
<1>3. Max(S) \in S /\ \A m \in S : m <= Max(S)
  BY <1>1, Bounds, Greatest
<1>4. QED BY <1>1, <1>2, <1>3 DEF S

(* Installing a batch: its requests are pending and made, each for the first time, and no
   lease comes or goes. *)
LEMMA InstalledFits ==
  ASSUME NEW s, Whole(s), NEW plan, PlanSound(s, plan), NEW handed \in SUBSET LeaseIds,
         LeasesFit(s, handed), NEW requested \in [Request -> Nat], RequestsFit(s, requested)
  PROVE  LET t == Installed(s, plan)
         IN  /\ Whole(t) /\ LeasesFit(t, handed) /\ RequestsFit(t, Asked(requested, plan))
             /\ \A r \in Requests(plan) : requested[r] = 0 /\ s.called[r] = 0
             /\ t.pending = s.pending \cup Requests(plan)
             /\ t.timers = s.timers \cup
                  (Requests(plan) \ Requests({a \in plan : a.kind = "request" /\ ~a.accepted}))
             /\ Cardinality(t.leases) <= Cardinality(s.leases)
             /\ t.status = s.status /\ t.comps = s.comps /\ t.gen = s.gen /\ t.cand = s.cand
             /\ t.plan = s.plan /\ t.queue = s.queue /\ t.active = s.active
             /\ t.reserved = s.reserved /\ t.slots = s.slots /\ t.receipt = s.receipt
             /\ t.called = s.called
<1> DEFINE R    == Requests(plan)
           kept == Transferred(s, plan)
           mark == [c \in Components |->
                      Max({s.watermark[c]} \cup {r.seq : r \in {q \in R : q.owner = c}})]
           arm  == s.timers \cup
                     (R \ Requests({a \in plan : a.kind = "request" /\ ~a.accepted}))
           t    == [s EXCEPT !.pending = @ \cup R, !.timers = arm, !.watermark = mark, !.leases = kept]
<1>1. Installed(s, plan) = t
  BY DEF Installed
<1>2. /\ s.watermark \in [Components -> 0 .. MaxSequence] /\ s.pending \subseteq Request
      /\ s.timers \subseteq Request /\ s.called \in [Request -> Nat] /\ s.gen \in Nat
  BY Fields
<1>3. R \subseteq Request /\ IsFiniteSet(R)
  BY RequestsBound DEF PlanSound
<1>4. /\ kept \subseteq Lease /\ IsFiniteSet(kept) /\ Cardinality(kept) <= Cardinality(s.leases)
      /\ \A x, y \in kept : x.id = y.id => x = y
      /\ \A l : (\E x \in kept : x.id = l) <=> (\E x \in s.leases : x.id = l)
  BY TransfersFit
<1>5. \A c \in Components : /\ mark[c] \in 0 .. MaxSequence /\ s.watermark[c] <= mark[c]
                            /\ \A r \in R : r.owner = c => r.seq <= mark[c]
  BY <1>2, <1>3, WatermarkRises
<1>6. mark \in [Components -> 0 .. MaxSequence]
  BY <1>5
<1>7. arm \subseteq Request
  BY <1>2, <1>3
<1>8. \A r \in R : r.gen = s.gen /\ r.seq > s.watermark[r.owner]
  BY DEF PlanSound
<1> HIDE DEF R, kept, mark, arm
<1>9. /\ t.pending = s.pending \cup R /\ t.timers = arm /\ t.watermark = mark /\ t.leases = kept
      /\ t.status = s.status /\ t.comps = s.comps /\ t.gen = s.gen /\ t.cand = s.cand
      /\ t.plan = s.plan /\ t.queue = s.queue /\ t.active = s.active
      /\ t.reserved = s.reserved /\ t.slots = s.slots /\ t.receipt = s.receipt
      /\ t.called = s.called /\ t.releases = s.releases
  BY DEF Whole, RootState
<1>10. Whole(t)
  <2>1. t \in RootState
    BY <1>2, <1>3, <1>4, <1>6, <1>7 DEF Whole, RootState
  <2> HIDE DEF t
  <2>2. IsFiniteSet(t.pending)
    <3>1. IsFiniteSet(s.pending \cup R)
      BY <1>3, UnionBound DEF Whole
    <3>2. QED BY <1>9, <3>1
  <2>3. QED BY <1>4, <1>9, <2>1, <2>2 DEF Whole
<1> HIDE DEF t
<1>11. LeasesFit(t, handed)
  BY <1>4, <1>9 DEF LeasesFit
<1>12. ASSUME NEW r \in R
       PROVE  requested[r] = 0 /\ s.called[r] = 0
  <2>1. r \in Request /\ RequestFits(s, requested, r)
    BY <1>3 DEF RequestsFit
  <2>2. r.seq \in Nat /\ s.watermark[r.owner] \in Nat
    BY <1>2, <2>1 DEF Request
  <2>3. requested[r] # 1
    <3>1. r.gen = s.gen /\ r.seq > s.watermark[r.owner]
      BY <1>8
    <3>2. ~(r.seq <= s.watermark[r.owner])
      BY <2>2, <3>1
    <3>3. requested[r] = 1 => (r.gen = s.gen => r.seq <= s.watermark[r.owner])
      BY <2>1 DEF RequestFits
    <3>4. QED BY <3>1, <3>2, <3>3
  <2>4. s.called[r] \in Nat
    BY <1>2, <2>1
  <2>5. QED BY <2>1, <2>3, <2>4 DEF RequestFits
<1>13. RequestsFit(t, Asked(requested, plan))
  <2> SUFFICES ASSUME NEW r \in Request PROVE RequestFits(t, Asked(requested, plan), r)
    BY DEF RequestsFit
  <2>1. RequestFits(s, requested, r) /\ r.owner \in Components /\ r.seq \in Nat /\ r.gen \in Nat
    BY DEF RequestsFit, Request
  <2>2. s.watermark[r.owner] \in Nat /\ mark[r.owner] \in Nat /\ s.watermark[r.owner] <= mark[r.owner]
    BY <1>2, <1>5, <2>1
  <2>3. Asked(requested, plan)[r] = requested[r] + (IF r \in R THEN 1 ELSE 0)
    BY DEF Asked, R
  <2>4. CASE r \in R
    <3>1. requested[r] = 0 /\ s.called[r] = 0
      BY <1>12, <2>4
    <3>2. r.gen = s.gen /\ r.seq <= mark[r.owner]
      BY <1>5, <1>8, <2>1, <2>4
    <3>3. QED BY <1>2, <1>9, <2>3, <2>4, <3>1, <3>2 DEF RequestFits
  <2>5. CASE r \notin R
    <3>1. Asked(requested, plan)[r] = requested[r]
      BY <2>1, <2>3, <2>5 DEF RequestFits
    <3>2. requested[r] = 1 /\ r.gen = s.gen => r.seq <= mark[r.owner]
      BY <2>1, <2>2 DEF RequestFits
    <3>3. r \in t.pending => r \in s.pending
      BY <1>9, <2>5
    <3>4. QED BY <1>9, <2>1, <3>1, <3>2, <3>3 DEF RequestFits
  <2>6. QED BY <2>4, <2>5
<1>14. QED BY <1>1, <1>4, <1>9, <1>10, <1>11, <1>12, <1>13 DEF R, arm

(* What carrying a plan out leaves alone. *)
Carries(s, t) ==
  /\ t.status = s.status /\ t.comps = s.comps /\ t.gen = s.gen /\ t.cand = s.cand
  /\ t.plan = s.plan /\ t.active = s.active /\ t.reserved = s.reserved

(* commit/4: the room that was reserved for the requests of the plan is enough for them, and
   for the results of those that end at once. *)
LEMMA PerformedFits ==
  ASSUME NEW s, Whole(s), NEW plan, PlanSound(s, plan), NEW handed \in SUBSET LeaseIds,
         LeasesFit(s, handed), NEW requested \in [Request -> Nat], RequestsFit(s, requested),
         s.timers = s.pending, s.slots = Cardinality(s.pending), s.plan = {}, s.reserved = 0,
         NEW m \in Nat, Room(s, m), Cardinality(Requests(plan)) <= m,
         Ceil(s, Cardinality(Requests(plan)))
  PROVE  /\ Ledger(Performed(s, plan), handed, Asked(requested, plan))
         /\ Carries(s, Performed(s, plan))
<1> DEFINE R        == Requests(plan)
           refused  == Requests({a \in plan : a.kind = "request" /\ ~a.accepted})
           canceled == {a.req : a \in {b \in plan : b.kind = "cancel"}} \cap s.pending
           E        == refused \cup canceled
           freed    == {a.lease.id : a \in {b \in plan : b.kind = "release"}}
           u        == Installed(s, plan)
           v        == Completed(u, E)
           w        == Released(v, freed)
           n        == Cardinality(E)
           items    == [k \in 1 .. n |-> ResultItem(SetToSeq(E)[k], {})]
           asked    == Asked(requested, plan)
<1>1. Performed(s, plan) = ResultReady(w, items)
  BY DEF Performed, Installed, Transferred
<1>2. /\ Whole(u) /\ LeasesFit(u, handed) /\ RequestsFit(u, asked)
      /\ \A r \in R : requested[r] = 0 /\ s.called[r] = 0
      /\ u.pending = s.pending \cup R /\ u.timers = s.timers \cup (R \ refused)
      /\ Cardinality(u.leases) <= Cardinality(s.leases) /\ Carries(s, u)
      /\ u.queue = s.queue /\ u.slots = s.slots /\ u.receipt = s.receipt /\ u.called = s.called
  <2>1. /\ Whole(u) /\ LeasesFit(u, handed) /\ RequestsFit(u, asked)
        /\ \A r \in R : requested[r] = 0 /\ s.called[r] = 0
        /\ u.pending = s.pending \cup R /\ u.timers = s.timers \cup (R \ refused)
        /\ Cardinality(u.leases) <= Cardinality(s.leases)
    <3> HIDE DEF asked, u
    <3>1. /\ Whole(u) /\ LeasesFit(u, handed) /\ RequestsFit(u, asked)
          /\ \A r \in Requests(plan) : requested[r] = 0 /\ s.called[r] = 0
          /\ u.pending = s.pending \cup Requests(plan)
          /\ Cardinality(u.leases) <= Cardinality(s.leases)
      BY InstalledFits DEF u, asked
    <3>2. u.timers = s.timers \cup (R \ refused)
      BY InstalledFits DEF u
    <3>3. QED BY <3>1, <3>2
  <2>2. /\ u.status = s.status /\ u.comps = s.comps /\ u.gen = s.gen /\ u.cand = s.cand
        /\ u.plan = s.plan /\ u.active = s.active /\ u.reserved = s.reserved
        /\ u.queue = s.queue /\ u.slots = s.slots /\ u.receipt = s.receipt /\ u.called = s.called
    BY InstalledFits
  <2> HIDE DEF u, R, refused, asked
  <2>3. QED BY <2>1, <2>2 DEF Carries
<1>3. R \subseteq Request /\ IsFiniteSet(R) /\ Cardinality(R) \in Nat
  BY RequestsBound DEF PlanSound
<1>4. refused \subseteq R /\ canceled \subseteq s.pending
  BY DEF Requests
<1>5. s.pending \subseteq Request /\ IsFiniteSet(s.pending) /\ Cardinality(s.pending) \in Nat
  BY Fields DEF Whole
<1> HIDE DEF R, refused, canceled, freed, u, asked
<1>6. /\ v.pending = u.pending \ E /\ v.timers = u.timers \ E
      /\ v.leases = u.leases /\ v.releases = u.releases /\ v.queue = u.queue /\ v.slots = u.slots
      /\ v.receipt = u.receipt /\ v.called = u.called /\ v.gen = u.gen
      /\ v.watermark = u.watermark /\ Carries(u, v)
  <2> HIDE DEF E
  <2> QED BY <1>2 DEF Completed, Whole, RootState, Carries
<1>7. Whole(v)
  <2>1. v \in RootState
    <3> HIDE DEF E
    <3> QED BY <1>2 DEF Completed, Whole, RootState
  <2> HIDE DEF v
  <2>2. IsFiniteSet(v.pending)
    BY <1>2, <1>6, PartBound DEF Whole
  <2>3. QED BY <1>2, <1>6, <2>1, <2>2 DEF Whole, Carries
<1> HIDE DEF v
<1>8. LeasesFit(v, handed)
  BY <1>2, <1>6 DEF LeasesFit
<1>9. /\ Whole(w) /\ LeasesFit(w, handed) /\ Alike(v, w)
      /\ w.leases = {l \in v.leases : l.id \notin freed} /\ w.queue = v.queue
      /\ w.slots = v.slots /\ w.pending = v.pending /\ w.timers = v.timers
  BY <1>7, <1>8, ReleasedFits
<1> HIDE DEF w
<1>10. Carries(s, w)
  BY <1>2, <1>6, <1>9 DEF Carries, Alike
<1>11. E \subseteq s.pending \cup R /\ E \subseteq Request /\ IsFiniteSet(E)
  <2>1. IsFiniteSet(s.pending \cup R)
    BY <1>3, <1>5, UnionBound
  <2>2. E \subseteq s.pending \cup R
    BY <1>4
  <2>3. QED BY <1>3, <1>5, <2>1, <2>2, PartBound
<1>12. w.pending = (s.pending \cup R) \ E /\ w.timers = w.pending
  BY <1>2, <1>4, <1>6, <1>9
<1>13. /\ n \in Nat /\ Cardinality(w.pending) \in Nat
       /\ n + Cardinality(w.pending) <= Cardinality(s.pending) + Cardinality(R)
  <2> HIDE DEF E
  <2>1. /\ IsFiniteSet(s.pending \cup R) /\ Cardinality(s.pending \cup R) \in Nat
        /\ Cardinality(s.pending \cup R) <= Cardinality(s.pending) + Cardinality(R)
    BY <1>3, <1>5, UnionBound
  <2>2. (s.pending \cup R) \cap E = E
    BY <1>11
  <2>3. Cardinality((s.pending \cup R) \ E)
          = Cardinality(s.pending \cup R) - Cardinality((s.pending \cup R) \cap E)
    BY <2>1, FS_Difference
  <2>4. Cardinality(w.pending) = Cardinality(s.pending \cup R) - n
    BY <1>12, <2>2, <2>3
  <2>5. n \in Nat /\ Cardinality(w.pending) \in Nat
    BY <1>9, <1>11, FS_CardinalityType DEF Whole
  <2>6. QED BY <1>3, <1>5, <2>1, <2>4, <2>5
<1>14. Results(items, n, E)
  <2> HIDE DEF E
  <2> QED BY <1>11, ResultsMade
<1>15. Room(w, m)
  <2>1. /\ w.queue = s.queue /\ w.active = s.active /\ w.receipt = s.receipt
        /\ m + w.slots <= m + s.slots /\ s.slots \in Nat /\ s.receipt \in Nat
    <3>1. s.slots \in Nat /\ s.receipt \in Nat
      BY Fields
    <3>2. /\ w.queue = s.queue /\ w.active = s.active /\ w.receipt = s.receipt
          /\ w.slots = s.slots
      BY <1>2, <1>6, <1>9, <1>10 DEF Carries, Alike
    <3>3. QED BY <3>1, <3>2
  <2>2. QED BY <1>9, <2>1, RoomGrows
<1>16. n + Cardinality(w.pending) + w.reserved <= m + w.slots
  <2>1. w.reserved = 0 /\ w.slots = Cardinality(s.pending)
    BY <1>2, <1>6, <1>9, <1>10 DEF Carries
  <2>2. Cardinality(R) <= m
    BY DEF R
  <2> HIDE DEF n
  <2>3. QED BY <1>3, <1>5, <1>13, <2>1, <2>2
<1>17. RequestsFit(w, asked)
  <2> SUFFICES ASSUME NEW r \in Request PROVE RequestFits(w, asked, r)
    BY DEF RequestsFit
  <2>1. RequestFits(u, asked, r)
    BY <1>2 DEF RequestsFit
  <2>2. /\ w.called = u.called /\ w.gen = u.gen /\ w.watermark = u.watermark
        /\ w.pending \subseteq u.pending
    BY <1>6, <1>9 DEF Alike
  <2>3. QED BY <2>1, <2>2 DEF RequestFits
<1>18. Answerable(w, asked, E)
  <2> SUFFICES ASSUME NEW r \in E
               PROVE  asked[r] = 1 /\ w.called[r] = 0 /\ r \notin w.pending
    BY DEF Answerable
  <2>1. r \in Request /\ r \in u.pending
    BY <1>2, <1>11
  <2>2. asked[r] = 1 /\ u.called[r] = 0
    BY <1>2, <2>1 DEF RequestsFit, RequestFits
  <2>3. w.called = u.called
    BY <1>6, <1>9 DEF Alike
  <2>4. QED BY <1>12, <2>2, <2>3
<1>19. Ceil(w, Cardinality(Requests(w.plan)))
  <2> DEFINE p == Cardinality(w.pending)
             q == Cardinality(s.pending) + Cardinality(R)
  <2>1. Cardinality(Requests(w.plan)) = 0
    <3>1. w.plan = {}
      BY <1>10 DEF Carries
    <3>2. Requests(w.plan) = {}
      BY <3>1 DEF Requests
    <3>3. QED BY <3>2, FS_EmptySet
  <2>2. p \in Nat /\ q \in Nat /\ p <= q
    <3> HIDE DEF n
    <3> QED BY <1>3, <1>5, <1>13
  <2>3. q <= MaxPending /\ Cardinality(s.leases) + LeaseLimit * q <= MaxLeases
    BY DEF Ceil, R
  <2>4. /\ Cardinality(w.leases) <= Cardinality(s.leases)
        /\ Cardinality(w.leases) \in Nat /\ Cardinality(s.leases) \in Nat
    <3>1. w.leases \subseteq u.leases /\ IsFiniteSet(u.leases)
      BY <1>2, <1>6, <1>9 DEF Whole
    <3>2. Cardinality(w.leases) <= Cardinality(u.leases)
      BY <3>1, PartBound
    <3>3. /\ Cardinality(w.leases) \in Nat /\ Cardinality(s.leases) \in Nat
          /\ Cardinality(u.leases) \in Nat
      BY <1>2, <1>9, Fields
    <3>4. QED BY <1>2, <3>2, <3>3
  <2> HIDE DEF q
  <2>5. LeaseLimit * p <= LeaseLimit * q /\ LeaseLimit * p \in Nat /\ LeaseLimit * q \in Nat
    BY <2>2, Products
  <2> HIDE DEF p
  <2>6. p + 0 = p /\ p <= MaxPending /\ Cardinality(w.leases) + LeaseLimit * p <= MaxLeases
    BY <2>2, <2>3, <2>4, <2>5, Bounds
  <2>7. QED BY <2>1, <2>6 DEF Ceil, p
<1> HIDE DEF E, n, items
<1>20. Ledger(ResultReady(w, items), handed, asked) /\ Kept(w, ResultReady(w, items))
  BY <1>9, <1>12, <1>13, <1>14, <1>15, <1>16, <1>17, <1>18, <1>19, ResultsQueued
<1>21. Carries(s, ResultReady(w, items))
  BY <1>10, <1>20 DEF Carries, Kept
<1>22. QED BY <1>1, <1>20, <1>21 DEF asked

(* A committed candidate (settle_active/3): the reservation made when it was prepared holds its
   messages and the results of its requests. *)
LEMMA CommittedFits ==
  ASSUME NEW s, NEW handed \in SUBSET LeaseIds, NEW requested \in [Request -> Nat],
         Ledger(s, handed, requested), PlanFits(s),
         s.cand = {}, s.active # {}, s.status = "ready"
  PROVE  LET t == SettleActive(s, TRUE)
         IN  /\ Ledger(t, handed, Asked(requested, s.plan))
             /\ t.active = {} /\ t.plan = {} /\ t.reserved = 0
             /\ t.status = s.status /\ t.comps = s.comps /\ t.gen = s.gen /\ t.cand = s.cand
<1> DEFINE told     == {a \in s.plan : a.kind = "message"}
           n        == Cardinality(told)
           messages == SetToSeq(told)
           local    == [k \in DOMAIN messages |-> Work("message", messages[k].to, s.gen)]
           ended    == [Finish(s) EXCEPT !.plan = {}]
           u        == Appended(ended, local)
           R        == Requests(s.plan)
<1>1. /\ Whole(s) /\ LeasesFit(s, handed) /\ s.timers = s.pending
      /\ s.slots = Cardinality(s.pending) /\ RequestsFit(s, requested)
      /\ Room(s, s.reserved) /\ Ceil(s, Cardinality(R))
  BY DEF Ledger
<1>2. /\ s.reserved \in Nat /\ s.plan \subseteq Action /\ IsFiniteSet(s.plan) /\ s.slots \in Nat
      /\ s.receipt \in Nat /\ s.gen \in 1 .. MaxGeneration
  BY <1>1, Fields DEF Whole
<1>3. /\ IsFiniteSet(told) /\ n \in Nat /\ Cardinality(R) \in Nat
      /\ n + Cardinality(R) <= s.reserved
  BY <1>2, RequestsBound DEF PlanFits
<1>4. /\ ended.active = {} /\ ended.plan = {} /\ ended.reserved = 0 /\ ended.cand = s.cand
      /\ ended.status = s.status /\ ended.comps = s.comps /\ ended.gen = s.gen
      /\ ended.queue = s.queue /\ ended.pending = s.pending /\ ended.timers = s.timers
      /\ ended.leases = s.leases /\ ended.slots = s.slots /\ ended.receipt = s.receipt
      /\ ended.watermark = s.watermark /\ ended.called = s.called /\ ended.releases = s.releases
  BY <1>1 DEF Finish, Whole, RootState
<1>5. Whole(ended)
  <2>1. ended \in RootState
    BY <1>1 DEF Finish, Whole, RootState
  <2> HIDE DEF ended
  <2>2. QED BY <1>1, <1>4, <2>1, FS_EmptySet DEF Whole
<1>6. Messages(local, n)
  <2>1. messages \in [1 .. n -> told]
    BY <1>3, InSomeOrder
  <2>2. \A a \in told : a.to \in Components
    BY <1>2 DEF Action
  <2> HIDE DEF told, n, messages
  <2>3. ASSUME NEW k \in 1 .. n
        PROVE  /\ Work("message", messages[k].to, s.gen) \in Item
               /\ Work("message", messages[k].to, s.gen).class = "message"
    <3>1. messages[k].to \in Components
      BY <2>1, <2>2
    <3>2. QED BY <1>2, <3>1, WorkType
  <2>4. DOMAIN messages = 1 .. n
    BY <2>1
  <2>5. QED BY <2>3, <2>4 DEF Messages
<1> HIDE DEF ended, told, n, messages
<1>7. Room(ended, s.reserved)
  BY <1>1, <1>2, <1>4, <1>5, RoomGrows
<1>8. AppendFits(ended, local) /\ Whole(u) /\ Room(u, s.reserved - n)
  <2>1. n + ended.reserved <= s.reserved
    BY <1>2, <1>3, <1>4
  <2> HIDE DEF local
  <2>2. QED BY <1>2, <1>3, <1>5, <1>6, <1>7, <2>1, AppendedFits
<1>9. SettleActive(s, TRUE) = Performed(u, s.plan)
  BY <1>8 DEF SettleActive, ended, local, messages, told
<1>10. /\ u.active = {} /\ u.plan = {} /\ u.reserved = 0 /\ u.cand = s.cand
       /\ u.status = s.status /\ u.comps = s.comps /\ u.gen = s.gen
       /\ u.pending = s.pending /\ u.timers = s.timers
       /\ u.leases = s.leases /\ u.slots = s.slots
       /\ u.watermark = s.watermark /\ u.called = s.called /\ u.releases = s.releases
  <2> HIDE DEF local
  <2> QED BY <1>4, <1>5 DEF Appended, Whole, RootState
<1> HIDE DEF u, local
<1>11. PlanSound(u, s.plan)
  BY <1>2, <1>10 DEF PlanSound, PlanFits
<1>12. LeasesFit(u, handed) /\ RequestsFit(u, requested)
  <2>1. LeasesFit(u, handed)
    BY <1>1, <1>10 DEF LeasesFit
  <2>2. RequestsFit(u, requested)
    BY <1>1, <1>10 DEF RequestsFit, RequestFits
  <2>3. QED BY <2>1, <2>2
<1>13. Ceil(u, Cardinality(Requests(s.plan)))
  BY <1>1, <1>10 DEF Ceil
<1>14. s.reserved - n \in Nat /\ Cardinality(Requests(s.plan)) <= s.reserved - n
  BY <1>2, <1>3
<1>15. /\ Ledger(Performed(u, s.plan), handed, Asked(requested, s.plan))
       /\ Carries(u, Performed(u, s.plan))
  BY <1>1, <1>8, <1>10, <1>11, <1>12, <1>13, <1>14, PerformedFits
<1>16. QED BY <1>9, <1>10, <1>15 DEF Carries

(* What settling does after the transition: it prunes, and a root that ended is closed. *)
TailOf(s, t) ==
  LET next == PruneLedger(PruneQueue(s))
  IN  /\ next.status \in {"failed", "disposed"} => t = ClosedAll(next)
      /\ next.status \notin {"failed", "disposed"} => t = next

(* A root that ended is emptied; any other keeps all that is in flight. *)
TailKeeps(s, t) ==
  /\ t.status = s.status /\ t.comps = s.comps /\ t.gen = s.gen /\ t.cand = s.cand
  /\ s.status \in {"failed", "disposed"} =>
       Empty(t) /\ t.active = {} /\ t.plan = {} /\ t.reserved = 0
  /\ s.status \notin {"failed", "disposed"} =>
       /\ t.active = s.active /\ t.plan = s.plan /\ t.reserved = s.reserved
       /\ t.watermark = s.watermark
       /\ t.leases \subseteq s.leases /\ t.pending \subseteq s.pending /\ t.queue \subseteq s.queue
       /\ Live(s) => t.leases = s.leases /\ t.pending = s.pending

(* It keeps the ledger, and of a root that did not end, all that is in flight. *)
LEMMA TailFits ==
  ASSUME NEW s, NEW handed \in SUBSET LeaseIds, NEW requested, Ledger(s, handed, requested),
         NEW t, TailOf(s, t)
  PROVE  Ledger(t, handed, requested) /\ Live(t) /\ TailKeeps(s, t)
<1> DEFINE next == PruneLedger(PruneQueue(s))
<1>0. /\ next.status \in {"failed", "disposed"} => t = ClosedAll(next)
      /\ next.status \notin {"failed", "disposed"} => t = next
  BY DEF TailOf
<1>1. /\ Ledger(next, handed, requested) /\ Pruned(s, next) /\ Live(next)
      /\ Live(s) => next.leases = s.leases /\ next.pending = s.pending
  BY PrunedFits
<1> HIDE DEF next
<1>2. next.status = s.status /\ s.status # "broken"
  BY <1>1 DEF Pruned, Alike, Ledger, Whole
<1>3. CASE s.status \in {"failed", "disposed"}
  <2>1. t = ClosedAll(next)
    BY <1>0, <1>2, <1>3
  <2>2. /\ Ledger(t, handed, requested) /\ Empty(t) /\ Live(t)
        /\ t.active = {} /\ t.plan = {} /\ t.reserved = 0
        /\ t.status = next.status /\ t.comps = next.comps /\ t.gen = next.gen
        /\ t.cand = next.cand
    BY <1>1, <2>1, ClosedFits
  <2>3. QED BY <1>1, <1>3, <2>2 DEF Pruned, Alike, TailKeeps
<1>4. CASE s.status \notin {"failed", "disposed"}
  <2>1. t = next
    BY <1>0, <1>2, <1>4
  <2>2. QED BY <1>1, <1>4, <2>1 DEF Pruned, Alike, TailKeeps
<1>5. QED BY <1>3, <1>4

(* settle/1 after anything but a commit: a root that ended is emptied, and of any other the
   transition that is over leaves nothing behind and one in flight goes on. *)
Settled(s, t) ==
  /\ t.status = s.status /\ t.comps = s.comps /\ t.gen = s.gen /\ t.cand = s.cand
  /\ s.status \in {"failed", "disposed"} =>
       Empty(t) /\ t.active = {} /\ t.plan = {} /\ t.reserved = 0
  /\ s.status \notin {"failed", "disposed"} /\ s.cand = {} /\ s.active # {} =>
       t.active = {} /\ t.plan = {} /\ t.reserved = 0
  /\ s.status \notin {"failed", "disposed"} /\ (s.cand # {} \/ s.active = {}) =>
       /\ t.active = s.active /\ t.plan = s.plan /\ t.reserved = s.reserved
       /\ t.watermark = s.watermark
       /\ t.leases \subseteq s.leases /\ t.pending \subseteq s.pending /\ t.queue \subseteq s.queue
       /\ Live(s) => t.leases = s.leases /\ t.pending = s.pending

LEMMA SettledFits ==
  ASSUME NEW s, NEW handed \in SUBSET LeaseIds, NEW requested, Ledger(s, handed, requested),
         NEW t, t = Settle(s, FALSE)
  PROVE  Ledger(t, handed, requested) /\ Live(t) /\ Settled(s, t)
<1> DEFINE u    == SettleActive(s, FALSE)
<1>1. TailOf(u, t)
  BY DEF Settle, TailOf
<1>2. /\ s.cand # {} \/ s.active = {} => u = s
      /\ s.cand = {} /\ s.active # {} =>
           /\ Ledger(u, handed, requested)
           /\ u.active = {} /\ u.plan = {} /\ u.reserved = 0
           /\ u.status = s.status /\ u.comps = s.comps /\ u.gen = s.gen /\ u.cand = s.cand
  BY OwedFits
<1> HIDE DEF u
<1>3. Ledger(u, handed, requested)
  BY <1>2
<1>4. Ledger(t, handed, requested) /\ Live(t) /\ TailKeeps(u, t)
  BY <1>1, <1>3, TailFits
<1>5. CASE s.cand # {} \/ s.active = {}
  BY <1>2, <1>4, <1>5 DEF TailKeeps, Settled
<1>6. CASE s.cand = {} /\ s.active # {}
  BY <1>2, <1>4, <1>6 DEF TailKeeps, Settled
<1>7. QED BY <1>5, <1>6

-----------------------------------------------------------------------------
(* The handlers. *)

(* The schedule's test of its budgets leaves the room it says. *)
LEMMA WithinRoom ==
  ASSUME NEW s, Whole(s), Within(s), s.receipt + s.reserved + s.slots <= MaxReceipt
  PROVE  Room(s, s.reserved)
<1>1. s.reserved \in Nat /\ s.slots \in Nat /\ s.receipt \in Nat
  BY Fields
<1>2. /\ Cardinality(OfClass(s, "event")) \in Nat /\ Cardinality(OfClass(s, "message")) \in Nat
  BY ClassFinite DEF Whole
<1>3. ClassCount(s, "event") = Cardinality(OfClass(s, "event")) + 0
  BY DEF ClassCount, OfClass
<1>4. ClassCount(s, "message") = Cardinality(OfClass(s, "message")) + (s.reserved + s.slots)
  BY DEF ClassCount, OfClass
<1>5. /\ ClassCount(s, "event") <= EventLimit /\ ClassCount(s, "message") <= MessageLimit
  BY DEF Within, Classes, ClassLimit
<1>6. Cardinality(s.queue) + Cardinality(s.active) + s.reserved + s.slots <= TotalLimit
  BY DEF Within, Depth
<1>7. Cardinality(OfClass(s, "event")) <= EventLimit
  BY <1>2, <1>3, <1>5
<1>8. Cardinality(OfClass(s, "message")) + s.reserved + s.slots <= MessageLimit
  BY <1>1, <1>2, <1>4, <1>5
<1>9. QED BY <1>6, <1>7, <1>8 DEF Room

(* Steps that change only the status, the tree or the candidate keep the ledger. *)
Relabels(s, t) ==
  /\ t.gen = s.gen /\ t.plan = s.plan /\ t.queue = s.queue /\ t.active = s.active
  /\ t.reserved = s.reserved /\ t.slots = s.slots /\ t.receipt = s.receipt
  /\ t.pending = s.pending /\ t.timers = s.timers /\ t.leases = s.leases
  /\ t.watermark = s.watermark /\ t.called = s.called /\ t.releases = s.releases

LEMMA Relabeled ==
  ASSUME NEW s, NEW handed, NEW requested, Ledger(s, handed, requested),
         NEW t, t \in RootState, t.status # "broken", Relabels(s, t)
  PROVE  Ledger(t, handed, requested)
<1>1. Whole(s) /\ LeasesFit(s, handed) /\ s.timers = s.pending /\ s.slots = Cardinality(s.pending)
  BY DEF Ledger
<1>2. Whole(t)
  BY <1>1 DEF Whole, Relabels
<1>3. LeasesFit(t, handed)
  BY <1>1 DEF LeasesFit, Relabels
<1>4. s.reserved \in Nat
  BY <1>1, Fields
<1>5. QED BY <1>1, <1>2, <1>3, <1>4, LedgerShrinks DEF Relabels

(* A root with no candidate, no active transition and no plan has nothing in flight. *)
LEMMA Idle ==
  ASSUME NEW s, s.cand = {}, s.active = {}, s.plan = {}, s.reserved = 0,
         s.status # "awaiting_commit"
  PROVE  PlanFits(s) /\ Flight(s)
<1>1. Reservations(s.plan) = 0
  <2>1. {a \in s.plan : a.kind \in {"message", "request"}} = {}
    OBVIOUS
  <2>2. QED BY <2>1, FS_EmptySet DEF Reservations
<1>2. PlanFits(s)
  BY <1>1 DEF PlanFits, Requests
<1>3. Flight(s)
  BY DEF Flight
<1>4. QED BY <1>2, <1>3

(* What is in flight stays so while the plan, the leases, the generation and the watermarks
   do. *)
LEMMA StaysInFlight ==
  ASSUME NEW s, NEW t, PlanFits(s), Flight(s),
         t.status = s.status, t.cand = s.cand, t.active = s.active, t.plan = s.plan,
         t.reserved = s.reserved, t.gen = s.gen, t.watermark = s.watermark,
         s.leases \subseteq t.leases
  PROVE  PlanFits(t) /\ Flight(t)
BY DEF PlanFits, Flight

(* The oldest item of a queue is one of its items. *)
LEMMA OldestIn ==
  ASSUME NEW q, q \subseteq Item, q # {}
  PROVE  Oldest(q) \in q
<1> DEFINE R == OpToRel(<, Nat)
           T == {i.receipt : i \in q}
<1>1. IsWellFoundedOn(R, Nat)
  BY NatLessThanWellFounded
<1>2. T \subseteq Nat /\ T # {}
  BY DEF Item
<1>3. \A x, y \in Nat : x < y => <<x, y>> \in R
  BY DEF OpToRel
<1> HIDE DEF R
<1>4. PICK x \in T : \A y \in T : <<y, x>> \notin R
  <2> HIDE DEF T
  <2> QED BY <1>1, <1>2, WFMin, Zenon
<1>5. PICK i \in q : x = i.receipt
  OBVIOUS
<1>6. \A j \in q : i.receipt <= j.receipt
  <2> SUFFICES ASSUME NEW j \in q PROVE i.receipt <= j.receipt
    OBVIOUS
  <2>1. j.receipt \in T /\ j.receipt \in Nat /\ x \in Nat
    BY <1>2
  <2>2. ~(j.receipt < x)
    BY <1>3, <1>4, <2>1
  <2>3. QED BY <1>5, <2>1, <2>2
<1>7. QED BY <1>6 DEF Oldest

(* Settling a root that has nothing in flight, or whose transition is over. *)
LEMMA SettledIdle ==
  ASSUME NEW s, NEW handed \in SUBSET LeaseIds, NEW requested, Ledger(s, handed, requested),
         s.cand = {}, s.active = {} => s.plan = {} /\ s.reserved = 0,
         s.status \in {"ready", "failed", "disposed"}, NEW t, t = Settle(s, FALSE)
  PROVE  Sound(t, handed, requested)
<1>1. Ledger(t, handed, requested) /\ Live(t) /\ Settled(s, t)
  BY SettledFits
<1>2. t.status = s.status /\ t.cand = {} /\ t.active = {} /\ t.plan = {} /\ t.reserved = 0
  BY <1>1 DEF Settled
<1>3. t.status \in Ended => Empty(t)
  BY <1>1, <1>2 DEF Settled, Ended
<1>4. PlanFits(t) /\ Flight(t)
  BY <1>2, Idle
<1>5. QED BY <1>1, <1>3, <1>4 DEF Sound

(* Settling a root that awaits the renderer. *)
LEMMA SettledInFlight ==
  ASSUME NEW s, NEW handed \in SUBSET LeaseIds, NEW requested, Ledger(s, handed, requested),
         Live(s), PlanFits(s), Flight(s), s.status = "awaiting_commit", NEW t, t = Settle(s, FALSE)
  PROVE  Sound(t, handed, requested)
<1>1. Ledger(t, handed, requested) /\ Live(t) /\ Settled(s, t)
  BY SettledFits
<1>2. s.cand # {}
  BY DEF Flight
<1>3. /\ t.status = s.status /\ t.cand = s.cand /\ t.active = s.active /\ t.plan = s.plan
      /\ t.reserved = s.reserved /\ t.gen = s.gen /\ t.watermark = s.watermark
      /\ t.leases = s.leases
  BY <1>1, <1>2 DEF Settled
<1>4. PlanFits(t) /\ Flight(t)
  BY <1>3, StaysInFlight
<1>5. t.status \notin Ended
  BY <1>3 DEF Ended
<1>6. QED BY <1>1, <1>4, <1>5 DEF Sound

(* Selecting the oldest item makes it the active transition. *)
LEMMA SelectFits ==
  ASSUME NEW s, NEW handed \in SUBSET LeaseIds, NEW requested, Sound(s, handed, requested),
         s.status = "ready", s.cand = {}, s.queue # {}
  PROVE  /\ Ledger(Select(s), handed, requested) /\ Live(Select(s))
         /\ Oldest(s.queue) \in s.queue /\ Select(s).active = {Oldest(s.queue)}
         /\ Select(s).cand = {} /\ Select(s).plan = {} /\ Select(s).status = "ready"
         /\ Select(s).reserved = 0 /\ Select(s).gen = s.gen /\ Select(s).comps = s.comps
         /\ Select(s).leases = s.leases /\ Select(s).pending = s.pending
         /\ Select(s).watermark = s.watermark /\ Select(s).queue \subseteq s.queue
<1> DEFINE i == Oldest(s.queue)
           t == [s EXCEPT !.active = {i}, !.queue = @ \ {i}]
<1>1. Select(s) = t
  BY DEF Select
<1>2. /\ Ledger(s, handed, requested) /\ Whole(s) /\ LeasesFit(s, handed) /\ s.timers = s.pending
      /\ s.slots = Cardinality(s.pending) /\ Room(s, s.reserved) /\ s.active = {} /\ s.plan = {}
      /\ RequestsFit(s, requested) /\ Ceil(s, Cardinality(Requests(s.plan)))
  BY DEF Sound, Ledger, Flight
<1>3. s.reserved = 0
  <2>1. Reservations(s.plan) = 0
    <3>1. {a \in s.plan : a.kind \in {"message", "request"}} = {}
      BY <1>2
    <3>2. QED BY <3>1, FS_EmptySet DEF Reservations
  <2>2. QED BY <2>1 DEF Sound, PlanFits
<1>4. i \in s.queue /\ s.queue \subseteq Item
  BY <1>2, Fields, OldestIn
<1> HIDE DEF i
<1>5. /\ t.active = {i} /\ t.queue = s.queue \ {i} /\ t.cand = {} /\ t.plan = {}
      /\ t.status = "ready" /\ t.reserved = 0 /\ t.gen = s.gen /\ t.comps = s.comps
      /\ t.leases = s.leases /\ t.pending = s.pending /\ t.watermark = s.watermark
      /\ t.slots = s.slots /\ t.receipt = s.receipt /\ t.timers = s.timers
      /\ t.called = s.called /\ t.releases = s.releases
  BY <1>2, <1>3 DEF Whole, RootState
<1>6. Whole(t)
  <2>1. t \in RootState
    BY <1>2, <1>4 DEF Whole, RootState
  <2> HIDE DEF t
  <2>2. IsFiniteSet(t.queue) /\ IsFiniteSet(t.active)
    BY <1>2, <1>5, PartBound, FS_Singleton DEF Whole
  <2>3. QED BY <1>2, <1>5, <2>1, <2>2 DEF Whole
<1> HIDE DEF t
<1>7. Room(t, t.reserved)
  <2>1. Cardinality(t.queue) + Cardinality(t.active) = Cardinality(s.queue) + Cardinality(s.active)
    <3>1. IsFiniteSet(s.queue)
      BY <1>2 DEF Whole
    <3>2. Cardinality(s.queue \ {i}) = Cardinality(s.queue) - 1 /\ Cardinality(s.queue) \in Nat
      BY <1>4, <3>1, FS_RemoveElement, FS_CardinalityType
    <3>3. Cardinality({i}) = 1 /\ Cardinality({}) = 0
      BY FS_Singleton, FS_EmptySet
    <3>4. QED BY <1>2, <1>5, <3>2, <3>3
  <2>2. \A class : OfClass(t, class) = OfClass(s, class)
    BY <1>2, <1>4, <1>5 DEF OfClass
  <2>3. QED BY <1>2, <1>3, <1>5, <2>1, <2>2 DEF Room
<1>8. LeasesFit(t, handed) /\ Ceil(t, Cardinality(Requests(t.plan)))
  BY <1>2, <1>5 DEF LeasesFit, Ceil
<1>9. RequestsFit(t, requested)
  BY <1>2, <1>5 DEF RequestsFit, RequestFits
<1>10. Ledger(t, handed, requested)
  BY <1>2, <1>5, <1>6, <1>7, <1>8, <1>9 DEF Ledger
<1>11. Live(t)
  BY <1>5 DEF Sound, Live
<1>12. QED BY <1>1, <1>4, <1>5, <1>10, <1>11 DEF i

(* Work the runtime admits itself (internal/2) finds the room it asked for. *)
LEMMA EnqueueSound ==
  ASSUME IInv, NEW c \in Components, Enqueue(c)
  PROVE  IInv'
<1> DEFINE item == Work("event", c, root.gen)
           s    == Internal(root, item)
           new  == [item EXCEPT !.receipt = root.receipt + 1]
           h    == provider.handed
           q    == provider.requested
<1>1. /\ Sound(root, h, q) /\ Ledger(root, h, q) /\ Whole(root) /\ LeasesFit(root, h)
      /\ RequestsFit(root, q) /\ root.timers = root.pending
      /\ root.slots = Cardinality(root.pending) /\ Ceil(root, Cardinality(Requests(root.plan)))
      /\ Live(root) /\ PlanFits(root) /\ Flight(root) /\ h \in SUBSET LeaseIds
  BY DEF IInv, Sound, Ledger
<1>2. /\ root.gen \in 1 .. MaxGeneration /\ root.receipt \in 0 .. MaxReceipt /\ root.slots \in Nat
      /\ root.reserved \in Nat /\ root.queue \subseteq Item
  BY <1>1, Fields
<1>3. /\ root.status \in {"ready", "awaiting_commit"} /\ c \in root.comps
      /\ Headroom(root, 1 + root.reserved) /\ Within(s) /\ provider' = provider
      /\ root' = Settle(s, FALSE)
  BY DEF Enqueue, Open, InternalFits
<1>4. root.receipt + 1 + root.reserved + root.slots <= MaxReceipt
  BY <1>2, <1>3, Bounds DEF Headroom
<1>5. new \in Item /\ new.source = c /\ new.target = c /\ new.gen = root.gen
  <2>1. item \in Item /\ item.source = c /\ item.target = c /\ item.gen = root.gen
    BY <1>2, WorkType DEF Work
  <2> HIDE DEF item
  <2>2. root.receipt + 1 \in Nat
    BY <1>2
  <2>3. new.source = item.source /\ new.target = item.target /\ new.gen = item.gen
    BY <2>1 DEF Item
  <2>4. QED BY <2>1, <2>2, <2>3, Renumbered
<1> HIDE DEF item, new
<1>6. s = [root EXCEPT !.queue = @ \cup {new}, !.receipt = @ + 1]
  BY DEF Internal, new
<1>7. /\ s.queue = root.queue \cup {new} /\ s.receipt = root.receipt + 1
      /\ s.status = root.status /\ s.comps = root.comps /\ s.gen = root.gen
      /\ s.cand = root.cand /\ s.plan = root.plan /\ s.active = root.active
      /\ s.reserved = root.reserved /\ s.slots = root.slots /\ s.pending = root.pending
      /\ s.timers = root.timers /\ s.leases = root.leases /\ s.watermark = root.watermark
      /\ s.called = root.called /\ s.releases = root.releases
  BY <1>1, <1>6 DEF Whole, RootState
<1> HIDE DEF s
<1>8. Whole(s)
  <2>1. root.receipt + 1 \in 0 .. MaxReceipt
    BY <1>2, <1>4, Bounds
  <2>2. s \in RootState
    <3>1. root \in RootState /\ new \in Item
      BY <1>1, <1>5 DEF Whole
    <3>2. QED BY <1>6, <2>1, <3>1 DEF RootState
  <2>3. IsFiniteSet(s.queue)
    <3>1. IsFiniteSet(root.queue)
      BY <1>1 DEF Whole
    <3>2. IsFiniteSet(root.queue \cup {new})
      BY <3>1, FS_AddElement
    <3>3. QED BY <1>7, <3>2
  <2>4. QED BY <1>1, <1>7, <2>2, <2>3 DEF Whole
<1>9. Room(s, s.reserved)
  <2>1. s.receipt + s.reserved + s.slots <= MaxReceipt
    BY <1>2, <1>4, <1>7, Bounds
  <2>2. QED BY <1>3, <1>8, <2>1, WithinRoom
<1>10. LeasesFit(s, h) /\ Ceil(s, Cardinality(Requests(s.plan)))
  BY <1>1, <1>7 DEF LeasesFit, Ceil
<1>11. RequestsFit(s, q)
  BY <1>1, <1>7 DEF RequestsFit, RequestFits
<1>12. Ledger(s, h, q)
  BY <1>1, <1>7, <1>8, <1>9, <1>10, <1>11 DEF Ledger
<1>13. Live(s)
  BY <1>1, <1>3, <1>5, <1>7 DEF Live, ValidDispatch
<1>14. PlanFits(s) /\ Flight(s)
  BY <1>1, <1>7, StaysInFlight
<1>15. CASE root.status = "awaiting_commit"
  <2>1. Sound(root', h, q)
    BY <1>1, <1>3, <1>7, <1>12, <1>13, <1>14, <1>15, SettledInFlight
  <2>2. QED BY <1>3, <2>1 DEF IInv
<1>16. CASE root.status = "ready"
  <2>1. s.cand = {} /\ s.active = {} /\ s.plan = {} /\ s.status = "ready"
    BY <1>1, <1>7, <1>16 DEF Flight
  <2>2. s.reserved = 0
    <3>1. {a \in s.plan : a.kind \in {"message", "request"}} = {}
      BY <2>1
    <3>2. QED BY <1>14, <3>1, FS_EmptySet DEF PlanFits, Reservations
  <2>3. Sound(root', h, q)
    BY <1>1, <1>3, <1>12, <2>1, <2>2, SettledIdle
  <2>4. QED BY <1>3, <2>3 DEF IInv
<1>17. QED BY <1>3, <1>15, <1>16

(* What the invariant says of the root, spelled out. *)
LEMMA Unfolded ==
  ASSUME IInv
  PROVE  /\ provider \in [requested : [Request -> Nat], handed : SUBSET LeaseIds]
         /\ provider.handed \in SUBSET LeaseIds /\ provider.requested \in [Request -> Nat]
         /\ Sound(root, provider.handed, provider.requested)
         /\ Ledger(root, provider.handed, provider.requested)
         /\ Whole(root) /\ root \in RootState /\ root.status # "broken"
         /\ LeasesFit(root, provider.handed) /\ RequestsFit(root, provider.requested)
         /\ root.timers = root.pending /\ root.slots = Cardinality(root.pending)
         /\ Room(root, root.reserved) /\ Ceil(root, Cardinality(Requests(root.plan)))
         /\ Live(root) /\ PlanFits(root) /\ Flight(root)
         /\ root.status \in Ended => Empty(root)
         /\ root.plan = {} => root.reserved = 0
<1>1. /\ provider \in [requested : [Request -> Nat], handed : SUBSET LeaseIds]
      /\ Sound(root, provider.handed, provider.requested)
  BY DEF IInv
<1>2. provider.handed \in SUBSET LeaseIds /\ provider.requested \in [Request -> Nat]
  BY <1>1
<1>3. /\ Ledger(root, provider.handed, provider.requested) /\ Live(root) /\ PlanFits(root)
      /\ Flight(root)
      /\ root.status \in Ended => Empty(root)
  BY <1>1 DEF Sound
<1>4. /\ Whole(root) /\ LeasesFit(root, provider.handed)
      /\ RequestsFit(root, provider.requested)
      /\ root.timers = root.pending /\ root.slots = Cardinality(root.pending)
      /\ Room(root, root.reserved) /\ Ceil(root, Cardinality(Requests(root.plan)))
  BY <1>3 DEF Ledger
<1>5. root.plan = {} => root.reserved = 0
  <2>1. root.plan = {} => {a \in root.plan : a.kind \in {"message", "request"}} = {}
    OBVIOUS
  <2>2. QED BY <1>3, <2>1, FS_EmptySet DEF PlanFits, Reservations
<1>6. root \in RootState /\ root.status # "broken"
  BY <1>4 DEF Whole
<1>7. QED BY <1>1, <1>2, <1>3, <1>4, <1>5, <1>6

(* Work the evaluator refuses at dispatch just leaves the schedule. *)
LEMMA DrainRefusedSound ==
  ASSUME IInv, DrainRefused
  PROVE  IInv'
<1> DEFINE i == Oldest(root.queue)
           s == Select(root)
           t == Finish(s)
           h == provider.handed
           q == provider.requested
<1>1. /\ Sound(root, h, q) /\ root.status = "ready" /\ root.cand = {} /\ root.queue # {}
      /\ root' = [t EXCEPT !.refused = @ \cup Carried({i})] /\ provider' = provider
      /\ provider \in [requested : [Request -> Nat], handed : SUBSET LeaseIds]
      /\ root.queue \subseteq Item
  BY Unfolded, Fields DEF DrainRefused, CanDrain
<1>2. /\ Ledger(s, h, q) /\ Live(s) /\ i \in root.queue /\ s.cand = {} /\ s.plan = {}
      /\ s.status = "ready" /\ s.reserved = 0
  BY <1>1, SelectFits
<1> HIDE DEF s
<1>3. Whole(s) /\ LeasesFit(s, h) /\ s.timers = s.pending /\ s.slots = Cardinality(s.pending)
  BY <1>2 DEF Ledger
<1>4. Carried({i}) \subseteq LeaseIds
  BY <1>1, <1>2 DEF Carried, Item
<1> HIDE DEF i
<1>5. /\ root'.active = {} /\ root'.reserved = 0 /\ root'.plan = s.plan /\ root'.queue = s.queue
      /\ root'.status = s.status /\ root'.cand = s.cand /\ root'.gen = s.gen
      /\ root'.comps = s.comps /\ root'.pending = s.pending /\ root'.timers = s.timers
      /\ root'.leases = s.leases /\ root'.releases = s.releases /\ root'.slots = s.slots
      /\ root'.receipt = s.receipt /\ root'.watermark = s.watermark /\ root'.called = s.called
  BY <1>1, <1>3 DEF Finish, Whole, RootState
<1>6. Whole(root')
  <2>1. root' \in RootState
    BY <1>1, <1>3, <1>4 DEF Finish, Whole, RootState
  <2>2. QED BY <1>2, <1>3, <1>5, <2>1, FS_EmptySet DEF Whole
<1>7. LeasesFit(root', h)
  BY <1>3, <1>5 DEF LeasesFit
<1>8. Ledger(root', h, q)
  <2>1. root'.reserved <= s.reserved
    BY <1>2, <1>5
  <2>2. QED BY <1>2, <1>3, <1>5, <1>6, <1>7, <2>1, LedgerShrinks
<1>9. Live(root')
  BY <1>2, <1>5 DEF Live
<1>10. PlanFits(root') /\ Flight(root') /\ root'.status \notin Ended
  BY <1>2, <1>5, Idle DEF Ended
<1>11. Sound(root', h, q)
  BY <1>8, <1>9, <1>10 DEF Sound
<1>12. QED BY <1>1, <1>11 DEF IInv

(* A callback that fails, or proposes what is not valid, ends its transition. *)
LEMMA DrainRejectedSound ==
  ASSUME IInv, DrainRejected
  PROVE  IInv'
<1> DEFINE s == Select(root)
           h == provider.handed
           q == provider.requested
<1>1. /\ Sound(root, h, q) /\ root.status = "ready" /\ root.cand = {} /\ root.queue # {}
      /\ root' = Settle(s, FALSE) /\ provider' = provider /\ h \in SUBSET LeaseIds
      /\ provider \in [requested : [Request -> Nat], handed : SUBSET LeaseIds]
  BY Unfolded DEF DrainRejected, CanDrain
<1>2. /\ Ledger(s, h, q) /\ s.cand = {} /\ s.status = "ready" /\ s.plan = {} /\ s.reserved = 0
  BY <1>1, SelectFits
<1> HIDE DEF s
<1>3. Sound(root', h, q)
  BY <1>1, <1>2, SettledIdle
<1>4. QED BY <1>1, <1>3 DEF IInv

(* Preparing a candidate reserves room for its messages and for the results of its requests,
   and its batch was valid against the ledger (prepare/6). *)
LEMMA DrainPreparedSound ==
  ASSUME IInv, NEW cand \in Candidate, IsFiniteSet(cand.plan), cand.gen = root.gen,
         DrainPrepared(cand)
  PROVE  IInv'
<1> DEFINE s == Select(root)
           n == Reservations(cand.plan)
           R == Requests(cand.plan)
           h == provider.handed
           q == provider.requested
<1>1. /\ Sound(root, h, q) /\ root.status = "ready" /\ root.cand = {} /\ root.queue # {}
      /\ ValidBatch(root, cand) /\ ReserveFits(s, n) /\ provider' = provider
      /\ root' = [s EXCEPT !.reserved = n, !.plan = cand.plan, !.cand = {cand},
                           !.status = "awaiting_commit"]
      /\ provider \in [requested : [Request -> Nat], handed : SUBSET LeaseIds]
      /\ Whole(root) /\ cand.plan \subseteq Action
  BY Unfolded DEF DrainPrepared, CanDrain, Candidate
<1>2. /\ Ledger(s, h, q) /\ Live(s) /\ s.active = {Oldest(root.queue)}
      /\ s.gen = root.gen /\ s.leases = root.leases /\ s.pending = root.pending
      /\ s.watermark = root.watermark
  BY <1>1, SelectFits
<1>3. /\ n \in Nat /\ Cardinality(R) \in Nat /\ R \subseteq Request
  BY <1>1, RequestsBound
<1>4. /\ Whole(s) /\ LeasesFit(s, h) /\ s.timers = s.pending /\ s.slots = Cardinality(s.pending)
      /\ RequestsFit(s, q)
  BY <1>2 DEF Ledger
<1>5. /\ s.receipt + n + s.slots <= MaxReceipt /\ Within([s EXCEPT !.reserved = n])
  BY <1>1 DEF ReserveFits, Headroom
<1> HIDE DEF s, n, R
<1>6. /\ root'.reserved = n /\ root'.plan = cand.plan /\ root'.cand = {cand}
      /\ root'.status = "awaiting_commit" /\ root'.active = s.active /\ root'.queue = s.queue
      /\ root'.gen = s.gen /\ root'.comps = s.comps /\ root'.pending = s.pending
      /\ root'.timers = s.timers /\ root'.leases = s.leases /\ root'.releases = s.releases
      /\ root'.slots = s.slots /\ root'.receipt = s.receipt
      /\ root'.watermark = s.watermark /\ root'.called = s.called
  BY <1>1, <1>4 DEF Whole, RootState
<1>7. Whole(root')
  <2>1. root' \in RootState
    BY <1>1, <1>3, <1>4 DEF Whole, RootState
  <2>2. QED BY <1>4, <1>6, <2>1 DEF Whole
<1>8. Room(root', root'.reserved)
  <2> DEFINE r == [s EXCEPT !.reserved = n]
  <2>1. r \in RootState /\ r.status = s.status /\ r.queue = s.queue /\ r.active = s.active
          /\ r.reserved = n /\ r.slots = s.slots /\ r.receipt = s.receipt
          /\ r.pending = s.pending /\ r.leases = s.leases /\ r.plan = s.plan
    BY <1>3, <1>4 DEF Whole, RootState
  <2>2. Within(r)
    BY <1>5
  <2> HIDE DEF r
  <2>3. Whole(r)
    BY <1>4, <2>1 DEF Whole
  <2>4. Room(r, n)
    BY <1>5, <2>1, <2>2, <2>3, WithinRoom
  <2>5. \A class : OfClass(r, class) = OfClass(root', class)
    BY <1>6, <2>1 DEF OfClass
  <2>6. QED BY <1>6, <2>1, <2>4, <2>5 DEF Room
<1>9. Ceil(root', Cardinality(R))
  <2> DEFINE p == Cardinality(root.pending)
             k == Cardinality(R)
  <2>1. /\ p + k <= MaxPending
        /\ Cardinality(root.leases) + LeaseLimit * p + LeaseLimit * k <= MaxLeases
    BY <1>1 DEF ValidBatch, LeaseDepth, R
  <2>2. p \in Nat /\ k \in Nat /\ Cardinality(root.leases) \in Nat
    BY <1>1, <1>3, Fields
  <2> HIDE DEF p, k
  <2>3. LeaseLimit * (p + k) = LeaseLimit * p + LeaseLimit * k
    BY <2>2, Bounds
  <2>4. Cardinality(root.leases) + LeaseLimit * (p + k) <= MaxLeases
    <3>1. LeaseLimit * p \in Nat /\ LeaseLimit * k \in Nat
      BY <2>2, Products
    <3>2. QED BY <2>1, <2>2, <2>3, <3>1, Bounds
  <2>5. QED BY <1>2, <1>6, <2>1, <2>4 DEF Ceil, p, k
<1>10. RequestsFit(root', q)
  BY <1>4, <1>6 DEF RequestsFit, RequestFits
<1>11. LeasesFit(root', h)
  BY <1>4, <1>6 DEF LeasesFit
<1>12. Ledger(root', h, q)
  BY <1>4, <1>6, <1>7, <1>8, <1>9, <1>10, <1>11 DEF Ledger, R
<1>13. Live(root')
  BY <1>2, <1>6 DEF Live
<1>14. PlanFits(root')
  <2>1. root'.reserved = Reservations(root'.plan)
    BY <1>6 DEF n
  <2>2. \A r \in R : r.gen = root.gen /\ r.seq > root.watermark[r.owner]
    BY <1>1 DEF ValidBatch, OwnerLive, R
  <2>3. \A a \in cand.plan : a.kind = "transfer" => a.lease \in root.leases
    BY <1>1 DEF ValidBatch
  <2>4. \A a, b \in cand.plan :
          a.kind = "transfer" /\ b.kind = "transfer" /\ a.lease = b.lease => a = b
    BY <1>1 DEF ValidBatch
  <2>5. QED BY <1>2, <1>6, <2>1, <2>2, <2>3, <2>4 DEF PlanFits, R
<1>15. Flight(root') /\ root'.status \notin Ended
  BY <1>2, <1>6 DEF Flight, Ended
<1>16. Sound(root', h, q)
  BY <1>12, <1>13, <1>14, <1>15 DEF Sound
<1>17. QED BY <1>1, <1>16 DEF IInv

(* The commit of an item's candidate carries out the plan that was reserved for; the commit of
   a replacement starts the next generation, in which nothing was requested yet. *)
LEMMA CommitSound ==
  ASSUME IInv, Commit
  PROVE  IInv'
<1> DEFINE h == provider.handed
           q == provider.requested
<1>1. PICK c \in root.cand :
        /\ root' = Settle([root EXCEPT !.status = "ready", !.cand = {}, !.comps = c.comps, !.gen = c.gen,
                             !.watermark = IF c.gen = root.gen THEN @ ELSE [k \in Components |-> 0]],
                          root.active # {})
        /\ provider' = [provider EXCEPT !.requested =
             [r \in Request |-> @[r] + IF \E a \in c.plan : a.kind = "request" /\ a.req = r THEN 1 ELSE 0]]
  BY DEF Commit
<1> DEFINE s == [root EXCEPT !.status = "ready", !.cand = {}, !.comps = c.comps, !.gen = c.gen,
                   !.watermark = IF c.gen = root.gen THEN @ ELSE [k \in Components |-> 0]]
<1>2. /\ Ledger(root, h, q) /\ Whole(root) /\ LeasesFit(root, h) /\ RequestsFit(root, q)
      /\ root.timers = root.pending /\ root.slots = Cardinality(root.pending)
      /\ Room(root, root.reserved) /\ Ceil(root, Cardinality(Requests(root.plan)))
      /\ PlanFits(root) /\ Flight(root)
      /\ root.plan = {} => root.reserved = 0
      /\ provider \in [requested : [Request -> Nat], handed : SUBSET LeaseIds]
      /\ h \in SUBSET LeaseIds /\ q \in [Request -> Nat]
  BY Unfolded
<1>3. /\ c \in Candidate /\ c.comps \subseteq Components /\ c.gen \in 1 .. MaxGeneration
      /\ root.gen \in 1 .. MaxGeneration
      /\ root.watermark \in [Components -> 0 .. MaxSequence]
  <2>1. /\ root.cand \subseteq Candidate /\ root.gen \in 1 .. MaxGeneration
        /\ root.watermark \in [Components -> 0 .. MaxSequence]
    BY <1>2, Fields
  <2>2. c \in Candidate
    BY <2>1
  <2>3. QED BY <2>1, <2>2, ActionAssumption DEF Candidate
<1>4. provider' = [provider EXCEPT !.requested = Asked(q, c.plan)]
  <2>1. \A r \in Request : (\E a \in c.plan : a.kind = "request" /\ a.req = r) <=> r \in Requests(c.plan)
    BY DEF Requests
  <2>2. [r \in Request |-> q[r] + IF \E a \in c.plan : a.kind = "request" /\ a.req = r THEN 1 ELSE 0]
          = Asked(q, c.plan)
    BY <2>1 DEF Asked
  <2>3. QED BY <1>1, <2>2
<1>5. Asked(q, c.plan) \in [Request -> Nat]
  BY <1>2 DEF Asked
<1>6. /\ provider'.requested = Asked(q, c.plan) /\ provider'.handed = h
      /\ provider' \in [requested : [Request -> Nat], handed : SUBSET LeaseIds]
  BY <1>2, <1>4, <1>5
<1>7. s \in RootState
  <2>1. (IF c.gen = root.gen THEN root.watermark ELSE [k \in Components |-> 0])
          \in [Components -> 0 .. MaxSequence]
    BY <1>3, Bounds
  <2>2. QED BY <1>2, <1>3, <2>1 DEF Whole, RootState
<1>8. /\ s.status = "ready" /\ s.cand = {} /\ s.comps = c.comps /\ s.gen = c.gen
      /\ s.watermark = (IF c.gen = root.gen THEN root.watermark ELSE [k \in Components |-> 0])
      /\ s.plan = root.plan /\ s.queue = root.queue /\ s.active = root.active
      /\ s.reserved = root.reserved /\ s.slots = root.slots /\ s.receipt = root.receipt
      /\ s.pending = root.pending /\ s.timers = root.timers /\ s.leases = root.leases
      /\ s.called = root.called /\ s.releases = root.releases
  BY <1>2 DEF Whole, RootState
<1>9. root' = Settle(s, root.active # {})
  BY <1>1
<1> HIDE DEF s
<1>10. CASE root.active # {}
  <2>1. c.plan = root.plan /\ c.gen = root.gen
    BY <1>2, <1>10 DEF Flight
  <2>2. Relabels(root, s)
    BY <1>8, <2>1 DEF Relabels
  <2>3. Ledger(s, h, q)
    BY <1>2, <1>7, <1>8, <2>2, Relabeled
  <2>4. PlanFits(s)
    BY <1>2, <1>8, <2>1 DEF PlanFits
  <2> DEFINE u == SettleActive(s, TRUE)
  <2>5. /\ Ledger(u, h, Asked(q, s.plan)) /\ u.active = {} /\ u.plan = {} /\ u.reserved = 0
        /\ u.status = s.status /\ u.cand = s.cand
    BY <1>2, <1>8, <1>10, <2>3, <2>4, CommittedFits
  <2>6. root' = Settle(s, TRUE)
    BY <1>9, <1>10
  <2>7. TailOf(u, root')
    BY <2>6 DEF Settle, TailOf
  <2> HIDE DEF u
  <2>8. Ledger(root', h, Asked(q, s.plan)) /\ Live(root') /\ TailKeeps(u, root')
    BY <1>2, <2>5, <2>7, TailFits
  <2>9. /\ root'.cand = {} /\ root'.active = {} /\ root'.plan = {} /\ root'.reserved = 0
        /\ root'.status = "ready"
    BY <1>8, <2>5, <2>8 DEF TailKeeps
  <2>10. PlanFits(root') /\ Flight(root') /\ root'.status \notin Ended
    BY <2>9, Idle DEF Ended
  <2>11. Sound(root', h, Asked(q, s.plan))
    BY <2>8, <2>10 DEF Sound
  <2>12. QED BY <1>6, <1>8, <2>1, <2>11 DEF IInv
<1>11. CASE root.active = {}
  <2>1. root.plan = {} /\ root.reserved = 0 /\ c.plan = {} /\ c.gen = root.gen + 1
    BY <1>2, <1>11 DEF Flight
  <2>2. Asked(q, c.plan) = q
    <3>1. Requests(c.plan) = {}
      BY <2>1 DEF Requests
    <3>2. \A r \in Request : Asked(q, c.plan)[r] = q[r]
      BY <1>2, <3>1 DEF Asked
    <3>3. QED BY <1>2, <1>5, <3>2
  <2>3. Whole(s) /\ LeasesFit(s, h) /\ Room(s, s.reserved) /\ Ceil(s, Cardinality(Requests(s.plan)))
    <3>1. Whole(s)
      BY <1>2, <1>7, <1>8 DEF Whole
    <3>2. LeasesFit(s, h)
      BY <1>2, <1>8 DEF LeasesFit
    <3>3. Room(s, s.reserved)
      BY <1>2, <1>8 DEF Room, OfClass
    <3>4. Ceil(s, Cardinality(Requests(s.plan)))
      BY <1>2, <1>8 DEF Ceil
    <3>5. QED BY <3>1, <3>2, <3>3, <3>4
  <2>4. RequestsFit(s, q)
    <3> SUFFICES ASSUME NEW r \in Request PROVE RequestFits(s, q, r)
      BY DEF RequestsFit
    <3>1. RequestFits(root, q, r)
      BY <1>2 DEF RequestsFit
    <3>2. r.gen \in Nat /\ root.gen \in Nat
      BY <1>3 DEF Request
    <3>3. q[r] = 1 => r.gen <= s.gen /\ r.gen # s.gen
      BY <1>8, <2>1, <3>1, <3>2 DEF RequestFits
    <3>4. QED BY <1>8, <3>1, <3>3 DEF RequestFits
  <2>5. Ledger(s, h, q)
    BY <1>2, <1>8, <2>3, <2>4 DEF Ledger
  <2>6. root' = Settle(s, FALSE)
    BY <1>9, <1>11
  <2>7. Sound(root', h, q)
    BY <1>2, <1>8, <1>11, <2>1, <2>5, <2>6, SettledIdle
  <2>8. QED BY <1>6, <2>2, <2>7 DEF IInv
<1>12. QED BY <1>10, <1>11

(* A candidate the renderer rejects, or a deadline abandons, leaves nothing in flight. *)
LEMMA RejectSound ==
  ASSUME IInv, Reject
  PROVE  IInv'
<1> DEFINE s == [root EXCEPT !.status = "ready", !.cand = {}]
           h == provider.handed
           q == provider.requested
<1>1. /\ Ledger(root, h, q) /\ Whole(root) /\ Flight(root)
      /\ root.plan = {} => root.reserved = 0
      /\ provider \in [requested : [Request -> Nat], handed : SUBSET LeaseIds]
      /\ h \in SUBSET LeaseIds
  BY Unfolded
<1>2. root' = Settle(s, FALSE) /\ provider' = provider
  BY DEF Reject
<1>3. s \in RootState /\ s.status = "ready" /\ s.cand = {} /\ Relabels(root, s)
  BY <1>1 DEF Whole, RootState, Relabels
<1> HIDE DEF s
<1>4. Ledger(s, h, q)
  BY <1>1, <1>3, Relabeled
<1>5. s.active = {} => s.plan = {} /\ s.reserved = 0
  BY <1>1, <1>3 DEF Flight, Relabels
<1>6. Sound(root', h, q)
  BY <1>1, <1>2, <1>3, <1>4, <1>5, SettledIdle
<1>7. QED BY <1>1, <1>2, <1>6 DEF IInv

(* A failure closes whatever the root holds. *)
LEMMA FailSound ==
  ASSUME IInv, Fail
  PROVE  IInv'
<1> DEFINE s == [root EXCEPT !.status = "failed", !.cand = {}]
           h == provider.handed
           q == provider.requested
<1>1. /\ Ledger(root, h, q) /\ Whole(root) /\ Flight(root)
      /\ root.plan = {} => root.reserved = 0
      /\ provider \in [requested : [Request -> Nat], handed : SUBSET LeaseIds]
      /\ h \in SUBSET LeaseIds
  BY Unfolded
<1>2. root' = Settle(s, FALSE) /\ provider' = provider
  BY DEF Fail
<1>3. s \in RootState /\ s.status = "failed" /\ s.cand = {} /\ Relabels(root, s)
  BY <1>1 DEF Whole, RootState, Relabels, Closed
<1> HIDE DEF s
<1>4. Ledger(s, h, q)
  BY <1>1, <1>3, Relabeled
<1>5. s.active = {} => s.plan = {} /\ s.reserved = 0
  BY <1>1, <1>3 DEF Flight, Relabels
<1>6. Sound(root', h, q)
  BY <1>1, <1>2, <1>3, <1>4, <1>5, SettledIdle
<1>7. QED BY <1>1, <1>2, <1>6 DEF IInv

(* Disposal ends a root that was closed when it was stopped. *)
LEMMA DisposeSound ==
  ASSUME IInv, Dispose
  PROVE  IInv'
<1> DEFINE s == [root EXCEPT !.status = "disposed"]
           h == provider.handed
           q == provider.requested
<1>1. /\ Ledger(root, h, q) /\ Whole(root) /\ Flight(root)
      /\ root.plan = {} => root.reserved = 0
      /\ provider \in [requested : [Request -> Nat], handed : SUBSET LeaseIds]
      /\ h \in SUBSET LeaseIds
  BY Unfolded
<1>2. root' = Settle(s, FALSE) /\ provider' = provider /\ root.status = "stopping"
  BY DEF Dispose
<1>3. s \in RootState /\ s.status = "disposed" /\ s.cand = root.cand /\ Relabels(root, s)
  BY <1>1 DEF Whole, RootState, Relabels, Closed
<1> HIDE DEF s
<1>4. Ledger(s, h, q)
  BY <1>1, <1>3, Relabeled
<1>5. s.cand = {} /\ s.active = {} /\ s.plan = {} /\ s.reserved = 0
  BY <1>1, <1>2, <1>3 DEF Flight, Relabels
<1>6. Sound(root', h, q)
  BY <1>1, <1>2, <1>3, <1>4, <1>5, SettledIdle
<1>7. QED BY <1>1, <1>2, <1>6 DEF IInv

(* Stopping closes the root and leaves nothing in flight. *)
LEMMA StopSound ==
  ASSUME IInv, Stop
  PROVE  IInv'
<1> DEFINE s == ClosedAll(root)
           h == provider.handed
           q == provider.requested
<1>1. /\ Ledger(root, h, q) /\ h \in SUBSET LeaseIds
      /\ provider \in [requested : [Request -> Nat], handed : SUBSET LeaseIds]
  BY Unfolded
<1>2. root' = [s EXCEPT !.cand = {}, !.status = "stopping"] /\ provider' = provider
  BY DEF Stop
<1>3. /\ Ledger(s, h, q) /\ Empty(s) /\ s.active = {} /\ s.plan = {} /\ s.reserved = 0
  BY <1>1, ClosedFits
<1> HIDE DEF s
<1>4. Whole(s)
  BY <1>3 DEF Ledger
<1>5. /\ root' \in RootState /\ root'.status = "stopping" /\ root'.cand = {} /\ Relabels(s, root')
      /\ root'.comps = s.comps
  BY <1>2, <1>4 DEF Whole, RootState, Relabels
<1>6. Ledger(root', h, q)
  BY <1>3, <1>5, Relabeled
<1>7. Empty(root') /\ Live(root')
  BY <1>3, <1>5 DEF Empty, Live, Relabels
<1>8. PlanFits(root') /\ Flight(root')
  BY <1>3, <1>5, Idle DEF Relabels
<1>9. Sound(root', h, q)
  BY <1>6, <1>7, <1>8 DEF Sound
<1>10. QED BY <1>1, <1>2, <1>9 DEF IInv

(* A replacement closes the old generation and proposes a tree for the next. *)
LEMMA ReplaceSound ==
  ASSUME IInv, NEW comps \in Trees, Replace(comps)
  PROVE  IInv'
<1> DEFINE s == ClosedAll(root)
           c == [comps |-> comps, gen |-> root.gen + 1, plan |-> {}]
           h == provider.handed
           q == provider.requested
<1>1. /\ Ledger(root, h, q) /\ h \in SUBSET LeaseIds /\ Whole(root)
      /\ provider \in [requested : [Request -> Nat], handed : SUBSET LeaseIds]
  BY Unfolded
<1>2. /\ root' = [s EXCEPT !.cand = {c}, !.status = "awaiting_commit"] /\ provider' = provider
      /\ root.gen < MaxGeneration /\ root.gen \in 1 .. MaxGeneration
  BY <1>1, Fields DEF Replace
<1>3. /\ Ledger(s, h, q) /\ Empty(s) /\ s.active = {} /\ s.plan = {} /\ s.reserved = 0
      /\ s.gen = root.gen
  BY <1>1, ClosedFits
<1> HIDE DEF s
<1>4. Whole(s)
  BY <1>3 DEF Ledger
<1>5. c \in Candidate /\ c.plan = {} /\ c.gen = root.gen + 1
  BY <1>2, Bounds DEF Candidate
<1> HIDE DEF c
<1>6. /\ root' \in RootState /\ root'.status = "awaiting_commit" /\ root'.cand = {c}
      /\ Relabels(s, root')
  BY <1>2, <1>4, <1>5 DEF Whole, RootState, Relabels
<1>7. Ledger(root', h, q)
  BY <1>3, <1>6, Relabeled
<1>8. Live(root') /\ root'.status \notin Ended
  BY <1>3, <1>6 DEF Empty, Live, Relabels, Ended
<1>9. PlanFits(root')
  <2>1. root'.plan = {} /\ root'.reserved = 0
    BY <1>3, <1>6 DEF Relabels
  <2>2. {a \in root'.plan : a.kind \in {"message", "request"}} = {}
    BY <2>1
  <2>3. root'.reserved = Reservations(root'.plan)
    BY <2>1, <2>2, FS_EmptySet DEF Reservations
  <2>4. QED BY <2>1, <2>3 DEF PlanFits, Requests
<1>10. Flight(root')
  BY <1>3, <1>5, <1>6 DEF Flight, Relabels
<1>11. Sound(root', h, q)
  BY <1>7, <1>8, <1>9, <1>10 DEF Sound
<1>12. QED BY <1>1, <1>2, <1>11 DEF IInv

(* The state once a request was answered with these leases: it leaves the ledger, its time-out
   is canceled, the leases are held and its result is to be queued. *)
Answered(s, req, ids) ==
  [Completed(s, {req}) EXCEPT
     !.leases = @ \cup {[id |-> l, owner |-> req.owner, gen |-> req.gen] : l \in ids}]

(* An answer, of the provider or of the time-out: its result fits, for the request held a slot,
   and the leases it brings were counted when the request was prepared. *)
LEMMA AnsweredFits ==
  ASSUME IInv, NEW req \in root.pending, NEW ids \in SUBSET (LeaseIds \ provider.handed),
         IsFiniteSet(ids), Cardinality(ids) <= LeaseLimit,
         root' = Settle(ResultReady(Answered(root, req, ids), <<ResultItem(req, ids)>>), FALSE),
         root.status \in {"ready", "awaiting_commit"}
  PROVE  Sound(root', provider.handed \cup ids, provider.requested)
<1> DEFINE h     == provider.handed
           q     == provider.requested
           new   == {[id |-> l, owner |-> req.owner, gen |-> req.gen] : l \in ids}
           v     == Completed(root, {req})
           w     == Answered(root, req, ids)
           items == <<ResultItem(req, ids)>>
           t     == ResultReady(w, items)
<1>1. /\ Whole(root) /\ root.timers = root.pending /\ root.slots = Cardinality(root.pending)
      /\ LeasesFit(root, h) /\ RequestsFit(root, q) /\ Room(root, root.reserved)
      /\ Ceil(root, Cardinality(Requests(root.plan))) /\ Live(root) /\ PlanFits(root)
      /\ Flight(root)
      /\ root.plan = {} => root.reserved = 0
      /\ h \in SUBSET LeaseIds
  BY Unfolded
<1>2. /\ root.pending \subseteq Request /\ root.leases \subseteq Lease /\ root.plan \subseteq Action
      /\ root.reserved \in Nat /\ root.slots \in Nat /\ root.receipt \in Nat
      /\ Cardinality(root.pending) \in Nat /\ Cardinality(root.leases) \in Nat
      /\ root.releases \in [LeaseIds -> Nat]
  BY <1>1, Fields
<1>3. req \in Request /\ ids \subseteq LeaseIds /\ req.owner \in Components /\ req.gen \in 1 .. MaxGeneration
  BY <1>2 DEF Request
<1>4. /\ new \subseteq Lease /\ IsFiniteSet(new) /\ Cardinality(new) <= LeaseLimit
      /\ Cardinality(new) \in Nat
      /\ \A x \in new : x.id \in ids /\ x.owner = req.owner /\ x.gen = req.gen
      /\ \A l \in ids : \E x \in new : x.id = l
      /\ \A x, y \in new : x.id = y.id => x = y
  <2> DEFINE f == [l \in ids |-> [id |-> l, owner |-> req.owner, gen |-> req.gen]]
  <2>1. new = {f[l] : l \in ids} /\ f \in [ids -> {f[l] : l \in ids}]
    OBVIOUS
  <2>2. new \subseteq Lease
    BY <1>3 DEF Lease
  <2>3. /\ \A x \in new : x.id \in ids /\ x.owner = req.owner /\ x.gen = req.gen
        /\ \A l \in ids : \E x \in new : x.id = l
        /\ \A x, y \in new : x.id = y.id => x = y
    <3> DEFINE lease(l) == [id |-> l, owner |-> req.owner, gen |-> req.gen]
    <3>1. \A x \in new : x.id \in ids /\ x.owner = req.owner /\ x.gen = req.gen /\ x = lease(x.id)
      <4> SUFFICES ASSUME NEW x \in new
                   PROVE  x.id \in ids /\ x.owner = req.owner /\ x.gen = req.gen /\ x = lease(x.id)
        OBVIOUS
      <4>1. PICK l \in ids : x = lease(l)
        OBVIOUS
      <4>2. QED BY <4>1
    <3>2. \A l \in ids : lease(l) \in new /\ lease(l).id = l
      OBVIOUS
    <3> HIDE DEF new, lease
    <3>3. QED BY <3>1, <3>2
  <2> HIDE DEF new, f
  <2>4. IsFiniteSet({f[l] : l \in ids}) /\ Cardinality({f[l] : l \in ids}) <= Cardinality(ids)
    BY <2>1, ImageBound
  <2>5. IsFiniteSet(new) /\ Cardinality(new) <= Cardinality(ids)
    BY <2>1, <2>4
  <2>6. Cardinality(new) \in Nat /\ Cardinality(ids) \in Nat
    BY <2>5, FS_CardinalityType
  <2>7. Cardinality(new) <= LeaseLimit
    BY <2>5, <2>6, Bounds
  <2>8. QED BY <2>2, <2>3, <2>5, <2>6, <2>7
<1> HIDE DEF new
<1>5. w = [root EXCEPT !.pending = @ \ {req}, !.timers = @ \ {req}, !.leases = @ \cup new]
  <2>1. v = [root EXCEPT !.pending = @ \ {req}, !.timers = @ \ {req}] /\ v.leases = root.leases
    BY <1>1 DEF Completed, Whole, RootState
  <2>2. w = [v EXCEPT !.leases = @ \cup new]
    BY DEF Answered, new
  <2> HIDE DEF v, w
  <2>3. QED BY <2>1, <2>2
<1> HIDE DEF w
<1>6. /\ w.pending = root.pending \ {req} /\ w.timers = root.timers \ {req}
      /\ w.leases = root.leases \cup new
      /\ w.status = root.status /\ w.comps = root.comps /\ w.gen = root.gen /\ w.cand = root.cand
      /\ w.plan = root.plan /\ w.queue = root.queue /\ w.active = root.active
      /\ w.reserved = root.reserved /\ w.slots = root.slots /\ w.receipt = root.receipt
      /\ w.watermark = root.watermark /\ w.called = root.called /\ w.releases = root.releases
  BY <1>1, <1>5 DEF Whole, RootState
<1>7. /\ IsFiniteSet(w.pending) /\ Cardinality(w.pending) = Cardinality(root.pending) - 1
      /\ Cardinality(w.pending) \in Nat
  <2>1. IsFiniteSet(root.pending)
    BY <1>1 DEF Whole
  <2>2. /\ IsFiniteSet(root.pending \ {req})
        /\ Cardinality(root.pending \ {req}) = Cardinality(root.pending) - 1
    BY <2>1, FS_RemoveElement
  <2>3. QED BY <1>6, <2>2, FS_CardinalityType
<1>8. /\ IsFiniteSet(w.leases) /\ Cardinality(w.leases) \in Nat
      /\ Cardinality(w.leases) <= Cardinality(root.leases) + Cardinality(new)
  BY <1>1, <1>4, <1>6, UnionBound DEF Whole
<1>9. Whole(w)
  <2>1. root \in RootState
    BY <1>1 DEF Whole
  <2>2. w \in RootState
    BY <1>4, <1>5, <2>1 DEF RootState
  <2>3. QED BY <1>1, <1>6, <1>7, <1>8, <2>2 DEF Whole
<1>10. LeasesFit(w, h \cup ids)
  <2>1. \A x, y \in w.leases : x.id = y.id => x = y
    BY <1>1, <1>4, <1>6 DEF LeasesFit
  <2>2. \A x \in w.leases : x.id \in h \cup ids
    BY <1>1, <1>4, <1>6 DEF LeasesFit
  <2>3. ASSUME NEW l \in LeaseIds
        PROVE  w.releases[l] = IF l \in h \cup ids /\ (\A x \in w.leases : x.id # l) THEN 1 ELSE 0
    <3>1. root.releases[l] = IF l \in h /\ (\A x \in root.leases : x.id # l) THEN 1 ELSE 0
      BY <1>1 DEF LeasesFit
    <3>2. CASE l \in ids
      <4>1. l \notin h /\ \E x \in w.leases : x.id = l
        BY <1>4, <1>6, <3>2
      <4>2. QED BY <1>6, <3>1, <4>1
    <3>3. CASE l \notin ids
      <4>1. (\A x \in w.leases : x.id # l) <=> (\A x \in root.leases : x.id # l)
        BY <1>4, <1>6, <3>3
      <4>2. QED BY <1>6, <3>1, <3>3, <4>1
    <3>4. QED BY <3>2, <3>3
  <2>4. QED BY <2>1, <2>2, <2>3 DEF LeasesFit
<1>11. RequestsFit(w, q)
  <2> SUFFICES ASSUME NEW r \in Request PROVE RequestFits(w, q, r)
    BY DEF RequestsFit
  <2>1. RequestFits(root, q, r)
    BY <1>1 DEF RequestsFit
  <2>2. QED BY <1>6, <2>1 DEF RequestFits
<1>12. Answerable(w, q, {req})
  <2>1. RequestFits(root, q, req)
    BY <1>1, <1>3 DEF RequestsFit
  <2>2. q[req] = 1 /\ root.called[req] = 0
    BY <2>1 DEF RequestFits
  <2>3. QED BY <1>6, <2>2 DEF Answerable
<1>13. Room(w, root.reserved)
  BY <1>1, <1>6 DEF Room, OfClass
<1>14. Ceil(w, Cardinality(Requests(w.plan)))
  <2> DEFINE k == Cardinality(Requests(root.plan))
             p == Cardinality(w.pending)
  <2>1. k \in Nat
    BY <1>1, <1>2, RequestsBound DEF Whole
  <2>2. /\ Cardinality(root.pending) + k <= MaxPending
        /\ Cardinality(root.leases) + LeaseLimit * (Cardinality(root.pending) + k) <= MaxLeases
    BY <1>1 DEF Ceil
  <2>3. Cardinality(root.pending) = p + 1 /\ p \in Nat
    BY <1>2, <1>7
  <2> HIDE DEF k, p
  <2>4. LeaseLimit * ((p + k) + 1) = LeaseLimit * (p + k) + LeaseLimit /\ LeaseLimit * (p + k) \in Nat
    BY <2>1, <2>3, Products
  <2>5. Cardinality(root.pending) + k = (p + k) + 1
    BY <2>1, <2>3
  <2>6. /\ p + k <= MaxPending
        /\ Cardinality(root.leases) + (LeaseLimit * (p + k) + LeaseLimit) <= MaxLeases
    BY <2>1, <2>2, <2>3, <2>4, <2>5, Bounds
  <2>7. Cardinality(w.leases) + LeaseLimit * (p + k) <= MaxLeases
    BY <1>2, <1>4, <1>8, <2>4, <2>6, Bounds
  <2>8. QED BY <1>6, <2>6, <2>7 DEF Ceil, k, p
<1>15. Results(items, 1, {req})
  BY <1>3, ResultsMade
<1>16. 1 + Cardinality(w.pending) + w.reserved <= root.reserved + w.slots
  BY <1>1, <1>2, <1>6, <1>7
<1>17. w.timers = w.pending
  BY <1>1, <1>6
<1> HIDE DEF items, t
<1>18. /\ Ledger(t, h \cup ids, q) /\ Kept(w, t)
       /\ \A i \in t.queue \ w.queue :
            \E r \in {req} : i.source = r.owner /\ i.target = r.owner /\ i.gen = r.gen
  <2>1. 1 \in Nat /\ root.reserved \in Nat
    BY <1>2
  <2>2. QED BY <1>9, <1>10, <1>11, <1>12, <1>13, <1>14, <1>15, <1>16, <1>17, <2>1, ResultsQueued
          DEF t
<1>19. OwnerLive(req, root.comps, root.gen)
  BY <1>1 DEF Live
<1>20. Live(t)
  <2>1. t.gen = root.gen /\ t.comps = root.comps /\ t.leases = root.leases \cup new
          /\ t.pending \subseteq root.pending /\ w.queue = root.queue
    BY <1>6, <1>18 DEF Kept
  <2>2. \A i \in t.queue : ValidDispatch(i, t.gen, t.comps)
    <3> SUFFICES ASSUME NEW i \in t.queue PROVE ValidDispatch(i, t.gen, t.comps)
      OBVIOUS
    <3>1. CASE i \in root.queue
      BY <1>1, <2>1, <3>1 DEF Live
    <3>2. CASE i \notin root.queue
      <4>1. i.source = req.owner /\ i.target = req.owner /\ i.gen = req.gen
        BY <1>18, <2>1, <3>2
      <4>2. QED BY <1>19, <2>1, <4>1 DEF ValidDispatch, OwnerLive
    <3>3. QED BY <3>1, <3>2
  <2>3. \A x \in new : OwnerLive(x, t.comps, t.gen)
    BY <1>4, <1>19, <2>1 DEF OwnerLive
  <2>4. \A x \in t.leases \cup t.pending : OwnerLive(x, t.comps, t.gen)
    BY <1>1, <2>1, <2>3 DEF Live
  <2>5. QED BY <2>2, <2>4 DEF Live
<1>21. PlanFits(t) /\ Flight(t)
  <2>1. /\ t.status = root.status /\ t.cand = root.cand /\ t.active = root.active
        /\ t.plan = root.plan /\ t.reserved = root.reserved /\ t.gen = root.gen
        /\ t.watermark = root.watermark /\ root.leases \subseteq t.leases
    BY <1>6, <1>18 DEF Kept
  <2>2. QED BY <1>1, <2>1, StaysInFlight
<1>22. h \cup ids \in SUBSET LeaseIds /\ root' = Settle(t, FALSE) /\ t.status = root.status
         /\ t.cand = root.cand /\ t.active = root.active /\ t.plan = root.plan
         /\ t.reserved = root.reserved
  <2>1. root' = Settle(t, FALSE)
    BY DEF t, w, items
  <2>2. QED BY <1>1, <1>3, <1>6, <1>18, <2>1 DEF Kept
<1>23. CASE root.status = "awaiting_commit"
  <2>1. Sound(root', h \cup ids, q)
    BY <1>18, <1>20, <1>21, <1>22, <1>23, SettledInFlight
  <2>2. QED BY <2>1
<1>24. CASE root.status = "ready"
  <2>1. t.cand = {} /\ t.active = {} /\ t.plan = {} /\ t.reserved = 0
    BY <1>1, <1>22, <1>24 DEF Flight
  <2>2. Sound(root', h \cup ids, q)
    BY <1>18, <1>22, <1>24, <2>1, SettledIdle
  <2>3. QED BY <2>2
<1>25. QED BY <1>23, <1>24

(* A terminal result of the provider. *)
LEMMA ResultSound ==
  ASSUME IInv, NEW req \in root.pending, NEW ids \in SUBSET (LeaseIds \ provider.handed),
         Result(req, ids)
  PROVE  IInv'
<1>1. /\ root.status \in {"ready", "awaiting_commit"} /\ IsFiniteSet(ids)
      /\ Cardinality(ids) <= LeaseLimit
      /\ root' = Settle(ResultReady(Answered(root, req, ids), <<ResultItem(req, ids)>>), FALSE)
      /\ provider' = [provider EXCEPT !.handed = @ \cup ids]
  BY DEF Result, Open, Answered
<1>2. Sound(root', provider.handed \cup ids, provider.requested)
  BY <1>1, AnsweredFits
<1>3. provider \in [requested : [Request -> Nat], handed : SUBSET LeaseIds]
  BY Unfolded
<1>4. /\ provider'.handed = provider.handed \cup ids /\ provider'.requested = provider.requested
      /\ provider' \in [requested : [Request -> Nat], handed : SUBSET LeaseIds]
  BY <1>1, <1>3
<1>5. QED BY <1>2, <1>4 DEF IInv

(* The time-out of a request: an answer that brings no lease. *)
LEMMA RequestTimeoutSound ==
  ASSUME IInv, NEW req \in root.timers, RequestTimeout(req)
  PROVE  IInv'
<1>1. /\ root.timers = root.pending /\ Whole(root)
      /\ root.status \in Ended => Empty(root)
      /\ provider \in [requested : [Request -> Nat], handed : SUBSET LeaseIds]
  BY Unfolded
<1>2. req \in root.pending
  BY <1>1
<1>3. root.status \in {"ready", "awaiting_commit"}
  <2>1. root.status \notin Ended
    BY <1>1, <1>2 DEF Empty
  <2>2. QED BY <1>1, <2>1, Fields DEF Ended
<1>4. Answered(root, req, {}) = Completed(root, {req})
  <2>1. Completed(root, {req}) \in RootState
    BY <1>1 DEF Completed, Whole, RootState
  <2>2. {[id |-> l, owner |-> req.owner, gen |-> req.gen] : l \in {}} = {}
    OBVIOUS
  <2> DEFINE v == Completed(root, {req})
  <2> HIDE DEF v
  <2>3. Answered(root, req, {}) = [v EXCEPT !.leases = @ \cup {}]
    BY <2>2 DEF Answered, v
  <2>4. v \in RootState
    BY <2>1 DEF v
  <2>5. [v EXCEPT !.leases = @ \cup {}] = v
    BY <2>4 DEF RootState
  <2>6. QED BY <2>3, <2>5 DEF v
<1>5. /\ root' = Settle(ResultReady(Answered(root, req, {}), <<ResultItem(req, {})>>), FALSE)
      /\ provider' = provider
  BY <1>4 DEF RequestTimeout
<1>6. IsFiniteSet({}) /\ Cardinality({}) <= LeaseLimit /\ {} \in SUBSET (LeaseIds \ provider.handed)
  BY FS_EmptySet, Bounds
<1>7. Sound(root', provider.handed \cup {}, provider.requested)
  BY <1>2, <1>3, <1>5, <1>6, AnsweredFits
<1>8. provider.handed \cup {} = provider.handed
  OBVIOUS
<1>9. QED BY <1>1, <1>5, <1>7, <1>8 DEF IInv


-----------------------------------------------------------------------------
(* A batch the evaluator may propose is a finite set of actions. *)
LEMMA PlansAreFinite ==
  ASSUME root \in RootState, NEW comps \in Trees, NEW plan \in Plans(comps)
  PROVE  plan \subseteq Action /\ IsFiniteSet(plan)
<1>1. /\ comps \subseteq Components /\ root.gen \in 1 .. MaxGeneration
      /\ root.pending \subseteq Request /\ KnownLeases \subseteq Lease
  BY ActionAssumption DEF RootState, KnownLeases
<1>2. Proposals(comps) \subseteq Action
  <2> SUFFICES ASSUME NEW a \in Proposals(comps) PROVE a \in Action
    OBVIOUS
  <2>1. CASE \E c \in comps, i \in Ids, n \in 1 .. MaxSequence, b \in BOOLEAN :
               a = [kind |-> "request", req |-> [owner |-> c, id |-> i, gen |-> root.gen, seq |-> n],
                    accepted |-> b]
    <3>1. PICK c \in comps, i \in Ids, n \in 1 .. MaxSequence, b \in BOOLEAN :
            a = [kind |-> "request", req |-> [owner |-> c, id |-> i, gen |-> root.gen, seq |-> n],
                 accepted |-> b]
      BY <2>1
    <3>2. [owner |-> c, id |-> i, gen |-> root.gen, seq |-> n] \in Request
      BY <1>1 DEF Request
    <3>3. QED BY <3>1, <3>2 DEF Action
  <2>2. CASE \E r \in root.pending : a = [kind |-> "cancel", req |-> r]
    BY <1>1, <2>2 DEF Action
  <2>3. CASE \E l \in KnownLeases, c \in comps : a = [kind |-> "transfer", lease |-> l, to |-> c]
    BY <1>1, <2>3 DEF Action
  <2>4. CASE \E l \in KnownLeases : a = [kind |-> "release", lease |-> l]
    BY <1>1, <2>4 DEF Action
  <2>5. CASE \E c \in comps : a = [kind |-> "message", to |-> c]
    BY <1>1, <2>5 DEF Action
  <2>6. QED BY <2>1, <2>2, <2>3, <2>4, <2>5 DEF Proposals
<1>3. CASE plan = {}
  BY <1>3, FS_EmptySet
<1>4. CASE \E a, b \in Proposals(comps) : plan = {a, b}
  <2>1. PICK a, b \in Proposals(comps) : plan = {a, b}
    BY <1>4
  <2>2. IsFiniteSet({a} \cup {b})
    BY FS_Singleton, FS_Union
  <2>3. plan = {a} \cup {b}
    BY <2>1
  <2>4. QED BY <1>2, <2>1, <2>2, <2>3
<1>5. QED BY <1>3, <1>4 DEF Plans

(* A root starts with an empty ledger. *)
LEMMA InitSound ==
  ASSUME Init
  PROVE  IInv
<1>1. PICK comps \in Trees :
        root = [status |-> "ready", comps |-> comps, gen |-> 1, cand |-> {}, plan |-> {},
                queue |-> {}, active |-> {}, reserved |-> 0, slots |-> 0, receipt |-> 0,
                pending |-> {}, timers |-> {}, leases |-> {},
                watermark |-> [c \in Components |-> 0],
                called |-> [r \in Request |-> 0], releases |-> [l \in LeaseIds |-> 0],
                refused |-> {}]
  BY DEF Init
<1>2. provider = [requested |-> [r \in Request |-> 0], handed |-> {}]
  BY DEF Init
<1>3. /\ root.status = "ready" /\ root.comps = comps /\ root.gen = 1 /\ root.cand = {}
      /\ root.plan = {} /\ root.queue = {} /\ root.active = {} /\ root.reserved = 0
      /\ root.slots = 0 /\ root.receipt = 0 /\ root.pending = {} /\ root.timers = {}
      /\ root.leases = {}
      /\ root.called = [r \in Request |-> 0] /\ root.releases = [l \in LeaseIds |-> 0]
  BY <1>1
<1>4. /\ provider.requested = [r \in Request |-> 0] /\ provider.handed = {}
      /\ provider \in [requested : [Request -> Nat], handed : SUBSET LeaseIds]
  BY <1>2
<1>5. comps \subseteq Components /\ 1 \in 1 .. MaxGeneration
  BY ActionAssumption
<1>6. IsFiniteSet({}) /\ Cardinality({}) = 0
  BY FS_EmptySet
<1>7. root \in RootState
  <2>1. /\ [c \in Components |-> 0] \in [Components -> 0 .. MaxSequence]
        /\ [r \in Request |-> 0] \in [Request -> Nat]
        /\ [l \in LeaseIds |-> 0] \in [LeaseIds -> Nat]
        /\ 0 \in 0 .. MaxReceipt
    BY Bounds
  <2>2. QED BY <1>1, <1>5, <2>1 DEF RootState
<1>8. Whole(root)
  BY <1>3, <1>6, <1>7 DEF Whole
<1>9. LeasesFit(root, provider.handed)
  BY <1>3, <1>4 DEF LeasesFit
<1>10. RequestsFit(root, provider.requested)
  BY <1>3, <1>4 DEF RequestsFit, RequestFits
<1>11. Room(root, root.reserved)
  <2>1. OfClass(root, "event") = {} /\ OfClass(root, "message") = {}
    BY <1>3 DEF OfClass
  <2>2. QED BY <1>3, <1>6, <2>1, Bounds DEF Room
<1>12. Ceil(root, Cardinality(Requests(root.plan)))
  <2>1. Requests(root.plan) = {}
    BY <1>3 DEF Requests
  <2>2. LeaseLimit * (0 + 0) = 0
    BY Bounds
  <2>3. /\ Cardinality(root.pending) = 0 /\ Cardinality(root.leases) = 0
        /\ Cardinality(Requests(root.plan)) = 0
    BY <1>3, <1>6, <2>1
  <2>4. Ceil(root, 0)
    BY <2>2, <2>3, Bounds DEF Ceil
  <2>5. QED BY <2>3, <2>4
<1>13. Ledger(root, provider.handed, provider.requested)
  BY <1>3, <1>6, <1>8, <1>9, <1>10, <1>11, <1>12 DEF Ledger
<1>14. Live(root) /\ root.status \notin Ended
  BY <1>3 DEF Live, Ended
<1>15. PlanFits(root) /\ Flight(root)
  BY <1>3, Idle
<1>16. QED BY <1>4, <1>13, <1>14, <1>15 DEF IInv, Sound

(* Every step of the coordinator keeps the invariant. *)
LEMMA NextSound ==
  ASSUME IInv, [Next]_vars
  PROVE  IInv'
<1>1. CASE UNCHANGED vars
  BY <1>1 DEF IInv, vars
<1>2. ASSUME NEW c \in Components, Enqueue(c) PROVE IInv'
  BY <1>2, EnqueueSound
<1>3. CASE DrainRefused
  BY <1>3, DrainRefusedSound
<1>4. CASE DrainRejected
  BY <1>4, DrainRejectedSound
<1>5. ASSUME NEW comps \in Trees, NEW plan \in Plans(comps),
             DrainPrepared([comps |-> comps, gen |-> root.gen, plan |-> plan])
      PROVE  IInv'
  <2> DEFINE cand == [comps |-> comps, gen |-> root.gen, plan |-> plan]
  <2>1. root \in RootState
    BY Unfolded
  <2>2. plan \subseteq Action /\ IsFiniteSet(plan) /\ root.gen \in 1 .. MaxGeneration
    BY <2>1, PlansAreFinite DEF RootState
  <2>3. cand \in Candidate /\ IsFiniteSet(cand.plan) /\ cand.gen = root.gen
    BY <2>2 DEF Candidate
  <2>4. DrainPrepared(cand)
    BY <1>5
  <2> HIDE DEF cand
  <2>5. QED BY <2>3, <2>4, DrainPreparedSound
<1>6. CASE Commit
  BY <1>6, CommitSound
<1>7. CASE Reject
  BY <1>7, RejectSound
<1>8. ASSUME NEW req \in root.pending, NEW ids \in SUBSET (LeaseIds \ provider.handed),
             Result(req, ids)
      PROVE  IInv'
  BY <1>8, ResultSound
<1>9. ASSUME NEW req \in root.timers, RequestTimeout(req) PROVE IInv'
  BY <1>9, RequestTimeoutSound
<1>10. ASSUME NEW comps \in Trees, Replace(comps) PROVE IInv'
  BY <1>10, ReplaceSound
<1>11. CASE Stop
  BY <1>11, StopSound
<1>12. CASE Dispose
  BY <1>12, DisposeSound
<1>13. CASE Fail
  BY <1>13, FailSound
<1>14. QED BY <1>1, <1>2, <1>3, <1>4, <1>5, <1>6, <1>7, <1>8, <1>9, <1>10, <1>11, <1>12, <1>13
         DEF Next

(* The ledger, the schedule and the plan in flight agree after every handler (action_ledger.ex,
   action_runtime.ex in root_process.ex). *)
THEOREM LedgerInOrder == Spec => []IInv
<1>1. Init => IInv
  BY InitSound
<1>2. IInv /\ [Next]_vars => IInv'
  BY NextSound
<1>3. QED BY <1>1, <1>2, PTL DEF Spec

(* No result or message that was reserved is ever without room, so no match of the coordinator
   fails, and the schedule holds one slot for each pending request: reserve_results and
   admit_result of root_schedule.ex. *)
THEOREM ResultsAlwaysFit == Spec => []SlotsFit
<1>1. IInv => SlotsFit
  BY Unfolded DEF SlotsFit, ResultsFit, SlotPerRequest
<1>2. QED BY <1>1, LedgerInOrder, PTL

(* A request is made once, has at most one result and none while it is pending, and has its
   time-out armed exactly while it is pending: start, complete and expire of
   action_runtime.ex. *)
THEOREM RequestsEnd == Spec => []RequestsEndOnce
<1>1. ASSUME IInv PROVE OneResult
  <2>1. /\ RequestsFit(root, provider.requested) /\ root \in RootState
        /\ provider.requested \in [Request -> Nat]
    BY <1>1, Unfolded
  <2> SUFFICES ASSUME NEW r \in Request
               PROVE  /\ provider.requested[r] <= 1
                      /\ root.called[r] <= 1
                      /\ r \in root.pending => provider.requested[r] = 1 /\ root.called[r] = 0
    BY DEF OneResult
  <2>2. RequestFits(root, provider.requested, r)
    BY <2>1 DEF RequestsFit
  <2>3. root.called[r] \in Nat
    BY <2>1 DEF RootState
  <2>4. QED BY <2>2, <2>3 DEF RequestFits
<1>2. IInv => RequestsEndOnce
  BY <1>1, Unfolded DEF RequestsEndOnce, RequestsAreTimed
<1>3. QED BY <1>2, LedgerInOrder, PTL

(* The ledger is well formed and within its ceilings, whatever the pending requests still bring:
   the limits of action_ledger.ex. *)
THEOREM CeilingsAreKept == Spec => []CeilingsHold
<1>1. ASSUME IInv PROVE CeilingsHold
  <2> DEFINE p == Cardinality(root.pending)
             k == Cardinality(Requests(root.plan))
  <2>1. /\ Whole(root) /\ root \in RootState /\ Ceil(root, k)
        /\ provider \in [requested : [Request -> Nat], handed : SUBSET LeaseIds]
    BY <1>1, Unfolded
  <2>2. p \in Nat /\ k \in Nat /\ Cardinality(root.leases) \in Nat
    BY <2>1, Fields, RequestsBound, FS_CardinalityType DEF Whole
  <2>3. p + k <= MaxPending /\ Cardinality(root.leases) + LeaseLimit * (p + k) <= MaxLeases
    BY <2>1 DEF Ceil
  <2> HIDE DEF p, k
  <2>4. p + k \in Nat /\ p <= p + k
    BY <2>2
  <2>5. /\ LeaseLimit * p \in Nat /\ LeaseLimit * (p + k) \in Nat
        /\ LeaseLimit * p <= LeaseLimit * (p + k)
    BY <2>2, <2>4, Products
  <2>6. p <= MaxPending /\ Cardinality(root.leases) + LeaseLimit * p <= MaxLeases
    BY <2>2, <2>3, <2>4, <2>5, Bounds
  <2>7. QED BY <2>1, <2>6 DEF CeilingsHold, TypeOK, WithinCeilings, p
<1>2. QED BY <1>1, LedgerInOrder, PTL

(* A lease handed over is held once or was given back once, and between two handlers requests
   and leases belong to components of the accepted tree: prune, transfer, release and close of
   action_ledger.ex. *)
THEOREM LeasesAreKept == Spec => []LeasesAreOwned
<1>1. ASSUME IInv PROVE LeasesAccounted
  <2>1. LeasesFit(root, provider.handed) /\ root \in RootState
    BY <1>1, Unfolded
  <2> SUFFICES ASSUME NEW l \in LeaseIds
               PROVE  root.releases[l] + Cardinality({x \in root.leases : x.id = l})
                        = IF l \in provider.handed THEN 1 ELSE 0
    BY DEF LeasesAccounted
  <2>2. root.releases[l] = IF l \in provider.handed /\ (\A x \in root.leases : x.id # l) THEN 1 ELSE 0
    BY <2>1 DEF LeasesFit
  <2>3. CASE \A x \in root.leases : x.id # l
    <3>1. {x \in root.leases : x.id = l} = {}
      BY <2>3
    <3>2. Cardinality({x \in root.leases : x.id = l}) = 0
      BY <3>1, FS_EmptySet
    <3>3. QED BY <2>2, <2>3, <3>2
  <2>4. CASE ~ \A x \in root.leases : x.id # l
    <3>1. PICK x \in root.leases : x.id = l
      BY <2>4
    <3>2. {y \in root.leases : y.id = l} = {x} /\ l \in provider.handed
      BY <2>1, <3>1 DEF LeasesFit
    <3>3. Cardinality({y \in root.leases : y.id = l}) = 1
      BY <3>2, FS_Singleton
    <3>4. QED BY <2>2, <2>4, <3>2, <3>3
  <2>5. QED BY <2>3, <2>4
<1>2. ASSUME IInv PROVE OwnersAreLive
  BY <1>2, Unfolded DEF OwnersAreLive, Live, Empty, Ended
<1>3. IInv => LeasesAreOwned
  BY <1>1, <1>2 DEF LeasesAreOwned
<1>4. QED BY <1>3, LedgerInOrder, PTL

=============================================================================
