----------------------------- MODULE ActionRoot -----------------------------
(***************************************************************************)
(* Effect requests, their results and the leases they bring, in one        *)
(* action-enabled root: the ledger (action_ledger.ex) and the action       *)
(* runtime (action_runtime.ex) inside the coordinator (root_process.ex).   *)
(*                                                                         *)
(* A candidate's actions are validated and reserved before it is sent to   *)
(* the renderer and carried out when it commits.  A pending request holds  *)
(* a result slot of the schedule (RootSchedule) and has an armed time-out; *)
(* its terminal result becomes queued work of its owner.  A lease belongs  *)
(* to a component of the accepted tree until it is released.  Admission,   *)
(* timers and acknowledgements in their generality are RootProcess's.      *)
(***************************************************************************)
EXTENDS RootSchedule, SequencesExt

CONSTANTS
  Components,   (* component identities; each keeps its schema digest             *)
  Trees,        (* the trees of components the evaluator may propose               *)
  Ids,          (* action ids a component uses                                    *)
  LeaseIds,     (* opaque ids the provider hands out, each at most once           *)
  MaxSequence,  (* bound: the action sequences a component uses                   *)
  MaxPending,   (* pending requests of a root (128)                               *)
  MaxLeases,    (* leases of a root, possible ones included (512)                 *)
  LeaseLimit,   (* leases a request's declaration allows (at most 16)             *)
  BatchLimit,   (* actions of one candidate (16)                                  *)
  MaxGeneration (* bound: no replacement of the last generation                   *)

VARIABLES
  root,         (* the coordinator with its schedule and its action runtime       *)
  provider      (* what was asked and given                                        *)

vars == <<root, provider>>

Request == [owner : Components, id : Ids, gen : 1 .. MaxGeneration, seq : 1 .. MaxSequence]

Lease == [id : LeaseIds, owner : Components, gen : 1 .. MaxGeneration]

NoRequest == [owner |-> "none", id |-> "none", gen |-> 0, seq |-> 0]

Item == [receipt : Nat, class : {"event", "message"}, kind : {"event", "message", "result"},
         source : Components, target : Components, gen : 1 .. MaxGeneration,
         req : Request \cup {NoRequest}, leases : SUBSET LeaseIds]

(* An action of a candidate: a request (and whether the provider will accept it), the
   cancellation of one, the transfer or the release of a lease, or a message. *)
Action ==
  [kind : {"request"}, req : Request, accepted : BOOLEAN]
    \cup [kind : {"cancel"}, req : Request]
    \cup [kind : {"transfer"}, lease : Lease, to : Components]
    \cup [kind : {"release"}, lease : Lease]
    \cup [kind : {"message"}, to : Components]

Candidate == [comps : Trees, gen : 1 .. MaxGeneration, plan : SUBSET Action]

Closed == {"disposed", "failed", "broken"}

(* The coordinator's state: its schedule, its candidate, its ledger, and what became of each
   request and lease. *)
RootState == [status : {"ready", "awaiting_commit", "stopping"} \cup Closed,
              comps : SUBSET Components, gen : 1 .. MaxGeneration,
              cand : SUBSET Candidate, plan : SUBSET Action,
              queue : SUBSET Item, active : SUBSET Item, reserved : Nat, slots : Nat,
              receipt : 0 .. MaxReceipt, pending : SUBSET Request, timers : SUBSET Request,
              leases : SUBSET Lease, watermark : [Components -> 0 .. MaxSequence],
              called : [Request -> Nat], releases : [LeaseIds -> Nat],
              refused : SUBSET LeaseIds]

ASSUME ActionAssumption ==
  /\ Trees \subseteq SUBSET Components
  /\ {MaxSequence, MaxPending, MaxLeases, LeaseLimit, BatchLimit} \subseteq Nat
  /\ MaxGeneration \in Nat \ {0}

-----------------------------------------------------------------------------
(* The ledger. *)

Work(kind, owner, gen) ==
  [receipt |-> 0, class |-> IF kind = "event" THEN "event" ELSE "message", kind |-> kind,
   source |-> owner, target |-> owner, gen |-> gen, req |-> NoRequest, leases |-> {}]

(* result_work/4 *)
ResultItem(req, leases) == [Work("result", req.owner, req.gen) EXCEPT !.req = req, !.leases = leases]

Requests(plan) == {a.req : a \in {b \in plan : b.kind = "request"}}

(* Mutant: the leases that are already held are not counted. *)
MutantLeaseDepth(s) == LeaseLimit * Cardinality(s.pending)

LeaseDepth(s) == Cardinality(s.leases) + LeaseLimit * Cardinality(s.pending)

(* An owner is live: in the tree, with the digest and the generation it had. *)
OwnerLive(x, comps, gen) == x.owner \in comps /\ x.gen = gen

(* prepare/6: the batch is valid against the candidate's tree and the ledger as it is.  Every
   owner must be in the candidate, of its generation.  An identity here includes the digest,
   which the code compares for requests and leases and not for cancellations. *)
ValidBatch(s, cand) ==
  LET requests == Requests(cand.plan) IN
  /\ Cardinality(cand.plan) <= BatchLimit
  /\ \A r \in requests :
       /\ OwnerLive(r, cand.comps, cand.gen)
       /\ r.seq > s.watermark[r.owner]
       /\ \A p \in s.pending \cup (requests \ {r}) : <<p.owner, p.id>> # <<r.owner, r.id>>
       /\ \A p \in requests \ {r} : <<p.owner, p.seq>> # <<r.owner, r.seq>>
  /\ \A a \in cand.plan :
       /\ a.kind = "cancel" => a.req \in s.pending /\ OwnerLive(a.req, cand.comps, cand.gen)
       /\ a.kind \in {"transfer", "release"} =>
            /\ a.lease \in s.leases /\ OwnerLive(a.lease, cand.comps, cand.gen)
            /\ \A b \in cand.plan \ {a} : b.kind \in {"transfer", "release"} => b.lease # a.lease
       /\ a.kind \in {"transfer", "message"} => a.to \in cand.comps
  /\ Cardinality(s.pending) + Cardinality(requests) <= MaxPending
  /\ LeaseDepth(s) + LeaseLimit * Cardinality(requests) <= MaxLeases

(* Mutant: a request reserves no room for its result. *)
MutantReservations(plan) == Cardinality({a \in plan : a.kind = "message"})

(* Messages and the results of the requests are reserved together. *)
Reservations(plan) == Cardinality({a \in plan : a.kind \in {"message", "request"}})

(* release/2 of the leases with these ids, those the ledger holds: one call of the provider
   each, and released or lost, the ledger forgets them. *)
Released(s, ids) ==
  LET held == {l \in s.leases : l.id \in ids}
  IN  [s EXCEPT !.leases   = @ \ held,
                !.releases = [id \in LeaseIds |-> IF id \in {l.id : l \in held} THEN @[id] + 1 ELSE @[id]]]

Carried(items) == UNION {i.leases : i \in items}

(* Mutant: the time-out of a completed request stays armed. *)
MutantCompleted(s, reqs) == [s EXCEPT !.pending = @ \ reqs]

(* complete/3: the requests leave the ledger and their time-outs are canceled. *)
Completed(s, reqs) == [s EXCEPT !.pending = @ \ reqs, !.timers = @ \ reqs]

(* action_result_ready/3: the slots follow the ledger, and the results are queued. *)
ResultReady(s, items) ==
  LET freed == [s EXCEPT !.slots = Cardinality(s.pending)]
  IN  IF AppendFits(freed, items)
      THEN [Appended(freed, items) EXCEPT
              !.called = [r \in Request |-> @[r] + Cardinality({k \in DOMAIN items : items[k].req = r})]]
      ELSE [s EXCEPT !.status = "broken"]

(* commit/4: install and submit the requests, cancel, transfer and release.  The results of
   refused and canceled requests are queued in some order: the source takes the batch's. *)
Performed(s, plan) ==
  LET requests  == Requests(plan)
      refused   == Requests({a \in plan : a.kind = "request" /\ ~a.accepted})
      canceled  == {a.req : a \in {b \in plan : b.kind = "cancel"}} \cap s.pending
      moved     == {a \in plan : a.kind = "transfer"}
      freed     == {a.lease.id : a \in {b \in plan : b.kind = "release"}}
      installed == [s EXCEPT
        !.pending   = @ \cup requests,
        !.timers    = @ \cup (requests \ refused),
        !.watermark = [c \in Components |->
                         Max({@[c]} \cup {r.seq : r \in {q \in requests : q.owner = c}})],
        !.leases    = {l \in @ : \A a \in moved : a.lease # l}
                        \cup {[a.lease EXCEPT !.owner = a.to] : a \in moved}]
      ended     == Released(Completed(installed, refused \cup canceled), freed)
  IN  ResultReady(ended, [k \in 1 .. Cardinality(refused \cup canceled) |->
                            ResultItem(SetToSeq(refused \cup canceled)[k], {})])

(* Mutants: closing forgets the watermarks; closing forgets the leases. *)
MutantClosedActions(s) ==
  [Released(s, {l.id : l \in s.leases}) EXCEPT !.pending = {}, !.timers = {},
                                               !.watermark = [c \in Components |-> 0]]

MutantForgetfulClose(s) == [s EXCEPT !.pending = {}, !.timers = {}, !.leases = {}]

(* close/2: cancel every request, release every lease; the watermarks stay. *)
ClosedActions(s) == [Released(s, {l.id : l \in s.leases}) EXCEPT !.pending = {}, !.timers = {}]

(* close_schedule/2 *)
ClosedAll(s) ==
  [ClosedActions(s) EXCEPT !.queue = {}, !.active = {}, !.reserved = 0, !.slots = 0, !.plan = {}]

-----------------------------------------------------------------------------
(* settle/1. *)

(* The transition in flight is terminal: a rejected result gives its leases back, a
   committed candidate's messages are queued and its actions carried out. *)
SettleActive(s, committed) ==
  LET ended    == [Finish(s) EXCEPT !.plan = {}]
      owed     == IF committed THEN ended
                  ELSE [Released(ended, Carried(s.active)) EXCEPT !.refused = @ \cup Carried(s.active)]
      messages == SetToSeq({a \in s.plan : a.kind = "message"})
      local    == [k \in DOMAIN messages |-> Work("message", messages[k].to, s.gen)]
  IN  CASE s.cand # {} \/ s.active = {} -> s
        [] s.cand = {} /\ s.active # {} /\ ~(committed /\ s.status = "ready") -> owed
        [] OTHER -> IF AppendFits(owed, local)
                    THEN Performed(Appended(owed, local), s.plan)
                    ELSE [owed EXCEPT !.status = "broken"]

PruneQueue(s) ==
  LET removed == {i \in s.queue : ~ValidDispatch(i, s.gen, s.comps)}
  IN  Released([s EXCEPT !.queue = @ \ removed], Carried(removed))

(* Mutants: the slots are left as they were; the requests of a removed owner go, its leases
   stay. *)
MutantPrunedSlots(s) ==
  LET gone == {r \in s.pending : ~OwnerLive(r, s.comps, s.gen)}
      lost == {l.id : l \in {x \in s.leases : ~OwnerLive(x, s.comps, s.gen)}}
  IN  Released(Completed(s, gone), lost)

MutantPruneLedger(s) ==
  LET gone == {r \in s.pending : ~OwnerLive(r, s.comps, s.gen)}
      next == Completed(s, gone)
  IN  [next EXCEPT !.slots = Cardinality(next.pending)]

(* prune/2: requests and leases of removed owners and of earlier generations. *)
PruneLedger(s) ==
  LET gone == {r \in s.pending : ~OwnerLive(r, s.comps, s.gen)}
      lost == {l.id : l \in {x \in s.leases : ~OwnerLive(x, s.comps, s.gen)}}
      next == Released(Completed(s, gone), lost)
  IN  [next EXCEPT !.slots = Cardinality(next.pending)]

Settle(s, committed) ==
  LET next == PruneLedger(PruneQueue(SettleActive(s, committed)))
  IN  CASE next.status = "broken" -> next
        [] next.status \in {"failed", "disposed"} -> ClosedAll(next)
        [] OTHER -> next

-----------------------------------------------------------------------------
(* Handlers. *)

Open == root.status \in {"ready", "awaiting_commit"}

(* External work; RootProcess models its admission. *)
Enqueue(owner) ==
  /\ Open
  /\ owner \in root.comps
  /\ InternalFits(root, Work("event", owner, root.gen))
  /\ root' = Settle(Internal(root, Work("event", owner, root.gen)), FALSE)
  /\ UNCHANGED provider

CanDrain == root.status = "ready" /\ root.cand = {} /\ root.queue # {}

(* The evaluator refuses the oldest item at dispatch. *)
DrainRefused ==
  /\ CanDrain
  /\ root' = [Finish(Select(root)) EXCEPT !.refused = @ \cup Carried({Oldest(root.queue)})]
  /\ UNCHANGED provider

(* The evaluator prepares a candidate that is valid and fits: it is requested. *)
DrainPrepared(cand) ==
  /\ CanDrain
  /\ ValidBatch(root, cand)
  /\ ReserveFits(Select(root), Reservations(cand.plan))
  /\ root' = [Select(root) EXCEPT !.reserved = Reservations(cand.plan), !.plan = cand.plan,
                                  !.cand = {cand}, !.status = "awaiting_commit"]
  /\ UNCHANGED provider

(* The callback fails, or its candidate is invalid or does not fit. *)
DrainRejected ==
  /\ CanDrain
  /\ root' = Settle(Select(root), FALSE)
  /\ UNCHANGED provider

(* The renderer commits the candidate. *)
Commit ==
  /\ root.status = "awaiting_commit"
  /\ \E cand \in root.cand :
       /\ root' = Settle([root EXCEPT
                    !.status = "ready", !.cand = {}, !.comps = cand.comps, !.gen = cand.gen,
                    !.watermark = IF cand.gen = root.gen THEN @ ELSE [c \in Components |-> 0]],
                    root.active # {})
       /\ provider' = [provider EXCEPT !.requested =
                         [r \in Request |-> @[r] + IF \E a \in cand.plan : a.kind = "request" /\ a.req = r
                                                   THEN 1 ELSE 0]]

(* The renderer rejects it, or a deadline abandons it. *)
Reject ==
  /\ root.status = "awaiting_commit"
  /\ root' = Settle([root EXCEPT !.status = "ready", !.cand = {}], FALSE)
  /\ UNCHANGED provider

(* A terminal result of the provider: of a pending request, with fresh leases.  A late or a
   repeated one changes nothing: its request is not pending. *)
Result(req, ids) ==
  /\ Open
  /\ req \in root.pending /\ OwnerLive(req, root.comps, root.gen)
  /\ IsFiniteSet(ids) /\ Cardinality(ids) <= LeaseLimit
  /\ root' = Settle(ResultReady(
                 [Completed(root, {req}) EXCEPT
                    !.leases = @ \cup {[id |-> l, owner |-> req.owner, gen |-> req.gen] : l \in ids}],
                 <<ResultItem(req, ids)>>), FALSE)
  /\ provider' = [provider EXCEPT !.handed = @ \cup ids]

(* The private time-out of a request. *)
RequestTimeout(req) ==
  /\ root.status \notin Closed
  /\ req \in root.timers
  /\ root' = Settle(ResultReady(Completed(root, {req}), <<ResultItem(req, {})>>), FALSE)
  /\ UNCHANGED provider

(* A replacement: everything of the old generation is closed, then a new tree is proposed. *)
Replace(comps) ==
  /\ root.status \notin Closed
  /\ root.gen < MaxGeneration
  /\ root' = [ClosedAll(root) EXCEPT
                !.cand = {[comps |-> comps, gen |-> root.gen + 1, plan |-> {}]},
                !.status = "awaiting_commit"]
  /\ UNCHANGED provider

Stop ==
  /\ Open
  /\ root' = [ClosedAll(root) EXCEPT !.cand = {}, !.status = "stopping"]
  /\ UNCHANGED provider

Dispose ==
  /\ root.status = "stopping"
  /\ root' = Settle([root EXCEPT !.status = "disposed"], FALSE)
  /\ UNCHANGED provider

(* Runtime loss, an uncertain rollback or a failed cleanup. *)
Fail ==
  /\ root.status \notin Closed
  /\ root' = Settle([root EXCEPT !.status = "failed", !.cand = {}], FALSE)
  /\ UNCHANGED provider

-----------------------------------------------------------------------------
Init ==
  /\ \E comps \in Trees :
     root = [status |-> "ready", comps |-> comps, gen |-> 1, cand |-> {}, plan |-> {},
             queue |-> {}, active |-> {}, reserved |-> 0, slots |-> 0, receipt |-> 0,
             pending |-> {}, timers |-> {}, leases |-> {},
             watermark |-> [c \in Components |-> 0],
             called |-> [r \in Request |-> 0], releases |-> [l \in LeaseIds |-> 0],
             refused |-> {}]
  /\ provider = [requested |-> [r \in Request |-> 0], handed |-> {}]

KnownLeases == {l \in root.leases : l.id \notin Carried(root.queue \ {Oldest(root.queue)})}

(* What the evaluator may propose for the tree comps: requests with any sequence, and
   controls of what the ledger holds; a component knows a lease once its result was
   delivered. *)
Proposals(comps) ==
  {[kind |-> "request", req |-> [owner |-> c, id |-> i, gen |-> root.gen, seq |-> n], accepted |-> b] :
      c \in comps, i \in Ids, n \in 1 .. MaxSequence, b \in BOOLEAN}
    \cup {[kind |-> "cancel", req |-> r] : r \in root.pending}
    \cup {[kind |-> "transfer", lease |-> l, to |-> c] : l \in KnownLeases, c \in comps}
    \cup {[kind |-> "release", lease |-> l] : l \in KnownLeases}
    \cup {[kind |-> "message", to |-> c] : c \in comps}

(* Bound: batches of at most two actions. *)
Plans(comps) == {{}} \cup {{a, b} : a, b \in Proposals(comps)}

Next ==
  \/ \E c \in Components : Enqueue(c)
  \/ DrainRefused
  \/ DrainRejected
  \/ CanDrain /\ \E comps \in Trees : \E plan \in Plans(comps) :
       DrainPrepared([comps |-> comps, gen |-> root.gen, plan |-> plan])
  \/ Commit
  \/ Reject
  \/ \E req \in root.pending, ids \in SUBSET (LeaseIds \ provider.handed) : Result(req, ids)
  \/ \E req \in root.timers : RequestTimeout(req)
  \/ \E comps \in Trees : Replace(comps)
  \/ Stop
  \/ Dispose
  \/ Fail

Spec == Init /\ [][Next]_vars

-----------------------------------------------------------------------------
(* Properties. *)

(* The types of the coordinator's state and of the provider's record; no receipt beyond the
   last safe integer is handed out, also to results. *)
TypeOK ==
  /\ root \in RootState
  /\ provider \in [requested : [Request -> Nat], handed : SUBSET LeaseIds]

(* The results and messages that were reserved, and the result of every request that is
   pending, always find room in the queue: no match of the coordinator fails, however full
   the queue is and whatever was admitted while the candidate waited. *)
ResultsFit == root.status # "broken"

(* The schedule holds exactly one result slot for every pending request of the ledger. *)
SlotPerRequest == root.slots = Cardinality(root.pending)

(* There is room for each result that is still to come (reserve_results, admit_result). *)
SlotsFit == ResultsFit /\ SlotPerRequest

(* A request is made once and has at most one terminal result, and none while it is
   pending: rejected replacements, late results and time-outs replay nothing. *)
OneResult ==
  \A r \in Request :
    /\ provider.requested[r] <= 1
    /\ root.called[r] <= 1
    /\ r \in root.pending => provider.requested[r] = 1 /\ root.called[r] = 0

(* Every pending request has its time-out armed, and no other request has. *)
RequestsAreTimed == root.timers = root.pending

(* A request ends once, and one that has not ended will (start, complete, expire). *)
RequestsEndOnce == OneResult /\ RequestsAreTimed

(* The ceilings of pending requests and leases hold, counting the leases that the pending
   requests may still bring. *)
WithinCeilings ==
  /\ Cardinality(root.pending) <= MaxPending
  /\ Cardinality(root.leases) + LeaseLimit * Cardinality(root.pending) <= MaxLeases

(* The ledger of a root is well formed and within its ceilings, whatever the pending requests
   bring (limits of the action ledger). *)
CeilingsHold == TypeOK /\ WithinCeilings

(* A lease the provider handed over is held by the ledger once, or was given back once. *)
LeasesAccounted ==
  \A l \in LeaseIds :
    root.releases[l] + Cardinality({x \in root.leases : x.id = l})
      = IF l \in provider.handed THEN 1 ELSE 0

(* Between two handlers the requests and the leases belong to components of the accepted
   tree, and a root that ended has none. *)
OwnersAreLive ==
  /\ \A x \in root.leases \cup root.pending : OwnerLive(x, root.comps, root.gen)
  /\ root.status \in {"stopping", "disposed", "failed"} => root.leases \cup root.pending = {}

(* A resource is never lost and never given back twice: it is with a component of the accepted
   tree, or was released (prune, transfer, release, close). *)
LeasesAreOwned == LeasesAccounted /\ OwnersAreLive

(* The leases of a result whose callback did not commit are given back. *)
RejectedResultsRelease == \A l \in root.leases : l.id \notin root.refused

=============================================================================
