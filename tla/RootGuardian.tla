---------------------------- MODULE RootGuardian ----------------------------
(***************************************************************************)
(* The guardian of one root (root_guardian.ex) and the coordinator it is   *)
(* linked to, seen through what the coordinator tells the two others: the  *)
(* checkpoints it sends to the guardian and the notifications it gives to  *)
(* the host port (outcome/4, notify/2, checkpoint/1 of root_process.ex).   *)
(*                                                                         *)
(* A handler of the coordinator decides at once and then performs its      *)
(* `script', one emission per step, so that a crash can fall between any   *)
(* two of them.  The guardian works through its mailbox, forwards one call *)
(* at a time and blocks until the coordinator answers or is gone.  After a *)
(* crash it drains the checkpoints it was sent, cancels the work they      *)
(* list, and kills what is left of the coordinator.  RootProcess models    *)
(* which handler runs when; here any legal one may.                        *)
(***************************************************************************)
EXTENDS Naturals, FiniteSets, Sequences

CONSTANTS
  MaxReceipt,   (* the largest safe integer a receipt may reach                   *)
  Crashes,      (* BOOLEAN: the coordinator may be killed between two steps      *)
  Timeouts      (* BOOLEAN: a forwarded call may exceed its 60 seconds           *)

ASSUME GuardianAssumption ==
  /\ MaxReceipt \in Nat
  /\ {Crashes, Timeouts} \subseteq BOOLEAN

VARIABLES
  worker,       (* the coordinator                                               *)
  guardian,     (* the guardian                                                  *)
  box,          (* messages of the coordinator in the guardian's mailbox         *)
  host          (* what the host was told, and the receipts callers were given   *)

vars == <<worker, guardian, box, host>>

Receipts == 1 .. MaxReceipt

Statuses == {"none", "starting", "running", "stopping", "disposed", "failed"}

Final == {"disposed", "failed"}

(* What a handler emits.  "work", "done" and "snapshot" go to the guardian, "outcome" and
   "event" to the host; "end" is the return of the handler: its reply, or the exit. *)
Emission == [kind   : {"work", "done", "snapshot", "outcome", "event", "end", "exit"},
             live   : SUBSET Receipts,
             receipt : 0 .. MaxReceipt,
             status : Statuses]

Worker == [alive : BOOLEAN, status : Statuses, live : SUBSET Receipts,
           receipt : 0 .. MaxReceipt, script : Seq(Emission),
           call : {"none", "sent", "taken"}, reply : SUBSET Emission, torn : BOOLEAN]

Guardian == [status : Statuses, error : {"none", "reported", "crashed"},
             work : SUBSET Receipts, known : BOOLEAN,
             phase : {"idle", "waiting", "crashing", "killing", "gone"}, todo : SUBSET Receipts,
             late : BOOLEAN]

Host == [outcomes : [Receipts -> Nat], told : SUBSET (Statuses \cup {"crashed"}),
         given : SUBSET Receipts]

Say(kind, status) == [kind |-> kind, live |-> {}, receipt |-> 0, status |-> status]

SayWork(live) == [Say("work", "none") EXCEPT !.live = live]

SayReceipt(kind, r) == [Say(kind, "none") EXCEPT !.receipt = r]

-----------------------------------------------------------------------------
(* Scripts of the coordinator. *)

(* notify/2: checkpoint, then the snapshot, then the host. *)
Notify(status, live) == <<SayWork(live), Say("snapshot", status), Say("event", status)>>

(* outcome/4: the guardian forgets the receipt before the host is told of it. *)
Report(r) == <<SayReceipt("done", r), SayReceipt("outcome", r)>>

(* Mutant: the host is told of an outcome before the guardian. *)
MutantReportAll(live) ==
  LET nth(k) == CHOOSE r \in live : Cardinality({q \in live : q < r}) = k
  IN  [n \in 1 .. 2 * Cardinality(live) |->
         SayReceipt(IF n % 2 = 1 THEN "outcome" ELSE "done", nth((n - 1) \div 2))]

(* The outcomes of several receipts; their order matters to nobody and is theirs here. *)
ReportAll(live) ==
  LET nth(k) == CHOOSE r \in live : Cardinality({q \in live : q < r}) = k
  IN  [n \in 1 .. 2 * Cardinality(live) |->
         SayReceipt(IF n % 2 = 1 THEN "done" ELSE "outcome", nth((n - 1) \div 2))]

(* The end of handle_call and info_result: a checkpoint, then the reply or the exit. *)
Finally(status, receipt, live) ==
  <<SayWork(live), [Say("end", status) EXCEPT !.receipt = receipt]>>

(* The coordinator starts a handler: its decision now, its emissions one by one.  A call is
   taken when the guardian waits for it; the other messages come whenever they like. *)
Handles(calling, status, live, receipt, script) ==
  /\ worker.alive /\ worker.script = <<>>
  /\ calling => worker.call = "sent"
  /\ worker' = [worker EXCEPT !.status = status, !.live = live, !.receipt = receipt,
                              !.script = script, !.call = IF calling THEN "taken" ELSE @]
  /\ UNCHANGED <<guardian, box, host>>

Boot ==
  /\ worker.status = "none"
  /\ \E status \in {"running", "failed"} :
       Handles(FALSE, status, {}, 0,
               Notify("starting", {}) \o Notify(status, {}) \o Finally(status, 0, {}))

(* An external envelope is admitted; it may supersede the last queued one. *)
Admit ==
  /\ worker.status = "running" /\ worker.receipt < MaxReceipt
  /\ \E superseded \in {{}} \cup {{r} : r \in worker.live} :
       LET new  == worker.receipt + 1
           live == (worker.live \ superseded) \cup {new}
       IN  Handles(TRUE, "running", live, new,
             ReportAll(superseded) \o Notify("running", live) \o Finally("running", new, live))

(* An admitted timer cancellation is carried out at once and never queued.  The ticks and
   starts it owns are canceled first.  If one was the active tick, its candidate may have to be
   abandoned, which rejects it or, when the renderer does not take it back, fails the root. *)
CancelTimer ==
  /\ worker.status = "running" /\ worker.receipt < MaxReceipt
  /\ \E owned \in SUBSET worker.live :
       LET new  == worker.receipt + 1
           left == worker.live \ owned
       IN  \/ \E abandoned \in BOOLEAN :
                /\ abandoned => owned # {}
                /\ Handles(TRUE, "running", left, new,
                     ReportAll(owned) \o (IF abandoned THEN Notify("running", left) ELSE <<>>)
                       \o Report(new) \o Notify("running", left) \o Finally("running", new, left))
           \/ /\ owned # {}
              /\ Handles(TRUE, "failed", {}, new,
                   ReportAll(owned) \o Notify("failed", left) \o Report(new)
                     \o Notify("failed", left) \o ReportAll(left) \o Finally("failed", new, {}))

(* A tick, an action's result or a scope change is queued without a notification.  The caller
   of a scope change is given its receipt. *)
Internal(calling) ==
  /\ worker.status = "running" /\ worker.receipt < MaxReceipt
  /\ LET new  == worker.receipt + 1
         live == worker.live \cup {new}
     IN  \E given \in {0, new} :
           /\ given # 0 => calling
           /\ Handles(calling, "running", live, new, Finally("running", given, live))

(* A candidate is committed or rejected, or the active work is refused at dispatch: the active
   receipt, if there is one, is terminal.  A commit may queue a follow-up of the active work,
   and drops the work whose target it removed.  (A handler that only announces is left out: it
   sends what was sent before, as often as it likes.) *)
Resolve(calling) ==
  /\ worker.status = "running"
  /\ \E active \in {{}} \cup {{r} : r \in worker.live}, announced \in BOOLEAN, follow \in {0, 1} :
     \E dropped \in SUBSET (worker.live \ active) :
       /\ worker.receipt + follow <= MaxReceipt
       /\ active \cup dropped # {}
       /\ ~announced => dropped = {}
       /\ follow = 1 => active # {}
       /\ LET last == worker.receipt + follow
              live == (worker.live \ (active \cup dropped)) \cup (IF follow = 1 THEN {last} ELSE {})
          IN  Handles(calling, "running", live, last,
                      (IF announced THEN Notify("running", worker.live) ELSE <<>>)
                        \o ReportAll(active) \o ReportAll(dropped) \o Finally("running", 0, live))

(* The root fails in a handler: an uncertain rollback, or a cleanup that failed.  The
   failure is announced first, and settle closes the schedule. *)
Fail(calling) ==
  /\ worker.status \in {"running", "stopping"}
  /\ Handles(calling, "failed", {}, worker.receipt,
             Notify("failed", worker.live) \o ReportAll(worker.live) \o Finally("failed", 0, {}))

(* Stop and runtime loss close the schedule first. *)
Close(status) ==
  /\ worker.status = "running" \/ (worker.status = "stopping" /\ status = "failed")
  /\ Handles(TRUE, status, {}, worker.receipt,
             ReportAll(worker.live) \o Notify(status, {}) \o Finally(status, 0, {}))

(* The renderer acknowledged the disposal. *)
Dispose ==
  /\ worker.status = "stopping"
  /\ Handles(TRUE, "disposed", {}, worker.receipt,
             Notify("disposed", {}) \o Finally("disposed", 0, {}))

(* A call that changes nothing: a snapshot, or a refusal. *)
Refuse ==
  /\ worker.status \notin Final \cup {"none"}
  /\ Handles(TRUE, worker.status, worker.live, worker.receipt,
             Finally(worker.status, 0, worker.live))

-----------------------------------------------------------------------------
(* One emission. *)

(* The end of the process.  It is torn when it cuts a handler that still had outcomes to
   report. *)
Exited ==
  [worker EXCEPT !.alive = FALSE, !.script = <<>>,
                 !.torn = @ \/ \E k \in DOMAIN worker.script : worker.script[k].kind = "outcome"]

Emit ==
  /\ worker.alive /\ worker.script # <<>>
  /\ LET e    == Head(worker.script)
         rest == [worker EXCEPT !.script = Tail(@)]
     IN  \/ /\ e.kind \in {"work", "done", "snapshot"}
            /\ worker' = rest
            /\ box' = Append(box, e)
            /\ UNCHANGED <<guardian, host>>
         \/ /\ e.kind = "outcome"
            /\ worker' = rest
            /\ host' = [host EXCEPT !.outcomes[e.receipt] = @ + 1]
            /\ UNCHANGED <<guardian, box>>
         \/ /\ e.kind = "event"
            /\ worker' = rest
            /\ host' = [host EXCEPT !.told = @ \cup {e.status}]
            /\ UNCHANGED <<guardian, box>>
         \/ /\ e.kind = "end"
            /\ worker' = [IF e.status \in Final THEN Exited ELSE rest EXCEPT
                            !.reply = IF worker.call = "taken" THEN {[e EXCEPT !.live = {}]} ELSE @,
                            !.call  = IF worker.call = "taken" THEN "none" ELSE @]
            /\ box' = IF e.status \in Final THEN Append(box, Say("exit", "none")) ELSE box
            /\ UNCHANGED <<guardian, host>>

(* The coordinator is killed. *)
Crash ==
  /\ Crashes /\ worker.alive
  /\ worker' = Exited
  /\ box' = Append(box, Say("exit", "none"))
  /\ UNCHANGED <<guardian, host>>

-----------------------------------------------------------------------------
(* The guardian. *)

(* terminal?/1 *)
IsTerminal(g) == g.status \in Final

(* drain_checkpoints/1: the state after every checkpoint in the mailbox, in order. *)
Drained(g) ==
  LET works == {k \in DOMAIN box : box[k].kind = "work"}
      snaps == {k \in DOMAIN box : box[k].kind = "snapshot"}
      last(S) == CHOOSE k \in S : \A j \in S : j <= k
      from  == IF works = {} THEN 0 ELSE last(works)
      work  == IF works = {} THEN g.work ELSE box[from].live
      done  == {box[k].receipt : k \in {j \in DOMAIN box : j > from /\ box[j].kind = "done"}}
  IN  [g EXCEPT !.work   = work \ done,
                !.status = IF snaps = {} THEN @ ELSE box[last(snaps)].status,
                !.error  = IF snaps = {} THEN @
                           ELSE IF box[last(snaps)].status = "failed" THEN "reported" ELSE "none"]

(* What it leaves: the exit, which comes at most once. *)
Undrained ==
  IF \E k \in DOMAIN box : box[k].kind = "exit" THEN <<Say("exit", "none")>> ELSE <<>>

(* crashed/1, up to the first notification. *)
Crashed(g) ==
  LET drained == Drained(g)
  IN  [drained EXCEPT !.status = "failed", !.error = "crashed",
                      !.phase = "crashing", !.todo = drained.work]

(* A call for this root.  A terminal root answers it itself. *)
Call ==
  /\ guardian.phase = "idle" /\ ~IsTerminal(guardian)
  /\ guardian' = [guardian EXCEPT !.phase = "waiting"]
  /\ worker' = [worker EXCEPT !.call = "sent", !.reply = {}]
  /\ UNCHANGED <<box, host>>

(* The reply: the checkpoints first, then the snapshot the reply carries. *)
TakeReply ==
  /\ guardian.phase = "waiting"
  /\ \E reply \in worker.reply :
       /\ guardian' = [Drained(guardian) EXCEPT
                         !.status = reply.status,
                         !.error  = IF reply.status = "failed" THEN "reported" ELSE "none",
                         !.phase  = "idle"]
       /\ host' = [host EXCEPT !.given = @ \cup ({reply.receipt} \ {0})]
  /\ worker' = [worker EXCEPT !.reply = {}]
  /\ box' = Undrained

(* The call fails: the root has crashed. *)
CallFails ==
  /\ guardian.phase = "waiting" /\ worker.reply = {}
  /\ guardian' = [Crashed(guardian) EXCEPT !.late = worker.alive]
  /\ box' = Undrained
  /\ UNCHANGED <<worker, host>>

(* The coordinator does not answer within 60 seconds: it is late. *)
CallTimesOut == Timeouts /\ worker.alive /\ CallFails

(* Mutant: the call notices only the end of a coordinator that had not started. *)
MutantCallExits == ~worker.alive /\ worker.status = "none" /\ CallFails

(* The coordinator is gone: GenServer.call monitors it. *)
CallExits == ~worker.alive /\ CallFails

(* Mutant: the exit of a terminal root's coordinator is taken for a crash. *)
MutantExitSeen(g) == IF g.known THEN Crashed(g) ELSE g

(* handle_info of the exit signal. *)
ExitSeen(g) ==
  CASE ~g.known -> g
    [] g.known /\ IsTerminal(g) -> [g EXCEPT !.known = FALSE]
    [] OTHER -> Crashed(g)

(* handle_info of one checkpoint: nothing once the coordinator is forgotten, and no
   snapshot after a terminal one. *)
Checkpoint(g, m) ==
  CASE ~g.known -> g
    [] g.known /\ m.kind = "work" -> [g EXCEPT !.work = m.live]
    [] g.known /\ m.kind = "done" -> [g EXCEPT !.work = @ \ {m.receipt}]
    [] g.known /\ m.kind = "snapshot" /\ ~IsTerminal(g) ->
         [g EXCEPT !.status = m.status,
                   !.error  = IF m.status = "failed" THEN "reported" ELSE "none"]
    [] OTHER -> g

HandleInfo ==
  /\ guardian.phase = "idle" /\ box # <<>>
  /\ IF Head(box).kind = "exit"
     THEN /\ guardian' = ExitSeen(guardian)
          /\ box' = IF guardian'.phase = "crashing" THEN Undrained ELSE Tail(box)
     ELSE /\ guardian' = Checkpoint(guardian, Head(box))
          /\ box' = Tail(box)
  /\ UNCHANGED <<worker, host>>

(* The rest of crashed/1: one canceled outcome per item of work, the crash itself, and only then the kill. *)
CancelOne ==
  /\ guardian.phase = "crashing" /\ guardian.todo # {}
  /\ LET r == CHOOSE r \in guardian.todo : \A q \in guardian.todo : r <= q
     IN  /\ guardian' = [guardian EXCEPT !.todo = @ \ {r}]
         /\ host' = [host EXCEPT !.outcomes[r] = @ + 1]
  /\ UNCHANGED <<worker, box>>

TellCrash ==
  /\ guardian.phase = "crashing" /\ guardian.todo = {}
  /\ guardian' = [guardian EXCEPT !.phase = "killing"]
  /\ host' = [host EXCEPT !.told = @ \cup {"crashed"}]
  /\ UNCHANGED <<worker, box>>

Kill ==
  /\ guardian.phase = "killing"
  /\ guardian' = [guardian EXCEPT !.phase = "idle", !.known = FALSE, !.work = {}]
  /\ worker' = [Exited EXCEPT !.reply = {}]
  /\ UNCHANGED <<box, host>>

(* terminate/2: the supervisor removes the guardian, and the coordinator goes with it. *)
Terminate ==
  /\ guardian.phase = "idle"
  /\ guardian' = [guardian EXCEPT !.phase = "gone"]
  /\ worker' = Exited
  /\ box' = <<>>
  /\ UNCHANGED host

-----------------------------------------------------------------------------
Init ==
  /\ worker = [alive |-> TRUE, status |-> "none", live |-> {}, receipt |-> 0,
               script |-> <<>>, call |-> "none", reply |-> {}, torn |-> FALSE]
  /\ guardian = [status |-> "none", error |-> "none", work |-> {}, known |-> TRUE,
                 phase |-> "idle", todo |-> {}, late |-> FALSE]
  /\ box = <<>>
  /\ host = [outcomes |-> [r \in Receipts |-> 0], told |-> {}, given |-> {}]

Coordinator ==
  \/ Boot
  \/ Admit
  \/ CancelTimer
  \/ \E calling \in BOOLEAN : Internal(calling) \/ Resolve(calling) \/ Fail(calling)
  \/ \E status \in {"stopping", "failed"} : Close(status)
  \/ Dispose
  \/ Refuse

Next ==
  \/ Coordinator \/ Emit \/ Crash
  \/ Call \/ TakeReply \/ CallTimesOut \/ CallExits \/ HandleInfo
  \/ CancelOne \/ TellCrash \/ Kill \/ Terminate

Spec == Init /\ [][Next]_vars

(* Fairness: the coordinator takes the call that waits for it and finishes its handlers, the
   guardian works through its mailbox.  Nobody has to call, and no call has to time out. *)
FairSpec ==
  /\ Spec
  /\ WF_vars(Boot)
  /\ WF_vars(Refuse \/ Admit \/ CancelTimer \/ Dispose \/ Internal(TRUE) \/ Resolve(TRUE) \/ Fail(TRUE))
  /\ WF_vars(Emit)
  /\ WF_vars(TakeReply)
  /\ WF_vars(CallExits)
  /\ WF_vars(HandleInfo)
  /\ WF_vars(CancelOne \/ TellCrash \/ Kill)

-----------------------------------------------------------------------------
(* Properties. *)

(* The types of the processes, the mailbox and the host's record; no receipt
   beyond the last safe integer is in flight. *)
TypeOK ==
  /\ worker \in Worker
  /\ guardian \in Guardian
  /\ box \in Seq(Emission)
  /\ host \in Host

(* The host never hears two terminal outcomes of one receipt, although the coordinator
   reports its own and the guardian reports what a crash left over.  (A coordinator that was
   late is alive until the guardian kills it, after its report: both may report then.) *)
AtMostOneOutcome == ~guardian.late => \A r \in Receipts : host.outcomes[r] <= 1

(* Nothing left to do after the end of the coordinator. *)
Settled == ~worker.alive /\ guardian.phase = "idle" /\ IsTerminal(guardian)

(* A receipt a caller was given is accounted for once the root has ended, unless the end
   fell in the middle of reporting outcomes. *)
GivenIsAccounted ==
  Settled /\ ~worker.torn => \A r \in host.given : host.outcomes[r] >= 1

(* Between them the guardian and its coordinator answer for each receipt, and once: the
   checkpoints that a crash leaves are drained before it is reported (crashed/1). *)
OutcomesAccounted == TypeOK /\ AtMostOneOutcome /\ GivenIsAccounted

(* The terminal record a root ends with is the one it keeps: neither late checkpoints, nor
   the exit signal, nor a late call change it. *)
TerminalIsKept ==
  [][IsTerminal(guardian) => /\ guardian'.status = guardian.status
                             /\ guardian'.error = guardian.error]_vars

(* A root whose coordinator is gone does not stay open, unless it was removed altogether. *)
LossIsSeen == ~worker.alive ~> IsTerminal(guardian) \/ guardian.phase = "gone"

(* Every call comes back. *)
CallsReturn == guardian.phase = "waiting" ~> guardian.phase # "waiting"

(* The guardian gets through every end of its coordinator and through every call to it. *)
NothingHangs == LossIsSeen /\ CallsReturn

(* A failure the host was told of is not reported again as a crash when nothing crashed. *)
FailureIsNotACrash == ~({"failed", "crashed"} \subseteq host.told)

=============================================================================
