----------------------------- MODULE CommandPlane -----------------------------
(* The command plane of the Phoenix adapter: the registry of sessions, the        *)
(* admission of commands, the execution of the one closed command and the pushes  *)
(* of its updates.  Each is a server of its own; a request is a caller that calls *)
(* them one after the other, so other requests come in between: a log-out, the    *)
(* same command sent twice, a reset.  A caller may also be a channel process that *)
(* subscribes, receives updates and dies.                                         *)
EXTENDS Naturals, Sequences, FiniteSets, SequencesExt

CONSTANTS
  Clients,            (* processes that carry requests *)
  Channels,           (* those of them that subscribe to the updates *)
  Sessions,           (* session identifiers the registry draws, each once *)
  Granted, Denied,    (* subjects with and without a grant for the command *)
  Envelopes,          (* commands: [key, revision] *)
  MaxSessions, MaxAdmissions, MaxExecutions, MaxPerSession, MaxEvents, MaxSubscribers,
  Ttl,                (* life of a session *)
  MaxTime, MaxCursor, MaxRequests (* bounds: the clock, cursors asked for, requests made *)

ASSUME CommandAssumption ==
  /\ Channels \subseteq Clients
  /\ \A e \in Envelopes : e.revision \in Nat
  /\ {MaxSessions, MaxAdmissions, MaxExecutions, MaxPerSession, MaxEvents, MaxSubscribers,
      Ttl, MaxTime, MaxCursor, MaxRequests} \subseteq Nat \ {0}

VARIABLES
  registry,    (* live sessions, and the identifiers drawn so far *)
  admission,   (* receipts by session and key, and how many each session holds *)
  execution,   (* the counter, the retained results, the events and the subscribers *)
  request,     (* what each client asks, and the call it is about to make *)
  clock,
  started,     (* how many requests have begun, at most MaxRequests *)
  stream,      (* history: what each subscriber was sent since it subscribed *)
  applied,     (* history: the commands that changed the counter since it was last zero *)
  answers,     (* history: the retained results that were answered *)
  revoked      (* history: sessions whose log-out has returned *)

servers == <<registry, admission, execution>>
history == <<stream, applied, answers, revoked>>
vars == <<servers, request, clock, started, history>>

-----------------------------------------------------------------------------
(* Requests.  A client makes one call after the other; each is served in one step, the first
   one included, so that a request in progress is one that waits for its next call. *)

Idle == [at |-> "idle"]

(* A request captures the time once, when it begins, and may be late with its calls: they carry
   any time up to the present (here each its own, which is more than the code allows). *)
Times == 0 .. clock

(* The request of c ends, whatever it was answered. *)
Done(c) == request' = [request EXCEPT ![c] = Idle]

(* The first call of a request, of which there are at most MaxRequests. *)
Begins(c, r) ==
  /\ request[c].at = "idle" /\ started < MaxRequests
  /\ started' = started + 1
  /\ request' = [request EXCEPT ![c] = r]

(* c goes on to its next call. *)
Proceeds(c, r) == request' = [request EXCEPT ![c] = r]

-----------------------------------------------------------------------------
(* The registry of sessions. *)

Pruned(sessions, now) == {s \in sessions : s.expires > now}

(* A session is issued while fewer than MaxSessions live. *)
Issue(subject) == \E now \in Times :
  LET live == Pruned(registry.sessions, now)
  IN  /\ Cardinality(live) < MaxSessions
      /\ \E sid \in Sessions \ registry.drawn :
           registry' = [sessions |-> live \cup {[sid |-> sid, subject |-> subject,
                                                 expires |-> now + Ttl]},
                        drawn    |-> registry.drawn \cup {sid}]
      /\ UNCHANGED <<admission, execution, request, clock, started, history>>

(* The session moves to a new identifier and a new proof. *)
Rotate == \E now \in Times :
  LET live == Pruned(registry.sessions, now)
  IN  \E s \in live, sid \in Sessions \ registry.drawn :
        /\ registry' = [sessions |-> (live \ {s}) \cup {[s EXCEPT !.sid = sid]},
                        drawn    |-> registry.drawn \cup {sid}]
        /\ UNCHANGED <<admission, execution, request, clock, started, history>>

(* A call that names no live session, or a wrong proof of one, or finds the registry full, drops
   the expired sessions and nothing else; so do lookup, authenticate and rotate_csrf.  Which proof is the current one
   is left out: a caller is authorized with the current proof, or is refused here. *)
Refuse ==
  /\ \E now \in Times : registry' = [registry EXCEPT !.sessions = Pruned(@, now)]
  /\ UNCHANGED <<admission, execution, request, clock, started, history>>

(* authority_context, at the time the caller captured when it began: a live session lets it
   proceed, and the session's subject and end go with the request. *)
Authorized(now, s) ==
  /\ s \in Pruned(registry.sessions, now)
  /\ registry' = [registry EXCEPT !.sessions = Pruned(@, now)]
  /\ UNCHANGED <<admission, execution, clock, history>>

(* CommandExecution.execute/4 begins. *)
StartExecute(c) ==
  \E now \in Times, s \in registry.sessions, env \in Envelopes :
    /\ Authorized(now, s)
    /\ Begins(c, [at |-> "admit", sid |-> s.sid, subject |-> s.subject, env |-> env])

(* CommandExecution.subscribe/5 begins. *)
StartSubscribe(c) ==
  /\ c \in Channels
  /\ \E now \in Times, s \in registry.sessions, after \in 0 .. MaxCursor :
       /\ Authorized(now, s)
       /\ Begins(c, [at |-> "subscribe", sid |-> s.sid, expires |-> s.expires, after |-> after])

-----------------------------------------------------------------------------
(* Admission. *)

Same(entries, sid, env) == {e \in entries : e.sid = sid /\ e.env.key = env.key}

(* Mutant: the limit is taken for the last index. *)
MutantHasRoom(server, sid, max) ==
  Cardinality(server.entries) <= max /\ server.counts[sid] < MaxPerSession

HasRoom(server, sid, max) == Cardinality(server.entries) < max /\ server.counts[sid] < MaxPerSession

(* Replay, conflict, then grant and capacity. *)
Admit(c) ==
  LET r     == request[c]
      known == Same(admission.entries, r.sid, r.env)
      goes  == Proceeds(c, [at |-> "execute", sid |-> r.sid, env |-> r.env])
  IN  /\ r.at = "admit"
      /\ \/ /\ \E e \in known : e.env = r.env
            /\ goes /\ UNCHANGED admission
         \/ /\ \E e \in known : e.env # r.env
            /\ Done(c) /\ UNCHANGED admission
         \/ /\ known = {}
            /\ r.subject \in Granted /\ HasRoom(admission, r.sid, MaxAdmissions)
            /\ admission' = [admission EXCEPT !.entries = @ \cup {[sid |-> r.sid, env |-> r.env]},
                                              !.counts[r.sid] = @ + 1]
            /\ goes
         \/ /\ known = {}
            /\ r.subject \notin Granted \/ ~HasRoom(admission, r.sid, MaxAdmissions)
            /\ Done(c) /\ UNCHANGED admission
      /\ UNCHANGED <<registry, execution, clock, started, history>>

-----------------------------------------------------------------------------
(* Execution and its events. *)

(* Mutant: a stale result is answered and not kept. *)
MutantRetain(x, r, result) ==
  IF result = "stale" THEN x
  ELSE [x EXCEPT !.entries = @ \cup {[sid |-> r.sid, env |-> r.env, result |-> result]},
                 !.counts[r.sid] = @ + 1]

Retain(x, r, result) ==
  [x EXCEPT !.entries = @ \cup {[sid |-> r.sid, env |-> r.env, result |-> result]},
            !.counts[r.sid] = @ + 1]

(* publish/3: the event is kept, the expired subscribers are not. *)
Publish(x, now) ==
  LET events == Append(x.events, x.sequence + 1)
  IN  [x EXCEPT !.sequence = @ + 1,
                !.events = SubSeq(events, 1 + IF Len(events) > MaxEvents THEN Len(events) - MaxEvents ELSE 0,
                                  Len(events)),
                !.subscribers = {s \in @ : s.expires > now}]

(* Mutant: the revision the command expects is not compared. *)
MutantFresh(x, env) == env.revision <= x.revision

Fresh(x, env) == env.revision = x.revision

(* The streams of those who are still subscribed. *)
Streams(x) == [c \in Clients |-> IF \E s \in x.subscribers : s.owner = c THEN stream[c] ELSE <<>>]

(* execute_new/5: the counter is changed, or the command is stale; both are kept. *)
ExecuteNew(c) ==
  LET r == request[c]
  IN  \/ /\ Fresh(execution, r.env)
         /\ \E now \in Times :
            LET x == Publish(Retain([execution EXCEPT !.revision = @ + 1], r, "executed"), now)
            IN  /\ execution' = x
                /\ stream' = [d \in Clients |-> IF \E s \in x.subscribers : s.owner = d
                                                THEN Append(stream[d], x.sequence) ELSE <<>>]
         /\ applied' = Append(applied, [sid |-> r.sid, env |-> r.env])
         /\ answers' = answers \cup {[sid |-> r.sid, env |-> r.env, result |-> "executed"]}
      \/ /\ ~Fresh(execution, r.env)
         /\ execution' = Retain(execution, r, "stale")
         /\ answers' = answers \cup {[sid |-> r.sid, env |-> r.env, result |-> "stale"]}
         /\ UNCHANGED <<stream, applied>>

Execute(c) ==
  LET r     == request[c]
      known == Same(execution.entries, r.sid, r.env)
      fits  == HasRoom(execution, r.sid, MaxExecutions)
  IN  /\ r.at = "execute"
      /\ Done(c)
      /\ \/ /\ known # {}
            /\ answers' = answers \cup {e \in known : e.env = r.env}
            /\ UNCHANGED <<execution, stream, applied>>
         \/ known = {} /\ fits /\ ExecuteNew(c)
         \/ known = {} /\ ~fits /\ UNCHANGED <<execution, stream, applied, answers>>
      /\ UNCHANGED <<registry, admission, clock, started, revoked>>

(* Mutant: one event too many is taken for kept. *)
MutantReplays(x, after) == IF x.events = <<>> THEN after >= x.sequence ELSE after >= x.events[1] - 2

(* sync/2: whether every event after the cursor is still kept. *)
Replays(x, after) == IF x.events = <<>> THEN after >= x.sequence ELSE after >= x.events[1] - 1

(* The kept events after the cursor.  The log only grows at its end, by the next number, so they
   are what follows the others. *)
Later(events, after) ==
  SubSeq(events, 1 + Cardinality({i \in DOMAIN events : events[i] <= after}), Len(events))

(* What a subscriber is brought to: the cursor it had, with the events after it, or the present. *)
Synced(x, after) ==
  IF Replays(x, after) THEN <<after>> \o Later(x.events, after) ELSE <<x.sequence>>

Subscribe(c) == \E now \in Times :
  LET r    == request[c]
      live == {s \in execution.subscribers : s.expires > now}
      room == Cardinality(live) < MaxSubscribers \/ \E s \in live : s.owner = c
      x    == [execution EXCEPT !.subscribers =
                 {s \in live : s.owner # c} \cup {[owner |-> c, sid |-> r.sid, expires |-> r.expires]}]
  IN  /\ r.at = "subscribe"
      /\ Done(c)
      /\ IF r.after <= execution.sequence /\ room
         THEN execution' = x /\ stream' = [Streams(x) EXCEPT ![c] = Synced(x, r.after)]
         ELSE LET y == [execution EXCEPT !.subscribers = live]
              IN  execution' = y /\ stream' = Streams(y)
      /\ UNCHANGED <<registry, admission, clock, started, applied, answers, revoked>>

(* A channel unsubscribes, or its monitor reports that it died: a later one takes its name. *)
Leave(c) ==
  /\ \E s \in execution.subscribers : s.owner = c
  /\ execution' = [execution EXCEPT !.subscribers = {s \in @ : s.owner # c}]
  /\ stream' = [stream EXCEPT ![c] = <<>>]
  /\ UNCHANGED <<registry, admission, request, clock, started, applied, answers, revoked>>

(* A client dies before its next call. *)
Die(c) ==
  /\ request[c].at # "idle"
  /\ Done(c)
  /\ UNCHANGED <<servers, clock, started, history>>

-----------------------------------------------------------------------------
(* Revocation of a session and reset, server after server. *)

(* Mutant: the records go and their count stays. *)
MutantForgets(server, sid) == [server EXCEPT !.entries = {e \in @ : e.sid # sid}]

Forgets(server, sid) == [server EXCEPT !.entries = {e \in @ : e.sid # sid}, !.counts[sid] = 0]

(* Log-out, replacement of the session and a visit with an invalid one end the same way. *)
RevokeAdmission(c) ==
  \E sid \in registry.drawn :
    /\ admission' = Forgets(admission, sid)
    /\ Begins(c, [at |-> "revoke_execution", sid |-> sid])
    /\ UNCHANGED <<registry, execution, clock, history>>

RevokeExecution(c) ==
  LET r == request[c]
      x == [Forgets(execution, r.sid) EXCEPT !.subscribers = {s \in @ : s.sid # r.sid}]
  IN  /\ r.at = "revoke_execution"
      /\ execution' = x
      /\ stream' = Streams(x)
      /\ answers' = {a \in answers : a.sid # r.sid}
      /\ Proceeds(c, [r EXCEPT !.at = "revoke_session"])
      /\ UNCHANGED <<registry, admission, clock, started, applied, revoked>>

RevokeSession(c) ==
  LET r == request[c]
  IN  /\ r.at = "revoke_session"
      /\ registry' = [registry EXCEPT !.sessions = {s \in @ : s.sid # r.sid}]
      /\ revoked' = revoked \cup {r.sid}
      /\ Done(c)
      /\ UNCHANGED <<admission, execution, clock, started, stream, applied, answers>>

NoCounts == [sid \in Sessions |-> 0]
NoAdmission == [entries |-> {}, counts |-> NoCounts]
NoExecution == [entries |-> {}, counts |-> NoCounts, revision |-> 0, events |-> <<>>,
                sequence |-> 0, subscribers |-> {}]

ResetRegistry(c) ==
  /\ registry' = [registry EXCEPT !.sessions = {}]
  /\ Begins(c, [at |-> "reset_admission"])
  /\ UNCHANGED <<admission, execution, clock, history>>

ResetAdmission(c) ==
  /\ request[c].at = "reset_admission"
  /\ admission' = NoAdmission
  /\ Proceeds(c, [at |-> "reset_execution"])
  /\ UNCHANGED <<registry, execution, clock, started, history>>

ResetExecution(c) ==
  /\ request[c].at = "reset_execution"
  /\ execution' = NoExecution
  /\ stream' = [d \in Clients |-> <<>>]
  /\ applied' = <<>>
  /\ answers' = {}
  /\ Done(c)
  /\ UNCHANGED <<registry, admission, clock, started, revoked>>

Tick ==
  /\ clock < MaxTime
  /\ clock' = clock + 1
  /\ UNCHANGED <<servers, request, started, history>>

Init ==
  /\ registry = [sessions |-> {}, drawn |-> {}]
  /\ admission = NoAdmission
  /\ execution = NoExecution
  /\ request = [c \in Clients |-> Idle]
  /\ clock = 0
  /\ started = 0
  /\ stream = [c \in Clients |-> <<>>]
  /\ applied = <<>>
  /\ answers = {}
  /\ revoked = {}

Next ==
  \/ \E subject \in Granted \cup Denied : Issue(subject)
  \/ Rotate \/ Refuse \/ Tick
  \/ \E c \in Clients :
       \/ StartExecute(c) \/ StartSubscribe(c) \/ Admit(c) \/ Execute(c) \/ Subscribe(c)
       \/ Leave(c) \/ Die(c)
       \/ RevokeAdmission(c) \/ RevokeExecution(c) \/ RevokeSession(c)
       \/ ResetRegistry(c) \/ ResetAdmission(c) \/ ResetExecution(c)

Spec == Init /\ [][Next]_vars

-----------------------------------------------------------------------------
(* Properties *)

(* Every server keeps its state in its type and within its own limits: sessions, receipts,
   results and subscribers never exceed the capacity their handler checks. *)
TypeOK ==
  /\ registry.drawn \subseteq Sessions
  /\ \A s \in registry.sessions : s.sid \in registry.drawn
  /\ Cardinality(registry.sessions) <= MaxSessions
  /\ Cardinality(admission.entries) <= MaxAdmissions
  /\ Cardinality(execution.entries) <= MaxExecutions
  /\ Len(execution.events) <= MaxEvents
  /\ Cardinality(execution.subscribers) <= MaxSubscribers
  /\ \A s \in execution.subscribers : s.owner \in Channels
  /\ clock \in 0 .. MaxTime

(* The counts that limit a session are those of the records it has, through replay, refusal,
   log-out and reset, and a key has one record (require_capacity/2, retain/4, revoke_session). *)
CountsMatch ==
  \A server \in {admission, execution} :
    /\ \A sid \in Sessions : server.counts[sid] = Cardinality({e \in server.entries : e.sid = sid})
    /\ \A e, f \in server.entries : e.sid = f.sid /\ e.env.key = f.env.key => e = f

(* The three servers stay within their capacities and their counts tell what they hold. *)
CapacityIsTrue == TypeOK /\ CountsMatch

(* One command of one session changes the counter once, however often and through however many
   concurrent requests it is sent, and even if the session's records were revoked meanwhile
   (execute/4 after admit/4). *)
MutatesOnce == \A i, j \in DOMAIN applied : applied[i] = applied[j] => i = j

(* Whoever sends the same command again gets the first result again, also when the counter has
   advanced to the revision a stale command expected, until the session is revoked. *)
OneAnswer == \A a, b \in answers : a.sid = b.sid /\ a.env = b.env => a = b

(* A command is idempotent for the counter and for whoever asks (admit/4, execute/4). *)
CommandsAreIdempotent == MutatesOnce /\ OneAnswer

(* A subscriber is sent every event after the cursor it is brought to, once and in order, whether
   its cursor is within the kept events or older (subscribe, sync/2, publish/3). *)
StreamIsWhole ==
  \A s \in execution.subscribers :
    LET sent == stream[s.owner]
    IN  /\ sent # <<>>
        /\ Last(sent) = execution.sequence
        /\ \A i \in DOMAIN sent : sent[i] = sent[1] + i - 1

(* "logout/session replacement revokes their subscription and private execution records"
   (server-push-contract.md): nothing is kept for a session whose log-out has returned. *)
LogoutRevokes ==
  \A sid \in revoked :
    /\ \A s \in execution.subscribers : s.sid # sid
    /\ \A e \in execution.entries : e.sid # sid

=============================================================================
