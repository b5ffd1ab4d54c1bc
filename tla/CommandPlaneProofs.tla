-------------------------- MODULE CommandPlaneProofs --------------------------
(***************************************************************************)
(* Proofs about the command plane: the servers stay within their limits    *)
(* and their counts tell what they hold, a command is idempotent for the   *)
(* counter and for whoever asks, and a subscriber misses no event, for any *)
(* number of clients, sessions, commands, limits and requests.             *)
(*                                                                         *)
(* None of the three is inductive.  Of the counter the invariant knows     *)
(* that each command applied to it expected the number of those before it; *)
(* of the answers, that each is a retained result; of the kept events,     *)
(* that they are the last ones and in order; and of a stream, that it goes *)
(* on where it began and ends at the present.                              *)
(***************************************************************************)
EXTENDS CommandPlane, FiniteSetTheorems, SequenceTheorems, TLAPS

-----------------------------------------------------------------------------
(* The inductive invariant. *)

Subjects == Granted \cup Denied

Session == [sid : Sessions, subject : Subjects, expires : Nat]
Receipt == [sid : Sessions, env : Envelopes]
Result == [sid : Sessions, env : Envelopes, result : {"executed", "stale"}]
Subscriber == [owner : Channels, sid : Sessions, expires : Nat]
Registry == [sessions : SUBSET Session, drawn : SUBSET Sessions]
Admission == [entries : SUBSET Receipt, counts : [Sessions -> Nat]]
Execution == [entries : SUBSET Result, counts : [Sessions -> Nat], revision : Nat,
              events : Seq(Nat), sequence : Nat, subscribers : SUBSET Subscriber]

RegistryFits ==
  /\ registry \in Registry
  /\ IsFiniteSet(registry.sessions)
  /\ \A s \in registry.sessions : s.sid \in registry.drawn
  /\ Cardinality(registry.sessions) <= MaxSessions

(* The records of a session are as many as its count, and a key has one of them. *)
Counted(entries, counts) ==
  /\ IsFiniteSet(entries)
  /\ \A sid \in Sessions : counts[sid] = Cardinality({e \in entries : e.sid = sid})
  /\ \A e, f \in entries : e.sid = f.sid /\ e.env.key = f.env.key => e = f

AdmissionFits ==
  /\ admission \in Admission
  /\ Counted(admission.entries, admission.counts)
  /\ Cardinality(admission.entries) <= MaxAdmissions

(* The kept events are the last ones, in order. *)
EventsAreLast(x) ==
  /\ Len(x.events) <= MaxEvents
  /\ Len(x.events) <= x.sequence
  /\ \A i \in 1 .. Len(x.events) : x.events[i] = x.sequence - Len(x.events) + i

Executes(x) ==
  /\ x \in Execution
  /\ Counted(x.entries, x.counts)
  /\ Cardinality(x.entries) <= MaxExecutions
  /\ EventsAreLast(x)
  /\ IsFiniteSet(x.subscribers)
  /\ Cardinality(x.subscribers) <= MaxSubscribers

ExecutionFits == Executes(execution)

(* The call a client makes next, with what it carries. *)
CallFits(c, r) ==
  \/ r.at \in {"idle", "reset_admission", "reset_execution"}
  \/ r.at = "admit" /\ r.sid \in Sessions /\ r.env \in Envelopes
  \/ r.at = "execute" /\ r.sid \in Sessions /\ r.env \in Envelopes
  \/ r.at = "subscribe" /\ c \in Channels /\ r.sid \in Sessions /\ r.expires \in Nat /\ r.after \in Nat
  \/ r \in [at : {"revoke_execution", "revoke_session"}, sid : Sessions]

RequestsFit ==
  /\ DOMAIN request = Clients
  /\ \A c \in Clients : CallFits(c, request[c])

ClockFits == clock \in 0 .. MaxTime

(* Each command applied to the counter expected the number of those before it, and each answer
   is a retained result. *)
CommandsFit ==
  /\ applied \in Seq(Receipt)
  /\ execution.revision = Len(applied)
  /\ \A i \in 1 .. Len(applied) : applied[i].env.revision = i - 1
  /\ answers \subseteq execution.entries

(* A stream has each event after its first, and ends with the last. *)
Whole(sent, last) ==
  /\ sent # <<>>
  /\ sent[Len(sent)] = last
  /\ \A i \in 1 .. Len(sent) : sent[i] = sent[1] + i - 1

StreamsFit ==
  /\ stream \in [Clients -> Seq(Nat)]
  /\ \A s \in execution.subscribers : Whole(stream[s.owner], execution.sequence)

Inv == RegistryFits /\ AdmissionFits /\ ExecutionFits /\ RequestsFit /\ ClockFits
       /\ CommandsFit /\ StreamsFit

-----------------------------------------------------------------------------
(* Sets and counts. *)

(* A set that may have got one element more is finite and at most one larger. *)
LEMMA OneMore ==
  ASSUME NEW S, NEW x, IsFiniteSet(S), NEW max \in Nat, Cardinality(S) < max
  PROVE  IsFiniteSet(S \cup {x}) /\ Cardinality(S \cup {x}) <= max
<1>1. Cardinality(S) \in Nat  BY FS_CardinalityType
<1>2. /\ IsFiniteSet(S \cup {x})
      /\ Cardinality(S \cup {x}) = IF x \in S THEN Cardinality(S) ELSE Cardinality(S) + 1
  BY FS_AddElement
<1> QED  BY <1>1, <1>2

(* A part of a set within a limit is within the limit. *)
LEMMA NoMore ==
  ASSUME NEW S, NEW T \in SUBSET S, IsFiniteSet(S), NEW max \in Nat, Cardinality(S) <= max
  PROVE  IsFiniteSet(T) /\ Cardinality(T) <= max
<1>1. IsFiniteSet(T) /\ Cardinality(T) <= Cardinality(S)  BY FS_Subset
<1>2. Cardinality(S) \in Nat /\ Cardinality(T) \in Nat  BY <1>1, FS_CardinalityType
<1> QED  BY <1>1, <1>2

(* An element that replaces one of a set leaves it within the limit. *)
LEMMA AsMany ==
  ASSUME NEW S, NEW x, NEW y \in S, NEW T \in SUBSET (S \ {y}),
         IsFiniteSet(S), NEW max \in Nat, Cardinality(S) <= max
  PROVE  IsFiniteSet(T \cup {x}) /\ Cardinality(T \cup {x}) <= max
<1>1. IsFiniteSet(S \ {y}) /\ Cardinality(S \ {y}) = Cardinality(S) - 1
  BY FS_RemoveElement
<1>2. Cardinality(S) \in Nat /\ Cardinality(S \ {y}) \in Nat
  BY <1>1, FS_CardinalityType
<1>3. IsFiniteSet(T) /\ Cardinality(T) <= Cardinality(S \ {y})
  BY <1>1, FS_Subset
<1>4. Cardinality(T) \in Nat
  BY <1>3, FS_CardinalityType
<1>5. Cardinality(T) < max
  BY <1>1, <1>2, <1>3, <1>4
<1> QED  BY <1>3, <1>5, OneMore

(* A server that keeps nothing counts nothing. *)
LEMMA CountedNone == Counted({}, NoCounts)
<1>1. \A sid \in Sessions : {e \in {} : e.sid = sid} = {}
  OBVIOUS
<1>2. IsFiniteSet({}) /\ Cardinality({}) = 0
  BY FS_EmptySet
<1>3. \A sid \in Sessions : NoCounts[sid] = Cardinality({e \in {} : e.sid = sid})
  BY <1>1, <1>2 DEF NoCounts
<1> QED  BY <1>2, <1>3 DEF Counted

(* A record of a key that had none is counted (admit/4, retain/4). *)
LEMMA CountedAdd ==
  ASSUME NEW entries, NEW counts \in [Sessions -> Nat], Counted(entries, counts),
         NEW n, n.sid \in Sessions, Same(entries, n.sid, n.env) = {}
  PROVE  Counted(entries \cup {n}, [counts EXCEPT ![n.sid] = @ + 1])
<1> DEFINE more == entries \cup {n}
           Of(S, sid) == {e \in S : e.sid = sid}
<1>1. IsFiniteSet(more)
  BY FS_AddElement DEF Counted
<1>2. \A e \in entries : ~(e.sid = n.sid /\ e.env.key = n.env.key)
  BY DEF Same
<1>3. \A e, f \in more : e.sid = f.sid /\ e.env.key = f.env.key => e = f
  BY <1>2 DEF Counted
<1>4. ASSUME NEW sid \in Sessions
      PROVE  [counts EXCEPT ![n.sid] = @ + 1][sid] = Cardinality(Of(more, sid))
  <2>1. CASE sid = n.sid
    <3>1. Of(more, sid) = Of(entries, sid) \cup {n}
      BY <2>1
    <3>2. n \notin Of(entries, sid)
      BY <1>2
    <3>3. IsFiniteSet(Of(entries, sid))
      BY FS_Subset DEF Counted
    <3>4. Cardinality(Of(more, sid)) = Cardinality(Of(entries, sid)) + 1
      BY <3>1, <3>2, <3>3, FS_AddElement
    <3>5. counts[sid] = Cardinality(Of(entries, sid))
      BY DEF Counted
    <3> HIDE DEF Of
    <3> QED  BY <2>1, <3>4, <3>5
  <2>2. CASE sid # n.sid
    <3>1. Of(more, sid) = Of(entries, sid)
      BY <2>2
    <3>2. counts[sid] = Cardinality(Of(entries, sid))
      BY DEF Counted
    <3> HIDE DEF Of
    <3> QED  BY <2>2, <3>1, <3>2
  <2> QED  BY <2>1, <2>2
<1> QED  BY <1>1, <1>3, <1>4 DEF Counted

(* The records of a session go with their count (revoke_session). *)
LEMMA CountedForgets ==
  ASSUME NEW entries, NEW counts \in [Sessions -> Nat], Counted(entries, counts), NEW sid \in Sessions
  PROVE  Counted({e \in entries : e.sid # sid}, [counts EXCEPT ![sid] = 0])
<1> DEFINE fewer == {e \in entries : e.sid # sid}
           Of(S, s) == {e \in S : e.sid = s}
<1>1. IsFiniteSet(fewer)
  BY FS_Subset DEF Counted
<1>2. \A e, f \in fewer : e.sid = f.sid /\ e.env.key = f.env.key => e = f
  BY DEF Counted
<1>3. ASSUME NEW s \in Sessions
      PROVE  [counts EXCEPT ![sid] = 0][s] = Cardinality(Of(fewer, s))
  <2>1. CASE s = sid
    <3>1. Of(fewer, s) = {}
      BY <2>1
    <3>2. Cardinality(Of(fewer, s)) = 0
      BY <3>1, FS_EmptySet
    <3> HIDE DEF Of
    <3> QED  BY <2>1, <3>2
  <2>2. CASE s # sid
    <3>1. Of(fewer, s) = Of(entries, s)
      BY <2>2
    <3>2. counts[s] = Cardinality(Of(entries, s))
      BY DEF Counted
    <3> HIDE DEF Of
    <3> QED  BY <2>2, <3>1, <3>2
  <2> QED  BY <2>1, <2>2
<1> QED  BY <1>1, <1>2, <1>3 DEF Counted

LEMMA Limits ==
  /\ MaxSessions \in Nat /\ MaxAdmissions \in Nat /\ MaxExecutions \in Nat /\ MaxPerSession \in Nat
  /\ MaxEvents \in Nat \ {0} /\ MaxSubscribers \in Nat \ {0} /\ Ttl \in Nat /\ MaxTime \in Nat
  /\ MaxCursor \in Nat
  /\ Channels \subseteq Clients
  /\ \A e \in Envelopes : e.revision \in Nat
BY CommandAssumption

-----------------------------------------------------------------------------
(* The registry. *)

(* Dropping sessions keeps the registry as it should be. *)
LEMMA FewerSessions ==
  ASSUME RegistryFits, NEW S \in SUBSET registry.sessions, registry' = [registry EXCEPT !.sessions = S]
  PROVE  RegistryFits'
<1>1. IsFiniteSet(S) /\ Cardinality(S) <= MaxSessions
  BY Limits, NoMore DEF RegistryFits
<1>2. registry' = [sessions |-> S, drawn |-> registry.drawn]
  BY DEF RegistryFits, Registry
<1>3. registry' \in Registry
  BY <1>2 DEF RegistryFits, Registry
<1>4. registry'.sessions = S /\ registry'.drawn = registry.drawn
  BY <1>2
<1>5. \A s \in S : s.sid \in registry.drawn
  BY DEF RegistryFits
<1> QED  BY <1>1, <1>3, <1>4, <1>5 DEF RegistryFits

LEMMA RegistryKept ==
  ASSUME RegistryFits, RequestsFit, ClockFits, [Next]_vars
  PROVE  RegistryFits'
<1> USE DEF Pruned
<1>1. ASSUME NEW subject \in Granted \cup Denied, Issue(subject)
      PROVE  RegistryFits'
  <2>0. PICK now \in Times :
          /\ Cardinality(Pruned(registry.sessions, now)) < MaxSessions
          /\ \E sid \in Sessions \ registry.drawn :
               registry' = [sessions |-> Pruned(registry.sessions, now)
                                           \cup {[sid |-> sid, subject |-> subject, expires |-> now + Ttl]},
                            drawn    |-> registry.drawn \cup {sid}]
    BY <1>1 DEF Issue
  <2> DEFINE live == Pruned(registry.sessions, now)
  <2>1. Cardinality(live) < MaxSessions
    BY <2>0
  <2>2. PICK sid \in Sessions \ registry.drawn :
          registry' = [sessions |-> live \cup {[sid |-> sid, subject |-> subject, expires |-> now + Ttl]},
                       drawn    |-> registry.drawn \cup {sid}]
    BY <2>0
  <2> DEFINE new == [sid |-> sid, subject |-> subject, expires |-> now + Ttl]
  <2>3. now + Ttl \in Nat
    BY Limits DEF ClockFits, Times
  <2>4. new \in Session
    BY <2>3 DEF Session, Subjects
  <2>5. live \in SUBSET registry.sessions /\ live \subseteq Session
    BY DEF RegistryFits, Registry
  <2>6. IsFiniteSet(live)
    BY <2>5, FS_Subset DEF RegistryFits
  <2>7. IsFiniteSet(live \cup {new}) /\ Cardinality(live \cup {new}) <= MaxSessions
    <3> HIDE DEF live, new
    <3> QED  BY <2>1, <2>6, Limits, OneMore
  <2>8. registry'.sessions = live \cup {new} /\ registry'.drawn = registry.drawn \cup {sid}
    BY <2>2
  <2>9. registry' \in Registry
    <3>1. live \cup {new} \in SUBSET Session
      BY <2>4, <2>5
    <3>2. registry.drawn \cup {sid} \in SUBSET Sessions
      BY DEF RegistryFits, Registry
    <3> HIDE DEF live, new
    <3> QED  BY <2>2, <3>1, <3>2 DEF Registry, new
  <2>10. \A s \in live \cup {new} : s.sid \in registry.drawn \cup {sid}
    BY <2>5 DEF RegistryFits
  <2> HIDE DEF live, new
  <2> QED  BY <2>7, <2>8, <2>9, <2>10 DEF RegistryFits
<1>2. CASE Rotate
  <2>0. PICK now \in Times :
          \E s \in Pruned(registry.sessions, now), sid \in Sessions \ registry.drawn :
            registry' = [sessions |-> (Pruned(registry.sessions, now) \ {s}) \cup {[s EXCEPT !.sid = sid]},
                         drawn    |-> registry.drawn \cup {sid}]
    BY <1>2 DEF Rotate
  <2> DEFINE live == Pruned(registry.sessions, now)
  <2>1. PICK s \in live, sid \in Sessions \ registry.drawn :
          registry' = [sessions |-> (live \ {s}) \cup {[s EXCEPT !.sid = sid]},
                       drawn    |-> registry.drawn \cup {sid}]
    BY <2>0
  <2> DEFINE new == [s EXCEPT !.sid = sid]
  <2>2. s \in registry.sessions /\ s \in Session
    BY DEF RegistryFits, Registry
  <2>3. new \in Session /\ new.sid = sid
    BY <2>2 DEF Session
  <2>4. live \ {s} \in SUBSET (registry.sessions \ {s})
    OBVIOUS
  <2>5. /\ IsFiniteSet((live \ {s}) \cup {new})
        /\ Cardinality((live \ {s}) \cup {new}) <= MaxSessions
    <3>1. IsFiniteSet(registry.sessions) /\ Cardinality(registry.sessions) <= MaxSessions
      BY DEF RegistryFits
    <3> HIDE DEF live, new
    <3> QED  BY <2>2, <2>4, <3>1, Limits, AsMany
  <2>6. registry'.sessions = (live \ {s}) \cup {new} /\ registry'.drawn = registry.drawn \cup {sid}
    BY <2>1
  <2>7. registry' \in Registry
    <3>1. (live \ {s}) \cup {new} \in SUBSET Session
      BY <2>3 DEF RegistryFits, Registry
    <3>2. registry.drawn \cup {sid} \in SUBSET Sessions
      BY DEF RegistryFits, Registry
    <3> HIDE DEF live, new
    <3> QED  BY <2>1, <3>1, <3>2 DEF Registry, new
  <2>8. \A t \in (live \ {s}) \cup {new} : t.sid \in registry.drawn \cup {sid}
    BY <2>3 DEF RegistryFits
  <2> HIDE DEF live, new
  <2> QED  BY <2>5, <2>6, <2>7, <2>8 DEF RegistryFits
<1>3. ASSUME NEW now \in Times, registry' = [registry EXCEPT !.sessions = Pruned(@, now)]
      PROVE  RegistryFits'
  <2>1. Pruned(registry.sessions, now) \in SUBSET registry.sessions
    OBVIOUS
  <2> QED  BY <1>3, <2>1, FewerSessions
<1>4. CASE Refuse
  BY <1>3, <1>4 DEF Refuse
<1>5. ASSUME NEW c \in Clients, StartExecute(c) \/ StartSubscribe(c)
      PROVE  RegistryFits'
  BY <1>3, <1>5 DEF StartExecute, StartSubscribe, Authorized
<1>6. ASSUME NEW c \in Clients, RevokeSession(c)
      PROVE  RegistryFits'
  <2>1. {s \in registry.sessions : s.sid # request[c].sid} \in SUBSET registry.sessions
    OBVIOUS
  <2>2. registry' = [registry EXCEPT !.sessions = {s \in registry.sessions : s.sid # request[c].sid}]
    BY <1>6 DEF RevokeSession
  <2> QED  BY <2>1, <2>2, FewerSessions
<1>7. ASSUME NEW c \in Clients, ResetRegistry(c)
      PROVE  RegistryFits'
  BY <1>7, FewerSessions DEF ResetRegistry
<1>8. CASE UNCHANGED registry
  BY <1>8 DEF RegistryFits
<1>9. CASE UNCHANGED vars
  BY <1>8, <1>9 DEF vars, servers
<1>10. CASE Tick
  BY <1>8, <1>10 DEF Tick, servers
<1>11. ASSUME NEW c \in Clients,
              \/ Admit(c) \/ Execute(c) \/ Subscribe(c) \/ Leave(c) \/ Die(c) \/ RevokeAdmission(c)
              \/ RevokeExecution(c) \/ ResetAdmission(c) \/ ResetExecution(c)
       PROVE  RegistryFits'
  BY <1>8, <1>11 DEF Admit, Execute, Subscribe, Leave, Die, RevokeAdmission, RevokeExecution,
     ResetAdmission, ResetExecution, servers
<1> QED  BY <1>1, <1>2, <1>4, <1>5, <1>6, <1>7, <1>9, <1>10, <1>11 DEF Next

-----------------------------------------------------------------------------
(* The requests and the clock. *)

LEMMA ClockKept ==
  ASSUME ClockFits, [Next]_vars
  PROVE  ClockFits'
<1>1. CASE Tick
  BY <1>1, Limits DEF Tick, ClockFits
<1>2. CASE UNCHANGED clock
  BY <1>2 DEF ClockFits
<1>3. ASSUME NEW c \in Clients,
             \/ Admit(c) \/ Execute(c) \/ Subscribe(c) \/ Leave(c) \/ Die(c) \/ RevokeAdmission(c)
             \/ RevokeExecution(c) \/ ResetAdmission(c) \/ ResetExecution(c) \/ StartExecute(c)
             \/ StartSubscribe(c) \/ RevokeSession(c) \/ ResetRegistry(c)
      PROVE  UNCHANGED clock
  BY <1>3 DEF Admit, Execute, Subscribe, Leave, Die, RevokeAdmission, RevokeExecution,
     ResetAdmission, ResetExecution, StartExecute, StartSubscribe, Authorized, RevokeSession, ResetRegistry
<1>4. CASE UNCHANGED vars
  BY <1>4 DEF vars, ClockFits
<1>5. CASE Rotate \/ Refuse \/ \E subject \in Granted \cup Denied : Issue(subject)
  BY <1>2, <1>5 DEF Rotate, Refuse, Issue
<1> QED  BY <1>1, <1>2, <1>3, <1>4, <1>5 DEF Next

(* A client goes on with a call that fits. *)
LEMMA OneRequest ==
  ASSUME RequestsFit, NEW c \in Clients, NEW r, CallFits(c, r),
         request' = [request EXCEPT ![c] = r]
  PROVE  RequestsFit'
<1>1. DOMAIN request' = Clients
  BY DEF RequestsFit
<1>2. ASSUME NEW d \in Clients PROVE CallFits(d, request'[d])
  BY DEF RequestsFit
<1> QED  BY <1>1, <1>2 DEF RequestsFit, CallFits

LEMMA RequestsKept ==
  ASSUME RegistryFits, RequestsFit, ClockFits, [Next]_vars
  PROVE  RequestsFit'
<1>1. ASSUME NEW c \in Clients, Done(c)
      PROVE  RequestsFit'
  <2>1. CallFits(c, Idle)
    BY DEF CallFits, Idle
  <2> QED  BY <1>1, <2>1, OneRequest DEF Done
<1>2. ASSUME NEW c \in Clients, StartExecute(c)
      PROVE  RequestsFit'
  <2>1. PICK s \in registry.sessions, env \in Envelopes :
          request' = [request EXCEPT ![c] = [at |-> "admit", sid |-> s.sid, subject |-> s.subject, env |-> env]]
    BY <1>2 DEF StartExecute, Begins
  <2>2. s \in Session
    BY DEF RegistryFits, Registry
  <2>3. CallFits(c, [at |-> "admit", sid |-> s.sid, subject |-> s.subject, env |-> env])
    BY <2>2 DEF CallFits, Session
  <2> QED  BY <2>1, <2>3, OneRequest
<1>3. ASSUME NEW c \in Clients, StartSubscribe(c)
      PROVE  RequestsFit'
  <2>1. PICK s \in registry.sessions, after \in 0 .. MaxCursor :
          request' = [request EXCEPT ![c] = [at |-> "subscribe", sid |-> s.sid, expires |-> s.expires, after |-> after]]
    BY <1>3 DEF StartSubscribe, Begins
  <2>2. s \in Session /\ c \in Channels
    BY <1>3 DEF RegistryFits, Registry, StartSubscribe
  <2>3. CallFits(c, [at |-> "subscribe", sid |-> s.sid, expires |-> s.expires, after |-> after])
    BY <2>2, Limits DEF CallFits, Session
  <2> QED  BY <2>1, <2>3, OneRequest
<1>4. ASSUME NEW c \in Clients, Admit(c)
      PROVE  RequestsFit'
  <2>1. CallFits(c, request[c]) /\ request[c].at = "admit"
    BY <1>4 DEF RequestsFit, Admit
  <2>2. CallFits(c, [at |-> "execute", sid |-> request[c].sid, env |-> request[c].env])
    BY <2>1 DEF CallFits
  <2>3. CASE Proceeds(c, [at |-> "execute", sid |-> request[c].sid, env |-> request[c].env])
    BY <2>2, <2>3, OneRequest DEF Proceeds
  <2> QED  BY <1>1, <1>4, <2>3 DEF Admit
<1>5. ASSUME NEW c \in Clients, RevokeAdmission(c)
      PROVE  RequestsFit'
  <2>1. PICK sid \in registry.drawn : request' = [request EXCEPT ![c] = [at |-> "revoke_execution", sid |-> sid]]
    BY <1>5 DEF RevokeAdmission, Begins
  <2>2. CallFits(c, [at |-> "revoke_execution", sid |-> sid])
    BY DEF CallFits, RegistryFits, Registry
  <2> QED  BY <2>1, <2>2, OneRequest
<1>6. ASSUME NEW c \in Clients, RevokeExecution(c)
      PROVE  RequestsFit'
  <2>1. CallFits(c, request[c]) /\ request[c].at = "revoke_execution"
    BY <1>6 DEF RequestsFit, RevokeExecution
  <2>2. request' = [request EXCEPT ![c] = [request[c] EXCEPT !.at = "revoke_session"]]
    BY <1>6 DEF RevokeExecution, Proceeds
  <2>3. request[c] \in [at : {"revoke_execution", "revoke_session"}, sid : Sessions]
    BY <2>1 DEF CallFits
  <2>4. CallFits(c, [request[c] EXCEPT !.at = "revoke_session"])
    BY <2>3 DEF CallFits
  <2> QED  BY <2>2, <2>4, OneRequest
<1>7. ASSUME NEW c \in Clients, ResetRegistry(c) \/ ResetAdmission(c)
      PROVE  RequestsFit'
  <2>1. CallFits(c, [at |-> "reset_admission"]) /\ CallFits(c, [at |-> "reset_execution"])
    BY DEF CallFits
  <2> QED  BY <1>7, <2>1, OneRequest DEF ResetRegistry, ResetAdmission, Begins, Proceeds
<1>8. ASSUME NEW c \in Clients,
             Execute(c) \/ Subscribe(c) \/ Die(c) \/ RevokeSession(c) \/ ResetExecution(c)
      PROVE  RequestsFit'
  BY <1>1, <1>8 DEF Execute, Subscribe, Die, RevokeSession, ResetExecution
<1>9. CASE UNCHANGED request
  BY <1>9 DEF RequestsFit, CallFits
<1>10. ASSUME NEW c \in Clients, Leave(c)
       PROVE  RequestsFit'
  BY <1>9, <1>10 DEF Leave
<1>11. CASE Rotate \/ Refuse \/ Tick \/ \E subject \in Granted \cup Denied : Issue(subject)
  BY <1>9, <1>11 DEF Rotate, Refuse, Tick, Issue
<1>12. CASE UNCHANGED vars
  BY <1>9, <1>12 DEF vars
<1> QED  BY <1>2, <1>3, <1>4, <1>5, <1>6, <1>7, <1>8, <1>10, <1>11, <1>12 DEF Next

-----------------------------------------------------------------------------
(* Admission. *)

LEMMA AdmissionKept ==
  ASSUME RegistryFits, AdmissionFits, RequestsFit, [Next]_vars
  PROVE  AdmissionFits'
<1>1. CASE UNCHANGED admission
  BY <1>1 DEF AdmissionFits
<1>2. ASSUME NEW c \in Clients, Admit(c)
      PROVE  AdmissionFits'
  <2> DEFINE r == request[c]
             new == [sid |-> r.sid, env |-> r.env]
             more == admission.entries \cup {new}
             count == [admission.counts EXCEPT ![r.sid] = @ + 1]
  <2>1. r.sid \in Sessions /\ r.env \in Envelopes
    BY <1>2 DEF RequestsFit, CallFits, Admit
  <2>2. CASE /\ Same(admission.entries, r.sid, r.env) = {}
             /\ HasRoom(admission, r.sid, MaxAdmissions)
             /\ admission' = [admission EXCEPT !.entries = more, !.counts = count]
    <3>1. admission \in Admission
      BY DEF AdmissionFits
    <3>2. new \in Receipt /\ new.sid = r.sid /\ new.env = r.env
      BY <2>1 DEF Receipt
    <3>3. Counted(more, count)
      <4>1. admission.counts \in [Sessions -> Nat] /\ Counted(admission.entries, admission.counts)
        BY <3>1 DEF Admission, AdmissionFits
      <4>2. new.sid \in Sessions /\ Same(admission.entries, new.sid, new.env) = {}
        BY <2>1, <2>2, <3>2
      <4>3. Counted(more, [admission.counts EXCEPT ![new.sid] = @ + 1])
        <5> HIDE DEF new
        <5> QED  BY <4>1, <4>2, CountedAdd
      <4> QED  BY <4>3
    <3>4. Cardinality(more) <= MaxAdmissions
      <4>1. Cardinality(admission.entries) < MaxAdmissions /\ IsFiniteSet(admission.entries)
        BY <2>2 DEF HasRoom, AdmissionFits, Counted
      <4> HIDE DEF new
      <4> QED  BY <4>1, Limits, OneMore
    <3>5. more \in SUBSET Receipt /\ count \in [Sessions -> Nat]
      BY <2>1, <3>1, <3>2 DEF Admission
    <3> HIDE DEF new, more, count
    <3>6. admission' \in Admission /\ admission'.entries = more /\ admission'.counts = count
      BY <2>2, <3>1, <3>5 DEF Admission
    <3> QED  BY <3>3, <3>4, <3>6 DEF AdmissionFits
  <2>3. \/ UNCHANGED admission
        \/ /\ Same(admission.entries, r.sid, r.env) = {}
           /\ HasRoom(admission, r.sid, MaxAdmissions)
           /\ admission' = [admission EXCEPT !.entries = @ \cup {new}, !.counts[r.sid] = @ + 1]
    BY <1>2 DEF Admit
  <2>4. [admission EXCEPT !.entries = @ \cup {new}, !.counts[r.sid] = @ + 1]
          = [admission EXCEPT !.entries = more, !.counts = count]
    BY DEF AdmissionFits, Admission
  <2> QED  BY <1>1, <2>2, <2>3, <2>4
<1>3. ASSUME NEW c \in Clients, RevokeAdmission(c)
      PROVE  AdmissionFits'
  <2>1. PICK sid \in registry.drawn : admission' = Forgets(admission, sid)
    BY <1>3 DEF RevokeAdmission
  <2>2. sid \in Sessions
    BY DEF RegistryFits, Registry
  <2> DEFINE fewer == {e \in admission.entries : e.sid # sid}
             count == [admission.counts EXCEPT ![sid] = 0]
  <2>3. admission \in Admission
    BY DEF AdmissionFits
  <2>4. Counted(fewer, count)
    BY <2>2, <2>3, CountedForgets DEF AdmissionFits, Admission
  <2>5. Cardinality(fewer) <= MaxAdmissions
    BY Limits, NoMore DEF AdmissionFits, Counted
  <2>6. fewer \in SUBSET Receipt /\ count \in [Sessions -> Nat]
    BY <2>3 DEF Admission
  <2>7. admission' = [admission EXCEPT !.entries = fewer, !.counts = count]
    BY <2>1, <2>3 DEF Forgets, Admission
  <2> HIDE DEF fewer, count
  <2>8. admission' \in Admission /\ admission'.entries = fewer /\ admission'.counts = count
    BY <2>3, <2>6, <2>7 DEF Admission
  <2> QED  BY <2>4, <2>5, <2>8 DEF AdmissionFits
<1>4. ASSUME NEW c \in Clients, ResetAdmission(c)
      PROVE  AdmissionFits'
  <2>1. admission' = [entries |-> {}, counts |-> NoCounts]
    BY <1>4 DEF ResetAdmission, NoAdmission
  <2>2. admission' \in Admission /\ admission'.entries = {} /\ admission'.counts = NoCounts
    BY <2>1 DEF Admission, NoCounts
  <2> QED  BY <2>2, CountedNone, FS_EmptySet, Limits DEF AdmissionFits
<1>5. ASSUME NEW c \in Clients,
             \/ StartExecute(c) \/ StartSubscribe(c) \/ Execute(c) \/ Subscribe(c) \/ Leave(c) \/ Die(c)
             \/ RevokeExecution(c) \/ RevokeSession(c) \/ ResetRegistry(c) \/ ResetExecution(c)
      PROVE  UNCHANGED admission
  BY <1>5 DEF StartExecute, StartSubscribe, Authorized, Execute, Subscribe, Leave, Die, RevokeExecution,
     RevokeSession, ResetRegistry, ResetExecution, servers
<1>6. CASE Rotate \/ Refuse \/ Tick \/ \E subject \in Granted \cup Denied : Issue(subject)
  BY <1>1, <1>6 DEF Rotate, Refuse, Tick, Issue, servers
<1>7. CASE UNCHANGED vars
  BY <1>1, <1>7 DEF vars, servers
<1> QED  BY <1>1, <1>2, <1>3, <1>4, <1>5, <1>6, <1>7 DEF Next

-----------------------------------------------------------------------------
(* Execution: what its operations make of the server. *)

(* A result of a key that had none is kept and counted (retain/4). *)
LEMMA RetainFits ==
  ASSUME NEW x, Executes(x), NEW r, r.sid \in Sessions, r.env \in Envelopes,
         NEW result \in {"executed", "stale"},
         Same(x.entries, r.sid, r.env) = {}, HasRoom(x, r.sid, MaxExecutions)
  PROVE  LET y == Retain(x, r, result)
         IN  /\ Executes(y)
             /\ y.entries = x.entries \cup {[sid |-> r.sid, env |-> r.env, result |-> result]}
             /\ y.revision = x.revision /\ y.events = x.events /\ y.sequence = x.sequence
             /\ y.subscribers = x.subscribers
<1> DEFINE y == Retain(x, r, result)
           new == [sid |-> r.sid, env |-> r.env, result |-> result]
           more == x.entries \cup {new}
           count == [x.counts EXCEPT ![r.sid] = @ + 1]
<1>1. x \in Execution
  BY DEF Executes
<1>2. new \in Result /\ new.sid = r.sid /\ new.env = r.env
  BY DEF Result
<1>3. Counted(more, count)
  <2>1. x.counts \in [Sessions -> Nat] /\ Counted(x.entries, x.counts)
    BY <1>1 DEF Execution, Executes
  <2>2. new.sid \in Sessions /\ Same(x.entries, new.sid, new.env) = {}
    BY <1>2
  <2>3. Counted(more, [x.counts EXCEPT ![new.sid] = @ + 1])
    <3> HIDE DEF new
    <3> QED  BY <2>1, <2>2, CountedAdd
  <2> QED  BY <2>3
<1>4. Cardinality(more) <= MaxExecutions
  <2>1. Cardinality(x.entries) < MaxExecutions /\ IsFiniteSet(x.entries)
    BY DEF HasRoom, Executes, Counted
  <2> HIDE DEF new
  <2> QED  BY <2>1, Limits, OneMore
<1>5. more \in SUBSET Result /\ count \in [Sessions -> Nat]
  BY <1>1, <1>2 DEF Execution
<1>6. y = [x EXCEPT !.entries = more, !.counts = count]
  BY <1>1 DEF Execution, Retain
<1> HIDE DEF new, more, count, y
<1>7. y \in Execution /\ y.entries = more /\ y.counts = count
  BY <1>1, <1>5, <1>6 DEF Execution
<1>8. y.revision = x.revision /\ y.events = x.events /\ y.sequence = x.sequence
      /\ y.subscribers = x.subscribers
  BY <1>1, <1>6 DEF Execution
<1>9. Executes(y)
  BY <1>3, <1>4, <1>7, <1>8 DEF Executes, EventsAreLast
<1> QED  BY <1>7, <1>8, <1>9 DEF y, more, new

(* An event is kept, at the cost of the oldest at the limit (publish/3). *)
LEMMA PublishFits ==
  ASSUME NEW x, Executes(x), NEW now
  PROVE  LET y == Publish(x, now)
         IN  /\ Executes(y)
             /\ y.entries = x.entries /\ y.revision = x.revision /\ y.sequence = x.sequence + 1
             /\ y.subscribers \subseteq x.subscribers
<1> DEFINE y == Publish(x, now)
           events == Append(x.events, x.sequence + 1)
           drop == IF Len(events) > MaxEvents THEN Len(events) - MaxEvents ELSE 0
           kept == SubSeq(events, 1 + drop, Len(events))
           live == {s \in x.subscribers : s.expires > now}
<1>1. x \in Execution /\ x.events \in Seq(Nat) /\ x.sequence \in Nat /\ Len(x.events) \in Nat
  BY DEF Executes, Execution
<1>2. /\ events \in Seq(Nat) /\ Len(events) = Len(x.events) + 1
      /\ \A i \in 1 .. Len(events) : events[i] = (x.sequence + 1) - Len(events) + i
  <2>1. x.sequence + 1 \in Nat
    BY <1>1
  <2>2. /\ events \in Seq(Nat) /\ Len(events) = Len(x.events) + 1
        /\ \A i \in 1 .. Len(x.events) : events[i] = x.events[i]
        /\ events[Len(x.events) + 1] = x.sequence + 1
    BY <1>1, <2>1, AppendProperties
  <2>3. \A i \in 1 .. Len(x.events) : x.events[i] = x.sequence - Len(x.events) + i
    BY DEF Executes, EventsAreLast
  <2> HIDE DEF events
  <2>4. ASSUME NEW i \in 1 .. Len(events)
        PROVE  events[i] = (x.sequence + 1) - Len(events) + i
    <3>1. CASE i = Len(x.events) + 1
      BY <1>1, <2>2, <3>1
    <3>2. CASE i \in 1 .. Len(x.events)
      <4>1. events[i] = x.sequence - Len(x.events) + i
        BY <2>2, <2>3, <3>2
      <4> QED  BY <1>1, <2>2, <3>2, <4>1
    <3>3. i \in 1 .. Len(x.events) + 1
      BY <2>2
    <3> QED  BY <1>1, <3>1, <3>2, <3>3
  <2> QED  BY <2>2, <2>4
<1>3. Len(x.events) <= MaxEvents /\ Len(x.events) <= x.sequence /\ MaxEvents \in Nat \ {0}
  BY Limits DEF Executes, EventsAreLast
<1>4. drop \in 0 .. Len(events) /\ Len(events) - drop <= MaxEvents /\ Len(events) \in Nat
      /\ Len(events) <= x.sequence + 1
  <2> HIDE DEF events
  <2> QED  BY <1>1, <1>2, <1>3
<1>5. /\ kept \in Seq(Nat) /\ Len(kept) = Len(events) - drop
      /\ \A i \in 1 .. Len(kept) : kept[i] = events[drop + i]
  <2> HIDE DEF events, drop
  <2>1. \A i \in 1 + drop .. Len(events) : events[i] \in Nat
    BY <1>2, <1>4, ElementOfSeq
  <2>2. 1 + drop \in Int /\ Len(events) \in Int
    BY <1>4
  <2>3. /\ kept \in Seq(Nat)
        /\ Len(kept) = IF 1 + drop <= Len(events) THEN Len(events) - (1 + drop) + 1 ELSE 0
        /\ \A i \in 1 .. Len(events) - (1 + drop) + 1 : kept[i] = events[(1 + drop) + i - 1]
    BY <2>1, <2>2, SubSeqProperties
  <2> HIDE DEF kept
  <2>4. Len(kept) = Len(events) - drop
    BY <1>4, <2>3
  <2>5. ASSUME NEW i \in 1 .. Len(kept) PROVE kept[i] = events[drop + i]
    <3>1. i \in 1 .. Len(events) - (1 + drop) + 1 /\ (1 + drop) + i - 1 = drop + i
      BY <1>4, <2>4
    <3> QED  BY <2>3, <3>1
  <2> QED  BY <2>3, <2>4, <2>5
<1>6. ASSUME NEW i \in 1 .. Len(kept)
      PROVE  kept[i] = (x.sequence + 1) - Len(kept) + i
  <2> HIDE DEF kept, events, drop
  <2>1. drop + i \in 1 .. Len(events)
    BY <1>4, <1>5
  <2>2. kept[i] = (x.sequence + 1) - Len(events) + (drop + i)
    BY <1>2, <1>5, <2>1
  <2> QED  BY <1>1, <1>4, <1>5, <2>2
<1>7. live \subseteq Subscriber /\ live \subseteq x.subscribers
  BY DEF Executes, Execution
<1>8. IsFiniteSet(live) /\ Cardinality(live) <= MaxSubscribers
  BY <1>7, Limits, NoMore DEF Executes
<1>9. y = [x EXCEPT !.sequence = x.sequence + 1, !.events = kept, !.subscribers = live]
  BY <1>1 DEF Publish, Execution
<1> HIDE DEF y, events, drop, kept, live
<1>10. y \in Execution
  <2>1. x.sequence + 1 \in Nat
    BY <1>1
  <2>2. live \in SUBSET Subscriber
    BY <1>7
  <2> QED  BY <1>1, <1>5, <1>9, <2>1, <2>2 DEF Execution
<1>11. y.sequence = x.sequence + 1 /\ y.events = kept /\ y.subscribers = live
       /\ y.entries = x.entries /\ y.counts = x.counts /\ y.revision = x.revision
  BY <1>1, <1>9 DEF Execution
<1>12. EventsAreLast(y)
  <2>1. Len(kept) <= MaxEvents /\ Len(kept) <= x.sequence + 1
    BY <1>1, <1>4, <1>5
  <2> QED  BY <1>6, <1>11, <2>1 DEF EventsAreLast
<1>13. Executes(y)
  BY <1>8, <1>10, <1>11, <1>12 DEF Executes
<1> QED  BY <1>7, <1>11, <1>13 DEF y

(* Other subscribers within the limit change nothing else. *)
LEMMA SubscribersFit ==
  ASSUME NEW x, Executes(x), NEW S \in SUBSET Subscriber,
         IsFiniteSet(S), Cardinality(S) <= MaxSubscribers
  PROVE  LET y == [x EXCEPT !.subscribers = S]
         IN  /\ Executes(y)
             /\ y.entries = x.entries /\ y.revision = x.revision /\ y.sequence = x.sequence
             /\ y.subscribers = S
<1> DEFINE y == [x EXCEPT !.subscribers = S]
<1>1. x \in Execution
  BY DEF Executes
<1>2. y \in Execution
  BY <1>1 DEF Execution
<1>3. y.sequence = x.sequence /\ y.events = x.events /\ y.subscribers = S
      /\ y.entries = x.entries /\ y.counts = x.counts /\ y.revision = x.revision
  BY <1>1 DEF Execution
<1> HIDE DEF y
<1>4. Executes(y)
  BY <1>2, <1>3 DEF Executes, EventsAreLast
<1> QED  BY <1>3, <1>4 DEF y

(* What is kept for a session goes, its subscribers too (revoke_session). *)
LEMMA ForgetsFits ==
  ASSUME NEW x, Executes(x), NEW sid \in Sessions
  PROVE  LET y == [Forgets(x, sid) EXCEPT !.subscribers = {s \in @ : s.sid # sid}]
         IN  /\ Executes(y)
             /\ y.entries = {e \in x.entries : e.sid # sid}
             /\ y.revision = x.revision /\ y.sequence = x.sequence
             /\ y.subscribers \subseteq x.subscribers
<1> DEFINE z == Forgets(x, sid)
           y == [z EXCEPT !.subscribers = {s \in @ : s.sid # sid}]
           fewer == {e \in x.entries : e.sid # sid}
           count == [x.counts EXCEPT ![sid] = 0]
           left == {s \in x.subscribers : s.sid # sid}
<1>1. x \in Execution
  BY DEF Executes
<1>2. Counted(fewer, count)
  BY <1>1, CountedForgets DEF Executes, Execution
<1>3. Cardinality(fewer) <= MaxExecutions
  BY Limits, NoMore DEF Executes, Counted
<1>4. fewer \in SUBSET Result /\ count \in [Sessions -> Nat]
  BY <1>1 DEF Execution
<1>5. left \in SUBSET Subscriber /\ left \subseteq x.subscribers
  BY <1>1 DEF Execution
<1>6. IsFiniteSet(left) /\ Cardinality(left) <= MaxSubscribers
  BY <1>5, Limits, NoMore DEF Executes
<1>7. y = [x EXCEPT !.entries = fewer, !.counts = count, !.subscribers = left]
  BY <1>1 DEF Execution, Forgets
<1> HIDE DEF z, y, fewer, count, left
<1>8. y \in Execution
  BY <1>1, <1>4, <1>5, <1>7 DEF Execution
<1>9. y.sequence = x.sequence /\ y.events = x.events /\ y.subscribers = left
      /\ y.entries = fewer /\ y.counts = count /\ y.revision = x.revision
  BY <1>1, <1>7 DEF Execution
<1>10. Executes(y)
  BY <1>2, <1>3, <1>6, <1>8, <1>9 DEF Executes, EventsAreLast
<1> QED  BY <1>5, <1>9, <1>10 DEF y, z, fewer

(* The server as it starts, and after a reset. *)
LEMMA NoExecutionFits ==
  /\ Executes(NoExecution)
  /\ NoExecution.entries = {} /\ NoExecution.revision = 0 /\ NoExecution.sequence = 0
  /\ NoExecution.subscribers = {}
<1>1. /\ NoExecution.entries = {} /\ NoExecution.counts = NoCounts /\ NoExecution.revision = 0
      /\ NoExecution.events = <<>> /\ NoExecution.sequence = 0 /\ NoExecution.subscribers = {}
  BY DEF NoExecution
<1>2. NoExecution \in Execution
  BY DEF NoExecution, Execution, NoCounts
<1>3. EventsAreLast(NoExecution)
  BY <1>1, Limits DEF EventsAreLast
<1>4. IsFiniteSet({}) /\ Cardinality({}) = 0
  BY FS_EmptySet
<1> QED  BY <1>1, <1>2, <1>3, <1>4, CountedNone, Limits DEF Executes

-----------------------------------------------------------------------------
(* Streams. *)

(* The next event keeps a stream whole. *)
LEMMA WholeGoesOn ==
  ASSUME NEW sent \in Seq(Nat), NEW n \in Nat, Whole(sent, n)
  PROVE  Append(sent, n + 1) \in Seq(Nat) /\ Whole(Append(sent, n + 1), n + 1)
<1> DEFINE more == Append(sent, n + 1)
<1>1. n + 1 \in Nat
  OBVIOUS
<1>2. /\ more \in Seq(Nat) /\ more # <<>> /\ Len(more) = Len(sent) + 1
      /\ \A i \in 1 .. Len(sent) : more[i] = sent[i]
      /\ more[Len(sent) + 1] = n + 1
  BY <1>1, AppendProperties
<1>3. Len(sent) \in Nat \ {0} /\ sent # <<>>
  BY DEF Whole
<1>4. 1 \in 1 .. Len(sent) /\ Len(sent) \in 1 .. Len(sent)
  BY <1>3
<1>5. sent[Len(sent)] = n /\ \A i \in 1 .. Len(sent) : sent[i] = sent[1] + i - 1
  BY DEF Whole
<1>6. sent[1] \in Nat
  BY <1>4, ElementOfSeq
<1> HIDE DEF more
<1>7. more[1] = sent[1] /\ n = sent[1] + Len(sent) - 1
  BY <1>2, <1>4, <1>5
<1>8. ASSUME NEW i \in 1 .. Len(more) PROVE more[i] = more[1] + i - 1
  <2>1. CASE i \in 1 .. Len(sent)
    BY <1>2, <1>5, <1>7, <2>1
  <2>2. CASE i = Len(sent) + 1
    BY <1>2, <1>3, <1>6, <1>7, <2>2
  <2>3. i \in 1 .. Len(sent) + 1
    BY <1>2
  <2> QED  BY <1>3, <2>1, <2>2, <2>3
<1>9. more[Len(more)] = n + 1
  BY <1>2
<1> QED  BY <1>2, <1>8, <1>9 DEF Whole, more

(* A cursor within the kept events is followed by those after it (sync/2). *)
LEMMA LaterIsNext ==
  ASSUME NEW x, Executes(x), x.events # <<>>, NEW after \in Nat,
         after <= x.sequence, Replays(x, after)
  PROVE  LET later == Later(x.events, after)
         IN  /\ later \in Seq(Nat)
             /\ Len(later) = x.sequence - after
             /\ \A i \in 1 .. Len(later) : later[i] = after + i
<1> DEFINE events == x.events
           n == Len(x.events)
           k == after - (x.sequence - n)
           later == Later(x.events, after)
<1>1. events \in Seq(Nat) /\ x.sequence \in Nat
  BY DEF Executes, Execution
<1>2. n \in Nat \ {0} /\ n <= x.sequence /\ \A i \in 1 .. n : events[i] = x.sequence - n + i
  BY <1>1 DEF Executes, EventsAreLast
<1>3. after >= events[1] - 1
  BY DEF Replays
<1>4. DOMAIN events = 1 .. n
  BY <1>1
<1> HIDE DEF events, n
<1>5. k \in 0 .. n
  <2>1. events[1] = x.sequence - n + 1
    BY <1>2
  <2> QED  BY <1>1, <1>2, <1>3, <2>1
<1>6. ASSUME NEW i \in 1 .. n PROVE events[i] <= after <=> i <= k
  <2>1. events[i] = x.sequence - n + i
    BY <1>2
  <2> QED  BY <1>1, <1>2, <2>1
<1>7. {i \in DOMAIN events : events[i] <= after} = 1 .. k
  <2> HIDE DEF k
  <2>1. 1 .. k \subseteq 1 .. n
    BY <1>2, <1>5
  <2> QED  BY <1>4, <1>5, <1>6, <2>1
<1>8. Cardinality(1 .. k) = k
  <2> HIDE DEF k
  <2>1. 1 \in Int /\ k \in Int
    BY <1>2, <1>5
  <2>2. Cardinality(1 .. k) = IF 1 > k THEN 0 ELSE k - 1 + 1
    BY <2>1, FS_Interval
  <2> QED  BY <1>2, <1>5, <2>2
<1>9. later = SubSeq(events, 1 + k, n)
  <2> HIDE DEF k
  <2> QED  BY <1>7, <1>8 DEF Later, events, n
<1>10. /\ later \in Seq(Nat)
       /\ Len(later) = n - k
       /\ \A i \in 1 .. Len(later) : later[i] = events[k + i]
  <2> HIDE DEF k, later
  <2>1. \A i \in 1 + k .. n : events[i] \in Nat
    <3>1. \A i \in 1 .. n : events[i] \in Nat
      BY <1>1, ElementOfSeq DEF n, events
    <3> QED  BY <1>2, <1>5, <3>1
  <2>2. 1 + k \in Int /\ n \in Int
    BY <1>2, <1>5
  <2>3. /\ later \in Seq(Nat)
        /\ Len(later) = IF 1 + k <= n THEN n - (1 + k) + 1 ELSE 0
        /\ \A i \in 1 .. n - (1 + k) + 1 : later[i] = events[(1 + k) + i - 1]
    BY <1>9, <2>1, <2>2, SubSeqProperties
  <2>4. Len(later) = n - k
    BY <1>2, <1>5, <2>3
  <2>5. ASSUME NEW i \in 1 .. Len(later) PROVE later[i] = events[k + i]
    <3>1. i \in 1 .. n - (1 + k) + 1 /\ (1 + k) + i - 1 = k + i
      BY <1>2, <1>5, <2>4
    <3> QED  BY <2>3, <3>1
  <2> QED  BY <2>3, <2>4, <2>5
<1>11. n - k = x.sequence - after
  BY <1>1, <1>2
<1>12. ASSUME NEW i \in 1 .. Len(later) PROVE later[i] = after + i
  <2> HIDE DEF later
  <2>1. k + i \in 1 .. n
    <3> HIDE DEF k
    <3> QED  BY <1>2, <1>5, <1>10
  <2>2. later[i] = x.sequence - n + (k + i)
    BY <1>2, <1>10, <2>1
  <2> QED  BY <1>1, <1>2, <2>2
<1> QED  BY <1>10, <1>11, <1>12 DEF later

(* A subscriber is brought to the present, from its cursor or at once. *)
LEMMA SyncedIsWhole ==
  ASSUME NEW x, Executes(x), NEW after \in Nat, after <= x.sequence
  PROVE  Synced(x, after) \in Seq(Nat) /\ Whole(Synced(x, after), x.sequence)
<1> DEFINE later == Later(x.events, after)
           sent == <<after>> \o later
<1>1. x.sequence \in Nat /\ x.events \in Seq(Nat)
  BY DEF Executes, Execution
<1>2. CASE ~Replays(x, after)
  BY <1>1, <1>2 DEF Synced, Whole
<1>3. CASE Replays(x, after)
  <2>1. /\ later \in Seq(Nat)
        /\ Len(later) = x.sequence - after
        /\ \A i \in 1 .. Len(later) : later[i] = after + i
    <3>1. CASE x.events # <<>>
      BY <1>3, <3>1, LaterIsNext
    <3>2. CASE x.events = <<>>
      <4>1. after = x.sequence
        BY <1>1, <1>3, <3>2 DEF Replays
      <4>2. {i \in DOMAIN x.events : x.events[i] <= after} = {}
        BY <3>2
      <4>3. later = SubSeq(<<>>, 1, 0)
        BY <3>2, <4>2, FS_EmptySet DEF Later
      <4>4. later = <<>>
        BY <4>3, SubSeqEmpty
      <4> HIDE DEF later
      <4> QED  BY <1>1, <4>1, <4>4
    <3> QED  BY <3>1, <3>2
  <2> HIDE DEF later
  <2>2. <<after>> \in Seq(Nat) /\ Len(<<after>>) = 1 /\ <<after>>[1] = after
    OBVIOUS
  <2>3. /\ sent \in Seq(Nat) /\ Len(sent) = 1 + Len(later)
        /\ \A i \in 1 .. 1 + Len(later) : sent[i] = IF i <= 1 THEN <<after>>[i] ELSE later[i - 1]
    <3>1. /\ sent \in Seq(Nat)
          /\ Len(sent) = Len(<<after>>) + Len(later)
          /\ \A i \in 1 .. Len(<<after>>) + Len(later) :
               sent[i] = IF i <= Len(<<after>>) THEN <<after>>[i] ELSE later[i - Len(<<after>>)]
      BY <2>1, <2>2, ConcatProperties
    <3> HIDE DEF sent
    <3> QED  BY <2>2, <3>1
  <2> HIDE DEF sent
  <2>4. Len(later) \in Nat
    BY <2>1
  <2>5. sent[1] = after
    BY <2>2, <2>3, <2>4
  <2>6. ASSUME NEW i \in 1 .. Len(sent) PROVE sent[i] = after + i - 1
    <3>1. CASE i = 1
      BY <2>5, <3>1
    <3>2. CASE i # 1
      <4>1. i - 1 \in 1 .. Len(later) /\ i \in 1 .. 1 + Len(later) /\ ~(i <= 1)
        BY <2>3, <2>4, <3>2
      <4>2. sent[i] = later[i - 1] /\ later[i - 1] = after + (i - 1)
        BY <2>1, <2>3, <4>1
      <4> QED  BY <4>1, <4>2
    <3> QED  BY <3>1, <3>2
  <2>7. sent[Len(sent)] = x.sequence
    <3>1. Len(sent) \in 1 .. Len(sent) /\ Len(sent) = 1 + (x.sequence - after)
      BY <2>1, <2>3, <2>4
    <3> QED  BY <1>1, <2>6, <3>1
  <2>8. sent # <<>>
    BY <2>3, <2>4
  <2>9. Whole(sent, x.sequence)
    BY <2>5, <2>6, <2>7, <2>8 DEF Whole
  <2> QED  BY <1>3, <2>3, <2>9 DEF Synced, sent, later
<1> QED  BY <1>2, <1>3

-----------------------------------------------------------------------------
(* Execution: its steps. *)

Served == ExecutionFits /\ CommandsFit /\ StreamsFit

(* The streams of those who stay stay whole. *)
LEMMA StreamsOfFewer ==
  ASSUME ExecutionFits, StreamsFit,
         NEW x, x.subscribers \subseteq execution.subscribers, x.sequence = execution.sequence,
         execution' = x, stream' = Streams(x)
  PROVE  StreamsFit'
<1>1. stream' \in [Clients -> Seq(Nat)]
  BY DEF StreamsFit, Streams
<1>2. ASSUME NEW s \in x.subscribers PROVE Whole(stream'[s.owner], x.sequence)
  <2>1. s \in execution.subscribers /\ s.owner \in Clients
    BY Limits DEF ExecutionFits, Executes, Execution, Subscriber
  <2>2. stream'[s.owner] = stream[s.owner]
    BY <2>1 DEF Streams
  <2> QED  BY <2>1, <2>2 DEF StreamsFit
<1> QED  BY <1>1, <1>2 DEF StreamsFit

(* A result of a key that had none, answered: every answer is still a retained result. *)
LEMMA AnswersKept ==
  ASSUME CommandsFit, NEW a, NEW x, x.entries = execution.entries \cup {a}
  PROVE  answers \cup {a} \subseteq x.entries
BY DEF CommandsFit

LEMMA FreshKept ==
  ASSUME Served, RequestsFit, NEW c \in Clients, request[c].at = "execute",
         Same(execution.entries, request[c].sid, request[c].env) = {},
         HasRoom(execution, request[c].sid, MaxExecutions),
         Fresh(execution, request[c].env), ExecuteNew(c)
  PROVE  Served'
<1> DEFINE r == request[c]
           z == [execution EXCEPT !.revision = @ + 1]
           a == [sid |-> r.sid, env |-> r.env, result |-> "executed"]
           b == [sid |-> r.sid, env |-> r.env]
           y == Retain(z, r, "executed")
<1>1. PICK now \in Times :
        LET x == Publish(y, now)
        IN  /\ execution' = x
            /\ stream' = [d \in Clients |-> IF \E s \in x.subscribers : s.owner = d
                                            THEN Append(stream[d], x.sequence) ELSE <<>>]
            /\ applied' = Append(applied, b)
            /\ answers' = answers \cup {a}
  BY DEF ExecuteNew
<1>2. r.sid \in Sessions /\ r.env \in Envelopes
  BY DEF RequestsFit, CallFits
<1>3. Executes(execution) /\ execution \in Execution /\ execution.revision \in Nat /\ execution.sequence \in Nat
  BY DEF Served, ExecutionFits, Executes, Execution
<1>4. /\ Executes(z)
      /\ z.entries = execution.entries /\ z.counts = execution.counts
      /\ z.revision = execution.revision + 1
      /\ z.sequence = execution.sequence /\ z.subscribers = execution.subscribers
  <2>1. execution.revision + 1 \in Nat
    BY <1>3
  <2>2. z \in Execution
    BY <1>3, <2>1 DEF Execution
  <2>3. /\ z.entries = execution.entries /\ z.counts = execution.counts
        /\ z.revision = execution.revision + 1 /\ z.events = execution.events
        /\ z.sequence = execution.sequence /\ z.subscribers = execution.subscribers
    BY <1>3 DEF Execution
  <2> HIDE DEF z
  <2> QED  BY <1>3, <2>2, <2>3 DEF Executes, EventsAreLast
<1>5. /\ Executes(y)
      /\ y.entries = execution.entries \cup {a}
      /\ y.revision = execution.revision + 1 /\ y.sequence = execution.sequence
      /\ y.subscribers = execution.subscribers
  <2>1. Same(z.entries, r.sid, r.env) = {} /\ HasRoom(z, r.sid, MaxExecutions)
    <3> HIDE DEF z
    <3> QED  BY <1>4 DEF HasRoom
  <2> HIDE DEF z
  <2> QED  BY <1>2, <1>4, <2>1, RetainFits
<1> HIDE DEF z, y
<1> DEFINE x == Publish(y, now)
<1>6. /\ Executes(x)
      /\ x.entries = execution.entries \cup {a} /\ x.revision = execution.revision + 1
      /\ x.sequence = execution.sequence + 1 /\ x.subscribers \subseteq execution.subscribers
  BY <1>5, PublishFits
<1>7. /\ execution' = x
      /\ stream' = [d \in Clients |-> IF \E s \in x.subscribers : s.owner = d
                                      THEN Append(stream[d], x.sequence) ELSE <<>>]
      /\ applied' = Append(applied, b) /\ answers' = answers \cup {a}
  BY <1>1
<1> HIDE DEF x, a
<1>8. ExecutionFits'
  BY <1>6, <1>7 DEF ExecutionFits, Executes, Counted, EventsAreLast
<1>9. CommandsFit'
  <2>1. b \in Receipt /\ b.env = r.env
    BY <1>2 DEF Receipt
  <2>2. applied \in Seq(Receipt) /\ execution.revision = Len(applied)
        /\ \A i \in 1 .. Len(applied) : applied[i].env.revision = i - 1
    BY DEF Served, CommandsFit
  <2>3. r.env.revision = Len(applied)
    BY <2>2 DEF Fresh
  <2> HIDE DEF b
  <2>4. /\ applied' \in Seq(Receipt) /\ Len(applied') = Len(applied) + 1
        /\ \A i \in 1 .. Len(applied) : applied'[i] = applied[i]
        /\ applied'[Len(applied) + 1] = b
    BY <1>7, <2>1, <2>2, AppendProperties
  <2>5. execution'.revision = Len(applied')
    BY <1>6, <1>7, <2>2, <2>4
  <2>6. ASSUME NEW i \in 1 .. Len(applied') PROVE applied'[i].env.revision = i - 1
    <3>1. CASE i \in 1 .. Len(applied)
      BY <2>2, <2>4, <3>1
    <3>2. CASE i = Len(applied) + 1
      <4>1. applied'[i].env.revision = Len(applied)
        BY <2>1, <2>3, <2>4, <3>2
      <4>2. Len(applied) = i - 1
        BY <2>2, <3>2
      <4> QED  BY <4>1, <4>2
    <3>3. i \in 1 .. Len(applied) + 1 /\ Len(applied) \in Nat
      BY <2>2, <2>4
    <3> QED  BY <3>1, <3>2, <3>3
  <2>7. answers' \subseteq execution'.entries
    BY <1>6, <1>7, AnswersKept DEF Served
  <2> QED  BY <2>4, <2>5, <2>6, <2>7 DEF CommandsFit
<1>10. StreamsFit'
  <2>1. x.sequence \in Nat /\ x.sequence = execution.sequence + 1
    BY <1>3, <1>6
  <2>2. \A d \in Clients : stream[d] \in Seq(Nat)
    BY DEF Served, StreamsFit
  <2>3. \A d \in Clients : Append(stream[d], x.sequence) \in Seq(Nat)
    BY <2>1, <2>2, AppendProperties
  <2>4. stream' \in [Clients -> Seq(Nat)]
    BY <1>7, <2>3
  <2>5. ASSUME NEW s \in x.subscribers PROVE Whole(stream'[s.owner], x.sequence)
    <3>1. s \in execution.subscribers /\ s.owner \in Clients
      BY <1>3, <1>6, Limits DEF Execution, Subscriber
    <3>2. stream'[s.owner] = Append(stream[s.owner], x.sequence)
      BY <1>7, <3>1
    <3>3. Whole(stream[s.owner], execution.sequence)
      BY <3>1 DEF Served, StreamsFit
    <3>4. Whole(Append(stream[s.owner], execution.sequence + 1), execution.sequence + 1)
      BY <1>3, <2>2, <3>1, <3>3, WholeGoesOn
    <3> QED  BY <2>1, <3>2, <3>4
  <2> QED  BY <1>7, <2>4, <2>5 DEF StreamsFit, Whole
<1> QED  BY <1>8, <1>9, <1>10 DEF Served

LEMMA StaleKept ==
  ASSUME Served, RequestsFit, NEW c \in Clients, request[c].at = "execute",
         Same(execution.entries, request[c].sid, request[c].env) = {},
         HasRoom(execution, request[c].sid, MaxExecutions),
         ~Fresh(execution, request[c].env), ExecuteNew(c)
  PROVE  Served'
<1> DEFINE r == request[c]
           a == [sid |-> r.sid, env |-> r.env, result |-> "stale"]
           y == Retain(execution, r, "stale")
<1>1. /\ execution' = y /\ answers' = answers \cup {a}
      /\ UNCHANGED <<stream, applied>>
  BY DEF ExecuteNew
<1>2. r.sid \in Sessions /\ r.env \in Envelopes
  BY DEF RequestsFit, CallFits
<1>3. /\ Executes(y)
      /\ y.entries = execution.entries \cup {a}
      /\ y.revision = execution.revision /\ y.sequence = execution.sequence
      /\ y.subscribers = execution.subscribers
  BY <1>2, RetainFits DEF Served, ExecutionFits
<1> HIDE DEF y, a
<1>4. ExecutionFits'
  BY <1>1, <1>3 DEF ExecutionFits, Executes, Counted, EventsAreLast
<1>5. CommandsFit'
  <2>1. answers' \subseteq execution'.entries
    BY <1>1, <1>3, AnswersKept DEF Served
  <2> QED  BY <1>1, <1>3, <2>1 DEF Served, CommandsFit
<1>6. StreamsFit'
  BY <1>1, <1>3 DEF Served, StreamsFit, Whole
<1> QED  BY <1>4, <1>5, <1>6 DEF Served

LEMMA ExecuteKept ==
  ASSUME Served, RequestsFit, NEW c \in Clients, Execute(c)
  PROVE  Served'
<1> DEFINE r == request[c]
           known == Same(execution.entries, r.sid, r.env)
<1>1. r.at = "execute"
  BY DEF Execute
<1>2. CASE /\ answers' = answers \cup {e \in known : e.env = r.env}
           /\ UNCHANGED <<execution, stream, applied>>
  <2>1. answers' \subseteq execution.entries
    BY <1>2 DEF Same, Served, CommandsFit
  <2>2. ExecutionFits' /\ StreamsFit'
    BY <1>2 DEF Served, ExecutionFits, Executes, Counted, EventsAreLast, StreamsFit, Whole
  <2>3. CommandsFit'
    BY <1>2, <2>1 DEF Served, CommandsFit
  <2> QED  BY <2>2, <2>3 DEF Served
<1>3. CASE known = {} /\ HasRoom(execution, r.sid, MaxExecutions) /\ ExecuteNew(c)
  BY <1>1, <1>3, FreshKept, StaleKept
<1>4. CASE UNCHANGED <<execution, stream, applied, answers>>
  BY <1>4 DEF Served, ExecutionFits, Executes, Counted, EventsAreLast, StreamsFit, Whole, CommandsFit
<1> QED  BY <1>2, <1>3, <1>4 DEF Execute

LEMMA SubscribeKept ==
  ASSUME Served, RequestsFit, NEW c \in Clients, Subscribe(c)
  PROVE  Served'
<1> DEFINE r == request[c]
<1>1. r.at = "subscribe" /\ UNCHANGED <<applied, answers>>
  BY DEF Subscribe
<1>2. c \in Channels /\ r.sid \in Sessions /\ r.expires \in Nat /\ r.after \in Nat
  BY <1>1 DEF RequestsFit, CallFits
<1>3. Executes(execution) /\ execution \in Execution
  BY DEF Served, ExecutionFits, Executes
<1>4. PICK now \in Times :
        LET live == {s \in execution.subscribers : s.expires > now}
            room == Cardinality(live) < MaxSubscribers \/ \E s \in live : s.owner = c
            x    == [execution EXCEPT !.subscribers =
                       {s \in live : s.owner # c} \cup {[owner |-> c, sid |-> r.sid, expires |-> r.expires]}]
            y    == [execution EXCEPT !.subscribers = live]
        IN  IF r.after <= execution.sequence /\ room
            THEN execution' = x /\ stream' = [Streams(x) EXCEPT ![c] = Synced(x, r.after)]
            ELSE execution' = y /\ stream' = Streams(y)
  BY DEF Subscribe
<1> DEFINE live == {s \in execution.subscribers : s.expires > now}
           new == [owner |-> c, sid |-> r.sid, expires |-> r.expires]
           others == {s \in live : s.owner # c}
           S == others \cup {new}
           x == [execution EXCEPT !.subscribers = S]
           y == [execution EXCEPT !.subscribers = live]
           room == Cardinality(live) < MaxSubscribers \/ \E s \in live : s.owner = c
<1>5. live \in SUBSET execution.subscribers /\ live \in SUBSET Subscriber
  BY <1>3 DEF Execution
<1>6. IsFiniteSet(live) /\ Cardinality(live) <= MaxSubscribers
  <2>1. IsFiniteSet(execution.subscribers) /\ Cardinality(execution.subscribers) <= MaxSubscribers
    BY <1>3 DEF Executes
  <2> HIDE DEF live
  <2> QED  BY <1>5, <2>1, Limits, NoMore
<1>7. CASE ~(r.after <= execution.sequence /\ room)
  <2>1. execution' = y /\ stream' = Streams(y)
    BY <1>4, <1>7
  <2>2. /\ Executes(y) /\ y.entries = execution.entries /\ y.revision = execution.revision
        /\ y.sequence = execution.sequence /\ y.subscribers = live
    <3> HIDE DEF live
    <3> QED  BY <1>3, <1>5, <1>6, SubscribersFit
  <2> HIDE DEF y, live
  <2>3. StreamsFit'
    BY <1>5, <2>1, <2>2, StreamsOfFewer DEF Served
  <2>4. ExecutionFits'
    BY <2>1, <2>2 DEF ExecutionFits, Executes, Counted, EventsAreLast
  <2>5. CommandsFit'
    BY <1>1, <2>1, <2>2 DEF Served, CommandsFit
  <2> QED  BY <2>3, <2>4, <2>5 DEF Served
<1>8. CASE r.after <= execution.sequence /\ room
  <2>1. execution' = x /\ stream' = [Streams(x) EXCEPT ![c] = Synced(x, r.after)]
    BY <1>4, <1>8
  <2>2. new \in Subscriber /\ new.owner = c
    BY <1>2 DEF Subscriber
  <2>3. IsFiniteSet(S) /\ Cardinality(S) <= MaxSubscribers
    <3>1. others \in SUBSET live
      OBVIOUS
    <3>2. CASE Cardinality(live) < MaxSubscribers
      <4>1. IsFiniteSet(others) /\ Cardinality(others) <= Cardinality(live)
        BY <1>6, <3>1, FS_Subset
      <4>2. Cardinality(others) \in Nat /\ Cardinality(live) \in Nat
        BY <1>6, <4>1, FS_CardinalityType
      <4> HIDE DEF others, new, live
      <4>3. Cardinality(others) < MaxSubscribers
        BY <3>2, <4>1, <4>2, Limits
      <4> QED  BY <4>1, <4>3, Limits, OneMore
    <3>3. CASE \E s \in live : s.owner = c
      <4>1. PICK s \in live : s.owner = c
        BY <3>3
      <4>2. others \in SUBSET (live \ {s})
        BY <4>1
      <4> HIDE DEF others, new, live
      <4> QED  BY <1>6, <4>2, Limits, AsMany
    <3> QED  BY <1>8, <3>2, <3>3
  <2>4. S \in SUBSET Subscriber
    BY <1>5, <2>2
  <2>5. /\ Executes(x) /\ x.entries = execution.entries /\ x.revision = execution.revision
        /\ x.sequence = execution.sequence /\ x.subscribers = S
    <3> HIDE DEF S
    <3> QED  BY <1>3, <2>3, <2>4, SubscribersFit
  <2> HIDE DEF x
  <2>6. Synced(x, r.after) \in Seq(Nat) /\ Whole(Synced(x, r.after), x.sequence)
    BY <1>2, <1>8, <2>5, SyncedIsWhole
  <2>7. Streams(x) \in [Clients -> Seq(Nat)]
    BY DEF Streams, Served, StreamsFit
  <2>8. stream' \in [Clients -> Seq(Nat)] /\ stream'[c] = Synced(x, r.after)
        /\ \A d \in Clients : d # c => stream'[d] = Streams(x)[d]
    BY <2>1, <2>6, <2>7
  <2>9. ASSUME NEW s \in S PROVE Whole(stream'[s.owner], x.sequence)
    <3>1. CASE s.owner = c
      BY <2>6, <2>8, <3>1
    <3>2. CASE s.owner # c
      <4>1. s \in execution.subscribers /\ s.owner \in Clients
        BY <2>2, <2>4, <3>2, Limits DEF Subscriber
      <4>2. stream'[s.owner] = stream[s.owner]
        BY <2>5, <2>8, <3>2, <4>1 DEF Streams
      <4>3. Whole(stream[s.owner], execution.sequence)
        BY <4>1 DEF Served, StreamsFit
      <4> QED  BY <2>5, <4>2, <4>3
    <3> QED  BY <3>1, <3>2
  <2> HIDE DEF S
  <2>10. StreamsFit'
    BY <2>1, <2>5, <2>8, <2>9 DEF StreamsFit, Whole
  <2>11. ExecutionFits'
    BY <2>1, <2>5 DEF ExecutionFits, Executes, Counted, EventsAreLast
  <2>12. CommandsFit'
    BY <1>1, <2>1, <2>5 DEF Served, CommandsFit
  <2> QED  BY <2>10, <2>11, <2>12 DEF Served
<1> QED  BY <1>7, <1>8

LEMMA LeaveKept ==
  ASSUME Served, NEW c \in Clients, Leave(c)
  PROVE  Served'
<1> DEFINE left == {s \in execution.subscribers : s.owner # c}
           x == [execution EXCEPT !.subscribers = left]
<1>1. execution' = x /\ stream' = [stream EXCEPT ![c] = <<>>] /\ UNCHANGED <<applied, answers>>
  BY DEF Leave
<1>2. Executes(execution) /\ execution \in Execution
  BY DEF Served, ExecutionFits, Executes
<1>3. left \in SUBSET execution.subscribers /\ left \in SUBSET Subscriber
  BY <1>2 DEF Execution
<1>4. IsFiniteSet(left) /\ Cardinality(left) <= MaxSubscribers
  BY <1>2, <1>3, Limits, NoMore DEF Executes
<1>5. /\ Executes(x) /\ x.entries = execution.entries /\ x.revision = execution.revision
      /\ x.sequence = execution.sequence /\ x.subscribers = left
  <2> HIDE DEF left
  <2> QED  BY <1>2, <1>3, <1>4, SubscribersFit
<1> HIDE DEF x
<1>6. stream' \in [Clients -> Seq(Nat)]
  BY <1>1 DEF Served, StreamsFit
<1>7. ASSUME NEW s \in left PROVE Whole(stream'[s.owner], x.sequence)
  <2>1. s \in execution.subscribers /\ s.owner \in Clients /\ s.owner # c
    BY <1>3, Limits DEF Subscriber
  <2>2. stream'[s.owner] = stream[s.owner]
    BY <1>1, <2>1 DEF Served, StreamsFit
  <2> QED  BY <1>5, <2>1, <2>2 DEF Served, StreamsFit
<1> HIDE DEF left
<1>8. StreamsFit'
  BY <1>1, <1>5, <1>6, <1>7 DEF StreamsFit, Whole
<1>9. ExecutionFits'
  BY <1>1, <1>5 DEF ExecutionFits, Executes, Counted, EventsAreLast
<1>10. CommandsFit'
  BY <1>1, <1>5 DEF Served, CommandsFit
<1> QED  BY <1>8, <1>9, <1>10 DEF Served

LEMMA RevokeExecutionKept ==
  ASSUME Served, RequestsFit, NEW c \in Clients, RevokeExecution(c)
  PROVE  Served'
<1> DEFINE sid == request[c].sid
           x == [Forgets(execution, sid) EXCEPT !.subscribers = {s \in @ : s.sid # sid}]
<1>1. /\ execution' = x /\ stream' = Streams(x) /\ UNCHANGED applied
      /\ answers' = {a \in answers : a.sid # sid}
  BY DEF RevokeExecution
<1>2. sid \in Sessions
  BY DEF RequestsFit, CallFits, RevokeExecution
<1>3. /\ Executes(x) /\ x.entries = {e \in execution.entries : e.sid # sid}
      /\ x.revision = execution.revision /\ x.sequence = execution.sequence
      /\ x.subscribers \subseteq execution.subscribers
  <2> HIDE DEF sid
  <2> QED  BY <1>2, ForgetsFits DEF Served, ExecutionFits
<1> HIDE DEF x
<1>4. StreamsFit'
  BY <1>1, <1>3, StreamsOfFewer DEF Served
<1>5. ExecutionFits'
  BY <1>1, <1>3 DEF ExecutionFits, Executes, Counted, EventsAreLast
<1>6. CommandsFit'
  BY <1>1, <1>3 DEF Served, CommandsFit
<1> QED  BY <1>4, <1>5, <1>6 DEF Served

(* The servers as they start, and the execution server after a reset. *)
LEMMA ServedAtFirst ==
  ASSUME execution = NoExecution, stream = [d \in Clients |-> <<>>], applied = <<>>, answers = {}
  PROVE  Served
<1>1. ExecutionFits
  BY NoExecutionFits DEF ExecutionFits
<1>2. CommandsFit
  BY NoExecutionFits DEF CommandsFit
<1>3. StreamsFit
  BY NoExecutionFits DEF StreamsFit
<1> QED  BY <1>1, <1>2, <1>3 DEF Served

LEMMA ResetExecutionKept ==
  ASSUME NEW c \in Clients, ResetExecution(c)
  PROVE  Served'
<1>1. execution' = NoExecution /\ stream' = [d \in Clients |-> <<>>] /\ applied' = <<>> /\ answers' = {}
  BY DEF ResetExecution
<1>2. ExecutionFits'
  BY <1>1, NoExecutionFits DEF ExecutionFits, Executes, Counted, EventsAreLast
<1>3. CommandsFit'
  BY <1>1, NoExecutionFits DEF CommandsFit
<1>4. StreamsFit'
  BY <1>1, NoExecutionFits DEF StreamsFit
<1> QED  BY <1>2, <1>3, <1>4 DEF Served

LEMMA ServedKept ==
  ASSUME Served, RequestsFit, [Next]_vars
  PROVE  Served'
<1>1. CASE UNCHANGED <<execution, stream, applied, answers>>
  BY <1>1 DEF Served, ExecutionFits, Executes, Counted, EventsAreLast, CommandsFit, StreamsFit, Whole
<1>2. ASSUME NEW c \in Clients,
             \/ Execute(c) \/ Subscribe(c) \/ Leave(c) \/ RevokeExecution(c) \/ ResetExecution(c)
      PROVE  Served'
  BY <1>2, ExecuteKept, SubscribeKept, LeaveKept, RevokeExecutionKept, ResetExecutionKept
<1>3. ASSUME NEW c \in Clients,
             \/ StartExecute(c) \/ StartSubscribe(c) \/ Admit(c) \/ Die(c) \/ RevokeAdmission(c)
             \/ RevokeSession(c) \/ ResetRegistry(c) \/ ResetAdmission(c)
      PROVE  UNCHANGED <<execution, stream, applied, answers>>
  BY <1>3 DEF StartExecute, StartSubscribe, Authorized, Admit, Die, RevokeAdmission, RevokeSession,
     ResetRegistry, ResetAdmission, servers, history
<1>4. CASE Rotate \/ Refuse \/ Tick \/ \E subject \in Granted \cup Denied : Issue(subject)
  BY <1>1, <1>4 DEF Rotate, Refuse, Tick, Issue, servers, history
<1>5. CASE UNCHANGED vars
  BY <1>1, <1>5 DEF vars, servers, history
<1> QED  BY <1>1, <1>2, <1>3, <1>4, <1>5 DEF Next

-----------------------------------------------------------------------------
(* The invariant and what follows from it. *)

LEMMA InvAtFirst == Init => Inv
<1> SUFFICES ASSUME Init PROVE Inv
  OBVIOUS
<1>1. RegistryFits
  <2>1. registry = [sessions |-> {}, drawn |-> {}]
    BY DEF Init
  <2>2. registry \in Registry /\ registry.sessions = {}
    BY <2>1 DEF Registry
  <2> QED  BY <2>2, FS_EmptySet, Limits DEF RegistryFits
<1>2. AdmissionFits
  <2>1. admission = [entries |-> {}, counts |-> NoCounts]
    BY DEF Init, NoAdmission
  <2>2. admission \in Admission /\ admission.entries = {} /\ admission.counts = NoCounts
    BY <2>1 DEF Admission, NoCounts
  <2> QED  BY <2>2, CountedNone, FS_EmptySet, Limits DEF AdmissionFits
<1>3. Served
  BY ServedAtFirst DEF Init
<1>4. RequestsFit
  BY DEF Init, RequestsFit, CallFits, Idle
<1>5. ClockFits
  BY Limits DEF Init, ClockFits
<1> QED  BY <1>1, <1>2, <1>3, <1>4, <1>5 DEF Inv, Served

LEMMA InvKept == Inv /\ [Next]_vars => Inv'
BY RegistryKept, AdmissionKept, RequestsKept, ClockKept, ServedKept DEF Inv, Served

LEMMA InvAlways == Spec => []Inv
BY InvAtFirst, InvKept, PTL DEF Spec

(* The servers stay within their limits, and a count is that of the records it counts, through
   replays, refusals, log-outs and resets (require_capacity/2, retain/4, revoke_session). *)
THEOREM CapacityIsAlwaysTrue == Spec => []CapacityIsTrue
<1>1. ASSUME Inv PROVE CapacityIsTrue
  <2>1. TypeOK
    <3>1. registry.drawn \subseteq Sessions
      BY <1>1 DEF Inv, RegistryFits, Registry
    <3>2. \A s \in execution.subscribers : s.owner \in Channels
      BY <1>1 DEF Inv, ExecutionFits, Executes, Execution, Subscriber
    <3> QED  BY <1>1, <3>1, <3>2 DEF TypeOK, Inv, RegistryFits, AdmissionFits, ExecutionFits,
             Executes, EventsAreLast, ClockFits
  <2>2. CountsMatch
    <3>1. Counted(admission.entries, admission.counts) /\ Counted(execution.entries, execution.counts)
      BY <1>1 DEF Inv, AdmissionFits, ExecutionFits, Executes
    <3> QED  BY <3>1 DEF CountsMatch, Counted
  <2> QED  BY <2>1, <2>2 DEF CapacityIsTrue
<1> QED  BY <1>1, InvAlways, PTL

(* A command changes the counter once, and whoever sends it again is answered the same, through
   however many concurrent requests it is sent (execute/4 after admit/4). *)
THEOREM CommandsAlwaysIdempotent == Spec => []CommandsAreIdempotent
<1>1. ASSUME Inv PROVE CommandsAreIdempotent
  <2>1. MutatesOnce
    <3>1. \A i \in 1 .. Len(applied) : applied[i].env.revision = i - 1
      BY <1>1 DEF Inv, CommandsFit
    <3>2. DOMAIN applied = 1 .. Len(applied)
      BY <1>1 DEF Inv, CommandsFit
    <3>3. ASSUME NEW i \in 1 .. Len(applied), NEW j \in 1 .. Len(applied), applied[i] = applied[j]
          PROVE  i = j
      <4>1. i - 1 = j - 1
        BY <3>1, <3>3
      <4> QED  BY <4>1
    <3> QED  BY <3>2, <3>3 DEF MutatesOnce
  <2>2. OneAnswer
    BY <1>1 DEF OneAnswer, Inv, CommandsFit, ExecutionFits, Executes, Counted
  <2> QED  BY <2>1, <2>2 DEF CommandsAreIdempotent
<1> QED  BY <1>1, InvAlways, PTL

(* A subscriber is sent every event after the cursor it is brought to, once and in order
   (subscribe, sync/2, publish/3). *)
THEOREM StreamIsAlwaysWhole == Spec => []StreamIsWhole
<1>1. ASSUME Inv PROVE StreamIsWhole
  <2>1. ASSUME NEW s \in execution.subscribers
        PROVE  LET sent == stream[s.owner]
               IN  /\ sent # <<>> /\ Last(sent) = execution.sequence
                   /\ \A i \in DOMAIN sent : sent[i] = sent[1] + i - 1
    <3>1. Whole(stream[s.owner], execution.sequence)
      BY <1>1 DEF Inv, StreamsFit
    <3>2. s.owner \in Clients
      BY <1>1, Limits DEF Inv, ExecutionFits, Executes, Execution, Subscriber
    <3>3. DOMAIN stream[s.owner] = 1 .. Len(stream[s.owner])
      BY <1>1, <3>2 DEF Inv, StreamsFit
    <3> QED  BY <3>1, <3>3 DEF Whole, Last
  <2> QED  BY <2>1 DEF StreamIsWhole
<1> QED  BY <1>1, InvAlways, PTL

=============================================================================
