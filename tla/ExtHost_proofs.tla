---------------------------- MODULE ExtHost_proofs ----------------------------
(***************************************************************************)
(* What the extension host promises, for any number of extensions and      *)
(* requests, any capacity of the queue and the action buffer, and any      *)
(* scene.  Each promise rests on an inductive invariant of its own, over   *)
(* the variables it is about.                                              *)
(***************************************************************************)
EXTENDS ExtHost, FiniteSetTheorems, TLAPS

Stands == {"top", "hello", "earlier", "bound?", "announce", "start", "reading", "stop", "fail", "backoff", "gone"}
Offers == {"no", "first", "later"}
Holders == {"nobody", "supervisor", "fanOut", "command"}
States == {"starting", "ready", "degraded", "crashed", "disabled"}

\* A queue q holds the last of the events given, in order, never more than
\* fit, and with room for the one whose enqueue has popped; of the lost ones
\* each is counted.
Keeps(q, given, took, drops, popped) ==
  /\ q \in Seq(Nat) /\ Len(q) <= QueueCap
  /\ popped => Len(q) < QueueCap
  /\ \A k \in 1 .. Len(q) : q[k] = given - Len(q) + k
  /\ given - Len(q) - took <= drops + (IF popped THEN 1 ELSE 0)
QueueInv ==
  /\ queue \in [Exts -> Seq(Nat)]
  /\ {enqueued, taken, queueDrops} \subseteq [Exts -> Nat]
  /\ enqueuing \in [Exts -> [by : Holders, popped : BOOLEAN]]
  /\ \A e \in Exts : enqueuing[e].by = "nobody" => ~enqueuing[e].popped
  /\ \A e \in Exts : Keeps(queue[e], enqueued[e], taken[e], queueDrops[e], enqueuing[e].popped)

\* A tool goes to an extension only when every earlier one is settled, and a
\* settled one offers nothing in a first hello unless it has been adopted.
FirstHellos ==
  /\ \A e \in Exts : offered[e] = "first" => adopted[e] \/ (sup[e] = "earlier" /\ ~settled[e])
  /\ \A e \in Exts : adopted[e] /\ offered[e] # "no" => owner # 0
OwnerInv ==
  /\ sup \in [Exts -> Stands] /\ offered \in [Exts -> Offers] /\ owner \in Nat /\ ctxDone \in BOOLEAN
  /\ settled \in [Exts -> BOOLEAN] /\ adopted \in [Exts -> BOOLEAN]
  /\ FirstHellos
  /\ ~ctxDone => \A d, e \in Exts : owner = e /\ d < e => settled[d] /\ offered[d] # "first"

\* Whoever reads has been told of the session, or Bind is still to come by;
\* an enqueue under way is on behalf of a caller that waits for it.
Fans == [kind : {"idle", "session_start", "event"}, next : Exts, at : {"look", "put"}]
Callers ==
  \A e \in Exts : /\ enqueuing[e].by = "supervisor" => sup[e] = "announce"
                  /\ enqueuing[e].by = "fanOut" => fan.at = "put" /\ fan.next = e
Serving == {"bound?", "announce", "start", "reading"}
BindInv ==
  /\ sup \in [Exts -> Stands] /\ state \in [Exts -> States] /\ announced \in [Exts -> BOOLEAN]
  /\ fan \in Fans
  /\ enqueuing \in [Exts -> [by : Holders, popped : BOOLEAN]] /\ Callers
  /\ api \in BOOLEAN /\ binding \in {"no", "flush", "announce", "done"}
  /\ (binding = "no") <=> ~api
  /\ fan.kind = "idle" => fan = Idle
  /\ (fan.kind = "session_start") <=> (binding = "announce")
  /\ fan.kind = "event" => binding = "done"
  /\ \A e \in Exts : sup[e] \in Serving => state[e] \in {"ready", "degraded"}
  /\ \A e \in Exts : sup[e] \in {"start", "reading"} /\ (binding = "done" \/ (binding = "announce" /\ e < fan.next)) => announced[e]

ActsInv ==
  /\ acts \in Nat /\ {ran, actBuf, flushing} \subseteq Seq(Nat) /\ IsFiniteSet(dropped)
  /\ api \in BOOLEAN
  /\ binding = "no" => ~api /\ flushing = <<>>
  /\ ActionsKept

Replies == [kind : {"none", "pass", "mutate", "block", "gone"}, of : Reqs \cup {0}]
Places == {"none", "look", "picked", "ready", "waiting", "blocked", "done", "aborted"}
Slot == [id : Nat, req : Reqs]
Calls == [kind : {"none", "gate", "tool"}, st : Places, ext : Exts, inc : Nat, id : Nat, args : Nat]

RequestTypes ==
  /\ req \in [Reqs -> Calls]
  /\ chan \in [Reqs -> Replies]
  /\ pending \in [Exts -> SUBSET Slot] /\ inbox \in [Exts -> SUBSET Slot]
  /\ nextID \in [Exts -> Nat] /\ inc \in [Exts -> Nat] /\ proc \in [Exts -> Nat]
  /\ alive \in [Exts -> BOOLEAN] /\ sup \in [Exts -> Stands]
  /\ owner \in 0 .. N

\* e.proc is the incarnation that runs, and is nil once it is stopped.
Procs == \A e \in Exts : /\ proc[e] \in {0, inc[e]}
                         /\ alive[e] => proc[e] = inc[e]
                         /\ sup[e] \in {"top", "backoff", "gone", "fail"} => proc[e] = 0

\* An id names one request, and a pending slot a request that waits.
Slots == \A e \in Exts :
  /\ \A m \in pending[e] \cup inbox[e] : m.id <= nextID[e]
  /\ \A p \in pending[e], m \in pending[e] \cup inbox[e] : p.id = m.id => p.req = m.req
  /\ \A p \in pending[e] : /\ req[p.req].st = "waiting" /\ req[p.req].ext = e /\ req[p.req].id = p.id
                           /\ chan[p.req] = NoReply

\* A request that speaks to a process has read e.proc, and its id is its own.
Spoken == \A r \in Reqs :
  /\ req[r].st \in {"ready", "waiting"} => req[r].inc > 0
  /\ req[r].st = "waiting" => /\ req[r].id <= nextID[req[r].ext]
                              /\ \A p \in pending[req[r].ext] : p.id = req[r].id => p.req = r

RequestInv == RequestTypes /\ Procs /\ Slots /\ Spoken /\ AnswersOwnRequest /\ NoRequestStranded
----------------------------------------------------------------------------
(* The event queues                                                        *)

\* An event added where there is room comes after the others; a pop that
\* found the queue full, or that found nothing, only counts too many.
LEMMA AddedKeeps ==
  ASSUME NEW q, NEW given \in Nat, NEW took \in Nat, NEW drops \in Nat, NEW popped \in BOOLEAN,
         Keeps(q, given, took, drops, popped), Len(q) < QueueCap
  PROVE  Keeps(Append(q, given + 1), given + 1, took, IF popped THEN drops + 1 ELSE drops, FALSE)
<1> DEFINE n == Len(q)
           a == Append(q, given + 1)
<1>1. /\ q \in Seq(Nat) /\ n \in Nat /\ QueueCap \in Nat /\ n < QueueCap
      /\ \A k \in 1 .. n : q[k] = given - n + k
      /\ given - n - took <= drops + (IF popped THEN 1 ELSE 0)
  BY ConstantsAssumption DEF Keeps
<1>2. /\ a \in Seq(Nat) /\ Len(a) = n + 1 /\ a[n + 1] = given + 1
      /\ \A k \in 1 .. n : a[k] = q[k]
  BY <1>1
<1> HIDE DEF a
<1>3. ASSUME NEW k \in 1 .. Len(a) PROVE a[k] = (given + 1) - Len(a) + k
  <2>1. k \in Int /\ (k \in 1 .. n \/ k = n + 1)
    BY <1>1, <1>2
  <2>2. CASE k \in 1 .. n
    <3>1. a[k] = given - n + k
      BY <1>1, <1>2, <2>2
    <3> QED
      BY <1>1, <1>2, <2>1, <3>1
  <2>3. CASE k = n + 1
    <3>1. a[k] = given + 1
      BY <1>2, <2>3
    <3> QED
      BY <1>1, <1>2, <2>3, <3>1
  <2> QED
    BY <2>1, <2>2, <2>3
<1>4. Len(a) <= QueueCap /\ (given + 1) - Len(a) - took <= (IF popped THEN drops + 1 ELSE drops)
  BY <1>1, <1>2
<1> QED
  BY <1>2, <1>3, <1>4 DEF Keeps, a

\* Without its oldest event a queue still ends with the newest ones.
LEMMA TailKeeps ==
  ASSUME NEW q, NEW given \in Nat, NEW took \in Nat, NEW drops \in Nat, NEW popped \in BOOLEAN,
         Keeps(q, given, took, drops, popped), q # <<>>
  PROVE  /\ Keeps(Tail(q), given, took + 1, drops, popped)
         /\ ~popped => Keeps(Tail(q), given, took, drops, TRUE)
<1> DEFINE n == Len(q)
           t == Tail(q)
<1>1. /\ q \in Seq(Nat) /\ n \in Nat /\ QueueCap \in Nat /\ n <= QueueCap
      /\ \A k \in 1 .. n : q[k] = given - n + k
      /\ given - n - took <= drops + (IF popped THEN 1 ELSE 0)
  BY ConstantsAssumption DEF Keeps
<1>2. /\ t \in Seq(Nat) /\ Len(t) = n - 1 /\ n > 0
      /\ \A k \in 1 .. n - 1 : t[k] = q[k + 1]
  BY <1>1
<1> HIDE DEF t
<1>3. ASSUME NEW k \in 1 .. Len(t) PROVE t[k] = given - Len(t) + k
  <2>1. k \in Int /\ k \in 1 .. n - 1 /\ k + 1 \in 1 .. n
    BY <1>1, <1>2
  <2>2. t[k] = given - n + (k + 1)
    BY <1>1, <1>2, <2>1
  <2> QED
    BY <1>1, <1>2, <2>1, <2>2
<1>4. /\ Len(t) < QueueCap
      /\ given - Len(t) - (took + 1) <= drops + (IF popped THEN 1 ELSE 0)
      /\ ~popped => given - Len(t) - took <= drops + 1
  BY <1>1, <1>2
<1>5. \A k \in 1 .. Len(t) : t[k] = given - Len(t) + k
  BY <1>3
<1>6. Len(t) <= QueueCap
  BY <1>1, <1>2
<1>7. Keeps(t, given, took + 1, drops, popped)
  BY <1>2, <1>4, <1>5, <1>6 DEF Keeps
<1>8. ~popped => Keeps(t, given, took, drops, TRUE)
  BY <1>2, <1>4, <1>5, <1>6 DEF Keeps
<1> QED
  BY <1>7, <1>8 DEF t

\* The enqueues and the drains are what touches a queue and its counts.
LEMMA QueueMoves ==
  ASSUME Step
  PROVE  \/ UNCHANGED channel
         \/ \E e \in Exts : \/ \E i \in Incs : DrainTakes(e, i)
                           \/ \E by \in {"supervisor", "fanOut", "command"} : TrySend(e, by)
                           \/ PopOldest(e) \/ PushNewest(e)
<1>1. ASSUME NEW e \in Exts, Supervise(e)
      PROVE  UNCHANGED channel
  BY <1>1 DEF Supervise, Leave, Spawn, Hello, BecomeReady, LookBound, StartReading, ReadEnds, StopProc, AfterRun, Restart, HelloFails, events
<1>2. ASSUME NEW e \in Exts, Enqueue(e) \/ DispatchCommand(e)
      PROVE  \E by \in {"supervisor", "fanOut", "command"} : TrySend(e, by)
  BY <1>2 DEF Enqueue, DispatchCommand
<1>3. ASSUME NEW e \in Exts, SpawnFails(e) \/ Exit(e) \/ Kill(e) \/ Misbehaves(e) \/ ClosesOutput(e) \/ Answer(e) \/ Act(e)
      PROVE  UNCHANGED channel
  BY <1>3 DEF SpawnFails, Exit, Kill, Misbehaves, ClosesOutput, Answer, Act, events
<1>4. ASSUME NEW e \in Exts, NEW i \in Incs, DrainSends(e, i) \/ DrainStops(e, i)
      PROVE  UNCHANGED channel
  BY <1>4 DEF DrainSends, DrainStops, events
<1>5. ASSUME NEW r \in Reqs, Request(r) PROVE UNCHANGED channel
  BY <1>5 DEF Request, Begin, Look, ReadProc, Send, TakeReply, TimeOut, AbortWait, events
<1>6. ASSUME Bind \/ Flush \/ PumpTakes \/ FanOut \/ Close \/ CloseReturns PROVE UNCHANGED channel
  BY <1>6 DEF Bind, Flush, PumpTakes, FanOut, Close, CloseReturns, events
<1> QED
  BY <1>1, <1>2, <1>3, <1>4, <1>5, <1>6 DEF Step

\* A step touches one queue and keeps it.
LEMMA OneQueueMoves ==
  ASSUME QueueInv, NEW e \in Exts,
         queue' \in [Exts -> Seq(Nat)], {enqueued', taken', queueDrops'} \subseteq [Exts -> Nat],
         enqueuing' \in [Exts -> [by : Holders, popped : BOOLEAN]],
         \A f \in Exts : f # e => /\ queue'[f] = queue[f] /\ enqueued'[f] = enqueued[f] /\ taken'[f] = taken[f]
                                /\ queueDrops'[f] = queueDrops[f] /\ enqueuing'[f] = enqueuing[f],
         enqueuing'[e].by = "nobody" => ~enqueuing'[e].popped,
         Keeps(queue'[e], enqueued'[e], taken'[e], queueDrops'[e], enqueuing'[e].popped)
  PROVE  QueueInv'
<1>1. ASSUME NEW f \in Exts
      PROVE  /\ enqueuing'[f].by = "nobody" => ~enqueuing'[f].popped
             /\ Keeps(queue'[f], enqueued'[f], taken'[f], queueDrops'[f], enqueuing'[f].popped)
  <2>1. CASE f = e
    BY <2>1
  <2>2. CASE f # e
    BY <2>2 DEF QueueInv
  <2> QED
    BY <2>1, <2>2
<1> QED
  BY <1>1 DEF QueueInv, Keeps

LEMMA EnqueueKeepsQueue ==
  ASSUME QueueInv, NEW e \in Exts,
         \/ \E by \in {"supervisor", "fanOut", "command"} : TrySend(e, by)
         \/ PopOldest(e) \/ PushNewest(e)
  PROVE  QueueInv'
<1> DEFINE popped == enqueuing[e].popped
<1>1. /\ enqueued[e] \in Nat /\ taken[e] \in Nat /\ queueDrops[e] \in Nat /\ popped \in BOOLEAN
      /\ queue[e] \in Seq(Nat) /\ Len(queue[e]) \in Nat /\ QueueCap \in Nat \ {0}
      /\ enqueuing[e].by = "nobody" => ~popped
      /\ Keeps(queue[e], enqueued[e], taken[e], queueDrops[e], popped)
  BY ConstantsAssumption DEF QueueInv
<1>2. /\ queue \in [Exts -> Seq(Nat)] /\ {enqueued, taken, queueDrops} \subseteq [Exts -> Nat]
      /\ enqueuing \in [Exts -> [by : Holders, popped : BOOLEAN]]
  BY DEF QueueInv
<1>3. ASSUME NEW by \in {"supervisor", "fanOut", "command"}, TrySend(e, by) PROVE QueueInv'
  <2>1. ~popped /\ enqueuing[e] = Nobody
    BY <1>3 DEF TrySend, Locked, Nobody
  <2>2. CASE Len(queue[e]) < QueueCap
    <3>1. Keeps(Append(queue[e], enqueued[e] + 1), enqueued[e] + 1, taken[e], queueDrops[e], FALSE)
      BY <1>1, <2>1, <2>2, AddedKeeps
    <3>2. /\ queue' = [queue EXCEPT ![e] = Append(@, enqueued[e] + 1)]
          /\ enqueued' = [enqueued EXCEPT ![e] = @ + 1]
          /\ taken' = taken /\ queueDrops' = queueDrops /\ enqueuing' = enqueuing
      BY <1>1, <1>3, <2>2 DEF TrySend, Given
    <3>3. Append(queue[e], enqueued[e] + 1) \in Seq(Nat) /\ enqueued[e] + 1 \in Nat
      BY <1>1
    <3>4. /\ queue' \in [Exts -> Seq(Nat)] /\ enqueued' \in [Exts -> Nat]
          /\ queue'[e] = Append(queue[e], enqueued[e] + 1) /\ enqueued'[e] = enqueued[e] + 1
          /\ \A f \in Exts : f # e => queue'[f] = queue[f] /\ enqueued'[f] = enqueued[f]
      BY <1>2, <3>2, <3>3
    <3>5. /\ Keeps(queue'[e], enqueued'[e], taken'[e], queueDrops'[e], FALSE)
          /\ enqueuing'[e] = Nobody /\ Nobody.popped = FALSE
      <4>1. taken'[e] = taken[e] /\ queueDrops'[e] = queueDrops[e] /\ enqueuing'[e] = Nobody
        BY <2>1, <3>2
      <4> QED
        BY <3>1, <3>4, <4>1 DEF Nobody
    <3> QED
      BY <1>2, <3>2, <3>4, <3>5, OneQueueMoves
  <2>3. CASE ~(Len(queue[e]) < QueueCap)
    <3>1. /\ queue' = queue /\ enqueued' = enqueued /\ taken' = taken /\ queueDrops' = queueDrops
          /\ enqueuing' = [enqueuing EXCEPT ![e] = [by |-> by, popped |-> FALSE]]
      BY <1>1, <1>3, <2>3 DEF TrySend
    <3>2. /\ enqueuing' \in [Exts -> [by : Holders, popped : BOOLEAN]] /\ ~enqueuing'[e].popped
          /\ \A f \in Exts : f # e => enqueuing'[f] = enqueuing[f]
      BY <1>2, <3>1 DEF Holders
    <3>3. Keeps(queue'[e], enqueued'[e], taken'[e], queueDrops'[e], enqueuing'[e].popped)
      BY <1>1, <2>1, <3>1, <3>2
    <3> QED
      BY <1>2, <3>1, <3>2, <3>3, OneQueueMoves
  <2> QED
    BY <2>2, <2>3
<1>4. ASSUME PopOldest(e) PROVE QueueInv'
  <2> DEFINE q == IF queue[e] = <<>> THEN queue[e] ELSE Tail(queue[e])
  <2>1. /\ queue' = [queue EXCEPT ![e] = q] /\ enqueued' = enqueued /\ taken' = taken /\ queueDrops' = queueDrops
        /\ enqueuing' = [enqueuing EXCEPT ![e].popped = TRUE]
        /\ ~popped /\ enqueuing[e].by # "nobody"
    BY <1>4 DEF PopOldest
  <2>2. Keeps(q, enqueued[e], taken[e], queueDrops[e], TRUE)
    <3>1. CASE queue[e] = <<>>
      BY <1>1, <2>1, <3>1 DEF Keeps
    <3>2. CASE queue[e] # <<>>
      <4>1. /\ Keeps(Tail(queue[e]), enqueued[e], taken[e] + 1, queueDrops[e], popped)
            /\ ~popped => Keeps(Tail(queue[e]), enqueued[e], taken[e], queueDrops[e], TRUE)
        BY <1>1, <3>2, TailKeeps
      <4> QED
        BY <2>1, <3>2, <4>1
    <3> QED
      BY <3>1, <3>2
  <2>3. q \in Seq(Nat)
    BY <2>2 DEF Keeps
  <2> HIDE DEF q
  <2>4. /\ queue' \in [Exts -> Seq(Nat)] /\ enqueuing' \in [Exts -> [by : Holders, popped : BOOLEAN]]
        /\ queue'[e] = q /\ enqueuing'[e].popped = TRUE /\ enqueuing'[e].by = enqueuing[e].by
        /\ \A f \in Exts : f # e => queue'[f] = queue[f] /\ enqueuing'[f] = enqueuing[f]
    BY <1>2, <2>1, <2>3
  <2>5. /\ Keeps(queue'[e], enqueued'[e], taken'[e], queueDrops'[e], enqueuing'[e].popped)
        /\ enqueuing'[e].by = "nobody" => ~enqueuing'[e].popped
    BY <2>1, <2>2, <2>4
  <2> QED
    BY <1>2, <2>1, <2>4, <2>5, OneQueueMoves
<1>5. ASSUME PushNewest(e) PROVE QueueInv'
  <2>1. popped /\ Len(queue[e]) < QueueCap
    BY <1>1, <1>5 DEF PushNewest, Keeps
  <2>2. /\ queue' = [queue EXCEPT ![e] = Append(@, enqueued[e] + 1)]
        /\ enqueued' = [enqueued EXCEPT ![e] = @ + 1]
        /\ taken' = taken /\ queueDrops' = [queueDrops EXCEPT ![e] = @ + 1]
        /\ enqueuing' = [enqueuing EXCEPT ![e] = Nobody]
    BY <1>2, <1>5, <2>1 DEF PushNewest, Given
  <2>3. Keeps(Append(queue[e], enqueued[e] + 1), enqueued[e] + 1, taken[e], queueDrops[e] + 1, FALSE)
    BY <1>1, <2>1, AddedKeeps
  <2>4. Append(queue[e], enqueued[e] + 1) \in Seq(Nat) /\ enqueued[e] + 1 \in Nat /\ queueDrops[e] + 1 \in Nat
        /\ Nobody \in [by : Holders, popped : BOOLEAN] /\ ~Nobody.popped
    BY <1>1 DEF Nobody, Holders
  <2>5. /\ queue' \in [Exts -> Seq(Nat)] /\ enqueued' \in [Exts -> Nat] /\ queueDrops' \in [Exts -> Nat]
        /\ enqueuing' \in [Exts -> [by : Holders, popped : BOOLEAN]]
        /\ queue'[e] = Append(queue[e], enqueued[e] + 1) /\ enqueued'[e] = enqueued[e] + 1
        /\ queueDrops'[e] = queueDrops[e] + 1 /\ enqueuing'[e] = Nobody
        /\ \A f \in Exts : f # e => /\ queue'[f] = queue[f] /\ enqueued'[f] = enqueued[f]
                                   /\ queueDrops'[f] = queueDrops[f] /\ enqueuing'[f] = enqueuing[f]
    BY <1>2, <2>2, <2>4
  <2>6. /\ Keeps(queue'[e], enqueued'[e], taken'[e], queueDrops'[e], enqueuing'[e].popped)
        /\ enqueuing'[e].by = "nobody" => ~enqueuing'[e].popped
    BY <2>2, <2>3, <2>4, <2>5
  <2>7. /\ {enqueued', taken', queueDrops'} \subseteq [Exts -> Nat]
        /\ \A f \in Exts : f # e => /\ queue'[f] = queue[f] /\ enqueued'[f] = enqueued[f] /\ taken'[f] = taken[f]
                                   /\ queueDrops'[f] = queueDrops[f] /\ enqueuing'[f] = enqueuing[f]
    BY <1>2, <2>2, <2>5
  <2> QED
    BY <2>5, <2>6, <2>7, OneQueueMoves
<1> QED
  BY <1>3, <1>4, <1>5

LEMMA TakeKeepsQueue ==
  ASSUME QueueInv, NEW e \in Exts, NEW i \in Incs, DrainTakes(e, i)
  PROVE  QueueInv'
<1>1. /\ enqueued[e] \in Nat /\ taken[e] \in Nat /\ queueDrops[e] \in Nat /\ enqueuing[e].popped \in BOOLEAN
      /\ queue[e] \in Seq(Nat)
      /\ enqueuing[e].by = "nobody" => ~enqueuing[e].popped
      /\ Keeps(queue[e], enqueued[e], taken[e], queueDrops[e], enqueuing[e].popped)
  BY DEF QueueInv
<1>2. /\ queue \in [Exts -> Seq(Nat)] /\ {enqueued, taken, queueDrops} \subseteq [Exts -> Nat]
      /\ enqueuing \in [Exts -> [by : Holders, popped : BOOLEAN]]
  BY DEF QueueInv
<1>3. /\ queue[e] # <<>> /\ queue' = [queue EXCEPT ![e] = Tail(@)] /\ taken' = [taken EXCEPT ![e] = @ + 1]
      /\ enqueued' = enqueued /\ queueDrops' = queueDrops /\ enqueuing' = enqueuing
  BY DEF DrainTakes
<1>4. /\ Keeps(Tail(queue[e]), enqueued[e], taken[e] + 1, queueDrops[e], enqueuing[e].popped)
      /\ ~enqueuing[e].popped => Keeps(Tail(queue[e]), enqueued[e], taken[e], queueDrops[e], TRUE)
  BY <1>1, <1>3, TailKeeps
<1>5. Tail(queue[e]) \in Seq(Nat) /\ taken[e] + 1 \in Nat
  BY <1>1, <1>3
<1>6. /\ queue' \in [Exts -> Seq(Nat)] /\ taken' \in [Exts -> Nat]
      /\ queue'[e] = Tail(queue[e]) /\ taken'[e] = taken[e] + 1
      /\ \A f \in Exts : f # e => queue'[f] = queue[f] /\ taken'[f] = taken[f]
  BY <1>2, <1>3, <1>5
<1>7. Keeps(queue'[e], enqueued'[e], taken'[e], queueDrops'[e], enqueuing'[e].popped)
  BY <1>3, <1>4, <1>6
<1> QED
  BY <1>1, <1>2, <1>3, <1>6, <1>7, OneQueueMoves

\* A queue that overflows loses its oldest events only, counts each loss, and
\* refuses none, whatever other enqueues and drains come between the three
\* selects of an enqueue (extension.go enqueue).
THEOREM QueuesKeepNewest == Spec => []QueueKeepsNewest
<1>1. Init => QueueInv
  <2> SUFFICES ASSUME Init PROVE QueueInv
    OBVIOUS
  <2>1. \A e \in Exts : Keeps(queue[e], enqueued[e], taken[e], queueDrops[e], enqueuing[e].popped)
    BY ConstantsAssumption DEF Init, Keeps, Nobody
  <2> QED
    BY <2>1 DEF Init, QueueInv, Nobody, Holders
<1>2. QueueInv /\ [Next]_vars => QueueInv'
  <2> SUFFICES ASSUME QueueInv, [Next]_vars PROVE QueueInv'
    OBVIOUS
  <2>1. CASE UNCHANGED channel
    BY <2>1 DEF channel, QueueInv, Keeps
  <2>2. CASE UNCHANGED vars
    BY <2>1, <2>2 DEF vars, events
  <2>3. CASE Step
    BY <2>1, <2>3, QueueMoves, EnqueueKeepsQueue, TakeKeepsQueue
  <2> QED
    BY <2>2, <2>3 DEF Next
<1>3. QueueInv => QueueKeepsNewest
  BY DEF QueueInv, QueueKeepsNewest, Keeps
<1> QED
  BY <1>1, <1>2, <1>3, PTL DEF Spec
----------------------------------------------------------------------------
(* Bind and session_start                                                  *)

\* One extension moves on, and serves only when it has been announced to or
\* Bind is still to come.
LEMMA MovesKeepBind ==
  ASSUME BindInv, NEW e \in Exts, UNCHANGED <<fan, api, binding, enqueuing>>, sup[e] # "announce",
         sup' \in [Exts -> Stands], state' \in [Exts -> States], announced' \in [Exts -> BOOLEAN],
         \A d \in Exts : d # e => sup'[d] = sup[d] /\ state'[d] = state[d] /\ announced'[d] = announced[d],
         sup'[e] \in Serving => state'[e] \in {"ready", "degraded"},
         sup'[e] \in {"start", "reading"} => ~api \/ (sup[e] \in {"start", "reading"} /\ announced'[e] = announced[e])
  PROVE  BindInv'
<1>1. \A d \in Exts : sup'[d] \in Serving => state'[d] \in {"ready", "degraded"}
  BY DEF BindInv
<1>2. ASSUME NEW d \in Exts, sup'[d] \in {"start", "reading"}, binding = "done" \/ (binding = "announce" /\ d < fan.next)
      PROVE  announced'[d]
  BY <1>2 DEF BindInv
<1>3. Callers'
  BY DEF BindInv, Callers
<1> QED
  BY <1>1, <1>2, <1>3 DEF BindInv

\* Nothing about the session changes.
LEMMA IdleKeepsBind ==
  ASSUME BindInv, UNCHANGED <<sup, state, announced, fan, api, binding, enqueuing>>
  PROVE  BindInv'
BY DEF BindInv, Callers

\* fanOut goes on.
LEMMA NextExtOn ==
  ASSUME fan \in Fans, fan.kind # "idle", NextExt
  PROVE  /\ fan' \in Fans
         /\ fan'.kind = "idle" => fan' = Idle
         /\ fan.next < N => fan'.kind = fan.kind /\ fan'.next = fan.next + 1
         /\ ~(fan.next < N) => fan'.kind = "idle" /\ fan.next = N
<1> DEFINE e == fan.next
<1>1. /\ e \in Exts /\ N \in Nat /\ N > 0
      /\ fan' = IF e < N THEN [fan EXCEPT !.next = e + 1, !.at = "look"] ELSE Idle
  BY ConstantsAssumption DEF NextExt, Fans
<1>2. CASE e < N
  <2>1. e + 1 \in Exts
    BY <1>1, <1>2 DEF Exts
  <2> QED
    BY <1>1, <1>2, <2>1 DEF Fans
<1>3. CASE ~(e < N)
  <2>1. e = N /\ 1 \in Exts
    BY <1>1, <1>3 DEF Exts
  <2> QED
    BY <1>1, <1>3, <2>1 DEF Fans, Idle
<1> QED
  BY <1>2, <1>3

\* What fanOut passes over need not be told, and what serves has been told.
LEMMA NextExtKeepsBind ==
  ASSUME BindInv, fan # Idle, NextExt, UNCHANGED <<sup, state, api>>,
         announced' \in [Exts -> BOOLEAN], \A d \in Exts : announced[d] => announced'[d],
         fan.kind = "session_start" /\ sup[fan.next] \in {"start", "reading"} => announced'[fan.next],
         enqueuing' \in [Exts -> [by : Holders, popped : BOOLEAN]],
         \A d \in Exts : enqueuing'[d].by \in {enqueuing[d].by, "nobody"} /\ enqueuing'[d].by # "fanOut"
  PROVE  BindInv'
<1> DEFINE e == fan.next
<1>1. /\ e \in Exts /\ N \in Nat /\ fan \in Fans /\ fan.kind # "idle"
      /\ binding' = IF e = N /\ fan.kind = "session_start" THEN "done" ELSE binding
  BY ConstantsAssumption DEF NextExt, BindInv, Fans
<1>2. /\ fan' \in Fans
      /\ fan'.kind = "idle" => fan' = Idle
      /\ e < N => fan'.kind = fan.kind /\ fan'.next = e + 1
      /\ ~(e < N) => fan'.kind = "idle" /\ e = N
  BY <1>1, NextExtOn
<1>3. /\ binding' \in {"no", "flush", "announce", "done"}
      /\ (binding' = "no") <=> (binding = "no")
      /\ (fan'.kind = "session_start") <=> (binding' = "announce")
      /\ fan'.kind = "event" => binding' = "done"
  <2>1. e < N => e # N
    BY <1>1 DEF Exts
  <2> QED
    BY <1>1, <1>2, <2>1 DEF BindInv
<1>4. ASSUME NEW d \in Exts, sup[d] \in {"start", "reading"}, binding' = "done" \/ (binding' = "announce" /\ d < fan'.next)
      PROVE  announced'[d]
  <2>1. CASE binding = "done"
    BY <1>4, <2>1 DEF BindInv
  <2>2. CASE binding # "done"
    <3>1. binding = "announce" /\ fan.kind = "session_start" /\ (d < e \/ d = e)
      BY <1>1, <1>2, <1>4, <2>2 DEF BindInv, Exts
    <3> QED
      BY <1>4, <3>1 DEF BindInv
  <2> QED
    BY <2>1, <2>2
<1>5. Callers'
  BY DEF BindInv, Callers
<1> QED
  BY <1>1, <1>2, <1>3, <1>4, <1>5 DEF BindInv

LEMMA GivenKeepsBind ==
  ASSUME BindInv, NEW e \in Exts, NEW by \in {"supervisor", "fanOut", "command"},
         Enqueues(e, by), Given(e, by), UNCHANGED <<state, api>>,
         enqueuing' = [enqueuing EXCEPT ![e] = Nobody],
         enqueuing[e].by \in {by, "nobody"}
  PROVE  BindInv'
<1>1. /\ enqueuing' \in [Exts -> [by : Holders, popped : BOOLEAN]]
      /\ enqueuing'[e].by = "nobody" /\ \A d \in Exts : d # e => enqueuing'[d] = enqueuing[d]
      /\ \A d \in Exts : enqueuing'[d].by \in {enqueuing[d].by, "nobody"}
  BY DEF BindInv, Nobody, Holders
<1>2. /\ announced' \in [Exts -> BOOLEAN] /\ \A d \in Exts : announced[d] => announced'[d]
      /\ \A d \in Exts : d # e => announced'[d] = announced[d]
      /\ by = "supervisor" \/ (by = "fanOut" /\ fan.kind = "session_start") =>
            (state[e] \in {"ready", "degraded"} => announced'[e])
  <2> DEFINE tells == by = "supervisor" \/ (by = "fanOut" /\ fan.kind = "session_start")
             serves == state[e] \in {"ready", "degraded"}
  <2>1. announced' = [announced EXCEPT ![e] = @ \/ (tells /\ serves)]
    BY DEF Given
  <2>2. announced \in [Exts -> BOOLEAN] /\ (tells /\ serves) \in BOOLEAN
    BY DEF BindInv
  <2> HIDE DEF tells, serves
  <2>3. announced' \in [Exts -> BOOLEAN] /\ (\A d \in Exts : d # e => announced'[d] = announced[d])
        /\ announced'[e] = (announced[e] \/ (tells /\ serves))
    BY <2>1, <2>2
  <2>4. tells => (serves => announced'[e])
    BY <2>3
  <2>5. \A d \in Exts : announced[d] => announced'[d]
    BY <2>3
  <2> QED
    BY <2>3, <2>4, <2>5 DEF tells, serves
<1>3. CASE by = "fanOut"
  <2>1. /\ fan.at = "put" /\ fan.next = e /\ fan # Idle /\ NextExt /\ UNCHANGED sup
    BY <1>3 DEF Enqueues, Given, Returns, Idle
  <2>2. \A d \in Exts : enqueuing'[d].by # "fanOut"
    BY <1>1, <2>1 DEF BindInv, Callers
  <2>3. sup[e] \in {"start", "reading"} => state[e] \in {"ready", "degraded"}
    BY DEF BindInv, Serving
  <2> QED
    BY <1>1, <1>2, <1>3, <2>1, <2>2, <2>3, NextExtKeepsBind
<1>4. CASE by # "fanOut"
  <2>1. /\ UNCHANGED <<fan, binding>>
        /\ sup' = IF by = "supervisor" THEN [sup EXCEPT ![e] = "start"] ELSE sup
    BY <1>4 DEF Given, Returns
  <2>2. by = "supervisor" => sup[e] = "announce" /\ state[e] \in {"ready", "degraded"}
    BY DEF Enqueues, BindInv, Serving
  <2>3. /\ sup' \in [Exts -> Stands] /\ \A d \in Exts : d # e => sup'[d] = sup[d]
        /\ sup'[e] = IF by = "supervisor" THEN "start" ELSE sup[e]
    BY <2>1 DEF BindInv, Stands
  <2>4. Callers'
    BY <1>1, <2>1, <2>3 DEF BindInv, Callers
  <2>5. \A d \in Exts : sup'[d] \in Serving => state[d] \in {"ready", "degraded"}
    BY <2>2, <2>3 DEF BindInv
  <2>6. ASSUME NEW d \in Exts, sup'[d] \in {"start", "reading"}, binding = "done" \/ (binding = "announce" /\ d < fan.next)
        PROVE  announced'[d]
    BY <1>2, <2>2, <2>3, <2>6 DEF BindInv
  <2> QED
    BY <1>1, <1>2, <2>1, <2>3, <2>4, <2>5, <2>6 DEF BindInv
<1> QED
  BY <1>3, <1>4

LEMMA EnqueueKeepsBind ==
  ASSUME BindInv, NEW e \in Exts, Enqueue(e) \/ DispatchCommand(e) \/ PopOldest(e) \/ PushNewest(e)
  PROVE  BindInv'
<1>1. UNCHANGED <<state, api>>
  BY DEF Enqueue, DispatchCommand, PopOldest, PushNewest, binder
<1>2. enqueuing \in [Exts -> [by : Holders, popped : BOOLEAN]] /\ Callers
  BY DEF BindInv
<1>3. ASSUME NEW by \in {"supervisor", "fanOut", "command"}, TrySend(e, by) PROVE BindInv'
  <2>1. enqueuing[e] = Nobody /\ Enqueues(e, by)
    BY <1>3 DEF TrySend, Locked
  <2>2. CASE Len(queue[e]) < QueueCap
    <3>1. \/ Given(e, by) /\ enqueuing' = enqueuing
          \/ /\ UNCHANGED <<announced, sup, fan, binding>>
             /\ enqueuing' = [enqueuing EXCEPT ![e] = [by |-> by, popped |-> FALSE]]
      BY <1>3 DEF TrySend
    <3>2. CASE Given(e, by) /\ enqueuing' = enqueuing
      <4>1. enqueuing' = [enqueuing EXCEPT ![e] = Nobody] /\ enqueuing[e].by = "nobody"
        BY <1>2, <2>1, <3>2 DEF Nobody
      <4> QED
        BY <1>1, <2>1, <3>2, <4>1, GivenKeepsBind
    <3>3. CASE UNCHANGED <<announced, sup, fan, binding>> /\ enqueuing' = [enqueuing EXCEPT ![e] = [by |-> by, popped |-> FALSE]]
      BY <1>1, <1>2, <2>1, <3>3 DEF BindInv, Callers, Enqueues, Holders
    <3> QED
      BY <3>1, <3>2, <3>3
  <2>3. CASE ~(Len(queue[e]) < QueueCap)
    <3>1. /\ UNCHANGED <<announced, sup, fan, binding>>
          /\ enqueuing' = [enqueuing EXCEPT ![e] = [by |-> by, popped |-> FALSE]]
      BY <1>3, <2>3 DEF TrySend
    <3> QED
      BY <1>1, <1>2, <2>1, <3>1 DEF BindInv, Callers, Enqueues, Holders
  <2> QED
    BY <2>2, <2>3
<1>4. CASE PopOldest(e)
  <2>1. UNCHANGED <<announced, sup, fan, binding>> /\ enqueuing' = [enqueuing EXCEPT ![e].popped = TRUE]
    BY <1>4 DEF PopOldest, supervisor, binder
  <2>2. /\ enqueuing' \in [Exts -> [by : Holders, popped : BOOLEAN]]
        /\ \A d \in Exts : enqueuing'[d].by = enqueuing[d].by
    BY <1>2, <2>1
  <2> QED
    BY <1>1, <2>1, <2>2 DEF BindInv, Callers
<1>5. CASE PushNewest(e)
  <2> DEFINE by == enqueuing[e].by
  <2>1. Given(e, by) /\ enqueuing' = [enqueuing EXCEPT ![e] = Nobody]
    BY <1>5 DEF PushNewest
  <2>2. CASE by = "nobody"
    <3>1. UNCHANGED <<sup, fan, binding>> /\ announced' = announced
      <4>1. announced' = [announced EXCEPT ![e] = @ \/ FALSE] /\ announced[e] \in BOOLEAN
        BY <2>1, <2>2 DEF Given, BindInv
      <4>2. announced' = announced
        BY <4>1 DEF BindInv
      <4> QED
        BY <2>1, <2>2, <4>2 DEF Given, Returns
    <3> QED
      BY <1>1, <1>2, <2>1, <2>2, <3>1 DEF BindInv, Callers, Nobody, Holders
  <2>3. CASE by # "nobody"
    <3>1. by \in {"supervisor", "fanOut", "command"} /\ Enqueues(e, by)
      <4>1. by \in Holders
        BY <1>2
      <4>2. by \in {"supervisor", "fanOut", "command"}
        BY <2>3, <4>1 DEF Holders
      <4>3. (by = "supervisor" => sup[e] = "announce") /\ (by = "fanOut" => fan.at = "put" /\ fan.next = e)
        BY <1>2 DEF Callers
      <4> HIDE DEF by
      <4> QED
        BY <4>2, <4>3 DEF Enqueues
    <3> HIDE DEF by
    <3> QED
      BY <1>1, <2>1, <3>1, GivenKeepsBind DEF by
  <2> QED
    BY <2>2, <2>3
<1> QED
  BY <1>3, <1>4, <1>5 DEF Enqueue, DispatchCommand

\* An enqueue moves no supervisor but one that waits for it.
LEMMA EnqueueMoves ==
  ASSUME BindInv, NEW e \in Exts, Enqueue(e) \/ DispatchCommand(e) \/ PopOldest(e) \/ PushNewest(e)
  PROVE  sup' = sup \/ (sup[e] = "announce" /\ sup' = [sup EXCEPT ![e] = "start"])
<1>1. enqueuing[e].by = "supervisor" => sup[e] = "announce"
  BY DEF BindInv, Callers
<1>2. \A by \in {"supervisor", "fanOut", "command"} : TrySend(e, by) =>
         sup' = sup \/ (sup[e] = "announce" /\ sup' = [sup EXCEPT ![e] = "start"])
  BY DEF TrySend, Given, Returns, Enqueues
<1> QED
  BY <1>1, <1>2 DEF Enqueue, DispatchCommand, PopOldest, PushNewest, Given, Returns, supervisor

LEMMA SuperviseKeepsBind == ASSUME BindInv, NEW e \in Exts, Supervise(e) PROVE BindInv'
<1>1. ASSUME NEW at \in Stands, NEW st \in States, NEW told \in BOOLEAN,
             sup' = [sup EXCEPT ![e] = at], state' = [state EXCEPT ![e] = st],
             announced' = [announced EXCEPT ![e] = told],
             UNCHANGED <<fan, api, binding, enqueuing>>, sup[e] # "announce",
             at \notin {"start", "reading"}, at \in Serving => st \in {"ready", "degraded"}
      PROVE  BindInv'
  <2>1. /\ sup' \in [Exts -> Stands] /\ state' \in [Exts -> States] /\ announced' \in [Exts -> BOOLEAN]
        /\ \A d \in Exts : d # e => sup'[d] = sup[d] /\ state'[d] = state[d] /\ announced'[d] = announced[d]
        /\ sup'[e] = at /\ state'[e] = st
    BY <1>1 DEF BindInv
  <2> QED
    BY <1>1, <2>1, MovesKeepBind
<1>2. /\ state[e] \in States /\ state = [state EXCEPT ![e] = state[e]]
      /\ announced[e] \in BOOLEAN /\ announced = [announced EXCEPT ![e] = announced[e]]
  BY DEF BindInv
<1>3. CASE Leave(e) \/ Hello(e) \/ ReadEnds(e) \/ StopProc(e) \/ Restart(e) \/ HelloFails(e)
  <2>1. UNCHANGED <<state, announced, fan, api, binding, enqueuing>> /\ sup[e] # "announce"
    BY <1>3 DEF Leave, Hello, ReadEnds, StopProc, Restart, HelloFails, events, channel, binder
  <2>2. \E at \in Stands \ Serving : sup' = [sup EXCEPT ![e] = at]
    BY <1>3 DEF Leave, Hello, ReadEnds, StopProc, Restart, HelloFails, Stands, Serving
  <2> QED
    BY <1>1, <1>2, <2>1, <2>2 DEF Serving
<1>4. CASE Spawn(e)
  <2>1. /\ sup' = [sup EXCEPT ![e] = "hello"] /\ state' = [state EXCEPT ![e] = "starting"]
        /\ announced' = [announced EXCEPT ![e] = FALSE]
        /\ UNCHANGED <<fan, api, binding, enqueuing>> /\ sup[e] # "announce"
        /\ "hello" \in Stands /\ "starting" \in States
    BY <1>4 DEF Spawn, binder, channel, Stands, States
  <2> QED
    BY <1>1, <2>1 DEF Serving
<1>5. CASE BecomeReady(e)
  <2>1. /\ sup' = [sup EXCEPT ![e] = "bound?"] /\ state' = [state EXCEPT ![e] = "ready"]
        /\ UNCHANGED <<announced, fan, api, binding, enqueuing>> /\ sup[e] # "announce"
        /\ "bound?" \in Stands /\ "ready" \in States
    BY <1>5 DEF BecomeReady, binder, events, channel, Stands, States
  <2> QED
    BY <1>1, <1>2, <2>1
<1>6. CASE AfterRun(e)
  <2>1. UNCHANGED <<announced, fan, api, binding, enqueuing>> /\ sup[e] # "announce"
    BY <1>6 DEF AfterRun, binder, events, channel
  <2>2. \E at \in Stands \ Serving, st \in States :
          sup' = [sup EXCEPT ![e] = at] /\ state' = [state EXCEPT ![e] = st]
    <3>1. /\ {"gone", "backoff"} \subseteq Stands \ Serving
          /\ {"disabled", "crashed"} \subseteq States
      BY DEF Stands, States, Serving
    <3>2. \/ sup' = [sup EXCEPT ![e] = "gone"] /\ UNCHANGED state
          \/ sup' = [sup EXCEPT ![e] = "gone"] /\ state' = [state EXCEPT ![e] = "disabled"]
          \/ sup' = [sup EXCEPT ![e] = "backoff"] /\ state' = [state EXCEPT ![e] = "crashed"]
      BY <1>6 DEF AfterRun
    <3> QED
      BY <1>2, <3>1, <3>2
  <2> QED
    BY <1>1, <1>2, <2>1, <2>2 DEF Serving
<1>7. CASE LookBound(e)
  <2>1. /\ sup[e] = "bound?" /\ sup' = [sup EXCEPT ![e] = IF api THEN "announce" ELSE "start"]
        /\ UNCHANGED <<state, announced, fan, api, binding, enqueuing>>
    BY <1>7 DEF LookBound, Reannounces, events, channel, binder
  <2>2. /\ sup' \in [Exts -> Stands] /\ \A d \in Exts : d # e => sup'[d] = sup[d]
        /\ sup'[e] = IF api THEN "announce" ELSE "start"
        /\ state \in [Exts -> States] /\ announced \in [Exts -> BOOLEAN]
    BY <2>1 DEF BindInv, Stands
  <2>3. state[e] \in {"ready", "degraded"}
    BY <2>1 DEF BindInv, Serving
  <2> QED
    BY <2>1, <2>2, <2>3, MovesKeepBind
<1>8. CASE StartReading(e)
  <2>1. /\ sup[e] = "start" /\ sup' = [sup EXCEPT ![e] = "reading"]
        /\ UNCHANGED <<state, announced, fan, api, binding, enqueuing>>
    BY <1>8 DEF StartReading, events, channel, binder
  <2>2. /\ sup' \in [Exts -> Stands] /\ \A d \in Exts : d # e => sup'[d] = sup[d]
        /\ sup'[e] = "reading" /\ state \in [Exts -> States] /\ announced \in [Exts -> BOOLEAN]
        /\ state[e] \in {"ready", "degraded"}
    BY <2>1 DEF BindInv, Stands, Serving
  <2> QED
    BY <2>1, <2>2, MovesKeepBind
<1> QED
  BY <1>3, <1>4, <1>5, <1>6, <1>7, <1>8 DEF Supervise

LEMMA FanOutKeepsBind == ASSUME BindInv, FanOut PROVE BindInv'
<1>1. /\ fan # Idle /\ fan.at = "look" /\ UNCHANGED <<sup, state, api, announced, enqueuing>>
      /\ fan \in Fans /\ fan.next \in Exts
  BY DEF FanOut, supervisor, events, channel, BindInv, Fans
<1>2. enqueuing \in [Exts -> [by : Holders, popped : BOOLEAN]] /\ \A d \in Exts : enqueuing[d].by # "fanOut"
  BY <1>1 DEF BindInv, Callers
<1>3. CASE state[fan.next] \in {"ready", "degraded"}
  <2>1. fan' = [fan EXCEPT !.at = "put"] /\ UNCHANGED binding
    BY <1>3 DEF FanOut
  <2>2. fan' \in Fans /\ fan'.kind = fan.kind /\ fan'.next = fan.next /\ fan.kind # "idle"
    BY <1>1, <2>1 DEF Fans, BindInv
  <2>3. Callers'
    BY <1>1, <1>2, <2>1 DEF Callers, BindInv
  <2> QED
    BY <1>1, <2>1, <2>2, <2>3 DEF BindInv
<1>4. CASE state[fan.next] \notin {"ready", "degraded"}
  <2>1. NextExt
    BY <1>4 DEF FanOut
  <2>2. sup[fan.next] \notin {"start", "reading"} /\ announced \in [Exts -> BOOLEAN]
    BY <1>1, <1>4 DEF BindInv, Serving
  <2> QED
    BY <1>1, <1>2, <2>1, <2>2, NextExtKeepsBind
<1> QED
  BY <1>3, <1>4

LEMMA StepKeepsBind == ASSUME BindInv, Step PROVE BindInv'
<1>1. ASSUME NEW e \in Exts, SpawnFails(e) \/ Misbehaves(e) \/ ClosesOutput(e) PROVE BindInv'
  <2>1. /\ sup' = [sup EXCEPT ![e] = "stop"] /\ UNCHANGED <<announced, fan, api, binding, enqueuing>>
        /\ state' = state \/ state' = [state EXCEPT ![e] = "disabled"]
        /\ sup[e] # "announce"
    BY <1>1 DEF SpawnFails, Misbehaves, ClosesOutput, events, channel, binder
  <2>2. /\ sup' \in [Exts -> Stands] /\ state' \in [Exts -> States] /\ announced' \in [Exts -> BOOLEAN]
        /\ \A d \in Exts : d # e => sup'[d] = sup[d] /\ state'[d] = state[d]
        /\ sup'[e] = "stop" /\ "stop" \notin Serving
    BY <2>1 DEF BindInv, Stands, States, Serving
  <2> QED
    BY <2>1, <2>2, MovesKeepBind
<1>2. ASSUME NEW e \in Exts, Exit(e) \/ Kill(e) \/ Answer(e) \/ Act(e) PROVE BindInv'
  <2>1. UNCHANGED <<sup, state, announced, fan, api, binding, enqueuing>>
    BY <1>2 DEF Exit, Kill, Answer, Act, events, channel, supervisor, binder
  <2> QED
    BY <2>1, IdleKeepsBind
<1>3. ASSUME NEW e \in Exts, Enqueue(e) \/ DispatchCommand(e) \/ PopOldest(e) \/ PushNewest(e) PROVE BindInv'
  BY <1>3, EnqueueKeepsBind
<1>4. ASSUME NEW e \in Exts, NEW i \in Incs, DrainTakes(e, i) \/ DrainSends(e, i) \/ DrainStops(e, i) PROVE BindInv'
  <2>1. UNCHANGED <<sup, state, announced, fan, api, binding, enqueuing>>
    BY <1>4 DEF DrainTakes, DrainSends, DrainStops, events, channel, supervisor, binder
  <2> QED
    BY <2>1, IdleKeepsBind
<1>5. ASSUME NEW r \in Reqs, Request(r) PROVE BindInv'
  <2>1. UNCHANGED <<sup, announced, fan, api, binding, enqueuing>>
    BY <1>5 DEF Request, Begin, Look, ReadProc, Send, TakeReply, TimeOut, AbortWait, events, channel, supervisor, binder
  <2>2. UNCHANGED state \/ \E e : state' = [state EXCEPT ![e] = Struck(e)]
    BY <1>5 DEF Request, Begin, Look, ReadProc, Send, TakeReply, TimeOut, AbortWait
  <2>3. ASSUME NEW e, state' = [state EXCEPT ![e] = Struck(e)] PROVE BindInv'
    <3>1. /\ state' \in [Exts -> States]
          /\ \A d \in Exts : state'[d] \in {"ready", "degraded"} \/ state'[d] = state[d]
      BY <2>3 DEF Struck, BindInv, States
    <3> QED
      BY <2>1, <3>1 DEF BindInv, Callers
  <2> QED
    BY <2>1, <2>2, <2>3, IdleKeepsBind
<1>6. CASE Bind
  <2>1. /\ binding = "no" /\ binding' = "flush" /\ api' = TRUE
        /\ UNCHANGED <<sup, state, announced, fan, enqueuing>>
    BY <1>6 DEF Bind, supervisor, events, channel
  <2> QED
    BY <2>1 DEF BindInv, Callers
<1>7. CASE Flush
  <2>1. UNCHANGED <<sup, state, announced, api, enqueuing>> /\ binding = "flush"
    BY <1>7 DEF Flush, supervisor, events, channel
  <2>2. UNCHANGED <<binding, fan>> \/ (binding' = "announce" /\ fan' = [Idle EXCEPT !.kind = "session_start"])
    BY <1>7 DEF Flush
  <2>3. CASE UNCHANGED <<binding, fan>>
    BY <2>1, <2>3, IdleKeepsBind
  <2>4. CASE binding' = "announce" /\ fan' = [Idle EXCEPT !.kind = "session_start"]
    <3>1. fan' \in Fans /\ fan'.kind = "session_start" /\ \A d \in Exts : ~(d < fan'.next)
      BY <2>4, ConstantsAssumption DEF Exts, Fans, Idle
    <3>2. \A e \in Exts : enqueuing[e].by # "fanOut"
      BY <2>1 DEF BindInv, Callers, Fans, Idle
    <3> QED
      BY <2>1, <2>4, <3>1, <3>2 DEF BindInv, Callers
  <2> QED
    BY <2>2, <2>3, <2>4
<1>8. CASE PumpTakes
  <2>1. /\ binding = "done" /\ fan = Idle /\ fan' = [Idle EXCEPT !.kind = "event"]
        /\ UNCHANGED <<sup, state, announced, api, binding, enqueuing>>
    BY <1>8 DEF PumpTakes, supervisor, events, channel, binder
  <2>2. fan' \in Fans /\ fan'.kind = "event"
    BY <2>1, ConstantsAssumption DEF Exts, Fans, Idle
  <2>3. \A e \in Exts : enqueuing[e].by # "fanOut"
    BY <2>1 DEF BindInv, Callers, Idle
  <2> QED
    BY <2>1, <2>2, <2>3 DEF BindInv, Callers
<1>9. CASE Close \/ CloseReturns
  <2>1. UNCHANGED <<sup, state, announced, fan, api, binding, enqueuing>>
    BY <1>9 DEF Close, CloseReturns, events, channel, supervisor, binder
  <2> QED
    BY <2>1, IdleKeepsBind
<1> QED
  BY <1>1, <1>2, <1>3, <1>4, <1>5, <1>6, <1>7, <1>8, <1>9, SuperviseKeepsBind, FanOutKeepsBind DEF Step

LEMMA BindInvHolds == Spec => []BindInv
<1>1. Init => BindInv
  <2> SUFFICES ASSUME Init PROVE BindInv
    OBVIOUS
  <2>1. scene \in Scenes /\ scene.exts \in Nat /\ 1 \in Exts
    BY ConstantsAssumption DEF Init, Exts
  <2>2. sup \in [Exts -> {"top", "gone"}] /\ state \in [Exts -> {"starting", "disabled"}]
    BY DEF Init
  <2> QED
    BY <2>1, <2>2 DEF Init, BindInv, Stands, States, Serving, Idle, Fans, Callers, Nobody, Holders
<1>2. BindInv /\ [Next]_vars => BindInv'
  <2> SUFFICES ASSUME BindInv, [Next]_vars PROVE BindInv'
    OBVIOUS
  <2>1. CASE UNCHANGED vars
    BY <2>1, IdleKeepsBind DEF vars, supervisor, events, channel, binder
  <2> QED
    BY <2>1, StepKeepsBind DEF Next
<1> QED
  BY <1>1, <1>2, PTL DEF Spec
----------------------------------------------------------------------------
(* The owner of a tool                                                     *)

\* A supervisor that is not between hello and adoption moves on.
LEMMA MovesKeepOwner ==
  ASSUME OwnerInv, NEW e \in Exts, NEW at \in Stands, sup[e] # "earlier",
         sup' = [sup EXCEPT ![e] = at],
         settled' = settled \/ settled' = [settled EXCEPT ![e] = TRUE],
         UNCHANGED <<ctxDone, adopted, offered, owner>>
  PROVE  OwnerInv'
<1>1. /\ sup' \in [Exts -> Stands] /\ settled' \in [Exts -> BOOLEAN]
      /\ \A d \in Exts : d # e => sup'[d] = sup[d] /\ settled'[d] = settled[d]
      /\ \A d \in Exts : settled[d] => settled'[d]
  BY DEF OwnerInv
<1>2. FirstHellos'
  BY <1>1 DEF OwnerInv, FirstHellos
<1> QED
  BY <1>1, <1>2 DEF OwnerInv

\* Nothing the owner depends on changes.
LEMMA IdleKeepsOwner ==
  ASSUME OwnerInv, UNCHANGED <<sup, settled, adopted, offered, owner>>, ctxDone' \in BOOLEAN, ctxDone => ctxDone'
  PROVE  OwnerInv'
BY DEF OwnerInv, FirstHellos

LEMMA HelloKeepsOwner == ASSUME OwnerInv, NEW e \in Exts, Hello(e) PROVE OwnerInv'
<1>1. /\ sup[e] = "hello" /\ sup' = [sup EXCEPT ![e] = "earlier"]
      /\ UNCHANGED <<ctxDone, settled, adopted, owner>>
  BY DEF Hello
<1>2. /\ \A d \in Exts : d # e => sup'[d] = sup[d] /\ offered'[d] = offered[d]
      /\ sup'[e] = "earlier" /\ sup' \in [Exts -> Stands] /\ offered' \in [Exts -> Offers]
      /\ offered'[e] # offered[e] => ~adopted[e] /\ (settled[e] => offered'[e] # "first")
  <2>1. PICK tool \in {"no", IF settled[e] THEN "later" ELSE "first"} :
          offered' = IF adopted[e] THEN offered ELSE [offered EXCEPT ![e] = tool]
    BY DEF Hello
  <2>2. tool \in Offers /\ (settled[e] => tool # "first")
    BY <2>1 DEF Offers
  <2>3. CASE adopted[e]
    BY <1>1, <2>1, <2>3 DEF OwnerInv, Stands
  <2>4. CASE ~adopted[e]
    BY <1>1, <2>1, <2>2, <2>4 DEF OwnerInv, Stands
  <2> QED
    BY <2>3, <2>4
<1>3. offered[e] = "first" => adopted[e]
  BY <1>1 DEF OwnerInv, FirstHellos
<1>4. FirstHellos'
  <2>1. offered'[e] = "first" => adopted[e] \/ ~settled[e]
    BY <1>2, <1>3
  <2> QED
    BY <1>1, <1>2, <2>1 DEF OwnerInv, FirstHellos
<1>5. ~ctxDone => \A d, f \in Exts : owner = f /\ d < f => settled[d] /\ offered'[d] # "first"
  BY <1>2 DEF OwnerInv
<1> QED
  BY <1>1, <1>2, <1>4, <1>5 DEF OwnerInv

LEMMA AdoptKeepsOwner == ASSUME OwnerInv, NEW e \in Exts, BecomeReady(e) PROVE OwnerInv'
<1>1. /\ sup[e] = "earlier" /\ MayAdopt(e) /\ adopted' = [adopted EXCEPT ![e] = TRUE]
      /\ owner' = IF ~adopted[e] /\ offered[e] # "no" /\ owner = 0 THEN e ELSE owner
      /\ settled' = [settled EXCEPT ![e] = TRUE] /\ sup' = [sup EXCEPT ![e] = "bound?"]
      /\ UNCHANGED <<ctxDone, offered>>
  BY DEF BecomeReady
<1>2. /\ \A d \in Exts : d # e => sup'[d] = sup[d] /\ settled'[d] = settled[d] /\ adopted'[d] = adopted[d]
      /\ sup' \in [Exts -> Stands] /\ settled' \in [Exts -> BOOLEAN] /\ adopted' \in [Exts -> BOOLEAN]
      /\ settled'[e] /\ adopted'[e] /\ \A d \in Exts : settled[d] => settled'[d]
  BY <1>1 DEF OwnerInv, Stands
<1>3. N \in Nat /\ e \in Nat /\ e # 0 /\ \A d \in Exts : d < e => d \in 1 .. (e - 1)
  BY ConstantsAssumption DEF Exts
<1>4. owner' \in Nat /\ (owner # 0 => owner' = owner) /\ (offered[e] # "no" => adopted[e] \/ owner' # 0)
  BY <1>1, <1>3 DEF OwnerInv
<1>5. FirstHellos'
  <2>1. \A d \in Exts : offered[d] = "first" => adopted'[d] \/ (sup'[d] = "earlier" /\ ~settled'[d])
    BY <1>2 DEF OwnerInv, FirstHellos
  <2>2. \A d \in Exts : adopted'[d] /\ offered[d] # "no" => owner' # 0
    <3>1. adopted[e] /\ offered[e] # "no" => owner # 0
      BY DEF OwnerInv, FirstHellos
    <3> QED
      BY <1>2, <1>4, <3>1 DEF OwnerInv, FirstHellos
  <2> QED
    BY <1>1, <2>1, <2>2 DEF FirstHellos
<1>6. ASSUME ~ctxDone, NEW d \in Exts, NEW f \in Exts, owner' = f, d < f
      PROVE  settled'[d] /\ offered[d] # "first"
  <2>1. CASE owner' = owner
    BY <1>2, <1>6, <2>1 DEF OwnerInv
  <2>2. CASE owner' # owner
    <3>1. ~adopted[e] /\ owner = 0 /\ f = e
      BY <1>1, <1>6, <2>2
    <3>2. settled[d]
      BY <1>1, <1>3, <1>6, <3>1 DEF MayAdopt
    <3>3. offered[d] = "first" => adopted[d] /\ owner # 0
      BY <3>2 DEF OwnerInv, FirstHellos
    <3> QED
      BY <1>2, <3>1, <3>2, <3>3
  <2> QED
    BY <2>1, <2>2
<1> QED
  BY <1>1, <1>2, <1>4, <1>5, <1>6 DEF OwnerInv

LEMMA SuperviseKeepsOwner == ASSUME OwnerInv, NEW e \in Exts, Supervise(e) PROVE OwnerInv'
<1>1. CASE Leave(e)
  BY <1>1, MovesKeepOwner DEF Stands, Leave, catalog
<1>2. CASE Spawn(e)
  BY <1>2, MovesKeepOwner DEF Stands, Spawn, catalog
<1>3. CASE StartReading(e)
  BY <1>3, MovesKeepOwner DEF Stands, StartReading, catalog
<1>4. CASE LookBound(e) \/ ReadEnds(e) \/ Restart(e) \/ StopProc(e) \/ HelloFails(e)
  BY <1>4, MovesKeepOwner DEF Stands, LookBound, ReadEnds, Restart, StopProc, HelloFails, catalog
<1>5. CASE AfterRun(e)
  <2>1. /\ sup[e] = "fail" /\ settled' = [settled EXCEPT ![e] = TRUE]
        /\ UNCHANGED <<ctxDone, adopted, offered, owner>>
    BY <1>5 DEF AfterRun, Settled, catalog
  <2>2. sup' = [sup EXCEPT ![e] = "gone"] \/ sup' = [sup EXCEPT ![e] = "backoff"]
    BY <1>5 DEF AfterRun
  <2> QED
    BY <2>1, <2>2, MovesKeepOwner DEF Stands
<1> QED
  BY <1>1, <1>2, <1>3, <1>4, <1>5, HelloKeepsOwner, AdoptKeepsOwner DEF Supervise

LEMMA StepKeepsOwner == ASSUME OwnerInv, BindInv, Step PROVE OwnerInv'
<1>1. ASSUME NEW e \in Exts, SpawnFails(e) \/ Misbehaves(e) \/ ClosesOutput(e) PROVE OwnerInv'
  BY <1>1, MovesKeepOwner DEF Stands, SpawnFails, Misbehaves, ClosesOutput, catalog
<1>2. ASSUME NEW e \in Exts, Exit(e) \/ Kill(e) \/ Answer(e) \/ Act(e) PROVE OwnerInv'
  <2>1. UNCHANGED <<sup, settled, adopted, offered, owner, ctxDone>>
    BY <1>2 DEF Exit, Kill, Answer, Act, catalog, supervisor
  <2> QED
    BY <2>1, IdleKeepsOwner DEF OwnerInv
<1>3. ASSUME NEW e \in Exts, NEW i \in Incs, DrainTakes(e, i) \/ DrainSends(e, i) \/ DrainStops(e, i) PROVE OwnerInv'
  <2>1. UNCHANGED <<sup, settled, adopted, offered, owner, ctxDone>>
    BY <1>3 DEF DrainTakes, DrainSends, DrainStops, catalog, supervisor
  <2> QED
    BY <2>1, IdleKeepsOwner DEF OwnerInv
<1>4. ASSUME NEW r \in Reqs, Request(r) PROVE OwnerInv'
  <2>1. UNCHANGED <<sup, settled, adopted, offered, owner, ctxDone>>
    BY <1>4 DEF Request, Begin, Look, ReadProc, Send, TakeReply, TimeOut, AbortWait, catalog, supervisor
  <2> QED
    BY <2>1, IdleKeepsOwner DEF OwnerInv
<1>5. CASE Bind \/ Flush \/ PumpTakes \/ FanOut \/ CloseReturns
  <2>1. UNCHANGED <<sup, settled, adopted, offered, owner, ctxDone>>
    BY <1>5 DEF Bind, Flush, PumpTakes, FanOut, CloseReturns, catalog, supervisor
  <2> QED
    BY <2>1, IdleKeepsOwner DEF OwnerInv
<1>6. CASE Close
  BY <1>6, IdleKeepsOwner DEF Close, catalog, supervisor
<1>7. ASSUME NEW e \in Exts, Enqueue(e) \/ DispatchCommand(e) \/ PopOldest(e) \/ PushNewest(e) PROVE OwnerInv'
  <2>1. UNCHANGED <<settled, adopted, offered, owner, ctxDone>>
    BY <1>7 DEF Enqueue, DispatchCommand, PopOldest, PushNewest, catalog, supervisor
  <2> QED
    BY <1>7, <2>1, EnqueueMoves, IdleKeepsOwner, MovesKeepOwner DEF OwnerInv, Stands
<1> QED
  BY <1>1, <1>2, <1>3, <1>4, <1>5, <1>6, <1>7, SuperviseKeepsOwner DEF Step

\* While the host is up a tool belongs to the first extension that offers it
\* in its first hello, in whatever order the handshakes end and however
\* often an extension fails before (waitEarlier, settle and adopt).
THEOREM FirstOwnerWins == Spec => []ToolOwnerIsFirst
<1>1. Init => OwnerInv
  <2> SUFFICES ASSUME Init PROVE OwnerInv
    OBVIOUS
  <2>1. /\ sup \in [Exts -> Stands] /\ settled \in [Exts -> BOOLEAN]
        /\ offered = [e \in Exts |-> "no"] /\ adopted = [e \in Exts |-> FALSE] /\ owner = 0 /\ ctxDone = FALSE
    <3>1. scene \in Scenes /\ scene.exts \in Nat
      BY ConstantsAssumption DEF Init
    <3>2. \A e \in Exts : (e > scene.exts) \in BOOLEAN
      BY <3>1
    <3> QED
      BY <3>2 DEF Init, Stands
  <2>2. 0 \notin Exts
    BY ConstantsAssumption DEF Exts
  <2> QED
    BY <2>1, <2>2 DEF OwnerInv, FirstHellos, Offers
<1>2. OwnerInv /\ BindInv /\ [Next]_vars => OwnerInv'
  <2> SUFFICES ASSUME OwnerInv, BindInv, [Next]_vars PROVE OwnerInv'
    OBVIOUS
  <2>1. CASE UNCHANGED vars
    BY <2>1, IdleKeepsOwner DEF vars, supervisor, catalog, OwnerInv
  <2> QED
    BY <2>1, StepKeepsOwner DEF Next
<1>3. OwnerInv => ToolOwnerIsFirst
  BY DEF OwnerInv, ToolOwnerIsFirst
<1> QED
  BY <1>1, <1>2, <1>3, BindInvHolds, PTL DEF Spec
----------------------------------------------------------------------------
(* Actions around Bind                                                     *)

LEMMA SetOfAppend ==
  ASSUME NEW s \in Seq(Nat), NEW a \in Nat
  PROVE  /\ Append(s, a) \in Seq(Nat) /\ Len(Append(s, a)) = Len(s) + 1
         /\ ToSet(Append(s, a)) = ToSet(s) \cup {a}
<1> DEFINE t == Append(s, a)
<1>1. /\ t \in Seq(Nat) /\ Len(t) = Len(s) + 1 /\ Len(s) \in Nat
      /\ DOMAIN s = 1 .. Len(s) /\ DOMAIN t = 1 .. Len(s) + 1
      /\ \A i \in 1 .. Len(s) : t[i] = s[i]
      /\ t[Len(s) + 1] = a
  OBVIOUS
<1> HIDE DEF t
<1>2. /\ \A i \in DOMAIN t : i \in DOMAIN s \/ i = Len(s) + 1
      /\ \A i \in DOMAIN s : i \in DOMAIN t
      /\ Len(s) + 1 \in DOMAIN t
  BY <1>1
<1>3. ToSet(t) = ToSet(s) \cup {a}
  BY <1>1, <1>2 DEF ToSet
<1> QED
  BY <1>1, <1>3 DEF t

LEMMA SetOfTail ==
  ASSUME NEW s \in Seq(Nat), s # <<>>
  PROVE  /\ Tail(s) \in Seq(Nat) /\ Len(Tail(s)) = Len(s) - 1 /\ Head(s) \in Nat
         /\ ToSet(s) = ToSet(Tail(s)) \cup {Head(s)}
<1> DEFINE t == Tail(s)
           h == Head(s)
<1>1. /\ t \in Seq(Nat) /\ Len(t) = Len(s) - 1 /\ Len(s) \in Nat \ {0} /\ h \in Nat
      /\ DOMAIN s = 1 .. Len(s) /\ DOMAIN t = 1 .. Len(s) - 1
      /\ \A i \in 1 .. Len(s) - 1 : t[i] = s[i + 1]
      /\ s[1] = h
  OBVIOUS
<1> HIDE DEF t, h
<1>2. /\ \A i \in DOMAIN s : i = 1 \/ (i - 1 \in DOMAIN t /\ t[i - 1] = s[i])
      /\ \A i \in DOMAIN t : i + 1 \in DOMAIN s
      /\ 1 \in DOMAIN s
  <2>1. \A i \in DOMAIN s : i = 1 \/ (i - 1 \in DOMAIN t /\ (i - 1) + 1 = i)
    BY <1>1
  <2> QED
    BY <1>1, <2>1, SMTT(20)
<1>3. ToSet(s) = ToSet(t) \cup {h}
  <2>1. \A i \in DOMAIN s : s[i] \in ToSet(t) \cup {h}
    BY <1>1, <1>2 DEF ToSet
  <2>2. \A i \in DOMAIN t : t[i] \in ToSet(s)
    BY <1>1, <1>2 DEF ToSet
  <2>3. h \in ToSet(s)
    BY <1>1, <1>2 DEF ToSet
  <2> QED
    BY <2>1, <2>2, <2>3 DEF ToSet
<1> QED
  BY <1>1, <1>3 DEF t, h

LEMMA ActKeepsActs == ASSUME ActsInv, NEW e, Act(e) PROVE ActsInv'
<1>1. /\ acts \in Nat /\ ran \in Seq(Nat) /\ actBuf \in Seq(Nat) /\ flushing \in Seq(Nat) /\ IsFiniteSet(dropped)
      /\ 1 .. acts = ToSet(ran) \cup ToSet(actBuf) \cup ToSet(flushing) \cup dropped
      /\ acts = Len(ran) + Len(actBuf) + Len(flushing) + Cardinality(dropped)
      /\ {Len(ran), Len(actBuf), Len(flushing), Cardinality(dropped)} \subseteq Nat
      /\ api => actBuf = <<>>
  BY FS_CardinalityType DEF ActsInv, ActionsKept
<1>2. acts' = acts + 1 /\ acts' \in Nat /\ UNCHANGED <<api, flushing, binding>>
  BY <1>1 DEF Act
<1>3. 1 .. acts' = (1 .. acts) \cup {acts'} /\ acts' \notin 1 .. acts
  BY <1>1, <1>2
<1>4. CASE ~api /\ actBuf' = Append(actBuf, acts') /\ UNCHANGED <<ran, dropped>>
  <2>1. /\ actBuf' \in Seq(Nat) /\ Len(actBuf') = Len(actBuf) + 1
        /\ ToSet(actBuf') = ToSet(actBuf) \cup {acts'}
    BY <1>1, <1>2, <1>4, SetOfAppend
  <2>2. /\ 1 .. acts' = ToSet(ran) \cup ToSet(actBuf') \cup ToSet(flushing) \cup dropped
        /\ acts' = Len(ran) + Len(actBuf') + Len(flushing) + Cardinality(dropped)
    <3>1. 1 .. acts' = ToSet(ran) \cup ToSet(actBuf') \cup ToSet(flushing) \cup dropped
      BY <1>1, <1>3, <2>1, Zenon
    <3>2. acts' = Len(ran) + Len(actBuf') + Len(flushing) + Cardinality(dropped)
      BY <1>1, <1>2, <2>1
    <3> QED
      BY <3>1, <3>2
  <2> QED
    BY <1>1, <1>2, <1>4, <2>1, <2>2 DEF ActsInv, ActionsKept
<1>5. CASE ~api /\ dropped' = dropped \cup {acts'} /\ UNCHANGED <<actBuf, ran>>
  <2>1. acts' \notin dropped
    BY <1>1, <1>3
  <2>2. IsFiniteSet(dropped') /\ Cardinality(dropped') = Cardinality(dropped) + 1
    BY <1>1, <1>5, <2>1, FS_AddElement
  <2>3. /\ 1 .. acts' = ToSet(ran) \cup ToSet(actBuf) \cup ToSet(flushing) \cup dropped'
        /\ acts' = Len(ran) + Len(actBuf) + Len(flushing) + Cardinality(dropped')
    BY <1>1, <1>2, <1>3, <1>5, <2>2, SMTT(20)
  <2> QED
    BY <1>1, <1>2, <1>5, <2>2, <2>3 DEF ActsInv, ActionsKept
<1>6. CASE api /\ ran' = Append(ran, acts') /\ UNCHANGED <<actBuf, dropped>>
  <2>1. /\ ran' \in Seq(Nat) /\ Len(ran') = Len(ran) + 1
        /\ ToSet(ran') = ToSet(ran) \cup {acts'}
    BY <1>1, <1>2, <1>6, SetOfAppend
  <2>2. /\ 1 .. acts' = ToSet(ran') \cup ToSet(actBuf) \cup ToSet(flushing) \cup dropped
        /\ acts' = Len(ran') + Len(actBuf) + Len(flushing) + Cardinality(dropped)
    <3>1. 1 .. acts' = ToSet(ran') \cup ToSet(actBuf) \cup ToSet(flushing) \cup dropped
      BY <1>1, <1>3, <2>1, Zenon
    <3>2. acts' = Len(ran') + Len(actBuf) + Len(flushing) + Cardinality(dropped)
      BY <1>1, <1>2, <2>1
    <3> QED
      BY <3>1, <3>2
  <2> QED
    BY <1>1, <1>2, <1>6, <2>1, <2>2 DEF ActsInv, ActionsKept
<1>7. api \in BOOLEAN
  BY DEF ActsInv
<1> QED
  BY <1>4, <1>5, <1>6, <1>7 DEF Act, Buffers

LEMMA BindKeepsActs == ASSUME ActsInv, Bind PROVE ActsInv'
<1>1. /\ flushing = <<>> /\ flushing' = actBuf /\ actBuf' = <<>> /\ api' = TRUE /\ binding' = "flush"
      /\ UNCHANGED <<acts, ran, dropped>>
  BY DEF Bind, ActsInv
<1>2. ToSet(flushing) = {} /\ ToSet(actBuf') = {} /\ Len(flushing) = 0 /\ Len(actBuf') = 0
  BY <1>1 DEF ToSet
<1>3. acts \in Nat /\ {ran, actBuf, flushing} \subseteq Seq(Nat) /\ IsFiniteSet(dropped)
  BY DEF ActsInv
<1>4. /\ 1 .. acts = ToSet(ran) \cup ToSet(actBuf') \cup ToSet(flushing') \cup dropped
      /\ acts = Len(ran) + Len(actBuf') + Len(flushing') + Cardinality(dropped)
  <2>1. /\ 1 .. acts = ToSet(ran) \cup ToSet(actBuf) \cup ToSet(flushing) \cup dropped
        /\ acts = Len(ran) + Len(actBuf) + Len(flushing) + Cardinality(dropped)
    BY DEF ActsInv, ActionsKept
  <2>2. {Len(ran), Len(actBuf), Len(flushing), Cardinality(dropped)} \subseteq Nat
    BY <1>3, FS_CardinalityType
  <2> QED
    BY <1>1, <1>2, <2>1, <2>2
<1>5. {ran', actBuf', flushing'} \subseteq Seq(Nat)
  BY <1>1, <1>3
<1> QED
  BY <1>1, <1>3, <1>4, <1>5 DEF ActsInv, ActionsKept

LEMMA FlushKeepsActs == ASSUME ActsInv, Flush PROVE ActsInv'
<1>1. /\ binding = "flush" /\ UNCHANGED <<api, actBuf, acts, dropped>>
  BY DEF Flush
<1>2. CASE flushing # <<>> /\ ran' = Append(ran, Head(flushing)) /\ flushing' = Tail(flushing) /\ UNCHANGED binding
  <2>1. /\ acts \in Nat /\ ran \in Seq(Nat) /\ actBuf \in Seq(Nat) /\ flushing \in Seq(Nat) /\ IsFiniteSet(dropped)
        /\ 1 .. acts = ToSet(ran) \cup ToSet(actBuf) \cup ToSet(flushing) \cup dropped
        /\ acts = Len(ran) + Len(actBuf) + Len(flushing) + Cardinality(dropped)
        /\ {Len(ran), Len(actBuf), Len(flushing), Cardinality(dropped)} \subseteq Nat
    BY FS_CardinalityType DEF ActsInv, ActionsKept
  <2>2. /\ flushing' \in Seq(Nat) /\ Len(flushing') = Len(flushing) - 1 /\ Head(flushing) \in Nat
        /\ ToSet(flushing) = ToSet(flushing') \cup {Head(flushing)}
    BY <1>2, <2>1, SetOfTail
  <2>3. /\ ran' \in Seq(Nat) /\ Len(ran') = Len(ran) + 1 /\ ToSet(ran') = ToSet(ran) \cup {Head(flushing)}
    BY <1>2, <2>1, <2>2, SetOfAppend
  <2>4. /\ 1 .. acts = ToSet(ran') \cup ToSet(actBuf) \cup ToSet(flushing') \cup dropped
        /\ acts = Len(ran') + Len(actBuf) + Len(flushing') + Cardinality(dropped)
    BY <2>1, <2>2, <2>3
  <2> QED
    BY <1>1, <1>2, <2>1, <2>2, <2>3, <2>4 DEF ActsInv, ActionsKept
<1>3. CASE binding' = "announce" /\ UNCHANGED <<ran, flushing>>
  BY <1>1, <1>3 DEF ActsInv, ActionsKept
<1> QED
  BY <1>2, <1>3 DEF Flush

LEMMA IdleKeepsActs ==
  ASSUME ActsInv, UNCHANGED <<acts, ran, actBuf, flushing, dropped, api>>, binding' = "no" => binding = "no"
  PROVE  ActsInv'
BY DEF ActsInv, ActionsKept

LEMMA StepKeepsActs == ASSUME ActsInv, BindInv, Step PROVE ActsInv'
<1>1. ASSUME NEW e \in Exts, Supervise(e) PROVE UNCHANGED binder
  BY <1>1 DEF Supervise, Leave, Spawn, Hello, BecomeReady, LookBound, StartReading, ReadEnds, StopProc, AfterRun, Restart, HelloFails
<1>2. ASSUME NEW e \in Exts, SpawnFails(e) \/ Exit(e) \/ Kill(e) \/ Misbehaves(e) \/ ClosesOutput(e) \/ Answer(e)
      PROVE UNCHANGED binder
  BY <1>2 DEF SpawnFails, Exit, Kill, Misbehaves, ClosesOutput, Answer
<1>3. ASSUME NEW e \in Exts, NEW i \in Incs, DrainTakes(e, i) \/ DrainSends(e, i) \/ DrainStops(e, i)
      PROVE UNCHANGED binder
  BY <1>3 DEF DrainTakes, DrainSends, DrainStops
<1>4. ASSUME NEW r \in Reqs, Request(r) PROVE UNCHANGED binder
  BY <1>4 DEF Request, Begin, Look, ReadProc, Send, TakeReply, TimeOut, AbortWait
<1>5. CASE PumpTakes \/ Close \/ CloseReturns
  <2>1. UNCHANGED <<acts, ran, actBuf, flushing, dropped, api, binding>>
    BY <1>5 DEF PumpTakes, Close, CloseReturns, binder
  <2> QED
    BY <2>1, IdleKeepsActs
<1>6. ASSUME FanOut \/ \E e \in Exts : Enqueue(e) \/ DispatchCommand(e) \/ PopOldest(e) \/ PushNewest(e)
      PROVE  ActsInv'
  <2>1. UNCHANGED <<acts, ran, actBuf, flushing, dropped, api>>
    BY <1>6 DEF FanOut, Enqueue, DispatchCommand, PopOldest, PushNewest, binder
  <2>2. binding' = binding \/ (fan.kind = "session_start" /\ binding' = "done")
    BY <1>6 DEF FanOut, Enqueue, DispatchCommand, PopOldest, PushNewest, TrySend, Given, Returns, NextExt, binder
  <2>3. fan.kind = "session_start" => binding = "announce"
    BY DEF BindInv
  <2> QED
    BY <2>1, <2>2, <2>3, IdleKeepsActs
<1>7. ASSUME UNCHANGED binder PROVE ActsInv'
  <2>1. UNCHANGED <<acts, ran, actBuf, flushing, dropped, api, binding>>
    BY <1>7 DEF binder
  <2> QED
    BY <2>1, IdleKeepsActs
<1> QED
  BY <1>1, <1>2, <1>3, <1>4, <1>5, <1>6, <1>7, ActKeepsActs, BindKeepsActs, FlushKeepsActs DEF Step

\* Bind misses nothing that happens around it: whoever serves once it is done
\* has been told of the session, and every action sent has run once, waits to
\* be run or met a full buffer (runOnce, route and Bind).
THEOREM BindLosesNothing == Spec => []BindMissesNothing
<1>1. Init => ActsInv
  <2> SUFFICES ASSUME Init PROVE ActsInv
    OBVIOUS
  <2>1. ToSet(<<>>) = {} /\ Len(<<>>) = 0 /\ <<>> \in Seq(Nat) /\ 1 .. 0 = {}
    BY DEF ToSet
  <2>2. IsFiniteSet({}) /\ Cardinality({}) = 0
    BY FS_EmptySet
  <2> QED
    <3>1. /\ acts = 0 /\ ran = <<>> /\ actBuf = <<>> /\ flushing = <<>> /\ dropped = {}
          /\ api = FALSE /\ binding = "no"
      BY DEF Init
    <3>2. ActionsKept
      BY <2>1, <2>2, <3>1 DEF ActionsKept
    <3> QED
      BY <2>1, <2>2, <3>1, <3>2 DEF ActsInv
<1>2. ActsInv /\ BindInv /\ [Next]_vars => ActsInv'
  <2> SUFFICES ASSUME ActsInv, BindInv, [Next]_vars PROVE ActsInv'
    OBVIOUS
  <2>1. CASE UNCHANGED vars
    <3>1. UNCHANGED <<acts, ran, actBuf, flushing, dropped, api, binding>>
      BY <2>1 DEF vars, binder
    <3> QED
      BY <3>1, IdleKeepsActs
  <2> QED
    BY <2>1, StepKeepsActs DEF Next
<1>3. BindInv /\ ActsInv => BindMissesNothing
  BY DEF BindInv, ActsInv, BindMissesNothing, SessionAnnounced
<1> QED
  BY <1>1, <1>2, <1>3, BindInvHolds, PTL DEF Spec
----------------------------------------------------------------------------
(* The host's requests                                                     *)

\* Nothing the requests depend on changes.
LEMMA IdleKeepsRequests ==
  ASSUME RequestInv, UNCHANGED <<requests, inc, proc, alive, sup, owner>>
  PROVE  RequestInv'
BY DEF RequestInv, RequestTypes, Procs, Slots, Spoken, AnswersOwnRequest, NoRequestStranded, requests

\* A supervisor moves on, or its process dies.
LEMMA MovesKeepRequests ==
  ASSUME RequestInv, NEW e \in Exts, UNCHANGED <<requests, inc, proc>>, owner' \in 0 .. N,
         alive' = alive \/ alive' = [alive EXCEPT ![e] = FALSE],
         NEW at \in Stands, sup' = [sup EXCEPT ![e] = at], sup[e] # "fail" \/ at = "fail",
         at \in {"top", "backoff", "gone", "fail"} => sup[e] \in {"top", "backoff", "gone", "fail"}
  PROVE  RequestInv'
<1>1. /\ sup' \in [Exts -> Stands] /\ alive' \in [Exts -> BOOLEAN]
      /\ \A d \in Exts : d # e => sup'[d] = sup[d]
      /\ \A d \in Exts : alive'[d] => alive[d]
      /\ sup'[e] = at
  BY DEF RequestInv, RequestTypes
<1>2. RequestTypes'
  BY <1>1 DEF RequestInv, RequestTypes, requests
<1>3. Procs'
  BY <1>1 DEF RequestInv, Procs
<1>4. NoRequestStranded'
  BY <1>1 DEF RequestInv, RequestTypes, NoRequestStranded, requests
<1>5. Slots' /\ Spoken' /\ AnswersOwnRequest'
  BY DEF RequestInv, Slots, Spoken, AnswersOwnRequest, requests
<1> QED
  BY <1>2, <1>3, <1>4, <1>5 DEF RequestInv

LEMMA SpawnKeepsRequests == ASSUME RequestInv, NEW e \in Exts, Spawn(e) PROVE RequestInv'
<1>1. /\ sup[e] = "top" /\ inc' = [inc EXCEPT ![e] = @ + 1] /\ alive' = [alive EXCEPT ![e] = TRUE]
      /\ proc' = [proc EXCEPT ![e] = inc'[e]] /\ sup' = [sup EXCEPT ![e] = "hello"]
      /\ UNCHANGED <<nextID, pending, inbox, req, chan, owner>>
  BY DEF Spawn, requests, catalog
<1>2. /\ inc \in [Exts -> Nat] /\ alive \in [Exts -> BOOLEAN] /\ proc \in [Exts -> Nat] /\ sup \in [Exts -> Stands]
      /\ proc[e] = 0 /\ proc[e] \in {0, inc[e]}
  BY <1>1 DEF RequestInv, RequestTypes, Procs
<1>3. /\ inc' \in [Exts -> Nat] /\ alive' \in [Exts -> BOOLEAN] /\ proc' \in [Exts -> Nat] /\ sup' \in [Exts -> Stands]
      /\ \A d \in Exts : d # e => inc'[d] = inc[d] /\ alive'[d] = alive[d] /\ proc'[d] = proc[d] /\ sup'[d] = sup[d]
      /\ proc'[e] = inc'[e] /\ sup'[e] = "hello"
  BY <1>1, <1>2 DEF Stands
<1>4. RequestTypes'
  BY <1>1, <1>3 DEF RequestInv, RequestTypes
<1>5. Procs'
  BY <1>1, <1>3 DEF RequestInv, Procs
<1>6. Slots' /\ Spoken' /\ AnswersOwnRequest'
  BY <1>1 DEF RequestInv, Slots, Spoken, AnswersOwnRequest
<1>7. ASSUME NEW r \in Reqs, req[r].st = "waiting", chan[r] = NoReply PROVE req[r].ext # e /\ req[r].ext \in Exts
  <2>1. /\ req[r].inc > 0 /\ req[r].inc = inc[req[r].ext] /\ req[r].ext \in Exts
        /\ proc[req[r].ext] = inc[req[r].ext] \/ sup[req[r].ext] = "fail"
    BY <1>7 DEF RequestInv, RequestTypes, Spoken, NoRequestStranded, Calls
  <2> QED
    BY <1>1, <1>2, <2>1
<1>8. NoRequestStranded'
  BY <1>1, <1>3, <1>7 DEF RequestInv, NoRequestStranded
<1> QED
  BY <1>4, <1>5, <1>6, <1>8 DEF RequestInv

LEMMA StopKeepsRequests == ASSUME RequestInv, NEW e \in Exts, StopProc(e) PROVE RequestInv'
<1>1. /\ proc' = [proc EXCEPT ![e] = 0] /\ alive' = [alive EXCEPT ![e] = FALSE] /\ sup' = [sup EXCEPT ![e] = "fail"]
      /\ UNCHANGED <<nextID, pending, inbox, req, chan, inc, owner>>
  BY DEF StopProc, requests, catalog
<1>2. /\ proc' \in [Exts -> Nat] /\ alive' \in [Exts -> BOOLEAN] /\ sup' \in [Exts -> Stands]
      /\ \A d \in Exts : d # e => alive'[d] = alive[d] /\ proc'[d] = proc[d] /\ sup'[d] = sup[d]
      /\ proc'[e] = 0 /\ ~alive'[e] /\ sup'[e] = "fail"
  BY <1>1 DEF RequestInv, RequestTypes, Stands
<1>3. RequestTypes'
  BY <1>1, <1>2 DEF RequestInv, RequestTypes
<1>4. Procs'
  BY <1>1, <1>2 DEF RequestInv, Procs
<1>5. Slots' /\ Spoken' /\ AnswersOwnRequest'
  BY <1>1 DEF RequestInv, Slots, Spoken, AnswersOwnRequest
<1>6. NoRequestStranded'
  BY <1>1, <1>2 DEF RequestInv, RequestTypes, Calls, NoRequestStranded
<1> QED
  BY <1>3, <1>4, <1>5, <1>6 DEF RequestInv

\* failPending answers every request that waits for the process.
LEMMA FailKeepsRequests == ASSUME RequestInv, NEW e \in Exts, AfterRun(e) PROVE RequestInv'
<1>1. /\ sup[e] = "fail"
      /\ pending' = [pending EXCEPT ![e] = {}] /\ inbox' = [inbox EXCEPT ![e] = {}] /\ chan' = Failed(e)
      /\ UNCHANGED <<inc, alive, proc, nextID, req, owner>>
  BY DEF AfterRun, catalog
<1>2. \E at \in {"gone", "backoff"} : sup' = [sup EXCEPT ![e] = at]
  BY DEF AfterRun
<1>3. /\ pending \in [Exts -> SUBSET Slot] /\ inbox \in [Exts -> SUBSET Slot] /\ chan \in [Reqs -> Replies]
      /\ req \in [Reqs -> Calls] /\ sup \in [Exts -> Stands]
  BY DEF RequestInv, RequestTypes
<1>4. /\ pending' \in [Exts -> SUBSET Slot] /\ inbox' \in [Exts -> SUBSET Slot] /\ sup' \in [Exts -> Stands]
      /\ \A d \in Exts : d # e => pending'[d] = pending[d] /\ inbox'[d] = inbox[d] /\ sup'[d] = sup[d]
      /\ pending'[e] = {} /\ inbox'[e] = {} /\ sup'[e] \in {"gone", "backoff"}
  BY <1>1, <1>2, <1>3 DEF Stands
<1>5. /\ \A r \in Reqs : chan'[r] = IF \E p \in pending[e] : p.req = r THEN [kind |-> "gone", of |-> r] ELSE chan[r]
      /\ chan' \in [Reqs -> Replies]
  <2>1. \A r \in Reqs : [kind |-> "gone", of |-> r] \in Replies
    BY DEF Replies
  <2> QED
    BY <1>1, <1>3, <2>1 DEF Failed
<1>6. RequestTypes'
  BY <1>1, <1>4, <1>5 DEF RequestInv, RequestTypes
<1>7. Procs'
  BY <1>1, <1>4 DEF RequestInv, Procs
<1>8. AnswersOwnRequest'
  BY <1>5 DEF RequestInv, AnswersOwnRequest
<1>9. \A d \in Exts : \A p \in pending[d] : p.req \in Reqs /\ req[p.req].ext = d
  BY <1>3 DEF RequestInv, Slots, Slot
<1>10. Slots'
  <2>1. ASSUME NEW d \in Exts, NEW p \in pending'[d] PROVE d # e /\ p \in pending[d] /\ chan'[p.req] = chan[p.req]
    <3>1. d # e /\ p \in pending[d]
      BY <1>4, <2>1
    <3> QED
      BY <1>5, <1>9, <3>1
  <2> QED
    BY <1>1, <1>4, <2>1 DEF RequestInv, Slots
<1>11. Spoken'
  BY <1>1, <1>3, <1>4 DEF RequestInv, Spoken, Calls
<1>12. NoRequestStranded'
  <2> SUFFICES ASSUME NEW r \in Reqs, req[r].st = "waiting", chan'[r] = NoReply
               PROVE  /\ req[r].ext # e /\ req[r].ext \in Exts
                      /\ chan[r] = NoReply
    BY <1>1, <1>4 DEF RequestInv, NoRequestStranded
  <2>1. chan[r] = NoReply /\ ~\E p \in pending[e] : p.req = r
    BY <1>5 DEF NoReply
  <2>2. req[r].ext \in Exts /\ [id |-> req[r].id, req |-> r] \in pending[req[r].ext]
    BY <1>3, <2>1 DEF RequestInv, NoRequestStranded, Calls
  <2> QED
    BY <2>1, <2>2
<1> QED
  BY <1>6, <1>7, <1>8, <1>10, <1>11, <1>12 DEF RequestInv

\* Where a request goes when its extension is behind it.
LEMMA AfterIsCall ==
  ASSUME NEW r \in Reqs, NEW s \in Calls, NEW answer
  PROVE  After(r, s, answer) \in Calls /\ After(r, s, answer).st \in {"look", "blocked", "done"}
<1>1. CASE s.kind = "gate" /\ answer # "block" /\ s.ext < N
  <2>1. s.ext + 1 \in Exts
    BY <1>1, ConstantsAssumption DEF Calls, Exts
  <2> QED
    BY <1>1, <2>1 DEF After, Calls, Places
<1>2. CASE ~(s.kind = "gate" /\ answer # "block" /\ s.ext < N)
  BY <1>2 DEF After, Calls, Places
<1> QED
  BY <1>1, <1>2

\* A request that does not wait, or stops waiting and takes its slot along.
LEMMA SettlingKeepsRequests ==
  ASSUME RequestInv, NEW r \in Reqs, NEW s \in Calls,
         req' = [req EXCEPT ![r] = s], s.st # "waiting", s.st = "ready" => s.inc > 0,
         pending' \in [Exts -> SUBSET Slot], nextID' \in [Exts -> Nat],
         \A e \in Exts : nextID[e] <= nextID'[e],
         \A e \in Exts : \A p \in pending'[e] : p \in pending[e] /\ p.req # r,
         \A e \in Exts : \A p \in pending[e] : p.req # r => p \in pending'[e],
         UNCHANGED <<inc, proc, alive, sup, chan, inbox, owner>>
  PROVE  RequestInv'
<1>1. /\ req \in [Reqs -> Calls] /\ req' \in [Reqs -> Calls] /\ req'[r] = s
      /\ \A q \in Reqs : q # r => req'[q] = req[q]
      /\ nextID \in [Exts -> Nat] /\ pending \in [Exts -> SUBSET Slot] /\ inbox \in [Exts -> SUBSET Slot]
  BY DEF RequestInv, RequestTypes
<1>2. RequestTypes' /\ Procs' /\ AnswersOwnRequest'
  BY <1>1 DEF RequestInv, RequestTypes, Procs, AnswersOwnRequest
<1>3. Slots'
  <2> SUFFICES ASSUME NEW e \in Exts
               PROVE  /\ \A m \in pending'[e] \cup inbox[e] : m.id <= nextID'[e]
                      /\ \A p \in pending'[e], m \in pending'[e] \cup inbox[e] : p.id = m.id => p.req = m.req
                      /\ \A p \in pending'[e] : /\ req'[p.req].st = "waiting" /\ req'[p.req].ext = e
                                                /\ req'[p.req].id = p.id /\ chan[p.req] = NoReply
    BY DEF Slots
  <2>1. \A m \in pending'[e] \cup inbox[e] : m.id <= nextID'[e]
    <3>1. \A m \in pending'[e] \cup inbox[e] : m.id \in Nat /\ m.id <= nextID[e]
      BY <1>1 DEF RequestInv, Slots, Slot
    <3> QED
      BY <1>1, <3>1
  <2>2. \A p \in pending'[e], m \in pending'[e] \cup inbox[e] : p.id = m.id => p.req = m.req
    BY DEF RequestInv, Slots
  <2>3. \A p \in pending'[e] : p.req \in Reqs /\ p.req # r /\ p \in pending[e]
    BY <1>1 DEF Slot
  <2> QED
    BY <1>1, <2>1, <2>2, <2>3 DEF RequestInv, Slots
<1>4. Spoken'
  <2> SUFFICES ASSUME NEW q \in Reqs
               PROVE  /\ req'[q].st \in {"ready", "waiting"} => req'[q].inc > 0
                      /\ req'[q].st = "waiting" => /\ req'[q].id <= nextID'[req'[q].ext]
                                                   /\ \A p \in pending'[req'[q].ext] : p.id = req'[q].id => p.req = q
    BY DEF Spoken
  <2>1. CASE q = r
    BY <1>1, <2>1
  <2>2. CASE q # r
    <3>1. req'[q] = req[q] /\ req[q].ext \in Exts /\ req[q].id \in Nat
      BY <1>1, <2>2 DEF Calls
    <3>2. req[q].st = "waiting" => req[q].id <= nextID'[req[q].ext]
      BY <1>1, <3>1 DEF RequestInv, Spoken
    <3> QED
      BY <3>1, <3>2 DEF RequestInv, Spoken
  <2> QED
    BY <2>1, <2>2
<1>5. NoRequestStranded'
  <2> SUFFICES ASSUME NEW q \in Reqs, req'[q].st = "waiting", chan[q] = NoReply
               PROVE  /\ [id |-> req'[q].id, req |-> q] \in pending'[req'[q].ext]
                      /\ req'[q].inc = inc[req'[q].ext]
                      /\ proc[req'[q].ext] = inc[req'[q].ext] \/ sup[req'[q].ext] = "fail"
    BY DEF NoRequestStranded
  <2>1. q # r /\ req'[q] = req[q] /\ req[q].ext \in Exts
    BY <1>1 DEF Calls
  <2> QED
    BY <2>1 DEF RequestInv, NoRequestStranded
<1> QED
  BY <1>2, <1>3, <1>4, <1>5 DEF RequestInv

LEMMA QuietKeepsRequests ==
  ASSUME RequestInv, NEW r \in Reqs, Begin(r) \/ Look(r) \/ ReadProc(r) \/ TakeReply(r) PROVE RequestInv'
<1>1. /\ req \in [Reqs -> Calls] /\ req[r] \in Calls /\ owner \in 0 .. N
      /\ UNCHANGED <<inc, proc, alive, sup, chan, inbox, owner, pending, nextID>>
  BY DEF Begin, Look, ReadProc, TakeReply, supervisor, catalog, RequestInv, RequestTypes
<1>2. \A e \in Exts : \A p \in pending[e] : p.req # r
  <2>1. \A e \in Exts : \A p \in pending[e] : req[p.req].st = "waiting" /\ chan[p.req] = NoReply
    BY DEF RequestInv, Slots
  <2>2. req[r].st # "waiting" \/ chan[r] # NoReply
    BY DEF Begin, Look, ReadProc, TakeReply
  <2> QED
    BY <2>1, <2>2
<1>3. \E s \in Calls : req' = [req EXCEPT ![r] = s] /\ s.st # "waiting" /\ (s.st = "ready" => s.inc > 0)
  <2>1. CASE Begin(r)
    <3>1. \/ req' = [req EXCEPT ![r] = [@ EXCEPT !.kind = "gate", !.st = "look"]]
          \/ owner # 0 /\ req' = [req EXCEPT ![r] = [@ EXCEPT !.kind = "tool", !.st = "look", !.ext = owner]]
      BY <1>1, <2>1 DEF Begin
    <3>2. owner # 0 => owner \in Exts
      BY <1>1, ConstantsAssumption DEF Exts
    <3>3. /\ [req[r] EXCEPT !.kind = "gate", !.st = "look"] \in Calls
          /\ owner # 0 => [req[r] EXCEPT !.kind = "tool", !.st = "look", !.ext = owner] \in Calls
      BY <1>1, <3>2 DEF Calls, Places
    <3>4. /\ [req[r] EXCEPT !.kind = "gate", !.st = "look"].st = "look"
          /\ [req[r] EXCEPT !.kind = "tool", !.st = "look", !.ext = owner].st = "look"
      BY <1>1 DEF Calls
    <3> QED
      BY <3>1, <3>3, <3>4
  <2>2. CASE Look(r)
    <3>1. \/ req' = [req EXCEPT ![r] = [@ EXCEPT !.st = "picked"]]
          \/ req' = [req EXCEPT ![r] = After(r, @, "skip")]
      BY <2>2 DEF Look
    <3>2. [req[r] EXCEPT !.st = "picked"] \in Calls /\ [req[r] EXCEPT !.st = "picked"].st = "picked"
      BY <1>1 DEF Calls, Places
    <3>3. After(r, req[r], "skip") \in Calls /\ After(r, req[r], "skip").st \in {"look", "blocked", "done"}
      BY <1>1, AfterIsCall
    <3> QED
      BY <3>1, <3>2, <3>3
  <2>3. CASE ReadProc(r)
    <3> DEFINE i == proc[req[r].ext]
    <3>1. \/ req' = [req EXCEPT ![r] = After(r, @, "gone")]
          \/ i # 0 /\ req' = [req EXCEPT ![r] = [@ EXCEPT !.st = "ready", !.inc = i]]
      BY <2>3 DEF ReadProc
    <3>2. i \in Nat
      BY <1>1 DEF RequestInv, RequestTypes, Calls
    <3>3. /\ [req[r] EXCEPT !.st = "ready", !.inc = i] \in Calls
          /\ [req[r] EXCEPT !.st = "ready", !.inc = i].st = "ready"
          /\ [req[r] EXCEPT !.st = "ready", !.inc = i].inc = i
      BY <1>1, <3>2 DEF Calls, Places
    <3>4. After(r, req[r], "gone") \in Calls /\ After(r, req[r], "gone").st \in {"look", "blocked", "done"}
      BY <1>1, AfterIsCall
    <3>5. i # 0 => i > 0
      BY <3>2
    <3> HIDE DEF i
    <3> QED
      BY <3>1, <3>3, <3>4, <3>5
  <2>4. CASE TakeReply(r)
    <3> DEFINE s == IF chan[r].kind = "mutate" THEN [req[r] EXCEPT !.args = req[r].ext] ELSE req[r]
    <3>1. req' = [req EXCEPT ![r] = After(r, s, chan[r].kind)]
      BY <2>4 DEF TakeReply
    <3>2. s \in Calls
      BY <1>1, ConstantsAssumption DEF Calls, Exts
    <3>3. After(r, s, chan[r].kind) \in Calls /\ After(r, s, chan[r].kind).st \in {"look", "blocked", "done"}
      BY <3>2, AfterIsCall
    <3> QED
      BY <3>1, <3>3
  <2> QED
    BY <2>1, <2>2, <2>3, <2>4
<1>4. nextID \in [Exts -> Nat] /\ pending \in [Exts -> SUBSET Slot] /\ \A e \in Exts : nextID[e] <= nextID[e]
  BY DEF RequestInv, RequestTypes
<1> QED
  BY <1>1, <1>2, <1>3, <1>4, SettlingKeepsRequests

\* A request that gives up takes its own slot out, and nobody else's.
LEMMA GivingUpKeepsRequests ==
  ASSUME RequestInv, NEW r \in Reqs, TimeOut(r) \/ AbortWait(r) PROVE RequestInv'
<1> DEFINE e == req[r].ext
<1>1. /\ req \in [Reqs -> Calls] /\ req[r] \in Calls /\ e \in Exts /\ req[r].st = "waiting"
      /\ pending \in [Exts -> SUBSET Slot] /\ nextID \in [Exts -> Nat]
      /\ pending' = [pending EXCEPT ![e] = {p \in @ : p.id # req[r].id}]
      /\ UNCHANGED <<inc, proc, alive, sup, chan, inbox, owner, nextID>>
  BY DEF TimeOut, AbortWait, supervisor, catalog, RequestInv, RequestTypes, Calls
<1>2. \E s \in Calls : req' = [req EXCEPT ![r] = s] /\ s.st # "waiting" /\ s.st # "ready"
  <2>1. \/ req' = [req EXCEPT ![r] = After(r, @, "timeout")]
        \/ req' = [req EXCEPT ![r] = [@ EXCEPT !.st = "aborted"]]
    BY <1>1 DEF TimeOut, AbortWait
  <2>2. [req[r] EXCEPT !.st = "aborted"] \in Calls /\ [req[r] EXCEPT !.st = "aborted"].st = "aborted"
    BY <1>1 DEF Calls, Places
  <2>3. After(r, req[r], "timeout") \in Calls /\ After(r, req[r], "timeout").st \in {"look", "blocked", "done"}
    BY <1>1, AfterIsCall
  <2> QED
    BY <2>1, <2>2, <2>3
<1> HIDE DEF e
<1>3. /\ pending' \in [Exts -> SUBSET Slot] /\ pending'[e] = {p \in pending[e] : p.id # req[r].id}
      /\ \A f \in Exts : f # e => pending'[f] = pending[f]
  BY <1>1
<1>4. \A f \in Exts : \A p \in pending[f] : p.req = r => f = e /\ p.id = req[r].id
  BY DEF RequestInv, Slots, e
<1>5. \A p \in pending[e] : p.id = req[r].id => p.req = r
  BY <1>1 DEF RequestInv, Spoken, e
<1>6. \A f \in Exts : \A p \in pending'[f] : p \in pending[f] /\ p.req # r
  BY <1>3, <1>4
<1>7. \A f \in Exts : \A p \in pending[f] : p.req # r => p \in pending'[f]
  BY <1>3, <1>5
<1>8. \A f \in Exts : nextID[f] <= nextID'[f]
  BY <1>1
<1>9. PICK s \in Calls : req' = [req EXCEPT ![r] = s] /\ s.st # "waiting" /\ s.st # "ready"
  BY <1>2
<1>10. nextID' \in [Exts -> Nat] /\ UNCHANGED <<inc, proc, alive, sup, chan, inbox, owner>>
  BY <1>1
<1>11. req' = [req EXCEPT ![r] = s] /\ s.st # "waiting" /\ (s.st = "ready" => s.inc > 0)
  BY <1>9
<1>12. pending' \in [Exts -> SUBSET Slot]
  BY <1>3
<1> HIDE <1>1, <1>2, <1>3, <1>4, <1>5, <1>9
<1> QED
  BY <1>6, <1>7, <1>8, <1>10, <1>11, <1>12, SettlingKeepsRequests

\* A request sent gets an id nobody had.
LEMMA SendKeepsRequests == ASSUME RequestInv, NEW r \in Reqs, Send(r) PROVE RequestInv'
<1> DEFINE e == req[r].ext
           slot == [id |-> nextID[e] + 1, req |-> r]
<1>1. /\ req \in [Reqs -> Calls] /\ req[r] \in Calls /\ e \in Exts /\ req[r].st = "ready" /\ req[r].inc > 0
      /\ pending \in [Exts -> SUBSET Slot] /\ inbox \in [Exts -> SUBSET Slot] /\ nextID \in [Exts -> Nat]
      /\ chan \in [Reqs -> Replies]
      /\ nextID' = [nextID EXCEPT ![e] = @ + 1]
      /\ UNCHANGED <<inc, proc, alive, sup, owner>>
  BY DEF Send, supervisor, catalog, RequestInv, RequestTypes, Spoken, Calls
<1>2. /\ nextID[e] \in Nat /\ nextID' \in [Exts -> Nat] /\ nextID'[e] = nextID[e] + 1
      /\ \A f \in Exts : f # e => nextID'[f] = nextID[f]
      /\ \A f \in Exts : nextID[f] <= nextID'[f]
  BY <1>1
<1>3. \A f \in Exts : \A p \in pending[f] : p.req # r /\ p.req \in Reqs
  BY <1>1 DEF RequestInv, Slots, Slot
<1>4. CASE ~Accepts(e, req[r].inc)
  <2>1. req' = [req EXCEPT ![r] = After(r, @, "gone")] /\ UNCHANGED <<pending, inbox, chan>>
    BY <1>4 DEF Send
  <2>2. After(r, req[r], "gone") \in Calls /\ After(r, req[r], "gone").st \in {"look", "blocked", "done"}
    BY <1>1, AfterIsCall
  <2> HIDE DEF e
  <2>3. PICK s \in Calls : req' = [req EXCEPT ![r] = s] /\ s.st # "waiting" /\ s.st # "ready"
    BY <2>1, <2>2
  <2>4. /\ pending' \in [Exts -> SUBSET Slot]
        /\ \A f \in Exts : \A p \in pending'[f] : p \in pending[f] /\ p.req # r
        /\ \A f \in Exts : \A p \in pending[f] : p.req # r => p \in pending'[f]
    BY <1>1, <1>3, <2>1
  <2> QED
    BY <1>1, <1>2, <2>1, <2>3, <2>4, SettlingKeepsRequests
<1>5. CASE Accepts(e, req[r].inc)
  <2>1. /\ req' = [req EXCEPT ![r] = [@ EXCEPT !.st = "waiting", !.id = slot.id]]
        /\ pending' = [pending EXCEPT ![e] = {p \in @ : p.id # slot.id} \cup {slot}]
        /\ inbox' = [inbox EXCEPT ![e] = @ \cup {slot}]
        /\ chan' = [chan EXCEPT ![r] = NoReply]
    BY <1>1, <1>5 DEF Send, FreshID
  <2>2. /\ slot \in Slot /\ slot.id = nextID[e] + 1 /\ slot.req = r
        /\ \A m \in pending[e] \cup inbox[e] : m.id \in Nat /\ m.id <= nextID[e] /\ m.id # slot.id
    <3>1. slot \in Slot /\ slot.id = nextID[e] + 1 /\ slot.req = r
      BY <1>2 DEF Slot
    <3>2. \A m \in pending[e] \cup inbox[e] : m.id \in Nat /\ m.id <= nextID[e]
      BY <1>1 DEF RequestInv, Slots, Slot
    <3> QED
      BY <1>2, <3>1, <3>2
  <2> HIDE DEF slot, e
  <2>3. /\ pending'[e] = pending[e] \cup {slot} /\ inbox'[e] = inbox[e] \cup {slot}
        /\ pending' \in [Exts -> SUBSET Slot] /\ inbox' \in [Exts -> SUBSET Slot]
        /\ \A f \in Exts : f # e => pending'[f] = pending[f] /\ inbox'[f] = inbox[f]
    BY <1>1, <2>1, <2>2
  <2>4. /\ req' \in [Reqs -> Calls] /\ \A q \in Reqs : q # r => req'[q] = req[q]
        /\ req'[r].st = "waiting" /\ req'[r].id = slot.id /\ req'[r].ext = e /\ req'[r].inc = req[r].inc
    <3>1. slot.id \in Nat
      BY <1>2, <2>2
    <3>2. req' = [req EXCEPT ![r].st = "waiting", ![r].id = slot.id]
      BY <1>1, <2>1
    <3>3. [req[r] EXCEPT !.st = "waiting", !.id = slot.id] \in Calls
      BY <1>1, <3>1 DEF Calls, Places
    <3>4. req'[r] = [req[r] EXCEPT !.st = "waiting", !.id = slot.id] /\ \A q \in Reqs : q # r => req'[q] = req[q]
      BY <1>1, <2>1
    <3>5. /\ req'[r].st = "waiting" /\ req'[r].id = slot.id /\ req'[r].ext = req[r].ext /\ req'[r].inc = req[r].inc
      BY <1>1, <3>4 DEF Calls
    <3> QED
      BY <1>1, <2>1, <3>3, <3>4, <3>5 DEF e
  <2>5. /\ chan' \in [Reqs -> Replies] /\ chan'[r] = NoReply /\ \A q \in Reqs : q # r => chan'[q] = chan[q]
    BY <1>1, <2>1 DEF NoReply, Replies
  <2>6. RequestTypes' /\ Procs' /\ AnswersOwnRequest'
    <3>1. RequestTypes'
      BY <1>1, <1>2, <2>3, <2>4, <2>5 DEF RequestInv, RequestTypes
    <3>2. Procs'
      BY <1>1 DEF RequestInv, Procs
    <3>3. AnswersOwnRequest'
      BY <2>5 DEF RequestInv, AnswersOwnRequest
    <3> QED
      BY <3>1, <3>2, <3>3
  <2>7. Slots'
    <3> SUFFICES ASSUME NEW f \in Exts
                 PROVE  /\ \A m \in pending'[f] \cup inbox'[f] : m.id <= nextID'[f]
                        /\ \A p \in pending'[f], m \in pending'[f] \cup inbox'[f] : p.id = m.id => p.req = m.req
                        /\ \A p \in pending'[f] : /\ req'[p.req].st = "waiting" /\ req'[p.req].ext = f
                                                  /\ req'[p.req].id = p.id /\ chan'[p.req] = NoReply
      BY DEF Slots
    <3>1. CASE f # e
      BY <1>2, <1>3, <2>3, <2>4, <2>5, <3>1 DEF RequestInv, Slots
    <3>2. CASE f = e
      <4>1. \A m \in pending'[e] \cup inbox'[e] : m = slot \/ m \in pending[e] \cup inbox[e]
        BY <2>3
      <4>2. \A m \in pending'[e] \cup inbox'[e] : m.id <= nextID'[e]
        BY <1>2, <2>2, <4>1
      <4>3. \A p \in pending'[e], m \in pending'[e] \cup inbox'[e] : p.id = m.id => p.req = m.req
        <5>1. \A p \in pending[e], m \in pending[e] \cup inbox[e] : p.id = m.id => p.req = m.req
          BY <1>1 DEF RequestInv, Slots
        <5>2. \A p \in pending'[e] : p = slot \/ p \in pending[e]
          BY <2>3
        <5> QED
          BY <2>2, <4>1, <5>1, <5>2
      <4>4. ASSUME NEW p \in pending'[e]
            PROVE  /\ req'[p.req].st = "waiting" /\ req'[p.req].ext = e
                   /\ req'[p.req].id = p.id /\ chan'[p.req] = NoReply
        <5>1. CASE p = slot
          BY <2>2, <2>4, <2>5, <5>1
        <5>2. CASE p \in pending[e]
          BY <1>1, <1>3, <2>4, <2>5, <5>2 DEF RequestInv, Slots
        <5> QED
          BY <2>3, <5>1, <5>2
      <4> QED
        BY <3>2, <4>2, <4>3, <4>4
    <3> QED
      BY <3>1, <3>2
  <2>8. Spoken'
    <3> SUFFICES ASSUME NEW q \in Reqs
                 PROVE  /\ req'[q].st \in {"ready", "waiting"} => req'[q].inc > 0
                        /\ req'[q].st = "waiting" => /\ req'[q].id <= nextID'[req'[q].ext]
                                                     /\ \A p \in pending'[req'[q].ext] : p.id = req'[q].id => p.req = q
      BY DEF Spoken
    <3>1. CASE q = r
      <4>1. slot.id <= nextID'[e] /\ req'[r].inc > 0
        BY <1>1, <1>2, <2>2, <2>4
      <4>2. \A p \in pending'[e] : p.id = slot.id => p.req = r
        BY <2>2, <2>3
      <4> QED
        BY <2>4, <3>1, <4>1, <4>2
    <3>2. CASE q # r
      <4>1. req'[q] = req[q] /\ req[q].ext \in Exts /\ req[q].id \in Nat
        BY <1>1, <2>4, <3>2 DEF Calls
      <4>2. /\ req[q].st \in {"ready", "waiting"} => req[q].inc > 0
            /\ req[q].st = "waiting" => /\ req[q].id <= nextID[req[q].ext]
                                        /\ \A p \in pending[req[q].ext] : p.id = req[q].id => p.req = q
        BY DEF RequestInv, Spoken
      <4>3. CASE req[q].ext # e
        BY <1>2, <2>3, <4>1, <4>2, <4>3
      <4>4. CASE req[q].ext = e /\ req[q].st = "waiting"
        <5>1. req[q].id <= nextID[e] /\ req[q].id # slot.id
          BY <1>2, <2>2, <4>1, <4>2, <4>4
        <5> QED
          BY <1>2, <2>3, <4>1, <4>2, <4>4, <5>1
      <4> QED
        BY <4>1, <4>2, <4>3, <4>4
    <3> QED
      BY <3>1, <3>2
  <2>9. NoRequestStranded'
    <3> SUFFICES ASSUME NEW q \in Reqs, req'[q].st = "waiting", chan'[q] = NoReply
                 PROVE  /\ [id |-> req'[q].id, req |-> q] \in pending'[req'[q].ext]
                        /\ req'[q].inc = inc[req'[q].ext]
                        /\ proc[req'[q].ext] = inc[req'[q].ext] \/ sup[req'[q].ext] = "fail"
      BY <1>1 DEF NoRequestStranded
    <3>1. CASE q = r
      <4>1. req[r].inc = inc[e] /\ proc[e] = inc[e]
        BY <1>1, <1>5 DEF RequestInv, Procs, Accepts
      <4>2. [id |-> slot.id, req |-> r] = slot
        BY <2>2 DEF slot
      <4> QED
        BY <2>3, <2>4, <3>1, <4>1, <4>2
    <3>2. CASE q # r
      <4>1. req'[q] = req[q] /\ req[q].ext \in Exts /\ chan[q] = NoReply
        BY <1>1, <2>4, <2>5, <3>2 DEF Calls
      <4>2. pending[req[q].ext] \subseteq pending'[req[q].ext]
        BY <2>3, <4>1
      <4> QED
        BY <4>1, <4>2 DEF RequestInv, NoRequestStranded
    <3> QED
      BY <3>1, <3>2
  <2> QED
    BY <2>6, <2>7, <2>8, <2>9 DEF RequestInv
<1> QED
  BY <1>4, <1>5

\* An answer goes to the request whose slot it takes.
LEMMA AnswerKeepsRequests == ASSUME RequestInv, NEW e \in Exts, Answer(e) PROVE RequestInv'
<1>1. PICK m \in inbox[e], how \in {"pass", "mutate", "block"} :
        /\ inbox' = [inbox EXCEPT ![e] = @ \ {m}]
        /\ pending' = [pending EXCEPT ![e] = @ \ {p \in pending[e] : p.id = m.id}]
        /\ chan' = [q \in Reqs |-> IF \E p \in {p \in pending[e] : p.id = m.id} : p.req = q
                                   THEN [kind |-> how, of |-> m.req] ELSE chan[q]]
  BY DEF Answer
<1>2. UNCHANGED <<inc, proc, alive, sup, owner, req, nextID>>
  BY DEF Answer, supervisor, catalog
<1>3. /\ req \in [Reqs -> Calls] /\ chan \in [Reqs -> Replies]
      /\ pending \in [Exts -> SUBSET Slot] /\ inbox \in [Exts -> SUBSET Slot]
  BY DEF RequestInv, RequestTypes
<1>4. /\ pending' \in [Exts -> SUBSET Slot] /\ inbox' \in [Exts -> SUBSET Slot]
      /\ pending'[e] = {p \in pending[e] : p.id # m.id} /\ inbox'[e] \subseteq inbox[e]
      /\ \A f \in Exts : f # e => pending'[f] = pending[f] /\ inbox'[f] = inbox[f]
      /\ \A f \in Exts : pending'[f] \subseteq pending[f] /\ inbox'[f] \subseteq inbox[f]
  BY <1>1, <1>3
<1>5. /\ chan' \in [Reqs -> Replies]
      /\ \A q \in Reqs : \/ chan'[q] = chan[q] /\ ~\E p \in pending[e] : p.id = m.id /\ p.req = q
                         \/ chan'[q].of = q /\ chan'[q] # NoReply /\ \E p \in pending[e] : p.id = m.id /\ p.req = q
  <2>1. \A p \in pending[e] : p.id = m.id => p.req = m.req
    BY DEF RequestInv, Slots
  <2>2. [kind |-> how, of |-> m.req] \in Replies /\ m.req \in Reqs
    BY <1>3 DEF Replies, Slot
  <2>3. [kind |-> how, of |-> m.req].of = m.req /\ [kind |-> how, of |-> m.req] # NoReply
    BY DEF NoReply
  <2> QED
    BY <1>1, <1>3, <2>1, <2>2, <2>3
<1>6. RequestTypes' /\ Procs' /\ AnswersOwnRequest'
  <2>1. RequestTypes'
    BY <1>2, <1>4, <1>5 DEF RequestInv, RequestTypes
  <2>2. Procs'
    BY <1>2 DEF RequestInv, Procs
  <2>3. AnswersOwnRequest'
    BY <1>5 DEF RequestInv, AnswersOwnRequest
  <2> QED
    BY <2>1, <2>2, <2>3
<1>7. Slots'
  <2>1. ASSUME NEW f \in Exts, NEW p \in pending'[f] PROVE chan'[p.req] = chan[p.req]
    <3>1. p \in pending[f] /\ p.req \in Reqs /\ req[p.req].ext = f /\ req[p.req].id = p.id
      BY <1>3, <1>4 DEF RequestInv, Slots, Slot
    <3>2. SUFFICES ASSUME NEW q \in pending[e], q.id = m.id, q.req = p.req PROVE FALSE
      BY <1>5, <3>1
    <3>3. req[q.req].ext = e /\ req[q.req].id = q.id
      BY DEF RequestInv, Slots
    <3> QED
      BY <1>4, <3>1, <3>2, <3>3
  <2> QED
    BY <1>2, <1>4, <2>1 DEF RequestInv, Slots
<1>8. Spoken'
  BY <1>2, <1>3, <1>4 DEF RequestInv, Spoken, Calls
<1>9. NoRequestStranded'
  <2> SUFFICES ASSUME NEW q \in Reqs, req[q].st = "waiting", chan'[q] = NoReply
               PROVE  /\ [id |-> req[q].id, req |-> q] \in pending'[req[q].ext]
                      /\ chan[q] = NoReply
    BY <1>2 DEF RequestInv, NoRequestStranded
  <2>1. chan[q] = NoReply /\ ~\E p \in pending[e] : p.id = m.id /\ p.req = q
    BY <1>5
  <2>2. req[q].ext \in Exts /\ [id |-> req[q].id, req |-> q] \in pending[req[q].ext]
    BY <1>3, <2>1 DEF RequestInv, NoRequestStranded, Calls
  <2>3. req[q].ext = e => req[q].id # m.id
    BY <2>1, <2>2
  <2> QED
    BY <1>4, <2>1, <2>2, <2>3
<1> QED
  BY <1>6, <1>7, <1>8, <1>9 DEF RequestInv

LEMMA SuperviseKeepsRequests == ASSUME RequestInv, NEW e \in Exts, Supervise(e) \/ SpawnFails(e) \/ Misbehaves(e) \/ ClosesOutput(e) PROVE RequestInv'
<1>1. owner \in 0 .. N /\ e \in 0 .. N
  BY ConstantsAssumption DEF RequestInv, RequestTypes, Exts
<1>2. ASSUME NEW at \in Stands, sup' = [sup EXCEPT ![e] = at], UNCHANGED <<requests, inc, proc, alive>>, owner' \in 0 .. N,
             sup[e] # "fail", at \in {"top", "backoff", "gone", "fail"} => sup[e] \in {"top", "backoff"}
      PROVE  RequestInv'
  BY <1>2, MovesKeepRequests
<1>3. CASE Leave(e) \/ Restart(e)
  <2>1. \E at \in {"gone", "top"} : sup' = [sup EXCEPT ![e] = at]
    BY <1>3 DEF Leave, Restart
  <2>2. UNCHANGED <<requests, inc, proc, alive, owner>> /\ sup[e] \in {"top", "backoff"}
    BY <1>3 DEF Leave, Restart, catalog
  <2> QED
    BY <1>1, <1>2, <2>1, <2>2 DEF Stands
<1>4. CASE \/ Hello(e) \/ BecomeReady(e) \/ LookBound(e) \/ StartReading(e) \/ ReadEnds(e)
           \/ HelloFails(e) \/ SpawnFails(e) \/ Misbehaves(e) \/ ClosesOutput(e)
  <2>1. \E at \in {"earlier", "bound?", "announce", "start", "reading", "stop"} : sup' = [sup EXCEPT ![e] = at]
    BY <1>4 DEF Hello, BecomeReady, LookBound, StartReading, ReadEnds, HelloFails, SpawnFails, Misbehaves, ClosesOutput
  <2>2. UNCHANGED <<requests, inc, proc, alive>> /\ sup[e] # "fail"
    BY <1>4 DEF Hello, BecomeReady, LookBound, StartReading, ReadEnds, HelloFails, SpawnFails, Misbehaves, ClosesOutput
  <2>3. owner' \in 0 .. N
    BY <1>1, <1>4 DEF Hello, BecomeReady, LookBound, StartReading, ReadEnds, HelloFails, SpawnFails, Misbehaves, ClosesOutput, catalog
  <2> QED
    BY <1>2, <2>1, <2>2, <2>3 DEF Stands
<1> QED
  BY <1>3, <1>4, SpawnKeepsRequests, StopKeepsRequests, FailKeepsRequests DEF Supervise

LEMMA StepKeepsRequests == ASSUME RequestInv, BindInv, Step PROVE RequestInv'
<1>1. ASSUME NEW e \in Exts, Exit(e) \/ Kill(e) PROVE RequestInv'
  <2>1. /\ alive' = [alive EXCEPT ![e] = FALSE] /\ UNCHANGED <<requests, inc, proc, sup, owner>>
    BY <1>1 DEF Exit, Kill, catalog
  <2>2. sup[e] \in Stands /\ sup' = [sup EXCEPT ![e] = sup[e]] /\ owner' \in 0 .. N
    BY <2>1 DEF RequestInv, RequestTypes
  <2> QED
    BY <2>1, <2>2, MovesKeepRequests
<1>2. ASSUME NEW e \in Exts, Act(e) PROVE RequestInv'
  <2>1. UNCHANGED <<requests, inc, proc, alive, sup, owner>>
    BY <1>2 DEF Act, supervisor, catalog
  <2> QED
    BY <2>1, IdleKeepsRequests
<1>3. ASSUME NEW e \in Exts, NEW i \in Incs, DrainTakes(e, i) \/ DrainSends(e, i) \/ DrainStops(e, i) PROVE RequestInv'
  <2>1. UNCHANGED <<requests, inc, proc, alive, sup, owner>>
    BY <1>3 DEF DrainTakes, DrainSends, DrainStops, supervisor, catalog
  <2> QED
    BY <2>1, IdleKeepsRequests
<1>4. ASSUME NEW r \in Reqs, Request(r) PROVE RequestInv'
  BY <1>4, QuietKeepsRequests, GivingUpKeepsRequests, SendKeepsRequests DEF Request
<1>5. CASE Bind \/ Flush \/ PumpTakes \/ FanOut \/ Close \/ CloseReturns
  <2>1. UNCHANGED <<requests, inc, proc, alive, sup, owner>>
    BY <1>5 DEF Bind, Flush, PumpTakes, FanOut, Close, CloseReturns, supervisor, catalog
  <2> QED
    BY <2>1, IdleKeepsRequests
<1>6. ASSUME NEW e \in Exts, Enqueue(e) \/ DispatchCommand(e) \/ PopOldest(e) \/ PushNewest(e) PROVE RequestInv'
  <2>1. UNCHANGED <<requests, inc, proc, alive, owner>> /\ owner \in 0 .. N
    BY <1>6 DEF Enqueue, DispatchCommand, PopOldest, PushNewest, supervisor, catalog, RequestInv, RequestTypes
  <2>2. sup' = sup \/ (sup[e] = "announce" /\ sup' = [sup EXCEPT ![e] = "start"])
    BY <1>6, EnqueueMoves
  <2>3. CASE sup' = sup
    BY <2>1, <2>3, IdleKeepsRequests
  <2>4. CASE sup[e] = "announce" /\ sup' = [sup EXCEPT ![e] = "start"]
    BY <2>1, <2>4, MovesKeepRequests DEF Stands
  <2> QED
    BY <2>2, <2>3, <2>4
<1> QED
  BY <1>1, <1>2, <1>3, <1>4, <1>5, <1>6, SuperviseKeepsRequests, AnswerKeepsRequests DEF Step

LEMMA RequestInvHolds == Spec => []RequestInv
<1>1. Init => RequestInv
  <2> SUFFICES ASSUME Init PROVE RequestInv
    OBVIOUS
  <2>1. 1 \in Exts /\ 0 \in 0 .. N
    BY ConstantsAssumption DEF Exts
  <2>2. /\ req = [r \in Reqs |-> [kind |-> "none", st |-> "none", ext |-> 1, inc |-> 0, id |-> 0, args |-> 0]]
        /\ chan = [r \in Reqs |-> NoReply] /\ pending = [e \in Exts |-> {}] /\ inbox = [e \in Exts |-> {}]
        /\ nextID = [e \in Exts |-> 0] /\ inc = [e \in Exts |-> 0] /\ proc = [e \in Exts |-> 0]
        /\ alive = [e \in Exts |-> FALSE] /\ owner = 0
        /\ sup = [e \in Exts |-> IF e <= scene.exts THEN "top" ELSE "gone"]
    BY DEF Init
  <2>3. /\ [kind |-> "none", st |-> "none", ext |-> 1, inc |-> 0, id |-> 0, args |-> 0] \in Calls
        /\ NoReply \in Replies
    BY <2>1 DEF Calls, Places, NoReply, Replies
  <2>4. RequestTypes
    BY <2>1, <2>2, <2>3 DEF RequestTypes, Stands
  <2>5. Procs /\ Slots
    BY <2>2 DEF Procs, Slots
  <2>6. \A r \in Reqs : req[r].st = "none" /\ chan[r] = NoReply
    BY <2>2
  <2> QED
    BY <2>4, <2>5, <2>6 DEF RequestInv, Spoken, AnswersOwnRequest, NoRequestStranded
<1>2. RequestInv /\ BindInv /\ [Next]_vars => RequestInv'
  <2> SUFFICES ASSUME RequestInv, BindInv, [Next]_vars PROVE RequestInv'
    OBVIOUS
  <2>1. CASE UNCHANGED vars
    <3>1. UNCHANGED <<requests, inc, proc, alive, sup, owner>>
      BY <2>1 DEF vars, supervisor, catalog
    <3> QED
      BY <3>1, IdleKeepsRequests
  <2> QED
    BY <2>1, StepKeepsRequests DEF Next
<1> QED
  BY <1>1, <1>2, BindInvHolds, PTL DEF Spec

\* A request is given the answer to that very request, over any number of
\* timeouts, aborts and restarts, and in whatever order a process answers
\* (register, resolve and unregister).
THEOREM AnswersMatchRequests == Spec => []AnswersOwnRequest
<1>1. RequestInv => AnswersOwnRequest
  BY DEF RequestInv
<1> QED
  BY <1>1, RequestInvHolds, PTL

\* A request that waits unanswered is registered with the process it was sent
\* to, whose end failPending has still to handle: no request is left to a
\* process that is gone, although register does not hold the lock under
\* which e.proc was read (deliverBlocking, Execute, stopProc, failPending).
THEOREM RequestsNeverStranded == Spec => []NoRequestStranded
<1>1. RequestInv => NoRequestStranded
  BY DEF RequestInv
<1> QED
  BY <1>1, RequestInvHolds, PTL
=============================================================================
