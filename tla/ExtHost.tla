------------------------------ MODULE ExtHost ------------------------------
(***************************************************************************)
(* The extension host of src/internal/ext: one supervisor per extension    *)
(* (supervisor.go), the processes they run (proc.go), the host's requests  *)
(* to them (extension.go, gate.go, toolbridge.go), the event queues and    *)
(* their drains, and Start, Bind, the pump and Close of host.go.           *)
(*                                                                         *)
(* Extensions are numbered in h.order; each subscribes to every event.  A  *)
(* catalog is one tool that an extension offers or not.  A process is      *)
(* whatever answers what it was sent, in any order or never, sends         *)
(* actions, exits and misbehaves.  A scene bounds a behaviour: how many    *)
(* extensions are configured, which requests are made, whether Bind, the   *)
(* drains and Close get to run, and how many stimuli there are: each       *)
(* failure, event, action, command and timer that fires is one.            *)
(***************************************************************************)
EXTENDS Integers, Sequences, FiniteSets, FiniteSetsExt, SequencesExt

CONSTANTS N,           \* extensions
          Reqs,        \* runs of the gate and tool calls, each made at most once
          QueueCap,    \* queueCap
          MaxStrikes,  \* maxBlockStrikes
          Backoffs,    \* len(h.backoff)
          ActCap,      \* capacity of h.actBuf
          Scenes       \* bounds: how much happens in a behaviour

ASSUME ConstantsAssumption ==
  /\ {N, QueueCap, MaxStrikes, ActCap} \subseteq Nat \ {0}
  /\ Backoffs \in Nat
  /\ Scenes \subseteq [exts : 1 .. N, reqs : SUBSET Reqs, does : SUBSET {"bind", "drain", "close"}, stimuli : Nat]

VARIABLES ctxDone,   \* h.ctx is cancelled
          closing,   \* Host.Close: "no", "waiting" for wg, "returned"
          api,       \* h.api is set
          actBuf,    \* h.actBuf
          flushing,  \* Bind's buf: what it still has to dispatch
          acts,      \* actions sent, each a number
          ran,       \* actions run, in the order they ran
          dropped,   \* actions the full buffer refused
          binding,   \* Bind: "no", "flush", "announce", "done"
          fan,       \* fanOut under way: its event and the next extension
          sup,       \* where each supervisor stands
          crashes,   \* supervise's count
          inc,       \* incarnations spawned
          alive,     \* the last incarnation's process runs
          proc,      \* e.proc: an incarnation, 0 for nil
          state,     \* e.state
          strikes,   \* e.blockStrikes
          settled,   \* e.settled is closed
          adopted,   \* e.tools and e.commands are set
          offered,   \* the tool was in the hello: "no", in the "first" handshake or "later"
          owner,     \* the extension the registry has the tool from, or 0
          queue,     \* e.queue
          enqueuing, \* the enqueue that found e.queue full and holds e.mu: for whom, and did it pop
          queueDrops,\* e.queueDrops
          enqueued,  \* events enqueue was given so far
          taken,     \* events the drains took so far
          announced, \* session_start was enqueued since this incarnation was ready
          drains,    \* per incarnation: its drainQueue
          nextID,    \* e.nextID
          pending,   \* e.pending
          inbox,     \* requests the process has and has not answered
          req,       \* the requests
          chan,      \* per request: its reply channel
          scene,     \* the bounds of this behaviour: constant
          stimuli    \* stimuli left

binder == <<api, actBuf, flushing, acts, ran, dropped, binding>>
supervisor == <<sup, crashes, inc, alive, proc, settled>>
catalog == <<adopted, offered, owner>>
channel == <<queue, enqueuing, queueDrops, enqueued, taken>>
events == <<channel, announced>>
requests == <<nextID, pending, inbox, req, chan>>
vars == <<ctxDone, closing, binder, fan, supervisor, state, strikes, catalog, events, drains, requests, scene, stimuli>>

Exts == 1 .. N
Incs == 1 .. (1 + Max({s.stimuli : s \in Scenes}))
Idle == [kind |-> "idle", next |-> 1, at |-> "look"]
Nobody == [by |-> "nobody", popped |-> FALSE]
NoReply == [kind |-> "none", of |-> 0]
Running(r) == req[r].st \in {"look", "picked", "ready", "waiting"}

Stimulus == /\ stimuli > 0
            /\ stimuli' = stimuli - 1

Init == /\ ctxDone = FALSE
        /\ closing = "no"
        /\ api = FALSE
        /\ actBuf = <<>>
        /\ flushing = <<>>
        /\ ran = <<>>
        /\ acts = 0
        /\ dropped = {}
        /\ binding = "no"
        /\ fan = Idle
        /\ scene \in Scenes
        /\ sup = [e \in Exts |-> IF e <= scene.exts THEN "top" ELSE "gone"]
        /\ crashes = [e \in Exts |-> 0]
        /\ inc = [e \in Exts |-> 0]
        /\ alive = [e \in Exts |-> FALSE]
        /\ proc = [e \in Exts |-> 0]
        /\ state = [e \in Exts |-> IF e <= scene.exts THEN "starting" ELSE "disabled"]
        /\ strikes = [e \in Exts |-> 0]
        /\ settled = [e \in Exts |-> e > scene.exts]
        /\ adopted = [e \in Exts |-> FALSE]
        /\ offered = [e \in Exts |-> "no"]
        /\ owner = 0
        /\ queue = [e \in Exts |-> <<>>]
        /\ enqueuing = [e \in Exts |-> Nobody]
        /\ queueDrops = [e \in Exts |-> 0]
        /\ enqueued = [e \in Exts |-> 0]
        /\ taken = [e \in Exts |-> 0]
        /\ announced = [e \in Exts |-> FALSE]
        /\ drains = [e \in Exts |-> [i \in Incs |-> "none"]]
        /\ nextID = [e \in Exts |-> 0]
        /\ pending = [e \in Exts |-> {}]
        /\ inbox = [e \in Exts |-> {}]
        /\ req = [r \in Reqs |-> [kind |-> "none", st |-> "none", ext |-> 1, inc |-> 0, id |-> 0, args |-> 0]]
        /\ chan = [r \in Reqs |-> NoReply]
        /\ stimuli = scene.stimuli
----------------------------------------------------------------------------
(* The event queue.  enqueue holds e.mu from its first select to its last,  *)
(* which keeps other enqueues out; a drain takes without the lock, and      *)
(* nothing else that e.mu guards concerns the queue.                        *)

\* Who calls enqueue on e: runOnce, fanOut, or DispatchCommand at any time.
Enqueues(e, by) == \/ by = "supervisor" /\ sup[e] = "announce"
                   \/ by = "fanOut" /\ fan.at = "put" /\ fan.next = e
                   \/ by = "command"

\* fanOut's loop goes on to the next extension, or is through.
NextExt == /\ fan' = IF fan.next < N THEN [fan EXCEPT !.next = @ + 1, !.at = "look"] ELSE Idle
           /\ binding' = IF fan.next = N /\ fan.kind = "session_start" THEN "done" ELSE binding

\* enqueue returns, and its caller goes on.
Returns(e, by) ==
  /\ sup' = IF by = "supervisor" THEN [sup EXCEPT ![e] = "start"] ELSE sup
  /\ IF by = "fanOut" THEN NextExt ELSE UNCHANGED <<fan, binding>>

\* The event is in the queue, or was refused: events are numbered in the
\* order enqueue gives them up.
Given(e, by) ==
  /\ enqueued' = [enqueued EXCEPT ![e] = @ + 1]
  /\ announced' = [announced EXCEPT ![e] =
       @ \/ /\ by = "supervisor" \/ (by = "fanOut" /\ fan.kind = "session_start")
            /\ state[e] \in {"ready", "degraded"}]
  /\ Returns(e, by)

\* Mutant: enqueue does not take the mutex.
Locked_Never(e) == FALSE

\* Another enqueue holds e.mu.
Locked(e) == enqueuing[e] # Nobody

\* The first select: the event goes in, or the queue is full.
TrySend(e, by) ==
  /\ Enqueues(e, by)
  /\ ~Locked(e)
  /\ \/ /\ Len(queue[e]) < QueueCap
        /\ queue' = [queue EXCEPT ![e] = Append(@, enqueued[e] + 1)]
        /\ Given(e, by)
        /\ UNCHANGED enqueuing
     \/ /\ Len(queue[e]) >= QueueCap
        /\ enqueuing' = [enqueuing EXCEPT ![e] = [by |-> by, popped |-> FALSE]]
        /\ UNCHANGED <<queue, enqueued, announced, sup, fan, binding>>
  /\ UNCHANGED <<queueDrops, taken>>

\* A caller other than DispatchCommand comes to its enqueue.
Enqueue(e) ==
  /\ \E by \in {"supervisor", "fanOut"} : TrySend(e, by)
  /\ UNCHANGED <<ctxDone, closing, api, actBuf, flushing, acts, ran, dropped, crashes, inc, alive, proc, settled, state, strikes, catalog, drains, requests, stimuli>>

\* The second select: the oldest event out, unless drains emptied the queue.
PopOldest(e) ==
  /\ enqueuing[e].by # "nobody" /\ ~enqueuing[e].popped
  /\ queue' = [queue EXCEPT ![e] = IF @ = <<>> THEN @ ELSE Tail(@)]
  /\ enqueuing' = [enqueuing EXCEPT ![e].popped = TRUE]
  /\ UNCHANGED <<ctxDone, closing, binder, fan, supervisor, state, strikes, catalog, queueDrops, enqueued, taken, announced, drains, requests, stimuli>>

\* The third select, which would refuse the event if there were no room.
PushNewest(e) ==
  /\ enqueuing[e].popped
  /\ queue' = [queue EXCEPT ![e] = IF Len(@) < QueueCap THEN Append(@, enqueued[e] + 1) ELSE @]
  /\ Given(e, enqueuing[e].by)
  /\ queueDrops' = [queueDrops EXCEPT ![e] = @ + 1]
  /\ enqueuing' = [enqueuing EXCEPT ![e] = Nobody]
  /\ UNCHANGED <<ctxDone, closing, api, actBuf, flushing, acts, ran, dropped, crashes, inc, alive, proc, settled, state, strikes, catalog, taken, drains, requests, stimuli>>

\* A running drainQueue of incarnation i takes the next event.
DrainTakes(e, i) ==
  /\ drains[e][i] = "idle"
  /\ "drain" \in scene.does
  /\ queue[e] # <<>>
  /\ queue' = [queue EXCEPT ![e] = Tail(@)]
  /\ taken' = [taken EXCEPT ![e] = @ + 1]
  /\ drains' = [drains EXCEPT ![e][i] = "holds"]
  /\ UNCHANGED <<ctxDone, closing, binder, fan, supervisor, state, strikes, catalog, enqueuing, queueDrops, enqueued, announced, requests, stimuli>>

\* It writes to its own process: an error ends it, and the event is gone.
DrainSends(e, i) ==
  /\ drains[e][i] = "holds"
  /\ drains' = [drains EXCEPT ![e][i] = IF i = inc[e] /\ alive[e] THEN "idle" ELSE "ended"]
  /\ UNCHANGED <<ctxDone, closing, binder, fan, supervisor, state, strikes, catalog, events, requests, stimuli>>

\* It sees stopDrain closed, or the context done.
DrainStops(e, i) ==
  /\ drains[e][i] = "idle"
  /\ ctxDone \/ i < inc[e] \/ sup[e] # "reading"
  /\ drains' = [drains EXCEPT ![e][i] = "ended"]
  /\ UNCHANGED <<ctxDone, closing, binder, fan, supervisor, state, strikes, catalog, events, requests, stimuli>>
----------------------------------------------------------------------------
(* The supervisor                                                          *)

\* The top of supervise with the context done: its deferred settle runs.
Leave(e) ==
  /\ sup[e] \in {"top", "backoff"}
  /\ ctxDone
  /\ sup' = [sup EXCEPT ![e] = "gone"]
  /\ settled' = [settled EXCEPT ![e] = TRUE]
  /\ UNCHANGED <<ctxDone, closing, binder, fan, crashes, inc, alive, proc, state, strikes, catalog, events, drains, requests, stimuli>>

\* runOnce spawns a process and publishes it in e.proc.
Spawn(e) ==
  /\ sup[e] = "top"
  /\ ~ctxDone
  /\ inc' = [inc EXCEPT ![e] = @ + 1]
  /\ alive' = [alive EXCEPT ![e] = TRUE]
  /\ proc' = [proc EXCEPT ![e] = inc'[e]]
  /\ state' = [state EXCEPT ![e] = "starting"]
  /\ strikes' = [strikes EXCEPT ![e] = 0]
  /\ announced' = [announced EXCEPT ![e] = FALSE]
  /\ sup' = [sup EXCEPT ![e] = "hello"]
  /\ UNCHANGED <<ctxDone, closing, binder, fan, crashes, settled, catalog, channel, drains, requests, stimuli>>

\* The process cannot be started.
SpawnFails(e) ==
  /\ sup[e] = "top"
  /\ ~ctxDone
  /\ Stimulus
  /\ sup' = [sup EXCEPT ![e] = "stop"]
  /\ UNCHANGED <<ctxDone, closing, binder, fan, crashes, inc, alive, proc, settled, state, strikes, catalog, events, drains, requests>>

\* awaitHello returns a valid hello, which offers the tool or does not.
Hello(e) ==
  /\ sup[e] = "hello"
  /\ sup' = [sup EXCEPT ![e] = "earlier"]
  /\ \E tool \in {"no", IF settled[e] THEN "later" ELSE "first"} :
       offered' = IF adopted[e] THEN offered ELSE [offered EXCEPT ![e] = tool]
  /\ UNCHANGED <<ctxDone, closing, binder, fan, crashes, inc, alive, proc, settled, state, strikes, adopted, owner, events, drains, requests, stimuli>>

\* awaitHello gives up: the deadline, an exit, a bad hello, the context.
HelloFails(e) ==
  /\ sup[e] = "hello"
  /\ \/ (ctxDone \/ ~alive[e]) /\ UNCHANGED stimuli
     \/ alive[e] /\ Stimulus
  /\ sup' = [sup EXCEPT ![e] = "stop"]
  /\ UNCHANGED <<ctxDone, closing, binder, fan, crashes, inc, alive, proc, settled, state, strikes, catalog, events, drains, requests>>

\* Mutant: an adoption does not wait for the extensions before it.
MayAdopt_AtOnce(e) == TRUE

\* Only a first hello waits, for every extension earlier in the order.
MayAdopt(e) == adopted[e] \/ ctxDone \/ \A d \in 1 .. (e - 1) : settled[d]

\* Mutant: a first failure leaves WaitInitial waiting.
Settled_OnlyWhenReady(e) == settled

\* settle: readiness and the first failure both resolve WaitInitial.
Settled(e) == [settled EXCEPT ![e] = TRUE]

\* adopt, the ready message and setState(StateReady): the first hello fixes
\* the catalog, and a name that is taken stays with who has it.
BecomeReady(e) ==
  /\ sup[e] = "earlier"
  /\ MayAdopt(e)
  /\ adopted' = [adopted EXCEPT ![e] = TRUE]
  /\ owner' = IF ~adopted[e] /\ offered[e] # "no" /\ owner = 0 THEN e ELSE owner
  /\ state' = [state EXCEPT ![e] = "ready"]
  /\ settled' = [settled EXCEPT ![e] = TRUE]
  /\ sup' = [sup EXCEPT ![e] = "bound?"]
  /\ UNCHANGED <<ctxDone, closing, binder, fan, crashes, inc, alive, proc, strikes, offered, events, drains, requests, stimuli>>

\* Mutant: only a restart announces the session.
Reannounces_OnRestart(e) == api /\ inc[e] > 1

\* A bound host announces the session to an extension that becomes ready.
Reannounces(e) == api

\* runOnce reads h.api: a bound host's session_start comes before reading.
LookBound(e) ==
  /\ sup[e] = "bound?"
  /\ sup' = [sup EXCEPT ![e] = IF Reannounces(e) THEN "announce" ELSE "start"]
  /\ UNCHANGED <<ctxDone, closing, binder, fan, crashes, inc, alive, proc, settled, state, strikes, catalog, events, drains, requests, stimuli>>

\* runOnce starts the drain and the killer, and reads.
StartReading(e) ==
  /\ sup[e] = "start"
  /\ drains' = [drains EXCEPT ![e][inc[e]] = "idle"]
  /\ sup' = [sup EXCEPT ![e] = "reading"]
  /\ UNCHANGED <<ctxDone, closing, binder, fan, crashes, inc, alive, proc, settled, state, strikes, catalog, events, requests, stimuli>>

\* The process exits on its own.
Exit(e) ==
  /\ alive[e]
  /\ Stimulus
  /\ alive' = [alive EXCEPT ![e] = FALSE]
  /\ UNCHANGED <<ctxDone, closing, binder, fan, sup, crashes, inc, proc, settled, state, strikes, catalog, events, drains, requests>>

\* Mutant: nothing kills the process that readLoop waits for.
Killing_Nobody(e) == FALSE

\* The goroutine of runOnce that kills the process when the host shuts down.
Killing(e) == ctxDone /\ sup[e] = "reading"

Kill(e) ==
  /\ Killing(e)
  /\ alive[e]
  /\ alive' = [alive EXCEPT ![e] = FALSE]
  /\ UNCHANGED <<ctxDone, closing, binder, fan, sup, crashes, inc, proc, settled, state, strikes, catalog, events, drains, requests, stimuli>>

\* The process closes its output and lives on: readLoop ends all the same.
ClosesOutput(e) ==
  /\ sup[e] = "reading"
  /\ alive[e]
  /\ Stimulus
  /\ sup' = [sup EXCEPT ![e] = "stop"]
  /\ UNCHANGED <<ctxDone, closing, binder, fan, crashes, inc, alive, proc, settled, state, strikes, catalog, events, drains, requests>>

\* readLoop reaches the end of the output of a process that is gone.
ReadEnds(e) ==
  /\ sup[e] = "reading"
  /\ ~alive[e]
  /\ sup' = [sup EXCEPT ![e] = "stop"]
  /\ UNCHANGED <<ctxDone, closing, binder, fan, crashes, inc, alive, proc, settled, state, strikes, catalog, events, drains, requests, stimuli>>

\* disable: a line beyond the cap, or more than maxMalformed malformed ones.
Misbehaves(e) ==
  /\ sup[e] = "reading"
  /\ Stimulus
  /\ state' = [state EXCEPT ![e] = "disabled"]
  /\ sup' = [sup EXCEPT ![e] = "stop"]
  /\ UNCHANGED <<ctxDone, closing, binder, fan, crashes, inc, alive, proc, settled, strikes, catalog, events, drains, requests>>

\* stopProc: the process is out of e.proc, then killed and waited for.
StopProc(e) ==
  /\ sup[e] = "stop"
  /\ proc' = [proc EXCEPT ![e] = 0]
  /\ alive' = [alive EXCEPT ![e] = FALSE]
  /\ sup' = [sup EXCEPT ![e] = "fail"]
  /\ UNCHANGED <<ctxDone, closing, binder, fan, crashes, inc, settled, state, strikes, catalog, events, drains, requests, stimuli>>

\* failPending: every pending slot gets errExtGone.
Failed(e) == [r \in Reqs |-> IF \E p \in pending[e] : p.req = r THEN [kind |-> "gone", of |-> r] ELSE chan[r]]

\* The rest of supervise's round: failPending, then disable, back off or
\* leave.  A process that lasted stableAfter starts the count again.
AfterRun(e) ==
  /\ sup[e] = "fail"
  /\ pending' = [pending EXCEPT ![e] = {}]
  /\ inbox' = [inbox EXCEPT ![e] = {}]
  /\ chan' = Failed(e)
  /\ \/ /\ ctxDone \/ state[e] = "disabled"
        /\ sup' = [sup EXCEPT ![e] = "gone"]
        /\ settled' = [settled EXCEPT ![e] = TRUE]
        /\ UNCHANGED <<crashes, state, stimuli>>
     \/ /\ ~ctxDone /\ state[e] # "disabled"
        /\ settled' = Settled(e)
        /\ \/ crashes' = [crashes EXCEPT ![e] = @ + 1] /\ UNCHANGED stimuli
           \/ crashes' = [crashes EXCEPT ![e] = 1] /\ crashes[e] > 0 /\ Stimulus
        /\ IF crashes'[e] > Backoffs
           THEN /\ state' = [state EXCEPT ![e] = "disabled"]
                /\ sup' = [sup EXCEPT ![e] = "gone"]
           ELSE /\ state' = [state EXCEPT ![e] = "crashed"]
                /\ sup' = [sup EXCEPT ![e] = "backoff"]
  /\ UNCHANGED <<ctxDone, closing, binder, fan, inc, alive, proc, strikes, catalog, events, drains, nextID, req>>

\* The backoff timer fires.
Restart(e) ==
  /\ sup[e] = "backoff"
  /\ sup' = [sup EXCEPT ![e] = "top"]
  /\ UNCHANGED <<ctxDone, closing, binder, fan, crashes, inc, alive, proc, settled, state, strikes, catalog, events, drains, requests, stimuli>>
----------------------------------------------------------------------------
(* The host's requests: the tool_call gate and extension tools             *)

\* FilterToolCall (one at a time: calls are prepared in source order) or
\* extTool.Execute begins.
Begin(r) ==
  /\ req[r].st = "none"
  /\ r \in scene.reqs
  /\ \/ /\ \A q \in Reqs : req[q].kind = "gate" => ~Running(q)
        /\ req' = [req EXCEPT ![r].kind = "gate", ![r].st = "look"]
     \/ /\ owner # 0
        /\ req' = [req EXCEPT ![r].kind = "tool", ![r].st = "look", ![r].ext = owner]
  /\ UNCHANGED <<ctxDone, closing, binder, fan, supervisor, state, strikes, catalog, events, drains, nextID, pending, inbox, chan, stimuli>>

\* r is through with its extension: a gate goes on to the next one, and
\* passes after the last; a tool call has its result.
After(r, s, answer) ==
  IF s.kind = "gate" /\ answer # "block" /\ s.ext < N
  THEN [s EXCEPT !.st = "look", !.ext = @ + 1]
  ELSE [s EXCEPT !.st = IF answer = "block" THEN "blocked" ELSE "done"]

\* A gate asks a ready extension; a tool runs on a degraded one too.
Asks(kind, st) == st = "ready" \/ (kind = "tool" /\ st = "degraded")

\* r looks at the state, under its own lock.
Look(r) ==
  /\ req[r].st = "look"
  /\ LET e == req[r].ext
     IN  req' = [req EXCEPT ![r] = IF Asks(@.kind, state[e]) THEN [@ EXCEPT !.st = "picked"] ELSE After(r, @, "skip")]
  /\ UNCHANGED <<ctxDone, closing, binder, fan, supervisor, state, strikes, catalog, events, drains, nextID, pending, inbox, chan, stimuli>>

\* r reads e.proc.
ReadProc(r) ==
  /\ req[r].st = "picked"
  /\ LET i == proc[req[r].ext]
     IN  req' = [req EXCEPT ![r] = IF i = 0 THEN After(r, @, "gone") ELSE [@ EXCEPT !.st = "ready", !.inc = i]]
  /\ UNCHANGED <<ctxDone, closing, binder, fan, supervisor, state, strikes, catalog, events, drains, nextID, pending, inbox, chan, stimuli>>

\* Mutant: an id is the number of requests under way.
FreshID_Reused(e) == Cardinality(pending[e]) + 1

\* register counts ids up for the life of the host.
FreshID(e) == nextID[e] + 1

\* Mutant: kill leaves stdin open, and a write to a dead process is taken.
Accepts_Always(e, i) == TRUE

\* A write succeeds while the process lives; kill closes stdin.
Accepts(e, i) == i = inc[e] /\ alive[e]

\* register and p.send; when the write fails the slot is dropped.
Send(r) ==
  /\ req[r].st = "ready"
  /\ LET e == req[r].ext
         slot == [id |-> FreshID(e), req |-> r]
     IN  /\ nextID' = [nextID EXCEPT ![e] = @ + 1]
         /\ IF Accepts(e, req[r].inc)
            THEN /\ req' = [req EXCEPT ![r].st = "waiting", ![r].id = slot.id]
                 /\ pending' = [pending EXCEPT ![e] = {p \in @ : p.id # slot.id} \cup {slot}]
                 /\ inbox' = [inbox EXCEPT ![e] = @ \cup {slot}]
                 /\ chan' = [chan EXCEPT ![r] = NoReply]
            ELSE /\ req' = [req EXCEPT ![r] = After(r, @, "gone")]
                 /\ UNCHANGED <<pending, inbox, chan>>
  /\ UNCHANGED <<ctxDone, closing, binder, fan, supervisor, state, strikes, catalog, events, drains, stimuli>>

\* The process answers a request and readLoop routes it: resolve takes the
\* slot out, then sends; an unknown id is dropped.
Answer(e) ==
  /\ sup[e] = "reading"
  /\ \E m \in inbox[e], how \in {"pass", "mutate", "block"} :
       /\ how = "pass" \/ req[m.req].kind = "gate"
       /\ inbox' = [inbox EXCEPT ![e] = @ \ {m}]
       /\ LET slots == {p \in pending[e] : p.id = m.id}
          IN  /\ pending' = [pending EXCEPT ![e] = @ \ slots]
              /\ chan' = [r \in Reqs |-> IF \E p \in slots : p.req = r THEN [kind |-> how, of |-> m.req] ELSE chan[r]]
  /\ UNCHANGED <<ctxDone, closing, binder, fan, supervisor, state, strikes, catalog, events, drains, nextID, req, stimuli>>

\* A waiting r takes what is in its channel: a mutation replaces the
\* arguments the next extension sees, and an extension that is gone lets
\* the call pass.
TakeReply(r) ==
  /\ req[r].st = "waiting"
  /\ chan[r] # NoReply
  /\ LET s == IF chan[r].kind = "mutate" THEN [req[r] EXCEPT !.args = req[r].ext] ELSE req[r]
     IN  req' = [req EXCEPT ![r] = After(r, s, chan[r].kind)]
  /\ UNCHANGED <<ctxDone, closing, binder, fan, supervisor, state, strikes, catalog, events, drains, nextID, pending, inbox, chan, stimuli>>

\* strikeBlocking demotes an extension that is still ready.
Struck(e) == IF strikes[e] + 1 >= MaxStrikes /\ state[e] = "ready" THEN "degraded" ELSE state[e]

\* The timer of r fires: the slot is dropped, and a gate counts a strike.
TimeOut(r) ==
  /\ req[r].st = "waiting"
  /\ Stimulus
  /\ LET e == req[r].ext
     IN  /\ pending' = [pending EXCEPT ![e] = {p \in @ : p.id # req[r].id}]
         /\ IF req[r].kind = "gate"
            THEN /\ strikes' = [strikes EXCEPT ![e] = @ + 1]
                 /\ state' = [state EXCEPT ![e] = Struck(e)]
            ELSE UNCHANGED <<strikes, state>>
  /\ req' = [req EXCEPT ![r] = After(r, @, "timeout")]
  /\ UNCHANGED <<ctxDone, closing, binder, fan, supervisor, catalog, events, drains, nextID, inbox, chan>>

\* The run of r is aborted while r waits: nothing is left to gate.
AbortWait(r) ==
  /\ req[r].st = "waiting"
  /\ Stimulus
  /\ pending' = [pending EXCEPT ![req[r].ext] = {p \in @ : p.id # req[r].id}]
  /\ req' = [req EXCEPT ![r].st = "aborted"]
  /\ UNCHANGED <<ctxDone, closing, binder, fan, supervisor, state, strikes, catalog, events, drains, nextID, inbox, chan>>
----------------------------------------------------------------------------
(* Actions, Bind, the pump and Close                                       *)

\* Mutant: route appends to the buffer whatever Bind did.
Buffers_Always == TRUE

\* route looks at h.api under the mutex it appends under.
Buffers == ~api

\* route of an action: buffered before Bind, up to the cap, run after it.
Act(e) ==
  /\ sup[e] = "reading"
  /\ Stimulus
  /\ acts' = acts + 1
  /\ \/ /\ Buffers /\ Len(actBuf) < ActCap
        /\ actBuf' = Append(actBuf, acts')
        /\ UNCHANGED <<ran, dropped>>
     \/ /\ Buffers /\ Len(actBuf) >= ActCap
        /\ dropped' = dropped \cup {acts'}
        /\ UNCHANGED <<actBuf, ran>>
     \/ /\ ~Buffers
        /\ ran' = Append(ran, acts')
        /\ UNCHANGED <<actBuf, dropped>>
  /\ UNCHANGED <<ctxDone, closing, api, flushing, binding, fan, supervisor, state, strikes, catalog, events, drains, requests>>

\* Bind sets the API and takes the buffer in one critical section.
Bind ==
  /\ binding = "no"
  /\ "bind" \in scene.does
  /\ api' = TRUE
  /\ flushing' = actBuf
  /\ actBuf' = <<>>
  /\ binding' = "flush"
  /\ UNCHANGED <<ctxDone, closing, acts, ran, dropped, fan, supervisor, state, strikes, catalog, events, drains, requests, stimuli>>

\* Bind dispatches what was buffered, then starts announcing the session.
Flush ==
  /\ binding = "flush"
  /\ \/ /\ flushing # <<>>
        /\ ran' = Append(ran, Head(flushing))
        /\ flushing' = Tail(flushing)
        /\ UNCHANGED <<binding, fan>>
     \/ /\ flushing = <<>>
        /\ binding' = "announce"
        /\ fan' = [Idle EXCEPT !.kind = "session_start"]
        /\ UNCHANGED <<ran, flushing>>
  /\ UNCHANGED <<ctxDone, closing, api, actBuf, acts, dropped, supervisor, state, strikes, catalog, events, drains, requests, stimuli>>

\* The pump takes an event off the agent's bus.
PumpTakes ==
  /\ binding = "done"
  /\ fan = Idle
  /\ ~ctxDone
  /\ Stimulus
  /\ fan' = [Idle EXCEPT !.kind = "event"]
  /\ UNCHANGED <<ctxDone, closing, binder, supervisor, state, strikes, catalog, events, drains, requests>>

\* fanOut looks at the state of the next extension, then enqueues.
FanOut ==
  /\ fan # Idle /\ fan.at = "look"
  /\ IF state[fan.next] \in {"ready", "degraded"}
     THEN fan' = [fan EXCEPT !.at = "put"] /\ UNCHANGED binding
     ELSE NextExt
  /\ UNCHANGED <<ctxDone, closing, api, actBuf, flushing, acts, ran, dropped, supervisor, state, strikes, catalog, events, drains, requests, stimuli>>

\* DispatchCommand: to the owner, whatever its state.
DispatchCommand(e) ==
  /\ adopted[e]
  /\ Stimulus
  /\ TrySend(e, "command")
  /\ UNCHANGED <<ctxDone, closing, api, actBuf, flushing, acts, ran, dropped, crashes, inc, alive, proc, settled, state, strikes, catalog, drains, requests>>

\* Close marks the host stopped, says session_shutdown and cancels.
Close ==
  /\ closing = "no"
  /\ "close" \in scene.does
  /\ closing' = "waiting"
  /\ ctxDone' = TRUE
  /\ UNCHANGED <<binder, fan, supervisor, state, strikes, catalog, events, drains, requests, stimuli>>

\* h.wg: the supervisors and the pump.
AllDone == (\A e \in Exts : sup[e] = "gone") /\ fan.kind # "event"

CloseReturns ==
  /\ closing = "waiting"
  /\ AllDone
  /\ closing' = "returned"
  /\ UNCHANGED <<ctxDone, binder, fan, supervisor, state, strikes, catalog, events, drains, requests, stimuli>>
----------------------------------------------------------------------------
Supervise(e) == \/ Leave(e) \/ Spawn(e) \/ Hello(e) \/ BecomeReady(e) \/ LookBound(e) \/ StartReading(e)
                \/ ReadEnds(e) \/ StopProc(e) \/ AfterRun(e) \/ Restart(e)
                \/ HelloFails(e)

Request(r) == \/ Begin(r) \/ Look(r) \/ ReadProc(r) \/ Send(r)
              \/ TakeReply(r) \/ TimeOut(r) \/ AbortWait(r)

Step == \/ \E e \in Exts : \/ Supervise(e) \/ SpawnFails(e) \/ Exit(e) \/ Kill(e) \/ Misbehaves(e) \/ ClosesOutput(e)
                            \/ Enqueue(e) \/ PopOldest(e) \/ PushNewest(e)
                            \/ Answer(e) \/ Act(e) \/ DispatchCommand(e)
                            \/ \E i \in Incs : DrainTakes(e, i) \/ DrainSends(e, i) \/ DrainStops(e, i)
        \/ \E r \in Reqs : Request(r)
        \/ Bind \/ Flush \/ PumpTakes \/ FanOut \/ Close \/ CloseReturns

Next == Step /\ UNCHANGED scene

\* The supervisors, the killers, fanOut and the enqueues run on; awaitHello
\* ends by a hello or by its deadline; nothing else, and no process, is
\* assumed to act.  (What keeps the mutex is bounded by the stimuli.)
Fairness == /\ \A e \in Exts : /\ WF_vars(Supervise(e) /\ UNCHANGED scene) /\ WF_vars(Kill(e) /\ UNCHANGED scene)
                              /\ WF_vars(Enqueue(e) /\ UNCHANGED scene)
                              /\ WF_vars((PopOldest(e) \/ PushNewest(e)) /\ UNCHANGED scene)
            /\ WF_vars(FanOut /\ UNCHANGED scene) /\ WF_vars(CloseReturns /\ UNCHANGED scene)

Spec == Init /\ [][Next]_vars /\ Fairness
----------------------------------------------------------------------------
(* What the host promises                                                  *)

\* A request is given the answer to that very request, never the late answer
\* to one that timed out or was aborted before it, over any restart
\* (register, resolve and unregister of extension.go).
AnswersOwnRequest == \A r \in Reqs : chan[r] = NoReply \/ chan[r].of = r

\* A request that waits with nothing in its channel is in the pending table
\* of the process it was sent to, and that process's end has still to be
\* handled: failPending will find it (deliverBlocking and Execute register
\* without the lock they read e.proc under, and may do so after a restart).
NoRequestStranded ==
  \A r \in Reqs : req[r].st = "waiting" /\ chan[r] = NoReply =>
     LET e == req[r].ext
     IN  /\ [id |-> req[r].id, req |-> r] \in pending[e]
         /\ req[r].inc = inc[e]
         /\ proc[e] = inc[e] \/ sup[e] = "fail"

\* The queue holds the newest events, in order, and every event lost to
\* overflow is counted, whoever enqueues and drains between the three selects
\* of an enqueue: none is refused by a queue another enqueue filled again.
QueueKeepsNewest ==
  \A e \in Exts :
    /\ \A k \in 1 .. Len(queue[e]) : queue[e][k] = enqueued[e] - Len(queue[e]) + k
    /\ enqueued[e] - Len(queue[e]) - taken[e] <= queueDrops[e] + (IF enqueuing[e].popped THEN 1 ELSE 0)

\* While the host is up, a tool two extensions offer in their first hello
\* belongs to the earlier one, although handshakes run in parallel
\* (waitEarlier and adopt).
ToolOwnerIsFirst ==
  ~ctxDone => \A d, e \in Exts : owner = e /\ d < e => offered[d] # "first"

\* Once Bind is done, every extension that serves has had session_start
\* enqueued since it became ready.
SessionAnnounced == binding = "done" => \A e \in Exts : sup[e] = "reading" => announced[e]

\* Every action sent has run once, waits for Bind, or met a full buffer.
ActionsKept ==
  /\ 1 .. acts = ToSet(ran) \cup ToSet(actBuf) \cup ToSet(flushing) \cup dropped
  /\ acts = Len(ran) + Len(actBuf) + Len(flushing) + Cardinality(dropped)
  /\ api => actBuf = <<>>

\* Bind misses nothing that happens around it: neither a late first handshake
\* nor a restart goes without session_start, and no action is lost, run
\* twice or left in the buffer (runOnce's second half, route and Bind).
BindMissesNothing == SessionAnnounced /\ ActionsKept

\* WaitInitial and Close return: every first handshake is settled, by
\* readiness, by failure or by Close, although each waits for the earlier
\* ones; and after Close every supervisor leaves, whatever its process does,
\* and no process is left.
WaitsEnd ==
  /\ <>(\A e \in Exts : settled[e])
  /\ closing = "waiting" ~> closing = "returned" /\ \A e \in Exts : ~alive[e] /\ sup[e] = "gone"
=============================================================================
