----------------------------- MODULE AgentLoop -----------------------------
(***************************************************************************)
(* The agent's run: Agent of src/internal/agent/agent.go and the loop of   *)
(* loop.go, with its retries (retry.go), its tool batches (toolexec.go),   *)
(* its queues (queue.go), and the messages a request carries once ToLLM    *)
(* (messages.go) and convertMessages (ai/anthropic/convert.go) are done.   *)
(*                                                                         *)
(* One goroutine runs the loop, one more runs each tool of a parallel      *)
(* batch, and any goroutine prompts, steers, queues a follow-up or aborts. *)
(* The provider, the tools, the filters and the hooks answer as they like. *)
(***************************************************************************)
EXTENDS Integers, Sequences, FiniteSets, SequencesExt

CONSTANTS QueueCap,     \* capacity of the two queues (defaultQueueCap)
          DrainOne,     \* Config.SteerDrain is DrainOne
          MaxTurns,     \* cap on the turns of a run, 0 for none
          RetryMax,     \* retryMaxAttempts
          MaxRuns,      \* bound: runs started
          MaxInputs,    \* bound: messages the callers send
          MaxStreams,   \* bound: provider streams that end by themselves
          MaxCalls      \* bound: tool calls in one assistant message

ASSUME BoundsAssumption == {QueueCap, MaxTurns, RetryMax, MaxRuns, MaxInputs, MaxStreams, MaxCalls} \subseteq Nat
ASSUME DrainAssumption == DrainOne \in BOOLEAN

VARIABLES running,    \* Agent.running
          cancelled,  \* the context of the run is done
          messages,   \* Agent.messages
          steering,   \* Agent.steering
          followUp,   \* Agent.followUp
          pc,         \* where the run loop stands
          newMsgs,    \* what the run has recorded; the loop's msgs are messages and these
          pending,    \* messages to inject before the next turn
          turn,       \* turns started in the run
          hadCalls,   \* hadToolCalls
          attempt,    \* retries of the turn's request
          recovered,  \* overflowRetried
          calls,      \* the state of each call of the batch
          sequential, \* the batch runs one call at a time
          results,    \* the results of the batch, NoResult where one is missing
          reason,     \* the reason of the run's EvAgentEnd
          handed,     \* every message Hooks.OnMessage has been given
          runs, inputs, streams   \* counters for the bounds

agent == <<running, cancelled, messages>>
queues == <<steering, followUp>>
turnState == <<attempt, recovered>>
batch == <<calls, sequential, results>>
vars == <<agent, queues, pc, newMsgs, pending, turn, hadCalls, turnState, batch, reason, handed, runs, inputs, streams>>

NoResult == 0
InputKinds == {"prompt", "steer", "followUp"}
\* An assistant message is "asst" when its turn went well, "failed" when it
\* broke off with some content, "blank" when it broke off without any.
Replies == {"asst", "failed", "blank"}

Input(kind, id) == [kind |-> kind, id |-> id, n |-> 0]
Reply(kind, n) == [kind |-> kind, id |-> streams + 1, n |-> n]
Result(n) == [kind |-> "result", id |-> streams, n |-> n]
----------------------------------------------------------------------------
(* The request a list of messages becomes.                                 *)

\* ToLLM leaves out a reply without content.
ToLLM(msgs) == FlattenSeq([i \in DOMAIN msgs |-> IF msgs[i].kind = "blank" THEN <<>> ELSE <<msgs[i]>>])

\* The tool results that directly follow message i.
Following(msgs, i) ==
  {j \in (i + 1) .. Len(msgs) : \A k \in (i + 1) .. j : msgs[k].kind = "result"}
CallsOf(m) == {[id |-> m.id, n |-> k] : k \in 1 .. m.n}
Answer(m) == [id |-> m.id, n |-> m.n]
Turn(role, uses, answers) == [role |-> role, uses |-> uses, answers |-> answers]

\* Mutant: calls without a result get none.
WireOf_NoSynthetic(msgs, i) ==
  LET m == msgs[i]
      answers == [k \in 1 .. Cardinality(Following(msgs, i)) |-> Answer(msgs[i + k])]
  IN  CASE m.kind \in InputKinds -> <<Turn("user", {}, <<>>)>>
        [] m.kind = "result" -> <<>>
        [] OTHER -> <<Turn("assistant", CallsOf(m), <<>>)>>
                    \o (IF answers = <<>> THEN <<>> ELSE <<Turn("user", {}, answers)>>)

\* convertMessages at message i: a reply is followed by one user turn with
\* its results and a synthetic one for each call left without.
WireOf(msgs, i) ==
  LET m == msgs[i]
      answers == [k \in 1 .. Cardinality(Following(msgs, i)) |-> Answer(msgs[i + k])]
      missing == CallsOf(m) \ {answers[k] : k \in DOMAIN answers}
      all == answers \o SetToSeq(missing)
  IN  CASE m.kind \in InputKinds -> <<Turn("user", {}, <<>>)>>
        [] m.kind = "result" -> <<>>
        [] OTHER -> <<Turn("assistant", CallsOf(m), <<>>)>>
                    \o (IF all = <<>> THEN <<>> ELSE <<Turn("user", {}, all)>>)

convertMessages(msgs) ==
  FlattenSeq([i \in DOMAIN ToLLM(msgs) |-> WireOf(ToLLM(msgs), i)])
----------------------------------------------------------------------------
Init == /\ running = FALSE
        /\ cancelled = FALSE
        /\ messages = <<>>
        /\ steering = <<>>
        /\ followUp = <<>>
        /\ pc = "idle"
        /\ newMsgs = <<>>
        /\ pending = <<>>
        /\ turn = 0
        /\ hadCalls = FALSE
        /\ attempt = 0
        /\ recovered = FALSE
        /\ calls = <<>>
        /\ sequential = FALSE
        /\ results = <<>>
        /\ reason = "none"
        /\ handed = <<>>
        /\ runs = 0
        /\ inputs = 0
        /\ streams = 0

\* boundedQueue.Push; at capacity the caller gets ErrQueueFull.
HasRoom(queue) == Len(queue) < QueueCap

\* Mutant: the rest of the queue is forgotten.
Left_Forgets(queue, one) == <<>>

\* boundedQueue.Drain: what it returns and what it leaves.
Taken(queue, one) == IF one /\ queue # <<>> THEN <<Head(queue)>> ELSE queue
Left(queue, one) == IF one /\ queue # <<>> THEN Tail(queue) ELSE <<>>

Record(ms) == /\ newMsgs' = newMsgs \o ms
              /\ handed' = handed \o ms

\* end: EvAgentEnd goes out with what the run recorded.
End(why) == pc' = "ended" /\ reason' = why
----------------------------------------------------------------------------
(* The callers                                                             *)

Steer == /\ inputs < MaxInputs
         /\ HasRoom(steering)
         /\ steering' = Append(steering, Input("steer", inputs + 1))
         /\ inputs' = inputs + 1
         /\ UNCHANGED <<agent, followUp, pc, newMsgs, pending, turn, hadCalls, turnState, batch, reason, handed, runs, streams>>

FollowUp == /\ inputs < MaxInputs
            /\ HasRoom(followUp)
            /\ followUp' = Append(followUp, Input("followUp", inputs + 1))
            /\ inputs' = inputs + 1
            /\ UNCHANGED <<agent, steering, pc, newMsgs, pending, turn, hadCalls, turnState, batch, reason, handed, runs, streams>>

\* Agent.run up to runLoop: a second run gets ErrBusy.  The caller's own
\* context may be done already.  Without messages one turn is forced.
Run(initial) ==
  /\ ~running
  /\ runs < MaxRuns
  /\ running' = TRUE
  /\ cancelled' \in BOOLEAN
  /\ pc' = "inject"
  /\ pending' = initial
  /\ hadCalls' = (initial = <<>>)
  /\ runs' = runs + 1
  /\ UNCHANGED <<messages, queues, newMsgs, turn, turnState, batch, reason, handed, streams>>

Prompt == /\ inputs < MaxInputs
          /\ Run(<<Input("prompt", inputs + 1)>>)
          /\ inputs' = inputs + 1

Continue == Run(<<>>) /\ UNCHANGED inputs

\* Agent.Abort, or the cancellation of the caller's context.
Abort == /\ running
         /\ ~cancelled
         /\ cancelled' = TRUE
         /\ UNCHANGED <<running, messages, queues, pc, newMsgs, pending, turn, hadCalls, turnState, batch, reason, handed, runs, inputs, streams>>
----------------------------------------------------------------------------
(* The loop                                                                *)

\* Mutant: the results of a batch do not ask for another turn.
MoreToDo_NotAfterCalls == pending # <<>> \/ (hadCalls /\ newMsgs = <<>>) \/ steering # <<>>

\* The condition of the inner loop.
MoreToDo == pending # <<>> \/ hadCalls \/ steering # <<>>

PastCap(n) == MaxTurns > 0 /\ n > MaxTurns

\* A turn begins: inject what is pending and queued, then guard the turns.
Inject ==
  LET taken == pending \o Taken(steering, DrainOne)
  IN  /\ pc = "inject"
      /\ MoreToDo
      /\ Record(taken)
      /\ pending' = <<>>
      /\ steering' = Left(steering, DrainOne)
      /\ turn' = turn + 1
      /\ attempt' = 0
      /\ recovered' = FALSE
      /\ IF PastCap(turn + 1) THEN End("maxTurns") ELSE pc' = "stream" /\ UNCHANGED reason
      /\ UNCHANGED <<agent, followUp, hadCalls, batch, runs, inputs, streams>>

\* Where the run would stop, follow-ups extend it.  Taken in one step with
\* the condition: what arrives between the two is as if it came after.
PollFollowUps ==
  /\ pc = "inject"
  /\ ~MoreToDo
  /\ pending' = Taken(followUp, FALSE)
  /\ followUp' = Left(followUp, FALSE)
  /\ IF followUp = <<>> THEN End("done") ELSE UNCHANGED <<pc, reason>>
  /\ UNCHANGED <<agent, steering, newMsgs, turn, hadCalls, turnState, batch, handed, runs, inputs, streams>>

\* The stream ends well: the reply is recorded, its calls become a batch,
\* which is sequential when the configuration or one of its tools wants it.
StreamDone(n) ==
  /\ pc = "stream"
  /\ streams < MaxStreams
  /\ Record(<<Reply("asst", n)>>)
  /\ streams' = streams + 1
  /\ hadCalls' = (n > 0)
  /\ calls' = [i \in 1 .. n |-> "todo"]
  /\ results' = [i \in 1 .. n |-> NoResult]
  /\ sequential' \in (IF n > 1 THEN BOOLEAN ELSE {FALSE})
  /\ pc' = IF n > 0 THEN "tools" ELSE "turnEnd"
  /\ UNCHANGED <<agent, queues, pending, turn, attempt, recovered, reason, runs, inputs>>

\* The turn breaks off with a reply that may hold calls nobody will run;
\* hadToolCalls is not read again.
BreakOff(kind, n, why) ==
  /\ Record(<<Reply(kind, n)>>)
  /\ streams' = streams + 1
  /\ hadCalls' = FALSE
  /\ End(why)
  /\ UNCHANGED <<agent, queues, pending, turn, batch, runs, inputs>>

\* classifyError with emittedContent: nothing is sent again once text showed.
Retryable(class, content) == class = "retryable" /\ ~content /\ attempt < RetryMax

\* An error that a compaction or a retry can make up for.
Overflowed(class, content) == class = "overflow" /\ ~content /\ ~recovered

\* EventError: the context is compacted once, or the request is retried
\* after a delay, or the turn is over.  A stream that closes without a
\* terminal event is a fatal error whose content is lost.
StreamFails(class, content, n) ==
  /\ pc = "stream"
  /\ streams < MaxStreams
  /\ \/ /\ Overflowed(class, content)
        /\ recovered' = TRUE
        /\ streams' = streams + 1
        /\ UNCHANGED <<agent, queues, pc, newMsgs, pending, turn, hadCalls, attempt, batch, reason, handed, runs, inputs>>
     \/ /\ Retryable(class, content)
        /\ attempt' = attempt + 1
        /\ streams' = streams + 1
        /\ pc' = "sleep"
        /\ UNCHANGED <<agent, queues, newMsgs, pending, turn, hadCalls, recovered, batch, reason, handed, runs, inputs>>
     \/ /\ ~Retryable(class, content)
        /\ \/ content /\ BreakOff("failed", n, "error")
           \/ (content => class = "fatal") /\ BreakOff("blank", 0, "error")
        /\ UNCHANGED <<attempt, recovered>>

\* Mutant: an aborted stream counts as a transient failure.
StreamAborted_Retried(n) ==
  /\ pc = "stream"
  /\ cancelled
  /\ pc' = "sleep"
  /\ UNCHANGED <<agent, queues, newMsgs, pending, turn, hadCalls, turnState, batch, reason, handed, runs, inputs, streams>>

\* The context is done: the provider ends the stream with what it has.
StreamAborted(n) ==
  /\ pc = "stream"
  /\ cancelled
  /\ BreakOff("failed", n, "aborted") \/ (n = 0 /\ BreakOff("blank", 0, "aborted"))
  /\ UNCHANGED <<attempt, recovered>>

\* sleepCtx: the delay is over, or the context is done.
SleepEnds ==
  /\ pc = "sleep"
  /\ pc' = "stream"
  /\ UNCHANGED <<agent, queues, newMsgs, pending, turn, hadCalls, turnState, batch, reason, handed, runs, inputs, streams>>

SleepAborted ==
  /\ pc = "sleep"
  /\ cancelled
  /\ BreakOff("blank", 0, "aborted")
  /\ UNCHANGED turnState
----------------------------------------------------------------------------
(* A batch of tool calls                                                   *)

Todo(i) == calls[i] = "todo" /\ \A j \in 1 .. (i - 1) : calls[j] # "todo"
Earlier(i) == \A j \in 1 .. (i - 1) : calls[j] = "done"

Settle(i) == /\ calls' = [calls EXCEPT ![i] = "done"]
             /\ results' = [results EXCEPT ![i] = i]

\* prepareCall in source order: the context is done, or a filter, the hook
\* or the schema turns the call down, and its result is settled at once.
PrepareCall(i) ==
  /\ pc = "tools"
  /\ Todo(i)
  /\ sequential => Earlier(i)
  /\ \/ Settle(i)
     \/ ~cancelled /\ calls' = [calls EXCEPT ![i] = "ready"] /\ UNCHANGED results
  /\ UNCHANGED <<agent, queues, pc, newMsgs, pending, turn, hadCalls, turnState, sequential, reason, handed, runs, inputs, streams>>

\* The call's goroutine begins, or runOneCall goes on: a context that is
\* done settles the call without running the tool.
InvokeCall(i) ==
  /\ pc = "tools"
  /\ calls[i] = "ready"
  /\ sequential \/ \A j \in DOMAIN calls : calls[j] # "todo"
  /\ IF cancelled THEN Settle(i)
     ELSE calls' = [calls EXCEPT ![i] = "invoked"] /\ UNCHANGED results
  /\ UNCHANGED <<agent, queues, pc, newMsgs, pending, turn, hadCalls, turnState, sequential, reason, handed, runs, inputs, streams>>

\* Mutant: results in the order of completion.
FinishCall_InOrderOfEnd(i) ==
  /\ pc = "tools"
  /\ calls[i] = "invoked"
  /\ calls' = [calls EXCEPT ![i] = "done"]
  /\ results' = [results EXCEPT ![Cardinality({j \in DOMAIN calls : calls[j] = "done"}) + 1] = i]
  /\ UNCHANGED <<agent, queues, pc, newMsgs, pending, turn, hadCalls, turnState, sequential, reason, handed, runs, inputs, streams>>

\* invokeTool returns: an output, an error, a panic or an abort, in the
\* place the call has in the batch.
FinishCall(i) ==
  /\ pc = "tools"
  /\ calls[i] = "invoked"
  /\ Settle(i)
  /\ UNCHANGED <<agent, queues, pc, newMsgs, pending, turn, hadCalls, turnState, sequential, reason, handed, runs, inputs, streams>>

\* Every call is done: the results are recorded in source order.
RecordResults ==
  /\ pc = "tools"
  /\ \A i \in DOMAIN calls : calls[i] = "done"
  /\ Record([i \in DOMAIN results |-> Result(results[i])])
  /\ calls' = <<>>
  /\ results' = <<>>
  /\ sequential' = FALSE
  /\ pc' = "turnEnd"
  /\ UNCHANGED <<agent, queues, pending, turn, hadCalls, turnState, reason, runs, inputs, streams>>

\* The end of the turn: a done context ends the run, the hook ShouldStop
\* may, and otherwise the loop looks for more to do.  The code ends a stopped
\* run with EndDone too; it is "stopped" here to tell the two apart.
TurnEnd ==
  /\ pc = "turnEnd"
  /\ \/ cancelled /\ End("aborted")
     \/ ~cancelled /\ End("stopped")
     \/ ~cancelled /\ pc' = "inject" /\ UNCHANGED reason
  /\ UNCHANGED <<agent, queues, newMsgs, pending, turn, hadCalls, turnState, batch, handed, runs, inputs, streams>>

\* The run and its variables are gone.
LoopGone == /\ running' = FALSE
            /\ cancelled' = FALSE
            /\ pc' = "idle"
            /\ newMsgs' = <<>>
            /\ pending' = <<>>
            /\ turn' = 0
            /\ hadCalls' = FALSE
            /\ attempt' = 0
            /\ recovered' = FALSE
            /\ reason' = "none"

\* Mutant: what an aborted run recorded is dropped.
RunReturns_DropsAborted ==
  /\ pc = "ended"
  /\ messages' = IF reason = "aborted" THEN messages ELSE messages \o newMsgs
  /\ LoopGone
  /\ UNCHANGED <<queues, batch, handed, runs, inputs, streams>>

\* The end of Agent.run.
RunReturns ==
  /\ pc = "ended"
  /\ messages' = messages \o newMsgs
  /\ LoopGone
  /\ UNCHANGED <<queues, batch, handed, runs, inputs, streams>>

\* safeRunLoop recovers a panic of a hook, here of OnMessage on the k-th
\* message to inject: runLoop has not returned what it recorded.
LoopPanics(k) ==
  LET taken == pending \o Taken(steering, DrainOne)
  IN  /\ pc = "inject"
      /\ k \in DOMAIN taken
      /\ handed' = handed \o SubSeq(taken, 1, k)
      /\ pending' = <<>>
      /\ steering' = Left(steering, DrainOne)
      /\ newMsgs' = <<Reply("blank", 0)>>
      /\ streams' = streams + 1
      /\ End("error")
      /\ UNCHANGED <<agent, followUp, turn, hadCalls, turnState, batch, runs, inputs>>

Callers == Steer \/ FollowUp \/ Prompt \/ Continue \/ Abort

Outside == \/ \E n \in 0 .. MaxCalls : StreamDone(n)
           \/ \E class \in {"retryable", "overflow", "fatal"}, content \in BOOLEAN, n \in 0 .. MaxCalls :
                StreamFails(class, content, n)

Loop == \/ Inject
        \/ PollFollowUps
        \/ \E n \in 0 .. MaxCalls : StreamAborted(n)
        \/ SleepEnds
        \/ SleepAborted
        \/ \E i \in DOMAIN calls : PrepareCall(i)
        \/ \E i \in DOMAIN calls : InvokeCall(i)
        \/ \E i \in DOMAIN calls : FinishCall(i)
        \/ RecordResults
        \/ TurnEnd
        \/ RunReturns

Next == Callers \/ Outside \/ Loop
NextPanicking == Next \/ \E k \in 1 .. MaxInputs : LoopPanics(k)

\* With its context done a run goes on by itself: providers, tools, filters
\* and sleepCtx all return on the context, and the scheduler is fair.
Spec == Init /\ [][Next]_vars /\ WF_vars(cancelled /\ Loop)

\* The same with a hook that may panic.
SpecPanicking == Init /\ [][NextPanicking]_vars
----------------------------------------------------------------------------
Context == messages \o newMsgs

\* Every accepted message is in one place, once: waiting in a queue, about
\* to be injected, or in the conversation - across turns, aborts, failed
\* turns, the cap and runs that start again (queue.go, loop.go) - and those
\* sent the same way come in the order they were sent.
NothingLostOrTwice ==
  LET all == Context \o pending \o steering \o followUp
      accepted == {i \in DOMAIN all : all[i].kind \in InputKinds}
  IN  /\ {all[i].id : i \in accepted} = 1 .. inputs
      /\ \A i, j \in accepted : /\ all[i].id = all[j].id => i = j
                                /\ i < j /\ all[i].kind = all[j].kind => all[i].id < all[j].id

\* "results in source order (one per call, pairing always preserved)"
\* (toolexec.go:17): a reply whose turn went well is followed by one result
\* for each call, in order, whichever order the tools ended in.
ResultsPaired ==
  \A i \in DOMAIN Context :
    LET m == Context[i]
        batchPending == pc = "tools" /\ i = Len(Context)
    IN  m.kind = "asst" /\ ~batchPending =>
          /\ i + m.n <= Len(Context)
          /\ \A k \in 1 .. m.n : Context[i + k] = [kind |-> "result", id |-> m.id, n |-> k]

\* Every request answers each tool_use exactly once in the turn after it
\* and nothing else ("the API rejects unpaired tool_use blocks",
\* convert.go:45), also after turns that broke off.
RequestPaired ==
  pc = "stream" =>
    LET wire == convertMessages(Context)
    IN  \A k \in DOMAIN wire :
          /\ wire[k].uses # {} => /\ k < Len(wire)
                                  /\ Len(wire[k + 1].answers) = Cardinality(wire[k].uses)
          /\ wire[k].answers # <<>> => /\ k > 1
                                       /\ ToSet(wire[k].answers) = wire[k - 1].uses

\* What the session and the compaction controller have been given is the
\* conversation the agent goes on with ("downstream consumers always see a
\* complete session", hooks.go:53).
MirrorAgrees == handed = Context

\* A run that ends "done" by itself leaves nothing for the model to answer:
\* its last message is a reply without calls.
DoneMeansAnswered ==
  pc = "ended" /\ reason = "done" =>
    /\ newMsgs # <<>>
    /\ Last(newMsgs).kind = "asst"
    /\ Last(newMsgs).n = 0

\* An aborted run ends, wherever the abort finds it (agent.go Abort).
AbortEnds == (running /\ cancelled) ~> ~running

\* "EvAgentEnd carries every new AgentMessage produced by the run"
\* (events.go:37): what the run gave to OnMessage is in it.
EndCarriesRun ==
  pc = "ended" =>
    \A i \in (Len(messages) + 1) .. Len(handed) : handed[i] \in ToSet(newMsgs)
=============================================================================
