---------------------------- MODULE AgentLoop_proofs ----------------------------
(***************************************************************************)
(* What the run loop promises, for any capacity of the queues, any drain,  *)
(* any cap on turns and retries, and any number of runs, messages, streams *)
(* and calls.                                                              *)
(***************************************************************************)
EXTENDS AgentLoop, SequenceTheorems, FiniteSetTheorems, TLAPS

Msg == [kind : InputKinds \cup Replies \cup {"result"}, id : Nat, n : Nat]

\* Where everything the callers sent and the model said may be.
LoopTypes ==
  /\ {messages, newMsgs, pending, steering, followUp, handed} \subseteq Seq(Msg)
  /\ inputs \in Nat /\ streams \in Nat

\* Only a run that is about to inject has messages pending.
PendingPlaced ==
  /\ running \in BOOLEAN /\ (running <=> (pc # "idle"))
  /\ pc # "inject" => pending = <<>>

\* A queue holds what was queued there.
QueueKinds ==
  /\ \A i \in DOMAIN steering : steering[i].kind = "steer"
  /\ \A i \in DOMAIN followUp : followUp[i].kind = "followUp"
  /\ \A i \in DOMAIN pending : pending[i].kind \in {"prompt", "followUp"}

\* The batch is that of the last reply, and a result stands in its place.
BatchInv ==
  pc = "tools" =>
    /\ Context # <<>>
    /\ Context[Len(Context)].kind = "asst"
    /\ Context[Len(Context)].id = streams
    /\ calls \in [1 .. Context[Len(Context)].n -> {"todo", "ready", "invoked", "done"}]
    /\ results \in [1 .. Context[Len(Context)].n -> Nat]
    /\ \A i \in DOMAIN calls : calls[i] = "done" => results[i] = i

\* The run has ended with a reply without calls.
Answered ==
  /\ newMsgs # <<>>
  /\ newMsgs[Len(newMsgs)].kind = "asst"
  /\ newMsgs[Len(newMsgs)].n = 0
AnswerInv ==
  /\ pc = "tools" => hadCalls
  /\ pc \in {"inject", "turnEnd"} /\ ~hadCalls /\ pending = <<>> => Answered
  /\ pc = "ended" /\ reason = "done" => Answered

LoopInv == LoopTypes /\ PendingPlaced /\ QueueKinds /\ BatchInv /\ AnswerInv
           /\ NothingLostOrTwice /\ ResultsPaired /\ MirrorAgrees
----------------------------------------------------------------------------
(* Types                                                                   *)

LEMMA EmptyTyped == <<>> \in Seq(Msg) /\ Len(<<>>) = 0
  OBVIOUS

LEMMA OneTyped == ASSUME NEW m \in Msg PROVE <<m>> \in Seq(Msg) /\ Len(<<m>>) = 1 /\ <<m>>[1] = m
  OBVIOUS

LEMMA InputTyped ==
  ASSUME inputs \in Nat, NEW kind \in InputKinds
  PROVE  /\ Input(kind, inputs + 1) \in Msg /\ Input(kind, inputs + 1).kind = kind
         /\ Input(kind, inputs + 1).id = inputs + 1
  BY DEF Input, Msg

LEMMA ReplyTyped ==
  ASSUME streams \in Nat, NEW kind \in Replies, NEW n \in Nat
  PROVE  /\ Reply(kind, n) \in Msg /\ Reply(kind, n).kind = kind /\ Reply(kind, n).n = n
         /\ Reply(kind, n).id = streams + 1
  BY DEF Reply, Msg

LEMMA AppendTyped ==
  ASSUME NEW q \in Seq(Msg), NEW m \in Msg
  PROVE  /\ Append(q, m) \in Seq(Msg) /\ Append(q, m) = q \o <<m>>
         /\ \A i \in DOMAIN Append(q, m) : Append(q, m)[i] = m \/ (i \in DOMAIN q /\ Append(q, m)[i] = q[i])
  OBVIOUS

\* What a queue gives and keeps is the queue.
LEMMA TakenAndLeft ==
  ASSUME NEW q \in Seq(Msg), NEW one \in BOOLEAN
  PROVE  /\ Taken(q, one) \in Seq(Msg) /\ Left(q, one) \in Seq(Msg)
         /\ Taken(q, one) \o Left(q, one) = q
         /\ \A i \in DOMAIN Taken(q, one) : \E j \in DOMAIN q : Taken(q, one)[i] = q[j]
         /\ \A i \in DOMAIN Left(q, one) : \E j \in DOMAIN q : Left(q, one)[i] = q[j]
<1>1. CASE one /\ q # <<>>
  <2>1. /\ Taken(q, one) = <<Head(q)>> /\ Left(q, one) = Tail(q)
    BY <1>1 DEF Taken, Left
  <2>2. /\ Head(q) \in Msg /\ Tail(q) \in Seq(Msg) /\ Len(Tail(q)) = Len(q) - 1 /\ Len(q) \in Nat \ {0}
        /\ \A i \in 1 .. Len(q) - 1 : Tail(q)[i] = q[i + 1]
        /\ q[1] = Head(q) /\ DOMAIN q = 1 .. Len(q) /\ DOMAIN Tail(q) = 1 .. Len(q) - 1
    BY <1>1
  <2>3. <<Head(q)>> \in Seq(Msg) /\ Len(<<Head(q)>>) = 1 /\ <<Head(q)>>[1] = Head(q)
    BY <2>2
  <2>4. <<Head(q)>> \o Tail(q) = q
    <3> DEFINE t == <<Head(q)>> \o Tail(q)
    <3>1. /\ t \in Seq(Msg) /\ Len(t) = Len(q)
          /\ \A i \in 1 .. Len(q) : t[i] = IF i <= 1 THEN <<Head(q)>>[i] ELSE Tail(q)[i - 1]
      <4>1. Len(<<Head(q)>>) + Len(Tail(q)) = Len(q)
        BY <2>2, <2>3
      <4> QED
        BY <2>2, <2>3, <4>1, ConcatProperties
    <3>2. \A i \in 1 .. Len(q) : i = 1 \/ (i - 1 \in 1 .. Len(q) - 1 /\ (i - 1) + 1 = i /\ ~(i <= 1))
      BY <2>2
    <3>3. \A i \in 1 .. Len(q) : t[i] = q[i]
      <4> SUFFICES ASSUME NEW i \in 1 .. Len(q) PROVE t[i] = q[i]
        OBVIOUS
      <4>1. CASE i = 1
        BY <2>2, <2>3, <3>1, <4>1
      <4>2. CASE i # 1
        <5>1. t[i] = Tail(q)[i - 1] /\ Tail(q)[i - 1] = q[(i - 1) + 1]
          BY <2>2, <3>1, <3>2, <4>2
        <5> QED
          BY <3>2, <4>2, <5>1
      <4> QED
        BY <4>1, <4>2
    <3> HIDE DEF t
    <3>4. t = q
      BY <3>1, <3>3, SeqEqual
    <3> QED
      BY <3>4 DEF t
  <2>5. \A i \in DOMAIN Tail(q) : i + 1 \in DOMAIN q
    BY <2>2
  <2> QED
    BY <2>1, <2>2, <2>3, <2>4, <2>5
<1>2. CASE ~(one /\ q # <<>>)
  <2>1. Taken(q, one) = q /\ Left(q, one) = <<>>
    BY <1>2 DEF Taken, Left
  <2>2. q \o <<>> = q /\ DOMAIN <<>> = {}
    BY ConcatEmptySeq
  <2> QED
    BY <2>1, <2>2
<1> QED
  BY <1>1, <1>2

\* The steps that record nothing touch neither the conversation nor its
\* mirror; the others append the same to both.
Still == /\ UNCHANGED <<messages, newMsgs, handed>>
         /\ (pc' = "tools") <=> (pc = "tools")
         /\ pc # "tools" \/ UNCHANGED <<streams, calls, results>>
                        \/ \E i \in DOMAIN calls : (PrepareCall(i) \/ InvokeCall(i) \/ FinishCall(i)) /\ UNCHANGED streams
Returns == pc = "ended" /\ pc' = "idle" /\ messages' = Context /\ newMsgs' = <<>> /\ UNCHANGED handed
Breaks == /\ pc \in {"stream", "sleep"}
          /\ \E kind \in {"failed", "blank"}, n \in Nat, why \in {"error", "aborted"} : BreakOff(kind, n, why)

LEMMA ContextMoves ==
  ASSUME PendingPlaced, Next
  PROVE  \/ Still
         \/ Returns
         \/ Inject
         \/ \E n \in Nat : StreamDone(n)
         \/ Breaks
         \/ RecordResults
<1>0. /\ MaxCalls \in Nat /\ 0 \in Nat /\ 0 .. MaxCalls \subseteq Nat
  BY BoundsAssumption
<1>1. CASE Callers
  <2>1. UNCHANGED <<messages, newMsgs, handed, streams, calls, results>>
    BY <1>1 DEF Callers, Steer, FollowUp, Prompt, Continue, Abort, Run, agent, batch
  <2>2. UNCHANGED pc \/ (~running /\ pc' = "inject")
    BY <1>1 DEF Callers, Steer, FollowUp, Prompt, Continue, Abort, Run
  <2> QED
    BY <2>1, <2>2 DEF Still, PendingPlaced
<1>2. ASSUME NEW n \in 0 .. MaxCalls, StreamDone(n) PROVE \E k \in Nat : StreamDone(k)
  BY <1>0, <1>2
<1>3. ASSUME NEW class \in {"retryable", "overflow", "fatal"}, NEW content \in BOOLEAN, NEW n \in 0 .. MaxCalls,
             StreamFails(class, content, n)
      PROVE  Still \/ Breaks
  <2>1. pc = "stream"
    BY <1>3 DEF StreamFails
  <2>2. CASE BreakOff("failed", n, "error") \/ BreakOff("blank", 0, "error")
    BY <1>0, <2>1, <2>2 DEF Breaks
  <2>3. CASE ~(BreakOff("failed", n, "error") \/ BreakOff("blank", 0, "error"))
    BY <1>3, <2>1, <2>3 DEF StreamFails, agent, Still
  <2> QED
    BY <2>2, <2>3
<1>4. ASSUME NEW n \in 0 .. MaxCalls, StreamAborted(n) PROVE Breaks
  BY <1>0, <1>4 DEF StreamAborted, Breaks
<1>5. CASE SleepAborted
  BY <1>0, <1>5 DEF SleepAborted, Breaks
<1>6. CASE PollFollowUps \/ SleepEnds \/ TurnEnd
  BY <1>6 DEF PollFollowUps, SleepEnds, TurnEnd, End, agent, Still
<1>7. ASSUME NEW i \in DOMAIN calls, PrepareCall(i) \/ InvokeCall(i) \/ FinishCall(i) PROVE Still
  BY <1>7 DEF PrepareCall, InvokeCall, FinishCall, agent, Still
<1>8. CASE RunReturns
  BY <1>8 DEF RunReturns, LoopGone, Returns, Context
<1> QED
  BY <1>1, <1>2, <1>3, <1>4, <1>5, <1>6, <1>7, <1>8 DEF Next, Outside, Loop

LEMMA ResultsTyped ==
  ASSUME LoopTypes, BatchInv, RecordResults
  PROVE  \E ms \in Seq(Msg) :
           /\ Record(ms)
           /\ Len(ms) = Context[Len(Context)].n
           /\ \A k \in 1 .. Len(ms) : ms[k] = [kind |-> "result", id |-> streams, n |-> k]
<1> DEFINE ms == [i \in DOMAIN results |-> Result(results[i])]
           n == Context[Len(Context)].n
<1>1. /\ messages \in Seq(Msg) /\ newMsgs \in Seq(Msg) /\ streams \in Nat /\ pc = "tools" /\ Record(ms)
      /\ \A i \in DOMAIN calls : calls[i] = "done"
  BY DEF RecordResults, LoopTypes
<1>2. Context \in Seq(Msg) /\ Context # <<>>
  BY <1>1, ConcatProperties DEF BatchInv, Context
<1>3. n \in Nat
  <2>1. Context[Len(Context)] \in Msg
    BY <1>2
  <2> QED
    BY <2>1 DEF Msg
<1>4. /\ DOMAIN calls = 1 .. n /\ DOMAIN results = 1 .. n
      /\ \A i \in 1 .. n : results[i] = i
  BY <1>1 DEF BatchInv
<1> HIDE DEF n
<1>5. \A i \in 1 .. n : ms[i] = [kind |-> "result", id |-> streams, n |-> i] /\ ms[i] \in Msg
  BY <1>1, <1>4 DEF Result, Msg
<1>6. DOMAIN ms = 1 .. n
  BY <1>4
<1>7. ms = [i \in 1 .. n |-> ms[i]]
  BY <1>4
<1> HIDE DEF ms
<1>8. ms \in Seq(Msg) /\ Len(ms) = n
  BY <1>3, <1>5, <1>6, <1>7
<1> QED
  BY <1>1, <1>5, <1>8 DEF n

\* What is recorded is typed.
LEMMA Recorded ==
  ASSUME LoopTypes, PendingPlaced, BatchInv, Next
  PROVE  \/ Still
         \/ Returns
         \/ UNCHANGED messages /\ \E ms \in Seq(Msg) : Record(ms)
<1>1. /\ streams \in Nat /\ pending \in Seq(Msg) /\ steering \in Seq(Msg)
  BY DEF LoopTypes
<1>2. CASE Inject
  <2>1. Taken(steering, DrainOne) \in Seq(Msg)
    BY <1>1, TakenAndLeft, DrainAssumption
  <2>2. pending \o Taken(steering, DrainOne) \in Seq(Msg)
    BY <1>1, <2>1, ConcatProperties
  <2> QED
    BY <1>2, <2>2 DEF Inject, agent
<1>3. ASSUME NEW n \in Nat, StreamDone(n) PROVE UNCHANGED messages /\ \E ms \in Seq(Msg) : Record(ms)
  BY <1>1, <1>3, ReplyTyped, OneTyped DEF StreamDone, agent, Replies
<1>4. ASSUME NEW kind \in {"failed", "blank"}, NEW n \in Nat, NEW why, BreakOff(kind, n, why)
      PROVE  UNCHANGED messages /\ \E ms \in Seq(Msg) : Record(ms)
  BY <1>1, <1>4, ReplyTyped, OneTyped DEF BreakOff, agent, Replies
<1>5. CASE RecordResults
  <2>1. UNCHANGED messages
    BY <1>5 DEF RecordResults, agent
  <2> QED
    BY <1>5, <2>1, ResultsTyped
<1> QED
  BY <1>2, <1>3, <1>4, <1>5, ContextMoves DEF Breaks
----------------------------------------------------------------------------
(* The mirror                                                              *)

\* Recording appends to the conversation.
LEMMA RecordAppends ==
  ASSUME LoopTypes, NEW ms \in Seq(Msg), Record(ms), UNCHANGED messages
  PROVE  /\ Context \in Seq(Msg) /\ Context' = Context \o ms /\ Context' \in Seq(Msg)
         /\ newMsgs' \in Seq(Msg) /\ handed' \in Seq(Msg)
<1>1. messages \in Seq(Msg) /\ newMsgs \in Seq(Msg) /\ handed \in Seq(Msg)
  BY DEF LoopTypes
<1>2. /\ Context \in Seq(Msg) /\ Context \o ms \in Seq(Msg) /\ newMsgs \o ms \in Seq(Msg) /\ handed \o ms \in Seq(Msg)
  BY <1>1, ConcatProperties DEF Context
<1>3. messages \o (newMsgs \o ms) = (messages \o newMsgs) \o ms
  BY <1>1, ConcatAssociative, SMTT(30)
<1> QED
  BY <1>2, <1>3 DEF Record, Context

LEMMA MirrorKept ==
  ASSUME LoopTypes, PendingPlaced, BatchInv, MirrorAgrees, Next
  PROVE  MirrorAgrees' /\ {messages', newMsgs', handed'} \subseteq Seq(Msg)
<1>1. /\ messages \in Seq(Msg) /\ newMsgs \in Seq(Msg) /\ handed \in Seq(Msg)
  BY DEF LoopTypes
<1>2. CASE Still
  BY <1>1, <1>2 DEF Still, MirrorAgrees, Context
<1>3. CASE Returns
  <2>1. Context \in Seq(Msg) /\ <<>> \in Seq(Msg)
    BY <1>1, ConcatProperties DEF Context
  <2>2. Context \o <<>> = Context
    BY <2>1, ConcatEmptySeq
  <2>3. Context' = Context /\ messages' = Context /\ newMsgs' = <<>> /\ handed' = handed
    BY <1>3, <2>2 DEF Returns, Context
  <2> QED
    BY <1>1, <2>1, <2>3 DEF MirrorAgrees
<1>4. ASSUME NEW ms \in Seq(Msg), Record(ms), UNCHANGED messages
      PROVE  MirrorAgrees' /\ {messages', newMsgs', handed'} \subseteq Seq(Msg)
  BY <1>1, <1>4, RecordAppends DEF MirrorAgrees, Record
<1> QED
  BY <1>2, <1>3, <1>4, Recorded
----------------------------------------------------------------------------
(* The queues                                                              *)

\* A step that touches no queue and neither begins nor ends a run.
Calm == /\ UNCHANGED <<running, pending, steering, followUp, inputs>>
        /\ UNCHANGED pc \/ (pc \notin {"idle", "inject"} /\ pc' # "idle")

LEMMA CalmSteps ==
  ASSUME Next
  PROVE  \/ Calm
         \/ Steer \/ FollowUp \/ Prompt \/ Continue \/ Inject \/ PollFollowUps \/ RunReturns
<1>1. CASE Abort
  BY <1>1 DEF Abort, queues, Calm
<1>2. ASSUME NEW n \in 0 .. MaxCalls, StreamDone(n) PROVE Calm
  <2>1. pc = "stream" /\ pc' \in {"tools", "turnEnd"}
    BY <1>2 DEF StreamDone
  <2>2. UNCHANGED <<running, pending, steering, followUp, inputs>>
    BY <1>2 DEF StreamDone, queues, agent
  <2> QED
    BY <2>1, <2>2 DEF Calm
<1>3. ASSUME NEW kind, NEW n, NEW why, BreakOff(kind, n, why), pc \in {"stream", "sleep"} PROVE Calm
  BY <1>3 DEF BreakOff, End, queues, agent, Calm
<1>4. ASSUME NEW class \in {"retryable", "overflow", "fatal"}, NEW content \in BOOLEAN, NEW n \in 0 .. MaxCalls,
             StreamFails(class, content, n)
      PROVE  Calm
  <2>1. pc = "stream"
    BY <1>4 DEF StreamFails
  <2>2. CASE BreakOff("failed", n, "error") \/ BreakOff("blank", 0, "error")
    BY <1>3, <2>1, <2>2
  <2>3. CASE ~(BreakOff("failed", n, "error") \/ BreakOff("blank", 0, "error"))
    BY <1>4, <2>1, <2>3 DEF StreamFails, agent, queues, Calm
  <2> QED
    BY <2>2, <2>3
<1>5. ASSUME NEW n \in 0 .. MaxCalls, StreamAborted(n) PROVE Calm
  BY <1>3, <1>5 DEF StreamAborted
<1>6. CASE SleepAborted
  BY <1>3, <1>6 DEF SleepAborted
<1>7. CASE SleepEnds \/ RecordResults
  BY <1>7 DEF SleepEnds, RecordResults, agent, queues, Calm
<1>8. CASE TurnEnd
  BY <1>8 DEF TurnEnd, End, agent, queues, Calm
<1>9. ASSUME NEW i \in DOMAIN calls, PrepareCall(i) \/ InvokeCall(i) \/ FinishCall(i) PROVE Calm
  BY <1>9 DEF PrepareCall, InvokeCall, FinishCall, agent, queues, Calm
<1> QED
  BY <1>1, <1>2, <1>4, <1>5, <1>6, <1>7, <1>8, <1>9 DEF Next, Callers, Outside, Loop

QueueInv == /\ {pending, steering, followUp} \subseteq Seq(Msg) /\ inputs \in Nat
            /\ PendingPlaced /\ QueueKinds

LEMMA QueuesKept == ASSUME QueueInv, Next PROVE QueueInv'
<1>1. CASE Calm
  BY <1>1 DEF Calm, QueueInv, PendingPlaced, QueueKinds
<1>2. CASE Steer
  <2>1. /\ steering' = Append(steering, Input("steer", inputs + 1)) /\ inputs' = inputs + 1
        /\ UNCHANGED <<running, pc, pending, followUp>>
    BY <1>2 DEF Steer, agent
  <2>2. Input("steer", inputs + 1) \in Msg /\ Input("steer", inputs + 1).kind = "steer"
    BY InputTyped DEF QueueInv, InputKinds
  <2>3. /\ steering' \in Seq(Msg)
        /\ \A i \in DOMAIN steering' : steering'[i] = Input("steer", inputs + 1) \/ (i \in DOMAIN steering /\ steering'[i] = steering[i])
    <3>1. steering \in Seq(Msg)
      BY DEF QueueInv
    <3> QED
      BY <2>1, <2>2, <3>1, AppendTyped
  <2> QED
    BY <2>1, <2>2, <2>3 DEF QueueInv, PendingPlaced, QueueKinds
<1>3. CASE FollowUp
  <2>1. /\ followUp' = Append(followUp, Input("followUp", inputs + 1)) /\ inputs' = inputs + 1
        /\ UNCHANGED <<running, pc, pending, steering>>
    BY <1>3 DEF FollowUp, agent
  <2>2. Input("followUp", inputs + 1) \in Msg /\ Input("followUp", inputs + 1).kind = "followUp"
    BY InputTyped DEF QueueInv, InputKinds
  <2>3. /\ followUp' \in Seq(Msg)
        /\ \A i \in DOMAIN followUp' : followUp'[i] = Input("followUp", inputs + 1) \/ (i \in DOMAIN followUp /\ followUp'[i] = followUp[i])
    <3>1. followUp \in Seq(Msg)
      BY DEF QueueInv
    <3> QED
      BY <2>1, <2>2, <3>1, AppendTyped
  <2> QED
    BY <2>1, <2>2, <2>3 DEF QueueInv, PendingPlaced, QueueKinds
<1>4. CASE Prompt \/ Continue
  <2>1. /\ pending' = <<Input("prompt", inputs + 1)>> \/ pending' = <<>>
        /\ inputs' = inputs + 1 \/ inputs' = inputs
        /\ running' = TRUE /\ pc' = "inject" /\ UNCHANGED <<steering, followUp>>
    BY <1>4 DEF Prompt, Continue, Run, queues
  <2>2. Input("prompt", inputs + 1) \in Msg /\ Input("prompt", inputs + 1).kind = "prompt"
    BY InputTyped DEF QueueInv, InputKinds
  <2>3. pending' \in Seq(Msg) /\ inputs' \in Nat
    <3>1. <<Input("prompt", inputs + 1)>> \in Seq(Msg) /\ <<>> \in Seq(Msg)
      BY <2>2, OneTyped, EmptyTyped
    <3>2. inputs \in Nat
      BY DEF QueueInv
    <3>3. inputs' \in Nat
      BY <2>1, <3>2
    <3> QED
      BY <2>1, <3>1, <3>3
  <2>4. \A i \in DOMAIN pending' : pending'[i].kind = "prompt"
    <3>1. CASE pending' = <<>>
      BY <3>1
    <3>2. CASE pending' = <<Input("prompt", inputs + 1)>>
      <4>1. /\ Len(<<Input("prompt", inputs + 1)>>) = 1 /\ <<Input("prompt", inputs + 1)>>[1] = Input("prompt", inputs + 1)
        BY <2>2, OneTyped
      <4>2. DOMAIN pending' = 1 .. 1
        BY <2>3, <3>2, <4>1
      <4> QED
        BY <2>2, <3>2, <4>1, <4>2
    <3> QED
      BY <2>1, <3>1, <3>2
  <2> QED
    BY <2>1, <2>3, <2>4 DEF QueueInv, PendingPlaced, QueueKinds
<1>5. CASE Inject
  <2>1. /\ pending' = <<>> /\ steering' = Left(steering, DrainOne) /\ pc = "inject" /\ pc' \in {"ended", "stream"}
        /\ UNCHANGED <<running, followUp, inputs>>
    BY <1>5 DEF Inject, End, agent
  <2>2. /\ Left(steering, DrainOne) \in Seq(Msg)
        /\ \A i \in DOMAIN Left(steering, DrainOne) : \E j \in DOMAIN steering : Left(steering, DrainOne)[i] = steering[j]
    BY TakenAndLeft, DrainAssumption DEF QueueInv
  <2>3. pending' \in Seq(Msg)
    BY <2>1, EmptyTyped
  <2> QED
    BY <2>1, <2>2, <2>3 DEF QueueInv, PendingPlaced, QueueKinds
<1>6. CASE PollFollowUps
  <2>1. /\ pending' = followUp /\ followUp' = <<>> /\ pc = "inject"
        /\ IF followUp = <<>> THEN pc' = "ended" ELSE pc' = pc
        /\ UNCHANGED <<running, steering, inputs>>
    BY <1>6 DEF PollFollowUps, End, Taken, Left, agent
  <2>2. <<>> \in Seq(Msg) /\ DOMAIN <<>> = {} /\ pc' # "idle" /\ pc # "idle"
    BY <2>1
  <2>3. PendingPlaced'
    BY <2>1, <2>2 DEF QueueInv, PendingPlaced
  <2>4. QueueKinds'
    BY <2>1, <2>2 DEF QueueInv, QueueKinds
  <2> QED
    BY <2>1, <2>2, <2>3, <2>4 DEF QueueInv
<1>7. CASE RunReturns
  <2>1. running' = FALSE /\ pc' = "idle" /\ pending' = <<>> /\ UNCHANGED <<steering, followUp, inputs>>
    BY <1>7 DEF RunReturns, LoopGone, queues
  <2>2. pending' \in Seq(Msg) /\ DOMAIN pending' = {}
    BY <2>1, EmptyTyped
  <2> QED
    BY <2>1, <2>2 DEF QueueInv, PendingPlaced, QueueKinds
<1> QED
  BY <1>1, <1>2, <1>3, <1>4, <1>5, <1>6, <1>7, CalmSteps
----------------------------------------------------------------------------
(* The results of a batch                                                  *)

\* The replies among the first n messages of c are followed by their results.
Paired(c, n) ==
  \A i \in 1 .. n : c[i].kind = "asst" =>
     /\ i + c[i].n <= Len(c)
     /\ \A k \in 1 .. c[i].n : c[i + k] = [kind |-> "result", id |-> c[i].id, n |-> k]
Settled == IF pc = "tools" THEN Len(Context) - 1 ELSE Len(Context)

LEMMA PairedMeansResults ==
  /\ Context \in Seq(Msg) => (ResultsPaired <=> Paired(Context, Settled))
  /\ Context' \in Seq(Msg) => (ResultsPaired' <=> Paired(Context', Settled'))
<1>1. ASSUME NEW c \in Seq(Msg), NEW s, s = Len(c) \/ s = Len(c) - 1
      PROVE  \A i : i \in 1 .. s <=> i \in DOMAIN c /\ ~(s = Len(c) - 1 /\ i = Len(c))
  <2>1. Len(c) \in Nat /\ DOMAIN c = 1 .. Len(c)
    OBVIOUS
  <2> QED
    BY <1>1, <2>1
<1>2. ASSUME Context \in Seq(Msg) PROVE ResultsPaired <=> Paired(Context, Settled)
  <2>1. \A i : i \in 1 .. Settled <=> i \in DOMAIN Context /\ ~(pc = "tools" /\ i = Len(Context))
    <3>1. Len(Context) \in Nat
      BY <1>2
    <3> QED
      BY <1>1, <1>2, <3>1 DEF Settled
  <2> QED
    BY <2>1 DEF ResultsPaired, Paired
<1>3. ASSUME Context' \in Seq(Msg) PROVE ResultsPaired' <=> Paired(Context', Settled')
  <2>1. \A i : i \in 1 .. Settled' <=> i \in DOMAIN Context' /\ ~(pc' = "tools" /\ i = Len(Context'))
    <3>1. Len(Context') \in Nat
      BY <1>3
    <3> QED
      BY <1>1, <1>3, <3>1 DEF Settled
  <2> QED
    BY <2>1 DEF ResultsPaired, Paired
<1> QED
  BY <1>2, <1>3

\* What is appended pairs nothing apart.
LEMMA PairedGrows ==
  ASSUME NEW c \in Seq(Msg), NEW x \in Seq(Msg), NEW n \in 0 .. Len(c), Paired(c, n)
  PROVE  Paired(c \o x, n)
<1>1. /\ c \o x \in Seq(Msg) /\ Len(c \o x) = Len(c) + Len(x) /\ Len(c) \in Nat /\ Len(x) \in Nat
      /\ \A i \in 1 .. Len(c) : (c \o x)[i] = c[i]
  BY ConcatProperties
<1> DEFINE d == c \o x
<1> HIDE DEF d
<1> SUFFICES ASSUME NEW i \in 1 .. n, d[i].kind = "asst"
             PROVE  /\ i + d[i].n <= Len(d)
                    /\ \A k \in 1 .. d[i].n : d[i + k] = [kind |-> "result", id |-> d[i].id, n |-> k]
  BY DEF Paired, d
<1>2. i \in 1 .. Len(c) /\ d[i] = c[i] /\ c[i].n \in Nat
  <2>1. i \in 1 .. Len(c)
    BY <1>1
  <2>2. c[i] \in Msg
    BY <2>1
  <2> QED
    BY <1>1, <2>1, <2>2 DEF Msg, d
<1>3. /\ i + c[i].n <= Len(c)
      /\ \A k \in 1 .. c[i].n : c[i + k] = [kind |-> "result", id |-> c[i].id, n |-> k]
  BY <1>2 DEF Paired
<1>4. \A k \in 1 .. c[i].n : i + k \in 1 .. Len(c)
  BY <1>1, <1>2, <1>3
<1>5. \A k \in 1 .. c[i].n : d[i + k] = [kind |-> "result", id |-> c[i].id, n |-> k]
  BY <1>1, <1>3, <1>4 DEF d
<1>6. i + c[i].n <= Len(d)
  <2>1. i + c[i].n <= Len(c) /\ Len(d) = Len(c) + Len(x) /\ i + c[i].n \in Nat
    BY <1>1, <1>2, <1>3 DEF d
  <2> QED
    BY <1>1, <2>1
<1> QED
  BY <1>2, <1>5, <1>6

\* Messages that are no replies pair themselves.
LEMMA PairedGrowsQuietly ==
  ASSUME NEW c \in Seq(Msg), NEW x \in Seq(Msg), Paired(c, Len(c)),
         \A i \in 1 .. Len(x) : x[i].kind = "asst" => x[i].n = 0
  PROVE  Paired(c \o x, Len(c \o x))
<1>1. /\ c \o x \in Seq(Msg) /\ Len(c \o x) = Len(c) + Len(x) /\ Len(c) \in Nat /\ Len(x) \in Nat
      /\ \A i \in 1 .. Len(c) + Len(x) : (c \o x)[i] = IF i <= Len(c) THEN c[i] ELSE x[i - Len(c)]
  BY ConcatProperties
<1>2. Paired(c \o x, Len(c))
  BY <1>1, PairedGrows
<1> DEFINE d == c \o x
<1> HIDE DEF d
<1> SUFFICES ASSUME NEW i \in 1 .. Len(d), d[i].kind = "asst"
             PROVE  /\ i + d[i].n <= Len(d)
                    /\ \A k \in 1 .. d[i].n : d[i + k] = [kind |-> "result", id |-> d[i].id, n |-> k]
  BY DEF Paired, d
<1>3. CASE i <= Len(c)
  <2>1. i \in 1 .. Len(c) /\ Paired(d, Len(c))
    BY <1>1, <1>2, <1>3 DEF d
  <2> QED
    BY <2>1 DEF Paired
<1>4. CASE ~(i <= Len(c))
  <2>1. i - Len(c) \in 1 .. Len(x) /\ d[i] = x[i - Len(c)]
    BY <1>1, <1>4 DEF d
  <2>2. d[i].n = 0
    BY <2>1
  <2> QED
    BY <1>1, <2>2 DEF d
<1> QED
  BY <1>3, <1>4

\* The results of the last reply complete its batch.
LEMMA PairedByResults ==
  ASSUME NEW c \in Seq(Msg), NEW x \in Seq(Msg), c # <<>>, Paired(c, Len(c) - 1),
         c[Len(c)].kind = "asst", Len(x) = c[Len(c)].n,
         \A k \in 1 .. Len(x) : x[k] = [kind |-> "result", id |-> c[Len(c)].id, n |-> k]
  PROVE  Paired(c \o x, Len(c \o x))
<1>1. /\ c \o x \in Seq(Msg) /\ Len(c \o x) = Len(c) + Len(x) /\ Len(c) \in Nat \ {0} /\ Len(x) \in Nat
      /\ \A i \in 1 .. Len(c) + Len(x) : (c \o x)[i] = IF i <= Len(c) THEN c[i] ELSE x[i - Len(c)]
  BY ConcatProperties
<1>2. Paired(c \o x, Len(c) - 1)
  <2>1. Len(c) - 1 \in 0 .. Len(c)
    BY <1>1
  <2> QED
    BY <2>1, PairedGrows
<1> DEFINE d == c \o x
<1> HIDE DEF d
<1> SUFFICES ASSUME NEW i \in 1 .. Len(d), d[i].kind = "asst"
             PROVE  /\ i + d[i].n <= Len(d)
                    /\ \A k \in 1 .. d[i].n : d[i + k] = [kind |-> "result", id |-> d[i].id, n |-> k]
  BY DEF Paired, d
<1>3. CASE i < Len(c)
  <2>1. i \in 1 .. Len(c) - 1
    BY <1>1, <1>3
  <2> QED
    BY <1>2, <2>1 DEF Paired, d
<1>4. CASE i = Len(c)
  <2>1. d[i] = c[i] /\ d[i].n = Len(x)
    BY <1>1, <1>4 DEF d
  <2>2. ASSUME NEW k \in 1 .. Len(x) PROVE d[i + k] = x[k]
    <3>1. i + k \in 1 .. Len(c) + Len(x) /\ ~(i + k <= Len(c)) /\ (i + k) - Len(c) = k
      BY <1>1, <1>4
    <3> QED
      BY <1>1, <3>1 DEF d
  <2> QED
    BY <1>1, <1>4, <2>1, <2>2 DEF d
<1>5. CASE i > Len(c)
  <2>1. i - Len(c) \in 1 .. Len(x) /\ d[i] = x[i - Len(c)]
    BY <1>1, <1>5 DEF d
  <2>2. d[i].kind = "result"
    <3> DEFINE k == i - Len(c)
               who == c[Len(c)].id
    <3>1. x[k] = [kind |-> "result", id |-> who, n |-> k]
      BY <2>1
    <3> HIDE DEF k, who
    <3>2. x[k].kind = "result"
      BY <3>1
    <3> QED
      BY <2>1, <3>2 DEF k
  <2> QED
    BY <2>2
<1> QED
  BY <1>1, <1>3, <1>4, <1>5

\* A call that moves on keeps its place.
LEMMA CallsKeepBatch ==
  ASSUME BatchInv, pc = "tools", pc' = "tools", Context' = Context, UNCHANGED streams, NEW i \in DOMAIN calls,
         PrepareCall(i) \/ InvokeCall(i) \/ FinishCall(i)
  PROVE  BatchInv'
<1> DEFINE n == Context[Len(Context)].n
<1>1. /\ calls \in [1 .. n -> {"todo", "ready", "invoked", "done"}] /\ results \in [1 .. n -> Nat]
      /\ \A j \in 1 .. n : calls[j] = "done" => results[j] = j
      /\ i \in 1 .. n
  BY DEF BatchInv
<1>2. \/ calls' = [calls EXCEPT ![i] = "done"] /\ results' = [results EXCEPT ![i] = i]
      \/ \E st \in {"ready", "invoked"} : calls' = [calls EXCEPT ![i] = st] /\ UNCHANGED results
  BY DEF PrepareCall, InvokeCall, FinishCall, Settle
<1> HIDE DEF n
<1>3. /\ calls' \in [1 .. n -> {"todo", "ready", "invoked", "done"}] /\ results' \in [1 .. n -> Nat]
      /\ \A j \in 1 .. n : calls'[j] = "done" => results'[j] = j
  <2>1. CASE calls' = [calls EXCEPT ![i] = "done"] /\ results' = [results EXCEPT ![i] = i]
    <3>1. i \in Nat
      BY <1>1
    <3>2. /\ calls' \in [1 .. n -> {"todo", "ready", "invoked", "done"}] /\ results' \in [1 .. n -> Nat]
          /\ results'[i] = i /\ \A j \in 1 .. n : j # i => calls'[j] = calls[j] /\ results'[j] = results[j]
      BY <1>1, <2>1, <3>1
    <3> QED
      BY <1>1, <3>2
  <2>2. ASSUME NEW st \in {"ready", "invoked"}, calls' = [calls EXCEPT ![i] = st] /\ UNCHANGED results
        PROVE  /\ calls' \in [1 .. n -> {"todo", "ready", "invoked", "done"}] /\ results' \in [1 .. n -> Nat]
               /\ \A j \in 1 .. n : calls'[j] = "done" => results'[j] = j
    BY <1>1, <2>2
  <2> QED
    BY <1>2, <2>1, <2>2
<1>4. DOMAIN calls' = 1 .. n /\ DOMAIN results' = 1 .. n
  BY <1>3
<1> QED
  BY <1>3, <1>4 DEF BatchInv, n

LEMMA BatchKept ==
  ASSUME LoopTypes, PendingPlaced, QueueKinds, BatchInv, ResultsPaired, Next
  PROVE  BatchInv' /\ ResultsPaired'
<1>1. /\ messages \in Seq(Msg) /\ newMsgs \in Seq(Msg) /\ streams \in Nat /\ Context \in Seq(Msg)
      /\ Len(Context) \in Nat
  BY ConcatProperties DEF LoopTypes, Context
<1>2. Paired(Context, Settled)
  BY <1>1, PairedMeansResults
<1>3. ASSUME Context' = Context, Settled' = Settled PROVE ResultsPaired'
  BY <1>1, <1>2, <1>3, PairedMeansResults
<1>4. CASE Still
  <2>1. Context' = Context /\ Settled' = Settled
    BY <1>4 DEF Still, Context, Settled
  <2>2. BatchInv'
    <3>1. CASE pc # "tools"
      BY <1>4, <3>1 DEF Still, BatchInv
    <3>2. CASE pc = "tools" /\ UNCHANGED <<streams, calls, results>>
      BY <1>4, <2>1, <3>2 DEF Still, BatchInv
    <3>3. ASSUME pc = "tools", NEW i \in DOMAIN calls, PrepareCall(i) \/ InvokeCall(i) \/ FinishCall(i), UNCHANGED streams
          PROVE  BatchInv'
      <4>1. pc' = "tools"
        BY <1>4, <3>3 DEF Still
      <4> QED
        BY <2>1, <3>3, <4>1, CallsKeepBatch
    <3> QED
      BY <1>4, <3>1, <3>2, <3>3 DEF Still
  <2> QED
    BY <1>3, <2>1, <2>2
<1>5. CASE Returns
  <2>1. Context' = Context
    <3>1. Context \o <<>> = Context
      BY <1>1, ConcatEmptySeq
    <3> QED
      BY <1>5, <3>1 DEF Returns, Context
  <2>2. pc = "ended" /\ pc' = "idle"
    BY <1>5 DEF Returns
  <2> QED
    BY <1>3, <2>1, <2>2 DEF Settled, BatchInv
\* Whatever is recorded while no batch is pending.
<1>6. ASSUME NEW ms \in Seq(Msg), Record(ms), UNCHANGED messages, pc # "tools", pc' # "tools",
             \A i \in 1 .. Len(ms) : ms[i].kind = "asst" => ms[i].n = 0
      PROVE  BatchInv' /\ ResultsPaired'
  <2>1. Context' = Context \o ms /\ Context' \in Seq(Msg) /\ Settled = Len(Context) /\ Settled' = Len(Context')
    BY <1>6, RecordAppends DEF Settled
  <2>2. Paired(Context \o ms, Len(Context \o ms))
    BY <1>1, <1>2, <1>6, <2>1, PairedGrowsQuietly
  <2> QED
    BY <1>6, <2>1, <2>2, PairedMeansResults DEF BatchInv
<1>7. CASE Inject
  <2> DEFINE ms == pending \o Taken(steering, DrainOne)
  <2>1. Record(ms) /\ UNCHANGED messages /\ pc = "inject" /\ pc' # "tools"
    BY <1>7 DEF Inject, End, agent
  <2>2. /\ pending \in Seq(Msg) /\ steering \in Seq(Msg) /\ Taken(steering, DrainOne) \in Seq(Msg)
        /\ \A i \in DOMAIN Taken(steering, DrainOne) : \E j \in DOMAIN steering : Taken(steering, DrainOne)[i] = steering[j]
    BY TakenAndLeft, DrainAssumption DEF LoopTypes
  <2>3. /\ ms \in Seq(Msg) /\ Len(ms) = Len(pending) + Len(Taken(steering, DrainOne))
        /\ \A i \in 1 .. Len(pending) + Len(Taken(steering, DrainOne)) :
             ms[i] = IF i <= Len(pending) THEN pending[i] ELSE Taken(steering, DrainOne)[i - Len(pending)]
    BY <2>2, ConcatProperties
  <2>4. ASSUME NEW i \in 1 .. Len(ms) PROVE ms[i].kind # "asst"
    <3>1. CASE i <= Len(pending)
      <4>1. i \in DOMAIN pending /\ ms[i] = pending[i]
        BY <2>2, <2>3, <3>1
      <4> QED
        BY <4>1 DEF QueueKinds
    <3>2. CASE ~(i <= Len(pending))
      <4>1. i - Len(pending) \in DOMAIN Taken(steering, DrainOne) /\ ms[i] = Taken(steering, DrainOne)[i - Len(pending)]
        BY <2>2, <2>3, <3>2
      <4> QED
        BY <2>2, <4>1 DEF QueueKinds
    <3> QED
      BY <3>1, <3>2
  <2> QED
    BY <1>6, <2>1, <2>3, <2>4
<1>8. ASSUME NEW n \in Nat, StreamDone(n) PROVE BatchInv' /\ ResultsPaired'
  <2> DEFINE m == Reply("asst", n)
  <2>1. /\ m \in Msg /\ m.kind = "asst" /\ m.n = n /\ m.id = streams + 1
        /\ <<m>> \in Seq(Msg) /\ Len(<<m>>) = 1 /\ <<m>>[1] = m
    BY <1>1, ReplyTyped, OneTyped DEF Replies
  <2>2. /\ pc = "stream" /\ pc' = IF n > 0 THEN "tools" ELSE "turnEnd"
        /\ Record(<<m>>) /\ UNCHANGED messages /\ streams' = streams + 1
        /\ calls' = [i \in 1 .. n |-> "todo"] /\ results' = [i \in 1 .. n |-> NoResult]
    BY <1>8 DEF StreamDone, agent
  <2> HIDE DEF m
  <2>3. CASE n = 0
    <3>1. \A i \in 1 .. Len(<<m>>) : <<m>>[i].kind = "asst" => <<m>>[i].n = 0
      BY <2>1, <2>3
    <3>2. pc # "tools" /\ pc' # "tools"
      BY <2>2, <2>3
    <3> QED
      BY <1>6, <2>1, <2>2, <3>1, <3>2
  <2>4. CASE n > 0
    <3>1. Context' = Context \o <<m>> /\ Context' \in Seq(Msg)
      BY <2>1, <2>2, RecordAppends
    <3>2. Len(Context') = Len(Context) + 1 /\ Context'[Len(Context')] = m
      BY <1>1, <2>1, <3>1, ConcatProperties
    <3>3. Settled = Len(Context) /\ Settled' = Len(Context) /\ Len(Context) \in 0 .. Len(Context)
      BY <1>1, <2>2, <2>4, <3>2 DEF Settled
    <3>4. Paired(Context \o <<m>>, Len(Context))
      BY <1>1, <1>2, <2>1, <3>3, PairedGrows
    <3>5. ResultsPaired'
      BY <3>1, <3>3, <3>4, PairedMeansResults
    <3>6. Context' # <<>>
      BY <1>1, <3>1, <3>2
    <3>7. /\ calls' \in [1 .. n -> {"todo", "ready", "invoked", "done"}] /\ results' \in [1 .. n -> Nat]
          /\ \A i \in DOMAIN calls' : calls'[i] # "done"
      BY <2>2 DEF NoResult
    <3> QED
      BY <2>1, <2>2, <3>2, <3>5, <3>6, <3>7 DEF BatchInv
  <2> QED
    BY <2>3, <2>4
<1>9. ASSUME NEW kind \in {"failed", "blank"}, NEW n \in Nat, NEW why \in {"error", "aborted"},
             BreakOff(kind, n, why), pc \in {"stream", "sleep"}
      PROVE  BatchInv' /\ ResultsPaired'
  <2> DEFINE m == Reply(kind, n)
  <2>1. /\ m \in Msg /\ m.kind = kind
        /\ <<m>> \in Seq(Msg) /\ Len(<<m>>) = 1 /\ <<m>>[1] = m
    BY <1>1, ReplyTyped, OneTyped DEF Replies
  <2>2. Record(<<m>>) /\ UNCHANGED messages /\ pc' = "ended"
    BY <1>9 DEF BreakOff, End, agent
  <2> HIDE DEF m
  <2>3. \A i \in 1 .. Len(<<m>>) : <<m>>[i].kind = "asst" => <<m>>[i].n = 0
    BY <2>1
  <2> QED
    BY <1>6, <1>9, <2>1, <2>2, <2>3
<1>10. CASE RecordResults
  <2>1. PICK ms \in Seq(Msg) : /\ Record(ms)
                               /\ Len(ms) = Context[Len(Context)].n
                               /\ \A k \in 1 .. Len(ms) : ms[k] = [kind |-> "result", id |-> streams, n |-> k]
    BY <1>10, ResultsTyped
  <2>2. UNCHANGED messages /\ pc = "tools" /\ pc' = "turnEnd"
    BY <1>10 DEF RecordResults, agent
  <2>3. Context' = Context \o ms /\ Context' \in Seq(Msg) /\ Settled = Len(Context) - 1 /\ Settled' = Len(Context')
    BY <2>1, <2>2, RecordAppends DEF Settled
  <2>4. Context # <<>> /\ Context[Len(Context)].kind = "asst" /\ Context[Len(Context)].id = streams
    BY <2>2 DEF BatchInv
  <2>5. Paired(Context \o ms, Len(Context \o ms))
    BY <1>1, <1>2, <2>1, <2>3, <2>4, PairedByResults
  <2> QED
    BY <2>2, <2>3, <2>5, PairedMeansResults DEF BatchInv
<1> QED
  BY <1>4, <1>5, <1>7, <1>8, <1>9, <1>10, ContextMoves DEF Breaks
----------------------------------------------------------------------------
(* The end of a run                                                        *)

LEMMA AnswersKept == ASSUME LoopTypes, PendingPlaced, AnswerInv, Next PROVE AnswerInv'
<1>1. newMsgs \in Seq(Msg) /\ streams \in Nat
  BY DEF LoopTypes
<1>2. CASE UNCHANGED <<pc, newMsgs, pending, hadCalls, reason>>
  BY <1>2 DEF AnswerInv, Answered
<1>3. CASE Steer \/ FollowUp \/ Abort
  BY <1>2, <1>3 DEF Steer, FollowUp, Abort
<1>4. CASE Prompt \/ Continue
  <2>1. pc' = "inject" /\ (hadCalls' \/ pending' # <<>>)
    BY <1>4 DEF Prompt, Continue, Run
  <2> QED
    BY <2>1 DEF AnswerInv
<1>5. ASSUME NEW n \in 0 .. MaxCalls, StreamDone(n) PROVE AnswerInv'
  <2>1. /\ newMsgs' = newMsgs \o <<Reply("asst", n)>> /\ (hadCalls' <=> n > 0)
        /\ pc' = IF n > 0 THEN "tools" ELSE "turnEnd"
    BY <1>5 DEF StreamDone, Record
  <2>2. n \in Nat /\ (n > 0 \/ n = 0)
    BY BoundsAssumption
  <2>3. CASE n > 0
    BY <2>1, <2>3 DEF AnswerInv
  <2>4. CASE n = 0
    <3> DEFINE m == Reply("asst", n)
    <3>1. m \in Msg /\ m.kind = "asst" /\ m.n = 0 /\ <<m>> \in Seq(Msg) /\ Len(<<m>>) = 1 /\ <<m>>[1] = m
      BY <1>1, <2>2, <2>4, ReplyTyped, OneTyped DEF Replies
    <3> HIDE DEF m
    <3>2. newMsgs \o <<m>> \in Seq(Msg) /\ Len(newMsgs \o <<m>>) = Len(newMsgs) + 1 /\ (newMsgs \o <<m>>)[Len(newMsgs) + 1] = m
      BY <1>1, <3>1, ConcatProperties
    <3>3. newMsgs' # <<>> /\ newMsgs'[Len(newMsgs')] = m
      BY <1>1, <2>1, <3>2 DEF m
    <3>4. Answered'
      BY <3>1, <3>3 DEF Answered
    <3> QED
      BY <2>1, <2>4, <3>4 DEF AnswerInv
  <2> QED
    BY <2>2, <2>3, <2>4
<1>6. ASSUME NEW kind, NEW n, NEW why \in {"error", "aborted"}, BreakOff(kind, n, why) PROVE AnswerInv'
  BY <1>6 DEF BreakOff, End, AnswerInv
<1>7. ASSUME NEW class \in {"retryable", "overflow", "fatal"}, NEW content \in BOOLEAN, NEW n \in 0 .. MaxCalls,
             StreamFails(class, content, n)
      PROVE  AnswerInv'
  <2>1. pc = "stream"
    BY <1>7 DEF StreamFails
  <2>2. CASE BreakOff("failed", n, "error") \/ BreakOff("blank", 0, "error")
    BY <1>6, <2>2
  <2>3. CASE ~(BreakOff("failed", n, "error") \/ BreakOff("blank", 0, "error"))
    BY <1>7, <2>1, <2>3 DEF StreamFails, AnswerInv
  <2> QED
    BY <2>2, <2>3
<1>8. ASSUME NEW n \in 0 .. MaxCalls, StreamAborted(n) PROVE AnswerInv'
  BY <1>6, <1>8 DEF StreamAborted
<1>9. CASE SleepAborted
  BY <1>6, <1>9 DEF SleepAborted
<1>10. CASE SleepEnds
  BY <1>10 DEF SleepEnds, AnswerInv
<1>11. CASE Inject
  BY <1>11 DEF Inject, End, AnswerInv
\* The run stops only where the last reply has no calls.
<1>12. CASE PollFollowUps
  <2>1. Answered
    BY <1>12 DEF PollFollowUps, MoreToDo, AnswerInv
  <2>2. Answered'
    BY <1>12, <2>1 DEF PollFollowUps, Answered
  <2>3. pc' # "tools"
    BY <1>12 DEF PollFollowUps, End
  <2> QED
    BY <2>2, <2>3 DEF AnswerInv
<1>13. ASSUME NEW i \in DOMAIN calls, PrepareCall(i) \/ InvokeCall(i) \/ FinishCall(i) PROVE AnswerInv'
  BY <1>2, <1>13 DEF PrepareCall, InvokeCall, FinishCall
<1>14. CASE RecordResults
  <2>1. pc = "tools" /\ pc' = "turnEnd" /\ hadCalls' = hadCalls
    BY <1>14 DEF RecordResults
  <2> QED
    BY <2>1 DEF AnswerInv
<1>15. CASE TurnEnd
  BY <1>15 DEF TurnEnd, End, AnswerInv, Answered
<1>16. CASE RunReturns
  BY <1>16 DEF RunReturns, LoopGone, AnswerInv
<1> QED
  BY <1>3, <1>4, <1>5, <1>7, <1>8, <1>9, <1>10, <1>11, <1>12, <1>13, <1>14, <1>15, <1>16 DEF Next, Callers, Outside, Loop
----------------------------------------------------------------------------
(* No message is lost, none comes twice                                    *)

Accepted(all) == {i \in DOMAIN all : all[i].kind \in InputKinds}
Kept(all, n) ==
  /\ {all[i].id : i \in Accepted(all)} = 1 .. n
  /\ \A i, j \in Accepted(all) : /\ all[i].id = all[j].id => i = j
                                 /\ i < j /\ all[i].kind = all[j].kind => all[i].id < all[j].id
All == Context \o pending \o steering \o followUp

LEMMA KeptMeansNothingLost ==
  /\ NothingLostOrTwice <=> Kept(All, inputs)
  /\ NothingLostOrTwice' <=> Kept(All', inputs')
BY DEF NothingLostOrTwice, Kept, Accepted, All

LEMMA Associate ==
  ASSUME NEW a \in Seq(Msg), NEW b \in Seq(Msg), NEW c \in Seq(Msg)
  PROVE  (a \o b) \o c = a \o (b \o c)
BY ConcatAssociative

\* Where the messages are once x is between a and b.
LEMMA Inserted ==
  ASSUME NEW a \in Seq(Msg), NEW x \in Seq(Msg), NEW b \in Seq(Msg)
  PROVE  /\ {a \o b, a \o (x \o b)} \subseteq Seq(Msg)
         /\ Len(a) \in Nat /\ Len(x) \in Nat /\ Len(b) \in Nat
         /\ Len(a \o b) = Len(a) + Len(b) /\ Len(a \o (x \o b)) = Len(a) + Len(x) + Len(b)
         /\ \A i \in 1 .. Len(a) : (a \o b)[i] = a[i] /\ (a \o (x \o b))[i] = a[i]
         /\ \A i \in 1 .. Len(x) : (a \o (x \o b))[Len(a) + i] = x[i]
         /\ \A i \in 1 .. Len(b) : (a \o b)[Len(a) + i] = b[i] /\ (a \o (x \o b))[Len(a) + Len(x) + i] = b[i]
<1>0. Len(a) \in Nat /\ Len(x) \in Nat /\ Len(b) \in Nat
  OBVIOUS
<1>1. /\ x \o b \in Seq(Msg) /\ Len(x \o b) = Len(x) + Len(b)
      /\ \A i \in 1 .. Len(x) + Len(b) : (x \o b)[i] = IF i <= Len(x) THEN x[i] ELSE b[i - Len(x)]
  BY ConcatProperties
<1>2. /\ a \o b \in Seq(Msg) /\ Len(a \o b) = Len(a) + Len(b)
      /\ \A i \in 1 .. Len(a) + Len(b) : (a \o b)[i] = IF i <= Len(a) THEN a[i] ELSE b[i - Len(a)]
  BY ConcatProperties
<1>3. /\ a \o (x \o b) \in Seq(Msg) /\ Len(a \o (x \o b)) = Len(a) + (Len(x) + Len(b))
      /\ \A i \in 1 .. Len(a) + (Len(x) + Len(b)) :
           (a \o (x \o b))[i] = IF i <= Len(a) THEN a[i] ELSE (x \o b)[i - Len(a)]
  BY <1>1, ConcatProperties
<1> DEFINE w == a \o (x \o b)
           v == a \o b
           y == x \o b
<1> HIDE DEF w, v, y
<1>4. ASSUME NEW i \in 1 .. Len(a) PROVE v[i] = a[i] /\ w[i] = a[i]
  BY <1>0, <1>2, <1>3, <1>4 DEF v, w
<1>5. ASSUME NEW i \in 1 .. Len(x) PROVE w[Len(a) + i] = x[i]
  <2>1. /\ Len(a) + i \in 1 .. Len(a) + (Len(x) + Len(b)) /\ ~(Len(a) + i <= Len(a)) /\ (Len(a) + i) - Len(a) = i
        /\ i \in 1 .. Len(x) + Len(b) /\ i <= Len(x)
    BY <1>0
  <2>2. w[Len(a) + i] = y[(Len(a) + i) - Len(a)] /\ y[i] = x[i]
    BY <1>1, <1>3, <2>1 DEF w, y
  <2> QED
    BY <2>1, <2>2
<1>6. ASSUME NEW i \in 1 .. Len(b) PROVE v[Len(a) + i] = b[i] /\ w[Len(a) + Len(x) + i] = b[i]
  <2>1. /\ Len(a) + Len(x) + i \in 1 .. Len(a) + (Len(x) + Len(b)) /\ ~(Len(a) + Len(x) + i <= Len(a))
        /\ (Len(a) + Len(x) + i) - Len(a) = Len(x) + i
        /\ Len(x) + i \in 1 .. Len(x) + Len(b) /\ ~(Len(x) + i <= Len(x)) /\ (Len(x) + i) - Len(x) = i
        /\ Len(a) + i \in 1 .. Len(a) + Len(b) /\ ~(Len(a) + i <= Len(a)) /\ (Len(a) + i) - Len(a) = i
    BY <1>0
  <2>2. w[Len(a) + Len(x) + i] = y[(Len(a) + Len(x) + i) - Len(a)]
    BY <1>3, <2>1 DEF w, y
  <2>3. y[Len(x) + i] = b[(Len(x) + i) - Len(x)]
    BY <1>1, <2>1 DEF y
  <2>4. v[Len(a) + i] = b[(Len(a) + i) - Len(a)]
    BY <1>2, <2>1 DEF v
  <2> QED
    BY <2>1, <2>2, <2>3, <2>4
<1>7. Len(w) = Len(a) + Len(x) + Len(b)
  BY <1>0, <1>3 DEF w
<1> QED
  BY <1>0, <1>2, <1>3, <1>4, <1>5, <1>6, <1>7 DEF v, w

\* The place in a \o (x \o b) of the message j of a \o b.
Moved(a, x, j) == IF j <= Len(a) THEN j ELSE j + Len(x)

LEMMA MovedApart ==
  ASSUME NEW a \in Seq(Msg), NEW x \in Seq(Msg), NEW b \in Seq(Msg)
  PROVE  /\ \A j \in DOMAIN (a \o b) :
              /\ Moved(a, x, j) \in DOMAIN (a \o (x \o b))
              /\ (a \o (x \o b))[Moved(a, x, j)] = (a \o b)[j]
         /\ \A i \in DOMAIN (a \o (x \o b)) :
              \/ \E k \in DOMAIN x : i = Len(a) + k /\ (a \o (x \o b))[i] = x[k]
              \/ \E j \in DOMAIN (a \o b) :
                   i = Moved(a, x, j) /\ (j > Len(a) => \E k \in DOMAIN b : (a \o b)[j] = b[k])
         /\ \A i, j \in DOMAIN (a \o b) : Moved(a, x, i) < Moved(a, x, j) => i < j
         /\ \A j \in DOMAIN (a \o b) : \A k \in DOMAIN x : Len(a) + k < Moved(a, x, j) => j > Len(a)
<1> DEFINE w == a \o (x \o b)
           v == a \o b
           la == Len(a)
           lx == Len(x)
           lb == Len(b)
<1>1. /\ la \in Nat /\ lx \in Nat /\ lb \in Nat /\ DOMAIN v = 1 .. la + lb /\ DOMAIN w = 1 .. la + lx + lb
      /\ DOMAIN x = 1 .. lx /\ DOMAIN b = 1 .. lb
  <2>1. DOMAIN v = 1 .. Len(v) /\ DOMAIN w = 1 .. Len(w)
    BY Inserted
  <2> QED
    BY <2>1, Inserted
<1>2. /\ \A i \in 1 .. la : v[i] = a[i] /\ w[i] = a[i]
      /\ \A i \in 1 .. lx : w[la + i] = x[i]
      /\ \A i \in 1 .. lb : v[la + i] = b[i] /\ w[la + lx + i] = b[i]
  BY Inserted
<1>3. \A j : Moved(a, x, j) = IF j <= la THEN j ELSE j + lx
  BY DEF Moved
<1> HIDE DEF w, v, la, lx, lb
<1>4. ASSUME NEW j \in 1 .. la + lb PROVE Moved(a, x, j) \in 1 .. la + lx + lb /\ w[Moved(a, x, j)] = v[j]
  <2>1. CASE j <= la
    BY <1>1, <1>2, <1>3, <2>1
  <2>2. CASE ~(j <= la)
    <3>1. j - la \in 1 .. lb /\ la + (j - la) = j /\ la + lx + (j - la) = j + lx /\ j + lx \in 1 .. la + lx + lb
      BY <1>1, <2>2
    <3>2. v[la + (j - la)] = b[j - la] /\ w[la + lx + (j - la)] = b[j - la]
      BY <1>2, <3>1
    <3> QED
      BY <1>3, <2>2, <3>1, <3>2
  <2> QED
    BY <2>1, <2>2
<1>5. ASSUME NEW i \in 1 .. la + lx + lb
      PROVE  \/ \E k \in 1 .. lx : i = la + k /\ w[i] = x[k]
             \/ \E j \in 1 .. la + lb : i = Moved(a, x, j) /\ (j > la => \E k \in 1 .. lb : v[j] = b[k])
  <2>1. CASE i <= la
    BY <1>1, <1>3, <2>1
  <2>2. CASE i > la /\ i <= la + lx
    <3>1. i - la \in 1 .. lx /\ la + (i - la) = i
      BY <1>1, <2>2
    <3> QED
      BY <1>2, <3>1
  <2>3. CASE i > la + lx
    <3> DEFINE j == i - lx
               k == i - (la + lx)
    <3>1. j \in 1 .. la + lb /\ k \in 1 .. lb /\ la + k = j /\ ~(j <= la) /\ j + lx = i
      BY <1>1, <2>3
    <3> HIDE DEF j, k
    <3>2. v[j] = b[k]
      BY <1>2, <3>1
    <3>3. Moved(a, x, j) = i
      BY <1>3, <3>1
    <3> QED
      BY <3>1, <3>2, <3>3
  <2> QED
    BY <1>1, <2>1, <2>2, <2>3
<1>6. ASSUME NEW i \in 1 .. la + lb, NEW j \in 1 .. la + lb, Moved(a, x, i) < Moved(a, x, j) PROVE i < j
  BY <1>1, <1>3, <1>6
<1>7. ASSUME NEW j \in 1 .. la + lb, NEW k \in 1 .. lx, la + k < Moved(a, x, j) PROVE j > la
  BY <1>1, <1>3, <1>7
<1>8. \A j \in DOMAIN v : Moved(a, x, j) \in DOMAIN w /\ w[Moved(a, x, j)] = v[j]
  BY <1>1, <1>4
<1>9. \A i \in DOMAIN w : \/ \E k \in DOMAIN x : i = la + k /\ w[i] = x[k]
                         \/ \E j \in DOMAIN v : i = Moved(a, x, j) /\ (j > la => \E k \in DOMAIN b : v[j] = b[k])
  BY <1>1, <1>5
<1>10. \A i, j \in DOMAIN v : Moved(a, x, i) < Moved(a, x, j) => i < j
  BY <1>1, <1>6
<1>11. \A j \in DOMAIN v : \A k \in DOMAIN x : la + k < Moved(a, x, j) => j > la
  BY <1>1, <1>7
<1> QED
  BY <1>8, <1>9, <1>10, <1>11 DEF w, v, la

\* What is inserted is no input, or the newest, after all others of its kind.
LEMMA KeptInserting ==
  ASSUME NEW a \in Seq(Msg), NEW x \in Seq(Msg), NEW b \in Seq(Msg), NEW n \in Nat, NEW n1 \in {n, n + 1},
         Kept(a \o b, n),
         \/ n1 = n /\ \A k \in DOMAIN x : x[k].kind \notin InputKinds
         \/ /\ n1 = n + 1 /\ DOMAIN x = {1} /\ x[1].kind \in InputKinds /\ x[1].id = n + 1
            /\ \A k \in DOMAIN b : b[k].kind # x[1].kind
  PROVE  Kept(a \o (x \o b), n1)
<1> DEFINE w == a \o (x \o b)
           v == a \o b
           Fresh(i) == \E k \in DOMAIN x : i = Len(a) + k /\ w[i] = x[k]
           From(i, j) == i = Moved(a, x, j) /\ (j > Len(a) => \E k \in DOMAIN b : v[j] = b[k])
<1>1. /\ \A j \in DOMAIN v : Moved(a, x, j) \in DOMAIN w /\ w[Moved(a, x, j)] = v[j]
      /\ \A i \in DOMAIN w : Fresh(i) \/ \E j \in DOMAIN v : From(i, j)
      /\ \A i, j \in DOMAIN v : Moved(a, x, i) < Moved(a, x, j) => i < j
      /\ \A j \in DOMAIN v : \A k \in DOMAIN x : Len(a) + k < Moved(a, x, j) => j > Len(a)
  BY MovedApart
<1>2. /\ {v[i].id : i \in Accepted(v)} = 1 .. n
      /\ \A i, j \in Accepted(v) : /\ v[i].id = v[j].id => i = j
                                   /\ i < j /\ v[i].kind = v[j].kind => v[i].id < v[j].id
  BY DEF Kept
<1>ids. \A id \in 1 .. n : \E i \in Accepted(v) : v[i].id = id
  BY <1>2
<1>3. Len(a) \in Nat
  OBVIOUS
<1>4. Kept(w, n1) <=> /\ {w[i].id : i \in Accepted(w)} = 1 .. n1
                      /\ \A i, j \in Accepted(w) : /\ w[i].id = w[j].id => i = j
                                                   /\ i < j /\ w[i].kind = w[j].kind => w[i].id < w[j].id
  BY DEF Kept
<1>5. (\E i \in DOMAIN w : Fresh(i) /\ w[i].kind \in InputKinds) => n1 = n + 1
  OBVIOUS
<1>6. ASSUME NEW i \in Accepted(w)
      PROVE  \/ /\ Fresh(i) /\ n1 = n + 1 /\ i = Len(a) + 1 /\ w[i].id = n + 1
                /\ \A k \in DOMAIN b : b[k].kind # w[i].kind
             \/ \E j \in Accepted(v) : From(i, j) /\ w[i] = v[j] /\ v[j].id \in 1 .. n
  <2>1. CASE Fresh(i)
    BY <2>1 DEF Accepted
  <2>2. CASE \E j \in DOMAIN v : From(i, j)
    <3>1. PICK j \in DOMAIN v : From(i, j)
      BY <2>2
    <3>2. w[i] = v[j] /\ j \in Accepted(v)
      BY <1>1, <3>1 DEF Accepted
    <3> QED
      BY <1>2, <3>1, <3>2
  <2> QED
    BY <1>1, <2>1, <2>2 DEF Accepted
<1>7. ASSUME NEW j \in Accepted(v) PROVE \E i \in Accepted(w) : w[i].id = v[j].id
  BY <1>1 DEF Accepted
<1>8. n1 = n + 1 => \E i \in Accepted(w) : w[i].id = n + 1
  <2> SUFFICES ASSUME n1 = n + 1 PROVE \E i \in Accepted(w) : w[i].id = n + 1
    OBVIOUS
  <2>1. n + 1 # n
    OBVIOUS
  <2>2. 1 \in DOMAIN x /\ x[1].kind \in InputKinds /\ x[1].id = n + 1
    BY <2>1
  <2>3. /\ Len(a) + 1 \in DOMAIN w /\ w[Len(a) + 1] = x[1]
    <3>1. 1 \in 1 .. Len(x)
      BY <2>2
    <3>2. w[Len(a) + 1] = x[1] /\ w \in Seq(Msg) /\ Len(w) = Len(a) + Len(x) + Len(b) /\ Len(x) \in Nat /\ Len(b) \in Nat
      BY <3>1, Inserted
    <3>3. Len(a) + 1 \in 1 .. Len(w) /\ DOMAIN w = 1 .. Len(w)
      <4> HIDE DEF w
      <4> QED
        BY <1>3, <3>1, <3>2
    <3> QED
      BY <3>2, <3>3
  <2> QED
    BY <2>2, <2>3 DEF Accepted
<1> HIDE DEF w, v, Fresh, From
<1>9. {w[i].id : i \in Accepted(w)} = 1 .. n1
  <2>1. ASSUME NEW i \in Accepted(w) PROVE w[i].id \in 1 .. n1
    <3>1. w[i].id \in 1 .. n \/ (n1 = n + 1 /\ w[i].id = n + 1)
      BY <1>6
    <3> QED
      BY <3>1
  <2>2. ASSUME NEW id \in 1 .. n1 PROVE \E i \in Accepted(w) : w[i].id = id
    <3>1. CASE id \in 1 .. n
      <4>1. PICK j \in Accepted(v) : v[j].id = id
        BY <1>ids, <3>1
      <4> QED
        BY <1>7, <4>1
    <3>2. CASE id \notin 1 .. n
      <4>1. n1 = n + 1 /\ id = n + 1
        BY <3>2
      <4> QED
        BY <1>8, <4>1
    <3> QED
      BY <3>1, <3>2
  <2> QED
    BY <2>1, <2>2
<1>10. ASSUME NEW i \in Accepted(w), NEW j \in Accepted(w), w[i].id = w[j].id PROVE i = j
  <2>1. \A k \in 1 .. n : k # n + 1
    OBVIOUS
  <2>2. CASE w[i].id = n + 1
    <3>1. i = Len(a) + 1 /\ j = Len(a) + 1
      BY <1>6, <1>10, <2>1, <2>2
    <3> QED
      BY <3>1
  <2>3. CASE w[i].id # n + 1
    <3>1. PICK k \in Accepted(v) : From(i, k) /\ w[i] = v[k]
      BY <1>6, <2>3
    <3>2. PICK l \in Accepted(v) : From(j, l) /\ w[j] = v[l]
      BY <1>6, <1>10, <2>3
    <3>3. k = l
      BY <1>2, <1>10, <3>1, <3>2
    <3> QED
      BY <3>1, <3>2, <3>3 DEF From
  <2> QED
    BY <2>2, <2>3
<1>11. ASSUME NEW i \in Accepted(w), NEW j \in Accepted(w), i < j, w[i].kind = w[j].kind PROVE w[i].id < w[j].id
  <2>1. CASE \E l \in Accepted(v) : From(j, l) /\ w[j] = v[l]
    <3>1. PICK l \in Accepted(v) : From(j, l) /\ w[j] = v[l]
      BY <2>1
    <3>2. CASE \E k \in Accepted(v) : From(i, k) /\ w[i] = v[k]
      <4>1. PICK k \in Accepted(v) : From(i, k) /\ w[i] = v[k]
        BY <3>2
      <4>2. k < l
        BY <1>1, <1>11, <3>1, <4>1 DEF From, Accepted
      <4> QED
        BY <1>2, <1>11, <3>1, <4>1, <4>2
    <3>3. CASE Fresh(i) /\ i = Len(a) + 1 /\ \A k \in DOMAIN b : b[k].kind # w[i].kind
      <4>1. l > Len(a)
        BY <1>1, <1>11, <3>1, <3>3 DEF From, Fresh, Accepted
      <4>2. PICK k \in DOMAIN b : v[l] = b[k]
        BY <3>1, <4>1 DEF From
      <4> QED
        BY <1>11, <3>1, <3>3, <4>2
    <3> QED
      BY <1>6, <3>2, <3>3
  <2>2. CASE i # j /\ w[j].id = n + 1 /\ j = Len(a) + 1
    <3>1. w[i].id \in 1 .. n
      BY <1>6, <2>2
    <3> QED
      BY <2>2, <3>1
  <2>3. i # j
    <3>1. i \in Int /\ j \in Int
      <4>1. DOMAIN w \subseteq Int
        BY Inserted DEF w
      <4> QED
        BY <4>1 DEF Accepted
    <3> QED
      BY <1>11, <3>1
  <2> QED
    BY <1>6, <2>1, <2>2, <2>3
<1> QED
  BY <1>4, <1>9, <1>10, <1>11 DEF w

\* Besides Inject, the loop records no input.
LEMMA NoInputRecorded ==
  ASSUME LoopTypes, PendingPlaced, BatchInv, Next, ~Inject
  PROVE  \/ UNCHANGED Context
         \/ \E ms \in Seq(Msg) : Context' = Context \o ms /\ \A k \in DOMAIN ms : ms[k].kind \notin InputKinds
<1>1. /\ messages \in Seq(Msg) /\ newMsgs \in Seq(Msg) /\ streams \in Nat /\ Context \in Seq(Msg)
  BY ConcatProperties DEF LoopTypes, Context
<1>2. CASE Still
  BY <1>2 DEF Still, Context
<1>3. CASE Returns
  <2>1. Context \o <<>> = Context
    BY <1>1, ConcatEmptySeq
  <2> QED
    BY <1>3, <2>1 DEF Returns, Context
<1>4. ASSUME NEW kind \in Replies, NEW n \in Nat, Record(<<Reply(kind, n)>>), UNCHANGED messages
      PROVE  \E ms \in Seq(Msg) : Context' = Context \o ms /\ \A k \in DOMAIN ms : ms[k].kind \notin InputKinds
  <2> DEFINE m == Reply(kind, n)
  <2>1. m \in Msg /\ m.kind = kind /\ <<m>> \in Seq(Msg) /\ Len(<<m>>) = 1 /\ <<m>>[1] = m
    BY <1>1, ReplyTyped, OneTyped
  <2>2. Record(<<m>>)
    BY <1>4
  <2> HIDE DEF m
  <2>3. Context' = Context \o <<m>>
    BY <1>4, <2>1, <2>2, RecordAppends
  <2>4. kind \notin InputKinds
    BY DEF Replies, InputKinds
  <2>5. \A k \in DOMAIN <<m>> : <<m>>[k].kind \notin InputKinds
    BY <2>1, <2>4
  <2> QED
    BY <2>1, <2>3, <2>5
<1>5. ASSUME NEW n \in Nat, StreamDone(n) PROVE Record(<<Reply("asst", n)>>) /\ UNCHANGED messages /\ "asst" \in Replies
  BY <1>5 DEF StreamDone, agent, Replies
<1>6. ASSUME NEW kind \in {"failed", "blank"}, NEW n \in Nat, NEW why, BreakOff(kind, n, why)
      PROVE  Record(<<Reply(kind, n)>>) /\ UNCHANGED messages /\ kind \in Replies
  BY <1>6 DEF BreakOff, agent, Replies
<1>7. CASE RecordResults
  <2>1. PICK ms \in Seq(Msg) : /\ Record(ms)
                               /\ \A k \in 1 .. Len(ms) : ms[k] = [kind |-> "result", id |-> streams, n |-> k]
    BY <1>7, ResultsTyped
  <2>2. UNCHANGED messages
    BY <1>7 DEF RecordResults, agent
  <2>3. Context' = Context \o ms
    BY <2>1, <2>2, RecordAppends
  <2>4. ASSUME NEW k \in DOMAIN ms PROVE ms[k].kind \notin InputKinds
    <3>1. k \in 1 .. Len(ms)
      BY <2>4
    <3>2. ms[k] = [kind |-> "result", id |-> streams, n |-> k]
      BY <2>1, <3>1
    <3>3. ms[k].kind = "result"
      BY <3>2
    <3> QED
      BY <3>3 DEF InputKinds
  <2> QED
    BY <2>3, <2>4
<1> QED
  BY <1>2, <1>3, <1>4, <1>5, <1>6, <1>7, ContextMoves DEF Breaks

LEMMA MessagesStay ==
  ASSUME LoopTypes, PendingPlaced, QueueKinds, BatchInv, NothingLostOrTwice, Next
  PROVE  NothingLostOrTwice'
<1>1. /\ Context \in Seq(Msg) /\ pending \in Seq(Msg) /\ steering \in Seq(Msg) /\ followUp \in Seq(Msg)
      /\ inputs \in Nat
  BY ConcatProperties DEF LoopTypes, Context
<1>2. Kept(All, inputs)
  BY KeptMeansNothingLost
<1> SUFFICES Kept(All', inputs')
  BY KeptMeansNothingLost
<1>3. /\ All = ((Context \o pending) \o steering) \o followUp
      /\ All' = ((Context' \o pending') \o steering') \o followUp'
  BY DEF All
<1>4. CASE Inject
  <2> DEFINE t == Taken(steering, DrainOne)
             l == Left(steering, DrainOne)
  <2>1. t \in Seq(Msg) /\ l \in Seq(Msg) /\ t \o l = steering
    BY <1>1, TakenAndLeft, DrainAssumption
  <2>2. Record(pending \o t) /\ UNCHANGED <<messages, followUp, inputs>> /\ pending' = <<>> /\ steering' = l
    BY <1>4 DEF Inject, agent
  <2> HIDE DEF t, l
  <2>3. pending \o t \in Seq(Msg)
    BY <1>1, <2>1, ConcatProperties
  <2>4. Context' = Context \o (pending \o t) /\ Context' \in Seq(Msg)
    BY <2>2, <2>3, RecordAppends
  <2>9. Context \o (pending \o t) = (Context \o pending) \o t
    <3>1. Context \in Seq(Msg) /\ pending \in Seq(Msg) /\ t \in Seq(Msg)
      BY <1>1, <2>1
    <3> QED
      BY <3>1, Associate, Zenon
  <2>10. Context \o pending \in Seq(Msg)
    BY <1>1, ConcatProperties
  <2>5. Context' = (Context \o pending) \o t
    BY <2>4, <2>9
  <2>6. Context' \o pending' = (Context \o pending) \o t
    BY <2>2, <2>4, <2>5, ConcatEmptySeq
  <2>7. ((Context \o pending) \o t) \o l = (Context \o pending) \o steering
    <3>1. ((Context \o pending) \o t) \o l = (Context \o pending) \o (t \o l)
      BY <2>1, <2>10, Associate, Zenon
    <3> QED
      BY <2>1, <3>1
  <2>8. All' = All
    BY <1>3, <2>2, <2>6, <2>7
  <2> QED
    BY <1>2, <2>2, <2>8
<1>5. CASE ~Inject /\ Calm
  <2>1. UNCHANGED <<pending, steering, followUp, inputs>>
    BY <1>5 DEF Calm
  <2>2. CASE UNCHANGED Context
    BY <1>2, <1>3, <2>1, <2>2
  <2>3. ASSUME NEW ms \in Seq(Msg), Context' = Context \o ms, \A k \in DOMAIN ms : ms[k].kind \notin InputKinds
        PROVE  Kept(All', inputs')
    <3> DEFINE b == pending \o (steering \o followUp)
    <3>1. b \in Seq(Msg) /\ All = Context \o b
      <4>1. /\ b \in Seq(Msg)
            /\ ((Context \o pending) \o steering) \o followUp = Context \o b
        <5>1. Context \o pending \in Seq(Msg) /\ steering \o followUp \in Seq(Msg)
          BY <1>1, ConcatProperties
        <5>2. b \in Seq(Msg)
          BY <1>1, <5>1, ConcatProperties
        <5>3. ((Context \o pending) \o steering) \o followUp = (Context \o pending) \o (steering \o followUp)
          <6>1. Context \o pending \in Seq(Msg) /\ steering \in Seq(Msg) /\ followUp \in Seq(Msg)
            BY <1>1, <5>1
          <6> QED
            BY <6>1, Associate, Zenon
        <5>4. (Context \o pending) \o (steering \o followUp) = Context \o (pending \o (steering \o followUp))
          <6>1. Context \in Seq(Msg) /\ pending \in Seq(Msg) /\ steering \o followUp \in Seq(Msg)
            BY <1>1, <5>1
          <6> QED
            BY <6>1, Associate, Zenon
        <5> QED
          BY <5>2, <5>3, <5>4, Zenon
      <4> QED
        BY <1>3, <4>1
    <3>2. Context' \in Seq(Msg)
      BY <1>1, <2>3, ConcatProperties
    <3>3. All' = Context' \o b
      <4>1. ((Context' \o pending) \o steering) \o followUp = Context' \o b
        <5>1. Context' \o pending \in Seq(Msg) /\ steering \o followUp \in Seq(Msg)
          BY <1>1, <3>2, ConcatProperties
        <5>2. ((Context' \o pending) \o steering) \o followUp = (Context' \o pending) \o (steering \o followUp)
          <6>1. Context' \o pending \in Seq(Msg) /\ steering \in Seq(Msg) /\ followUp \in Seq(Msg)
            BY <1>1, <5>1
          <6> QED
            BY <6>1, Associate, Zenon
        <5>3. (Context' \o pending) \o (steering \o followUp) = Context' \o (pending \o (steering \o followUp))
          BY <1>1, <3>2, <5>1, Associate, ZenonT(40)
        <5> QED
          BY <5>2, <5>3, Zenon
      <4> QED
        BY <1>3, <2>1, <4>1
    <3> HIDE DEF b
    <3>4. All' = Context \o (ms \o b)
      <4>1. (Context \o ms) \o b = Context \o (ms \o b)
        BY <1>1, <3>1, ConcatAssociative, SMTT(30)
      <4> QED
        BY <2>3, <3>3, <4>1
    <3>5. Kept(Context \o b, inputs)
      BY <1>2, <3>1
    <3>6. inputs \in {inputs, inputs + 1}
      OBVIOUS
    <3>7. Kept(Context \o (ms \o b), inputs)
      BY <1>1, <2>3, <3>1, <3>5, <3>6, KeptInserting
    <3> QED
      BY <2>1, <3>4, <3>7
  <2> QED
    BY <1>5, <2>2, <2>3, NoInputRecorded
\* What a caller sends is the newest of its kind.
<1>6. ASSUME NEW kind \in InputKinds, NEW a \in Seq(Msg), NEW b \in Seq(Msg), All = a \o b,
             \A k \in DOMAIN b : b[k].kind # kind,
             All' = a \o (<<Input(kind, inputs + 1)>> \o b), inputs' = inputs + 1
      PROVE  Kept(All', inputs')
  <2> DEFINE m == Input(kind, inputs + 1)
  <2>1. /\ m \in Msg /\ m.kind = kind /\ m.id = inputs + 1
        /\ <<m>> \in Seq(Msg) /\ Len(<<m>>) = 1 /\ <<m>>[1] = m
    BY <1>1, InputTyped, OneTyped
  <2>2. All' = a \o (<<m>> \o b)
    BY <1>6
  <2> HIDE DEF m
  <2>3. DOMAIN <<m>> = {1}
    BY <2>1
  <2>4. Kept(a \o b, inputs) /\ inputs + 1 \in {inputs, inputs + 1}
    BY <1>2, <1>6
  <2>5. Kept(a \o (<<m>> \o b), inputs + 1)
    BY <1>1, <1>6, <2>1, <2>3, <2>4, KeptInserting
  <2> QED
    BY <1>6, <2>2, <2>5
<1>7. CASE Steer
  <2> DEFINE m == Input("steer", inputs + 1)
             a == (Context \o pending) \o steering
  <2>1. m \in Msg /\ <<m>> \in Seq(Msg) /\ "steer" \in InputKinds
    BY <1>1, InputTyped, OneTyped DEF InputKinds
  <2>2. /\ steering' = Append(steering, m) /\ inputs' = inputs + 1
        /\ UNCHANGED <<messages, newMsgs, pending, followUp>>
    BY <1>7 DEF Steer, agent
  <2> HIDE DEF m
  <2>3. steering' = steering \o <<m>> /\ steering' \in Seq(Msg)
    BY <1>1, <2>1, <2>2, AppendTyped
  <2>4. UNCHANGED Context
    BY <2>2 DEF Context
  <2>5. a \in Seq(Msg) /\ Context \o pending \in Seq(Msg)
    BY <1>1, ConcatProperties
  <2>6. (Context \o pending) \o (steering \o <<m>>) = a \o <<m>>
    BY <1>1, <2>1, <2>5, ConcatAssociative, SMTT(30)
  <2>7. All = a \o followUp /\ All' = (a \o <<m>>) \o followUp
    BY <1>3, <2>2, <2>3, <2>4, <2>6
  <2> HIDE DEF a
  <2>8. All' = a \o (<<m>> \o followUp)
    BY <1>1, <2>1, <2>5, <2>7, ConcatAssociative, SMTT(30)
  <2>9. \A k \in DOMAIN followUp : followUp[k].kind # "steer"
    BY DEF QueueKinds
  <2> QED
    BY <1>1, <1>6, <2>1, <2>2, <2>5, <2>7, <2>8, <2>9 DEF m
<1>8. CASE FollowUp
  <2> DEFINE m == Input("followUp", inputs + 1)
             a == (Context \o pending) \o steering
  <2>1. m \in Msg /\ <<m>> \in Seq(Msg) /\ "followUp" \in InputKinds
    BY <1>1, InputTyped, OneTyped DEF InputKinds
  <2>2. /\ followUp' = Append(followUp, m) /\ inputs' = inputs + 1
        /\ UNCHANGED <<messages, newMsgs, pending, steering>>
    BY <1>8 DEF FollowUp, agent
  <2> HIDE DEF m
  <2>3. followUp' = followUp \o <<m>>
    BY <1>1, <2>1, <2>2, AppendTyped
  <2>4. UNCHANGED Context
    BY <2>2 DEF Context
  <2>5. a \in Seq(Msg)
    <3>1. Context \o pending \in Seq(Msg)
      BY <1>1, ConcatProperties
    <3> QED
      BY <1>1, <3>1, ConcatProperties
  <2>6. All = a \o followUp /\ All' = a \o (followUp \o <<m>>)
    BY <1>3, <2>2, <2>3, <2>4
  <2> HIDE DEF a
  <2>7. All \in Seq(Msg) /\ All' = All \o <<m>>
    BY <1>1, <2>1, <2>5, <2>6, ConcatAssociative, ConcatProperties
  <2>8. All \o <<>> = All /\ <<m>> \o <<>> = <<m>>
    BY <2>1, <2>7, ConcatEmptySeq
  <2>9. <<>> \in Seq(Msg) /\ DOMAIN <<>> = {}
    BY EmptyTyped
  <2> QED
    BY <1>6, <2>1, <2>2, <2>7, <2>8, <2>9 DEF m
<1>9. CASE Prompt
  <2> DEFINE m == Input("prompt", inputs + 1)
             b == steering \o followUp
  <2>1. m \in Msg /\ <<m>> \in Seq(Msg) /\ "prompt" \in InputKinds
    BY <1>1, InputTyped, OneTyped DEF InputKinds
  <2>2. /\ pending' = <<m>> /\ inputs' = inputs + 1 /\ ~running
        /\ UNCHANGED <<messages, newMsgs, steering, followUp>>
    BY <1>9 DEF Prompt, Run, queues
  <2> HIDE DEF m
  <2>3. UNCHANGED Context /\ pending = <<>>
    BY <2>2 DEF Context, PendingPlaced
  <2>4. /\ b \in Seq(Msg) /\ DOMAIN b = 1 .. Len(steering) + Len(followUp)
        /\ \A i \in 1 .. Len(steering) + Len(followUp) : b[i] = IF i <= Len(steering) THEN steering[i] ELSE followUp[i - Len(steering)]
        /\ Len(steering) \in Nat /\ Len(followUp) \in Nat
    <3>1. /\ b \in Seq(Msg) /\ Len(b) = Len(steering) + Len(followUp)
          /\ \A i \in 1 .. Len(steering) + Len(followUp) : b[i] = IF i <= Len(steering) THEN steering[i] ELSE followUp[i - Len(steering)]
      BY <1>1, ConcatProperties
    <3> HIDE DEF b
    <3> QED
      BY <1>1, <3>1
  <2>5. All = (Context \o pending) \o b /\ All' = Context \o (<<m>> \o b)
    <3>1. ((Context \o pending) \o steering) \o followUp = (Context \o pending) \o b
      <4>1. Context \o pending \in Seq(Msg)
        BY <1>1, ConcatProperties
      <4> QED
        BY <1>1, <4>1, Associate, Zenon
    <3>2. ((Context \o <<m>>) \o steering) \o followUp = Context \o (<<m>> \o b)
      <4>1. Context \o <<m>> \in Seq(Msg)
        BY <1>1, <2>1, ConcatProperties
      <4>2. ((Context \o <<m>>) \o steering) \o followUp = (Context \o <<m>>) \o (steering \o followUp)
        BY <1>1, <4>1, Associate, Zenon
      <4>3. (Context \o <<m>>) \o (steering \o followUp) = Context \o (<<m>> \o (steering \o followUp))
        BY <1>1, <2>1, <2>4, Associate, ZenonT(40)
      <4> QED
        BY <4>2, <4>3, Zenon
    <3> QED
      BY <1>3, <2>2, <2>3, <3>1, <3>2
  <2> HIDE DEF b
  <2>6. All = Context \o b
    BY <1>1, <2>3, <2>5, ConcatEmptySeq
  <2>7. ASSUME NEW k \in DOMAIN b PROVE b[k].kind # "prompt"
    <3>1. CASE k <= Len(steering)
      <4>1. k \in DOMAIN steering /\ b[k] = steering[k]
        BY <1>1, <2>4, <3>1
      <4> QED
        BY <4>1 DEF QueueKinds
    <3>2. CASE ~(k <= Len(steering))
      <4>1. k - Len(steering) \in DOMAIN followUp /\ b[k] = followUp[k - Len(steering)]
        BY <1>1, <2>4, <3>2
      <4> QED
        BY <4>1 DEF QueueKinds
    <3> QED
      BY <3>1, <3>2
  <2> QED
    BY <1>1, <1>6, <2>1, <2>2, <2>4, <2>5, <2>6, <2>7 DEF m
<1>10. CASE Continue
  <2>1. pending = <<>> /\ pending' = <<>> /\ UNCHANGED <<messages, newMsgs, steering, followUp, inputs>>
    BY <1>10 DEF Continue, Run, queues, PendingPlaced
  <2> QED
    BY <1>2, <1>3, <2>1 DEF Context
<1>11. CASE PollFollowUps
  <2>1. /\ pending = <<>> /\ steering = <<>> /\ pending' = followUp /\ followUp' = <<>>
        /\ UNCHANGED <<messages, newMsgs, steering, inputs>>
    BY <1>11 DEF PollFollowUps, MoreToDo, Taken, Left, agent
  <2>2. UNCHANGED Context /\ Context \o <<>> = Context /\ Context \o followUp \in Seq(Msg)
    BY <1>1, <2>1, ConcatEmptySeq, ConcatProperties DEF Context
  <2>3. (Context \o followUp) \o <<>> = Context \o followUp
    BY <2>2, ConcatEmptySeq
  <2> QED
    BY <1>2, <1>3, <2>1, <2>2, <2>3
<1>12. CASE RunReturns
  <2>1. pending = <<>> /\ pending' = <<>> /\ UNCHANGED <<steering, followUp, inputs>>
    BY <1>12 DEF RunReturns, LoopGone, queues, PendingPlaced
  <2>2. Context' = Context \o <<>>
    BY <1>12 DEF RunReturns, LoopGone, Context
  <2>3. Context' = Context
    BY <1>1, <2>2, ConcatEmptySeq
  <2> QED
    BY <1>2, <1>3, <2>1, <2>3
<1> QED
  BY <1>4, <1>5, <1>7, <1>8, <1>9, <1>10, <1>11, <1>12, CalmSteps
----------------------------------------------------------------------------
LEMMA StreamsMove == ASSUME Next PROVE streams' \in {streams, streams + 1}
<1>1. CASE Callers
  BY <1>1 DEF Callers, Steer, FollowUp, Prompt, Continue, Abort, Run
<1>2. CASE Outside
  BY <1>2 DEF Outside, StreamDone, StreamFails, BreakOff
<1>3. CASE Loop
  BY <1>3 DEF Loop, Inject, PollFollowUps, StreamAborted, SleepEnds, SleepAborted, BreakOff, PrepareCall, InvokeCall,
              FinishCall, RecordResults, TurnEnd, RunReturns
<1> QED
  BY <1>1, <1>2, <1>3 DEF Next

----------------------------------------------------------------------------
(* The theorems                                                            *)

LEMMA LoopInvHolds == Spec => []LoopInv
<1>1. Init => LoopInv
  <2> SUFFICES ASSUME Init PROVE LoopInv
    OBVIOUS
  <2>1. <<>> \in Seq(Msg) /\ DOMAIN <<>> = {} /\ <<>> \o <<>> = <<>>
    BY EmptyTyped, ConcatEmptySeq
  <2>2. Context = <<>> /\ All = <<>>
    BY <2>1 DEF Init, Context, All
  <2>3. LoopTypes
    BY <2>1 DEF Init, LoopTypes
  <2>4. PendingPlaced /\ QueueKinds
    BY <2>1 DEF Init, PendingPlaced, QueueKinds
  <2>5. BatchInv /\ AnswerInv
    BY DEF Init, BatchInv, AnswerInv
  <2>6. NothingLostOrTwice
    <3>1. Accepted(<<>>) = {}
      BY <2>1 DEF Accepted
    <3>2. inputs = 0 /\ 1 .. 0 = {}
      BY DEF Init
    <3>3. Kept(<<>>, inputs)
      BY <3>1, <3>2 DEF Kept
    <3> QED
      BY <2>2, <3>3, KeptMeansNothingLost
  <2>7. ResultsPaired
    BY <2>1, <2>2 DEF ResultsPaired
  <2>8. MirrorAgrees
    BY <2>2 DEF Init, MirrorAgrees
  <2> QED
    BY <2>3, <2>4, <2>5, <2>6, <2>7, <2>8 DEF LoopInv
<1>2. LoopInv /\ Next => LoopInv'
  <2> SUFFICES ASSUME LoopInv, Next PROVE LoopInv'
    OBVIOUS
  <2>1. /\ LoopTypes /\ PendingPlaced /\ QueueKinds /\ BatchInv /\ AnswerInv
        /\ NothingLostOrTwice /\ ResultsPaired /\ MirrorAgrees
    BY DEF LoopInv
  <2>2. QueueInv
    BY <2>1 DEF QueueInv, LoopTypes
  <2>3. QueueInv'
    BY <2>2, QueuesKept
  <2>4. MirrorAgrees' /\ {messages', newMsgs', handed'} \subseteq Seq(Msg)
    BY <2>1, MirrorKept
  <2>5. streams' \in Nat
    <3>1. streams' \in {streams, streams + 1}
      BY StreamsMove
    <3> QED
      BY <2>1, <3>1 DEF LoopTypes
  <2>6. LoopTypes' /\ PendingPlaced' /\ QueueKinds'
    BY <2>3, <2>4, <2>5 DEF QueueInv, LoopTypes
  <2>7. BatchInv' /\ ResultsPaired'
    BY <2>1, BatchKept
  <2>8. AnswerInv'
    BY <2>1, AnswersKept
  <2>9. NothingLostOrTwice'
    BY <2>1, MessagesStay
  <2> QED
    BY <2>4, <2>6, <2>7, <2>8, <2>9 DEF LoopInv
<1>3. LoopInv /\ UNCHANGED vars => LoopInv'
  <2> SUFFICES ASSUME LoopInv, UNCHANGED vars PROVE LoopInv'
    OBVIOUS
  <2>1. UNCHANGED <<running, messages, steering, followUp, pc, newMsgs, pending, hadCalls, calls, results, reason, handed, inputs, streams>>
    BY DEF vars, agent, queues, batch
  <2>2. UNCHANGED Context
    BY <2>1 DEF Context
  <2>3. LoopTypes' /\ PendingPlaced' /\ QueueKinds'
    BY <2>1 DEF LoopInv, LoopTypes, PendingPlaced, QueueKinds
  <2>4. BatchInv' /\ AnswerInv'
    BY <2>1, <2>2 DEF LoopInv, BatchInv, AnswerInv, Answered
  <2>5. NothingLostOrTwice' /\ ResultsPaired' /\ MirrorAgrees'
    <3>1. Kept(All, inputs) /\ All' = All
      BY <2>1, <2>2, KeptMeansNothingLost DEF LoopInv, All
    <3>2. NothingLostOrTwice'
      BY <2>1, <3>1, KeptMeansNothingLost
    <3>3. ResultsPaired'
      BY <2>1, <2>2 DEF LoopInv, ResultsPaired
    <3>4. MirrorAgrees'
      BY <2>1, <2>2 DEF LoopInv, MirrorAgrees
    <3> QED
      BY <3>2, <3>3, <3>4
  <2> QED
    BY <2>3, <2>4, <2>5 DEF LoopInv
<1> QED
  BY <1>1, <1>2, <1>3, PTL DEF Spec

\* A message the agent accepted is in exactly one place - a queue, the
\* messages about to be injected, the conversation - and those sent the same
\* way keep their order (Agent.run, runLoop, boundedQueue).
THEOREM MessagesKept == Spec => []NothingLostOrTwice
<1>1. LoopInv => NothingLostOrTwice
  BY DEF LoopInv
<1> QED
  BY <1>1, LoopInvHolds, PTL

\* A reply's calls are followed by one result each, in source order,
\* whichever order the tools ended in (executeToolCalls).
THEOREM ResultsFollowCalls == Spec => []ResultsPaired
<1>1. LoopInv => ResultsPaired
  BY DEF LoopInv
<1> QED
  BY <1>1, LoopInvHolds, PTL

\* The session and the compaction controller have been given, through
\* OnMessage, the conversation the agent goes on with, at every step.
THEOREM MirrorNeverLags == Spec => []MirrorAgrees
<1>1. LoopInv => MirrorAgrees
  BY DEF LoopInv
<1> QED
  BY <1>1, LoopInvHolds, PTL

\* A run that ends by itself ends with a reply that asks for nothing (runLoop).
THEOREM DoneRunsAnswered == Spec => []DoneMeansAnswered
<1>1. LoopInv => DoneMeansAnswered
  <2> SUFFICES ASSUME LoopInv, pc = "ended", reason = "done" PROVE newMsgs # <<>> /\ Last(newMsgs).kind = "asst" /\ Last(newMsgs).n = 0
    BY DEF DoneMeansAnswered
  <2>1. Answered
    BY DEF LoopInv, AnswerInv
  <2> QED
    BY <2>1 DEF Answered, Last
<1> QED
  BY <1>1, LoopInvHolds, PTL

----------------------------------------------------------------------------
(* Sequences put one behind the other                                      *)

\* What holds at 0 and goes from each number to the next holds up to n.
LEMMA UpTo ==
  ASSUME NEW n \in Nat, NEW S, 0 \in S, \A i \in 0 .. n : i \in S /\ i < n => i + 1 \in S
  PROVE  \A i \in 0 .. n : i \in S
<1> DEFINE T == {0 .. i : i \in (0 .. n) \ S}
           R == StrictSubsetOrdering(0 .. n)
<1>1. CASE T = {}
  BY <1>1
<1>2. CASE T # {}
  <2>1. IsWellFoundedOn(R, SUBSET (0 .. n))
    <3>1. IsFiniteSet(0 .. n)
      BY FS_Interval
    <3> QED BY <3>1, FS_StrictSubsetOrderingWellFounded, FS_FiniteSubsetsOfFinite
  <2>2. \A i \in 0 .. n : 0 .. i \in SUBSET (0 .. n)
    OBVIOUS
  <2>3. PICK t \in T : \A u \in T : ~(<<u, t>> \in R)
    <3>1. T \subseteq SUBSET (0 .. n)
      BY <2>2
    <3> HIDE DEF T, R
    <3> QED BY <1>2, <2>1, <3>1, WFMin
  <2>4. PICK i \in (0 .. n) \ S : t = 0 .. i
    OBVIOUS
  <2>5. i # 0 /\ i - 1 \in 0 .. n /\ i - 1 < n /\ (i - 1) + 1 = i
    OBVIOUS
  <2>6. i - 1 \notin S
    BY <2>5
  <2>7. 0 .. (i - 1) \in T
    BY <2>5, <2>6
  <2>8. 0 .. (i - 1) \subseteq 0 .. i /\ i \in 0 .. i /\ i \notin 0 .. (i - 1)
    BY <2>5
  <2>9. <<0 .. (i - 1), t>> \in R
    BY <2>2, <2>4, <2>5, <2>8 DEF StrictSubsetOrdering
  <2> QED BY <2>3, <2>7, <2>9
<1> QED BY <1>1, <1>2

\* FlattenSeq as far as its n-th part.
IsFlat(ss, n, f) == f = [i \in 1 .. n |-> IF i = 1 THEN ss[i] ELSE f[i - 1] \o ss[i]]
FlatTo(ss, n) == IF n = 0 THEN <<>> ELSE (CHOOSE f : IsFlat(ss, Len(ss), f))[n]

LEMMA FlatExists ==
  ASSUME NEW ss, NEW n \in Nat
  PROVE  \E f : IsFlat(ss, n, f)
<1> DEFINE S == {m \in 0 .. n : \E f : IsFlat(ss, m, f)}
<1>1. 0 \in S
  <2> DEFINE f == [i \in 1 .. 0 |-> ss[i]]
  <2>1. IsFlat(ss, 0, f)
    BY DEF IsFlat
  <2> QED BY <2>1
<1>2. ASSUME NEW m \in 0 .. n, m \in S, m < n PROVE m + 1 \in S
  <2>1. PICK f : IsFlat(ss, m, f)
    BY <1>2
  <2> DEFINE part(prev, i) == IF i = 1 THEN ss[i] ELSE prev \o ss[i]
             g == [i \in 1 .. (m + 1) |-> IF i = m + 1 THEN part(f[m], i) ELSE f[i]]
             h == [i \in 1 .. (m + 1) |-> IF i = 1 THEN ss[i] ELSE g[i - 1] \o ss[i]]
  <2>2. m \in Nat
    OBVIOUS
  <2>3. \A i \in 1 .. m : f[i] = IF i = 1 THEN ss[i] ELSE f[i - 1] \o ss[i]
    BY <2>1 DEF IsFlat
  <2>4. ASSUME NEW i \in 1 .. (m + 1) PROVE g[i] = h[i]
    <3>1. CASE i = 1
      BY <2>2, <2>3, <3>1
    <3>2. CASE i \in 2 .. m
      <4>1. g[i] = f[i] /\ g[i - 1] = f[i - 1]
        BY <2>2, <3>2
      <4> QED BY <2>2, <2>3, <3>2, <4>1
    <3>3. CASE i = m + 1 /\ i # 1
      <4>0. i - 1 = m /\ m \in 1 .. (m + 1) /\ m # m + 1
        BY <2>2, <3>3
      <4>1. g[i] = f[m] \o ss[i]
        BY <3>3
      <4>2. g[i - 1] = f[m]
        BY <4>0
      <4> QED BY <3>3, <4>1, <4>2
    <3> QED BY <2>2, <3>1, <3>2, <3>3
  <2>5. g = h
    BY <2>4
  <2>6. IsFlat(ss, m + 1, g)
    BY <2>5 DEF IsFlat
  <2>7. m + 1 \in 0 .. n
    BY <1>2, <2>2
  <2> QED BY <2>6, <2>7
<1>3. n \in S
  <2> HIDE DEF S
  <2> QED BY <1>1, <1>2, UpTo
<1> QED BY <1>3

\* Each part is put behind those before it.
LEMMA FlatSteps ==
  ASSUME NEW S, NEW ss \in Seq(Seq(S))
  PROVE  /\ Len(ss) \in Nat
         /\ FlattenSeq(ss) = FlatTo(ss, Len(ss))
         /\ FlatTo(ss, 0) = <<>>
         /\ \A n \in 1 .. Len(ss) : ss[n] \in Seq(S) /\ FlatTo(ss, n) = FlatTo(ss, n - 1) \o ss[n]
         /\ \A n \in 0 .. Len(ss) : FlatTo(ss, n) \in Seq(S)
<1> DEFINE N == Len(ss)
           f == CHOOSE g : IsFlat(ss, Len(ss), g)
           P == {n \in 0 .. N : FlatTo(ss, n) \in Seq(S)}
<1>1. N \in Nat /\ \A n \in 1 .. N : ss[n] \in Seq(S)
  BY LenProperties, ElementOfSeq
<1>2. IsFlat(ss, N, f)
  <2>1. \E g : IsFlat(ss, N, g)
    BY <1>1, FlatExists
  <2> QED BY <2>1
<1>3. FlattenSeq(ss) = IF N = 0 THEN ss ELSE f[N]
  BY DEF FlattenSeq, IsFlat
<1>4. FlatTo(ss, 0) = <<>> /\ \A n \in 1 .. N : FlatTo(ss, n) = f[n]
  BY <1>1 DEF FlatTo
<1> HIDE DEF f, N
<1>5. \A n \in 1 .. N : f[n] = IF n = 1 THEN ss[n] ELSE f[n - 1] \o ss[n]
  BY <1>2 DEF IsFlat
<1>6. FlattenSeq(ss) = FlatTo(ss, N)
  <2>1. CASE N = 0
    BY <1>3, <1>4, <2>1, EmptySeq DEF N
  <2>2. CASE N # 0
    BY <1>1, <1>3, <1>4, <2>2
  <2> QED BY <2>1, <2>2
<1>7. ASSUME NEW n \in 1 .. N PROVE FlatTo(ss, n) = FlatTo(ss, n - 1) \o ss[n]
  <2>1. CASE n = 1
    <3>1. FlatTo(ss, n) = ss[n] /\ ss[n] \in Seq(S) /\ FlatTo(ss, n - 1) = <<>>
      BY <1>1, <1>4, <1>5, <2>1
    <3> QED BY <3>1, ConcatEmptySeq
  <2>2. CASE n # 1
    <3>1. n - 1 \in 1 .. N
      BY <1>1, <2>2
    <3> QED BY <1>4, <1>5, <2>2, <3>1
  <2> QED BY <2>1, <2>2
<1>8. 0 \in P
  <2>1. 0 \in 0 .. N
    BY <1>1
  <2>2. FlatTo(ss, 0) \in Seq(S)
    BY <1>4, EmptySeq
  <2> QED BY <2>1, <2>2
<1>9. ASSUME NEW n \in 0 .. N, n \in P, n < N PROVE n + 1 \in P
  <2>1. n + 1 \in 1 .. N /\ n + 1 \in 0 .. N /\ (n + 1) - 1 = n
    BY <1>1, <1>9
  <2>2. FlatTo(ss, n) \in Seq(S) /\ ss[n + 1] \in Seq(S)
    BY <1>1, <1>9, <2>1
  <2>3. FlatTo(ss, n + 1) = FlatTo(ss, n) \o ss[n + 1]
    BY <1>7, <2>1
  <2> QED BY <2>1, <2>2, <2>3, ConcatProperties
<1>10. \A n \in 0 .. N : n \in P
  <2> HIDE DEF P
  <2> QED BY <1>1, <1>8, <1>9, UpTo
<1>11. \A n \in 0 .. N : FlatTo(ss, n) \in Seq(S)
  BY <1>10
<1>12. \A n \in 1 .. N : ss[n] \in Seq(S) /\ FlatTo(ss, n) = FlatTo(ss, n - 1) \o ss[n]
  BY <1>1, <1>7
<1> QED BY <1>1, <1>4, <1>6, <1>11, <1>12 DEF N

\* What is put behind moves nothing.
LEMMA FlatStays ==
  ASSUME NEW S, NEW ss \in Seq(Seq(S)), NEW n \in 0 .. Len(ss)
  PROVE  /\ Len(FlatTo(ss, n)) \in Nat /\ Len(FlatTo(ss, n)) <= Len(FlattenSeq(ss))
         /\ \A k \in 1 .. Len(FlatTo(ss, n)) : FlattenSeq(ss)[k] = FlatTo(ss, n)[k]
<1> DEFINE N == Len(ss)
           w == FlatTo(ss, n)
           Same(v) == Len(w) <= Len(v) /\ \A k \in 1 .. Len(w) : v[k] = w[k]
           P == {i \in 0 .. (N - n) : Same(FlatTo(ss, n + i))}
<1>1. /\ N \in Nat
      /\ FlattenSeq(ss) = FlatTo(ss, N)
      /\ \A i \in 1 .. N : ss[i] \in Seq(S) /\ FlatTo(ss, i) = FlatTo(ss, i - 1) \o ss[i]
      /\ \A i \in 0 .. N : FlatTo(ss, i) \in Seq(S)
  BY FlatSteps
<1>2. w \in Seq(S) /\ Len(w) \in Nat
  BY <1>1, LenProperties
<1>3. 0 \in P
  <2>1. n + 0 = n /\ 0 \in 0 .. (N - n)
    BY <1>1
  <2>2. Same(w)
    BY <1>2
  <2> HIDE DEF Same
  <2> QED BY <2>1, <2>2
<1>4. ASSUME NEW i \in 0 .. (N - n), i \in P, i < N - n PROVE i + 1 \in P
  <2> DEFINE v == FlatTo(ss, n + i)
             x == ss[n + (i + 1)]
  <2>1. n + i \in 0 .. N /\ n + (i + 1) \in 1 .. N /\ (n + (i + 1)) - 1 = n + i /\ i + 1 \in 0 .. (N - n)
    BY <1>1, <1>4
  <2>2. v \in Seq(S) /\ x \in Seq(S) /\ FlatTo(ss, n + (i + 1)) = v \o x
    BY <1>1, <2>1
  <2>3. Same(v)
    BY <1>4
  <2> HIDE DEF v, x, w
  <2>4. /\ Len(v) \in Nat /\ Len(x) \in Nat /\ Len(v \o x) = Len(v) + Len(x)
        /\ \A k \in 1 .. Len(v) : (v \o x)[k] = v[k]
    BY <2>2, ConcatProperties, LenProperties
  <2>5. Same(v \o x)
    <3>1. Len(w) <= Len(v \o x)
      BY <1>2, <2>3, <2>4
    <3>2. \A k \in 1 .. Len(w) : k \in 1 .. Len(v) /\ v[k] = w[k]
      BY <1>2, <2>3, <2>4
    <3> QED BY <2>4, <3>1, <3>2
  <2> HIDE DEF Same
  <2> QED BY <2>1, <2>2, <2>5
<1>5. N - n \in P
  <2>1. N - n \in Nat
    BY <1>1
  <2> HIDE DEF P
  <2>2. \A i \in 0 .. (N - n) : i \in P
    BY <1>3, <1>4, <2>1, UpTo
  <2> QED BY <2>1, <2>2
<1>6. Same(FlatTo(ss, n + (N - n))) /\ n + (N - n) = N
  <2> HIDE DEF Same
  <2> QED BY <1>1, <1>5
<1> QED BY <1>1, <1>2, <1>6

\* The elements of the whole are those of the parts, at their places.
LEMMA FlatParts ==
  ASSUME NEW S, NEW ss \in Seq(Seq(S))
  PROVE  /\ FlattenSeq(ss) \in Seq(S)
         /\ \A n \in 1 .. Len(ss), j \in Nat :
              j \in 1 .. Len(ss[n]) =>
                /\ Len(FlatTo(ss, n - 1)) + j \in 1 .. Len(FlattenSeq(ss))
                /\ FlattenSeq(ss)[Len(FlatTo(ss, n - 1)) + j] = ss[n][j]
         /\ \A k \in 1 .. Len(FlattenSeq(ss)) :
              \E n \in 1 .. Len(ss), j \in Nat :
                 j \in 1 .. Len(ss[n]) /\ k = Len(FlatTo(ss, n - 1)) + j
<1> DEFINE N == Len(ss)
           Found(k) == \E n \in 1 .. N, j \in Nat : j \in 1 .. Len(ss[n]) /\ k = Len(FlatTo(ss, n - 1)) + j
           P == {n \in 0 .. N : \A k \in 1 .. Len(FlatTo(ss, n)) : Found(k)}
<1>1. /\ N \in Nat
      /\ FlattenSeq(ss) = FlatTo(ss, N)
      /\ FlatTo(ss, 0) = <<>>
      /\ \A i \in 1 .. N : ss[i] \in Seq(S) /\ FlatTo(ss, i) = FlatTo(ss, i - 1) \o ss[i]
      /\ \A i \in 0 .. N : FlatTo(ss, i) \in Seq(S)
  BY FlatSteps
<1>2. FlattenSeq(ss) \in Seq(S)
  BY <1>1
<1>3. ASSUME NEW n \in 1 .. N
      PROVE  /\ n - 1 \in 0 .. N /\ n \in 0 .. N
             /\ Len(FlatTo(ss, n - 1)) \in Nat /\ Len(ss[n]) \in Nat
             /\ Len(FlatTo(ss, n)) = Len(FlatTo(ss, n - 1)) + Len(ss[n])
             /\ \A j \in 1 .. Len(ss[n]) : FlatTo(ss, n)[Len(FlatTo(ss, n - 1)) + j] = ss[n][j]
  <2> DEFINE v == FlatTo(ss, n - 1)
             x == ss[n]
  <2>1. n - 1 \in 0 .. N /\ n \in 0 .. N
    BY <1>1
  <2>2. v \in Seq(S) /\ x \in Seq(S) /\ FlatTo(ss, n) = v \o x
    BY <1>1, <2>1
  <2> HIDE DEF v, x
  <2>3. /\ Len(v) \in Nat /\ Len(x) \in Nat /\ Len(v \o x) = Len(v) + Len(x)
        /\ \A i \in 1 .. Len(v) + Len(x) : (v \o x)[i] = IF i <= Len(v) THEN v[i] ELSE x[i - Len(v)]
    BY <2>2, ConcatProperties, LenProperties
  <2>4. ASSUME NEW j \in 1 .. Len(x) PROVE (v \o x)[Len(v) + j] = x[j]
    <3>1. Len(v) + j \in 1 .. Len(v) + Len(x) /\ ~(Len(v) + j <= Len(v)) /\ (Len(v) + j) - Len(v) = j
      BY <2>3
    <3> QED BY <2>3, <3>1
  <2>5. \A j \in 1 .. Len(x) : (v \o x)[Len(v) + j] = x[j]
    BY <2>4
  <2> QED BY <2>1, <2>2, <2>3, <2>5 DEF v, x
<1>4. ASSUME NEW n \in 1 .. N, NEW j \in Nat, j \in 1 .. Len(ss[n])
      PROVE  /\ Len(FlatTo(ss, n - 1)) + j \in 1 .. Len(FlattenSeq(ss))
             /\ FlattenSeq(ss)[Len(FlatTo(ss, n - 1)) + j] = ss[n][j]
  <2>1. /\ Len(FlatTo(ss, n)) <= Len(FlattenSeq(ss))
        /\ \A k \in 1 .. Len(FlatTo(ss, n)) : FlattenSeq(ss)[k] = FlatTo(ss, n)[k]
    BY <1>3, FlatStays
  <2>2. Len(FlattenSeq(ss)) \in Nat
    BY <1>2, LenProperties
  <2>3. Len(FlatTo(ss, n - 1)) + j \in 1 .. Len(FlatTo(ss, n))
    <3>1. /\ Len(FlatTo(ss, n - 1)) \in Nat /\ Len(ss[n]) \in Nat
          /\ Len(FlatTo(ss, n)) = Len(FlatTo(ss, n - 1)) + Len(ss[n])
      BY <1>3
    <3> QED BY <1>4, <3>1
  <2>4. Len(FlatTo(ss, n - 1)) + j \in 1 .. Len(FlattenSeq(ss))
    BY <1>3, <2>1, <2>2, <2>3
  <2>5. FlatTo(ss, n)[Len(FlatTo(ss, n - 1)) + j] = ss[n][j]
    BY <1>3, <1>4
  <2> QED BY <2>1, <2>3, <2>4, <2>5
<1>5. 0 \in P
  <2>1. 0 \in 0 .. N /\ 1 .. Len(FlatTo(ss, 0)) = {}
    BY <1>1
  <2> HIDE DEF Found
  <2> QED BY <2>1
<1>6. ASSUME NEW n \in 0 .. N, n \in P, n < N PROVE n + 1 \in P
  <2>1. n + 1 \in 1 .. N /\ n + 1 \in 0 .. N /\ (n + 1) - 1 = n
    BY <1>1, <1>6
  <2>2. /\ Len(FlatTo(ss, n)) \in Nat /\ Len(ss[n + 1]) \in Nat
        /\ Len(FlatTo(ss, n + 1)) = Len(FlatTo(ss, n)) + Len(ss[n + 1])
    BY <1>3, <2>1
  <2>3. ASSUME NEW k \in 1 .. Len(FlatTo(ss, n + 1)) PROVE Found(k)
    <3>1. CASE k <= Len(FlatTo(ss, n))
      <4>1. k \in 1 .. Len(FlatTo(ss, n))
        BY <2>2, <3>1
      <4> QED BY <1>6, <4>1
    <3>2. CASE ~(k <= Len(FlatTo(ss, n)))
      <4> DEFINE j == k - Len(FlatTo(ss, n))
      <4>1. j \in Nat /\ j \in 1 .. Len(ss[n + 1]) /\ k = Len(FlatTo(ss, n)) + j
        BY <2>2, <3>2
      <4> HIDE DEF j
      <4> QED BY <2>1, <4>1
    <3> QED BY <3>1, <3>2
  <2> HIDE DEF Found
  <2> QED BY <2>1, <2>3
<1>7. \A k \in 1 .. Len(FlattenSeq(ss)) : Found(k)
  <2> HIDE DEF P
  <2>1. \A n \in 0 .. N : n \in P
    BY <1>1, <1>5, <1>6, UpTo
  <2>2. N \in P
    BY <1>1, <2>1
  <2> HIDE DEF Found
  <2> QED BY <1>1, <2>2 DEF P
<1> QED BY <1>2, <1>4, <1>7

----------------------------------------------------------------------------
(* The conversation without its blanks                                     *)

\* Every result is one of those that a reply asked for.
Answering(c) ==
  \A j \in 1 .. Len(c) : c[j].kind = "result" =>
     \E i \in 1 .. (j - 1) : c[i].kind = "asst" /\ j <= i + c[i].n

Parts(c) == [i \in DOMAIN c |-> IF c[i].kind = "blank" THEN <<>> ELSE <<c[i]>>]
Before(c, i) == Len(FlatTo(Parts(c), i))

\* A message that is not blank has one place more than those before it, and
\* every place is that of one.
LEMMA LLMPlaces ==
  ASSUME NEW c \in Seq(Msg)
  PROVE  /\ ToLLM(c) \in Seq(Msg)
         /\ \A i \in 1 .. Len(c) : c[i].kind # "blank" =>
              /\ Before(c, i) \in 1 .. Len(ToLLM(c)) /\ ToLLM(c)[Before(c, i)] = c[i]
              /\ Before(c, i) = Before(c, i - 1) + 1
         /\ \A k \in 1 .. Len(ToLLM(c)) : \E i \in 1 .. Len(c) : c[i].kind # "blank" /\ k = Before(c, i)
<1> DEFINE ss == Parts(c)
           N == Len(c)
<1>1. /\ N \in Nat /\ DOMAIN c = 1 .. N /\ \A i \in 1 .. N : c[i] \in Msg
  BY LenProperties, ElementOfSeq
<1>2. \A i \in 1 .. N : ss[i] = IF c[i].kind = "blank" THEN <<>> ELSE <<c[i]>>
  BY <1>1 DEF Parts
<1>3. \A i \in 1 .. N : ss[i] \in Seq(Msg)
  BY <1>1, <1>2, EmptyTyped, OneTyped
<1>4. ss \in Seq(Seq(Msg)) /\ Len(ss) = N
  <2>1. ss = [i \in 1 .. N |-> ss[i]]
    BY <1>1 DEF Parts
  <2> HIDE DEF ss
  <2> QED BY <1>1, <1>3, <2>1
<1>5. ToLLM(c) = FlattenSeq(ss)
  BY DEF ToLLM, Parts
<1>6. \A i \in 1 .. N : IF c[i].kind = "blank" THEN Len(ss[i]) = 0 ELSE Len(ss[i]) = 1 /\ ss[i][1] = c[i]
  <2> SUFFICES ASSUME NEW i \in 1 .. N
               PROVE  IF c[i].kind = "blank" THEN Len(ss[i]) = 0 ELSE Len(ss[i]) = 1 /\ ss[i][1] = c[i]
    OBVIOUS
  <2>1. CASE c[i].kind = "blank"
    <3>1. ss[i] = <<>>
      BY <1>2, <2>1
    <3> HIDE DEF ss
    <3> QED BY <2>1, <3>1, EmptyTyped
  <2>2. CASE c[i].kind # "blank"
    <3>1. ss[i] = <<c[i]>> /\ c[i] \in Msg
      BY <1>1, <1>2, <2>2
    <3> HIDE DEF ss
    <3> QED BY <2>2, <3>1, OneTyped
  <2> QED BY <2>1, <2>2
<1> HIDE DEF ss, N
<1>7. /\ \A i \in 1 .. N : ss[i] \in Seq(Msg) /\ FlatTo(ss, i) = FlatTo(ss, i - 1) \o ss[i]
      /\ \A i \in 0 .. N : FlatTo(ss, i) \in Seq(Msg)
  BY <1>4, FlatSteps
<1>8. /\ FlattenSeq(ss) \in Seq(Msg)
      /\ \A n \in 1 .. N, j \in Nat :
              j \in 1 .. Len(ss[n]) =>
                /\ Len(FlatTo(ss, n - 1)) + j \in 1 .. Len(FlattenSeq(ss))
                /\ FlattenSeq(ss)[Len(FlatTo(ss, n - 1)) + j] = ss[n][j]
      /\ \A k \in 1 .. Len(FlattenSeq(ss)) :
              \E n \in 1 .. N, j \in Nat :
                 j \in 1 .. Len(ss[n]) /\ k = Len(FlatTo(ss, n - 1)) + j
  BY <1>4, FlatParts
<1>9. ASSUME NEW i \in 1 .. N, c[i].kind # "blank"
      PROVE  /\ Before(c, i) \in 1 .. Len(ToLLM(c)) /\ ToLLM(c)[Before(c, i)] = c[i]
             /\ Before(c, i) = Before(c, i - 1) + 1
  <2>1. Len(ss[i]) = 1 /\ ss[i][1] = c[i] /\ 1 \in 1 .. Len(ss[i]) /\ 1 \in Nat
    BY <1>6, <1>9
  <2>2. /\ Len(FlatTo(ss, i - 1)) + 1 \in 1 .. Len(FlattenSeq(ss))
        /\ FlattenSeq(ss)[Len(FlatTo(ss, i - 1)) + 1] = c[i]
    BY <1>8, <2>1
  <2>3. Len(FlatTo(ss, i)) = Len(FlatTo(ss, i - 1)) + 1
    <3>1. i - 1 \in 0 .. N /\ i \in 1 .. N
      BY <1>1
    <3>2. FlatTo(ss, i - 1) \in Seq(Msg) /\ ss[i] \in Seq(Msg) /\ FlatTo(ss, i) = FlatTo(ss, i - 1) \o ss[i]
      BY <1>7, <3>1
    <3> DEFINE v == FlatTo(ss, i - 1)
               x == ss[i]
    <3> HIDE DEF v, x
    <3>3. v \in Seq(Msg) /\ x \in Seq(Msg) /\ FlatTo(ss, i) = v \o x /\ Len(x) = 1
      BY <2>1, <3>2 DEF v, x
    <3>4. Len(v \o x) = Len(v) + Len(x)
      BY <3>3, ConcatProperties
    <3> QED BY <3>3, <3>4 DEF v
  <2> QED BY <1>5, <2>2, <2>3 DEF Before, ss
<1>10. ASSUME NEW k \in 1 .. Len(ToLLM(c)) PROVE \E i \in 1 .. N : c[i].kind # "blank" /\ k = Before(c, i)
  <2>1. PICK i \in 1 .. N, j \in Nat : j \in 1 .. Len(ss[i]) /\ k = Len(FlatTo(ss, i - 1)) + j
    BY <1>5, <1>8
  <2>2. c[i].kind # "blank" /\ j = 1
    <3>1. c[i].kind = "blank" => Len(ss[i]) = 0
      BY <1>6
    <3>2. c[i].kind # "blank" => Len(ss[i]) = 1
      BY <1>6
    <3>3. j \in 1 .. Len(ss[i])
      BY <2>1
    <3>4. c[i].kind # "blank"
      BY <3>1, <3>3
    <3>5. Len(ss[i]) = 1
      BY <3>2, <3>4
    <3> QED BY <3>3, <3>4, <3>5
  <2>3. Before(c, i) = Before(c, i - 1) + 1
    BY <1>9, <2>2
  <2>4. k = Before(c, i - 1) + 1
    BY <2>1, <2>2 DEF Before, ss
  <2> QED BY <2>2, <2>3, <2>4
<1> QED BY <1>5, <1>8, <1>9, <1>10 DEF N

\* Blanks stand between no reply and its results.
LEMMA LLMPaired ==
  ASSUME NEW c \in Seq(Msg), Paired(c, Len(c)), Answering(c)
  PROVE  /\ ToLLM(c) \in Seq(Msg)
         /\ Paired(ToLLM(c), Len(ToLLM(c))) /\ Answering(ToLLM(c))
         /\ \A k \in 1 .. Len(ToLLM(c)) : ToLLM(c)[k].kind # "blank"
<1> DEFINE w == ToLLM(c)
           N == Len(c)
           at(i) == Before(c, i)
<1>1. /\ N \in Nat /\ \A i \in 1 .. N : c[i] \in Msg /\ c[i].n \in Nat
  <2>1. N \in Nat /\ \A i \in 1 .. N : c[i] \in Msg
    BY LenProperties, ElementOfSeq
  <2> QED BY <2>1 DEF Msg
<1>2. /\ w \in Seq(Msg)
      /\ \A i \in 1 .. N : c[i].kind # "blank" =>
              /\ at(i) \in 1 .. Len(w) /\ w[at(i)] = c[i]
              /\ at(i) = at(i - 1) + 1
      /\ \A k \in 1 .. Len(w) : \E i \in 1 .. N : c[i].kind # "blank" /\ k = at(i)
  BY LLMPlaces
<1>3. Len(w) \in Nat
  BY <1>2, LenProperties
<1> HIDE DEF w, at
<1>4. ASSUME NEW i \in 1 .. N, c[i].kind = "asst"
      PROVE  /\ i + c[i].n <= N
             /\ \A k \in 1 .. c[i].n : c[i + k] = [kind |-> "result", id |-> c[i].id, n |-> k]
  BY <1>4 DEF Paired
\* A reply and its results keep their distance.
<1>5. ASSUME NEW i \in 1 .. N, c[i].kind = "asst", NEW k \in 0 .. c[i].n
      PROVE  at(i + k) = at(i) + k /\ at(i + k) \in 1 .. Len(w) /\ w[at(i + k)] = c[i + k]
  <2> DEFINE n == c[i].n
             P == {j \in 0 .. n : at(i + j) = at(i) + j /\ at(i + j) \in 1 .. Len(w) /\ w[at(i + j)] = c[i + j]}
  <2>1. n \in Nat
    BY <1>1
  <2> HIDE DEF n
  <2>2. 0 \in P
    <3>1. i + 0 = i /\ 0 \in 0 .. n
      BY <1>1, <2>1
    <3>2. at(i) \in 1 .. Len(w) /\ w[at(i)] = c[i]
      BY <1>2, <1>5
    <3>3. at(i) = at(i) + 0
      BY <3>2
    <3> QED BY <3>1, <3>2, <3>3
  <2>3. ASSUME NEW j \in 0 .. n, j \in P, j < n PROVE j + 1 \in P
    <3>1. j + 1 \in 1 .. n /\ j + 1 \in 0 .. n /\ i + (j + 1) \in 1 .. N /\ (i + (j + 1)) - 1 = i + j
      <4>1. i + n <= N
        BY <1>4, <1>5 DEF n
      <4> QED BY <1>1, <2>1, <2>3, <4>1
    <3>2. c[i + (j + 1)].kind = "result"
      <4>1. c[i + (j + 1)] = [kind |-> "result", id |-> c[i].id, n |-> j + 1]
        BY <1>4, <1>5, <3>1 DEF n
      <4> QED BY <4>1
    <3>3. /\ at(i + (j + 1)) \in 1 .. Len(w) /\ w[at(i + (j + 1))] = c[i + (j + 1)]
          /\ at(i + (j + 1)) = at((i + (j + 1)) - 1) + 1
      BY <1>2, <3>1, <3>2
    <3>4. at(i + j) = at(i) + j /\ at(i) \in Nat
      <4>1. at(i) \in 1 .. Len(w)
        BY <1>2, <1>5
      <4> QED BY <1>3, <2>3, <4>1
    <3>5. at(i + (j + 1)) = at(i) + (j + 1)
      BY <3>1, <3>3, <3>4
    <3> QED BY <3>1, <3>3, <3>5
  <2>4. k \in P
    <3> HIDE DEF P
    <3>1. \A j \in 0 .. n : j \in P
      BY <2>1, <2>2, <2>3, UpTo
    <3> QED BY <3>1 DEF n
  <2> QED BY <2>4
<1>6. ASSUME NEW l \in 1 .. Len(w), w[l].kind = "asst"
      PROVE  /\ l + w[l].n <= Len(w)
             /\ \A k \in 1 .. w[l].n : w[l + k] = [kind |-> "result", id |-> w[l].id, n |-> k]
  <2>1. PICK i \in 1 .. N : c[i].kind # "blank" /\ l = at(i)
    BY <1>2
  <2>2. w[l] = c[i] /\ c[i].kind = "asst" /\ c[i].n \in Nat
    BY <1>1, <1>2, <1>6, <2>1
  <2>3. l + w[l].n <= Len(w)
    <3>1. c[i].n \in 0 .. c[i].n
      BY <2>2
    <3>2. at(i + c[i].n) = at(i) + c[i].n /\ at(i + c[i].n) \in 1 .. Len(w)
      BY <1>5, <2>2, <3>1
    <3> QED BY <1>3, <2>1, <2>2, <3>2
  <2>4. ASSUME NEW k \in 1 .. c[i].n PROVE w[l + k] = [kind |-> "result", id |-> w[l].id, n |-> k]
    <3>1. k \in 0 .. c[i].n
      OBVIOUS
    <3>2. w[l + k] = c[i + k]
      BY <1>5, <2>1, <2>2, <3>1
    <3> QED BY <1>4, <2>2, <3>2
  <2> QED BY <2>2, <2>3, <2>4
<1>7. ASSUME NEW l \in 1 .. Len(w), w[l].kind = "result"
      PROVE  \E h \in 1 .. (l - 1) : w[h].kind = "asst" /\ l <= h + w[h].n
  <2>1. PICK j \in 1 .. N : c[j].kind # "blank" /\ l = at(j)
    BY <1>2
  <2>2. c[j].kind = "result"
    BY <1>2, <1>7, <2>1
  <2>3. PICK i \in 1 .. (j - 1) : c[i].kind = "asst" /\ j <= i + c[i].n
    BY <2>2 DEF Answering
  <2>4. i \in 1 .. N /\ c[i].n \in Nat /\ j - i \in 0 .. c[i].n /\ i + (j - i) = j /\ j - i >= 1
    <3>1. i \in 1 .. N
      BY <1>1
    <3>2. c[i].n \in Nat
      BY <1>1, <3>1
    <3> QED BY <2>3, <3>1, <3>2
  <2>5. l = at(i) + (j - i)
    <3>1. at(i + (j - i)) = at(i) + (j - i)
      BY <1>5, <2>3, <2>4
    <3> QED BY <2>1, <2>4, <3>1
  <2>6. w[at(i)] = c[i] /\ at(i) \in 1 .. Len(w)
    BY <1>2, <2>3, <2>4
  <2>7. at(i) \in 1 .. (l - 1) /\ l <= at(i) + c[i].n
    <3> DEFINE d == j - i
               a == at(i)
    <3>1. d \in Nat /\ d >= 1 /\ d <= c[i].n /\ c[i].n \in Nat
      BY <2>4
    <3>2. a \in Nat /\ a >= 1 /\ l = a + d
      BY <1>3, <2>5, <2>6
    <3> HIDE DEF a, d
    <3>3. a \in 1 .. (l - 1) /\ l <= a + c[i].n
      BY <3>1, <3>2
    <3> QED BY <3>3 DEF a
  <2> QED BY <2>3, <2>6, <2>7
<1>8. ASSUME NEW k \in 1 .. Len(w) PROVE w[k].kind # "blank"
  BY <1>2
<1>9. Paired(w, Len(w))
  BY <1>6 DEF Paired
<1>10. Answering(w)
  BY <1>7 DEF Answering
<1> QED BY <1>2, <1>8, <1>9, <1>10 DEF w

----------------------------------------------------------------------------
(* The turns of a request                                                  *)

Call == [id : Nat, n : Nat]
WireTurn == [role : {"user", "assistant"}, uses : SUBSET Call, answers : Seq(Call)]

\* Every tool_use is answered once in the next turn, and nothing else is.
WirePaired(w) ==
  \A k \in 1 .. Len(w) :
    /\ w[k].uses # {} => /\ k < Len(w)
                         /\ Len(w[k + 1].answers) = Cardinality(w[k].uses)
    /\ w[k].answers # <<>> => /\ k > 1
                              /\ ToSet(w[k].answers) = w[k - 1].uses

\* Turns that are paired by themselves are paired together.
LEMMA FlatPaired ==
  ASSUME NEW ss \in Seq(Seq(WireTurn)), \A n \in 1 .. Len(ss) : WirePaired(ss[n])
  PROVE  WirePaired(FlattenSeq(ss))
<1> DEFINE w == FlattenSeq(ss)
           N == Len(ss)
<1>1. /\ w \in Seq(WireTurn)
      /\ \A n \in 1 .. N, j \in Nat :
              j \in 1 .. Len(ss[n]) =>
                /\ Len(FlatTo(ss, n - 1)) + j \in 1 .. Len(w)
                /\ w[Len(FlatTo(ss, n - 1)) + j] = ss[n][j]
      /\ \A k \in 1 .. Len(w) :
              \E n \in 1 .. N, j \in Nat :
                 j \in 1 .. Len(ss[n]) /\ k = Len(FlatTo(ss, n - 1)) + j
  BY FlatParts
<1>2. Len(w) \in Nat
  BY <1>1, LenProperties
<1>3. \A n \in 1 .. N : Len(ss[n]) \in Nat /\ Len(FlatTo(ss, n - 1)) \in Nat
  <2>1. /\ N \in Nat
        /\ \A n \in 1 .. N : ss[n] \in Seq(WireTurn)
        /\ \A n \in 0 .. N : FlatTo(ss, n) \in Seq(WireTurn)
    BY FlatSteps
  <2>2. \A n \in 1 .. N : n - 1 \in 0 .. N
    BY <2>1
  <2> QED BY <2>1, <2>2, LenProperties
<1> HIDE DEF w
<1> SUFFICES ASSUME NEW k \in 1 .. Len(w)
             PROVE  /\ w[k].uses # {} => /\ k < Len(w)
                                         /\ Len(w[k + 1].answers) = Cardinality(w[k].uses)
                    /\ w[k].answers # <<>> => /\ k > 1
                                              /\ ToSet(w[k].answers) = w[k - 1].uses
  BY DEF WirePaired, w
<1>4. PICK n \in 1 .. N, j \in Nat : j \in 1 .. Len(ss[n]) /\ k = Len(FlatTo(ss, n - 1)) + j
  BY <1>1
<1> DEFINE a == Len(FlatTo(ss, n - 1))
           p == ss[n]
<1>5. a \in Nat /\ Len(p) \in Nat /\ k = a + j /\ j \in 1 .. Len(p) /\ w[k] = p[j]
  BY <1>1, <1>3, <1>4
<1>6. ASSUME NEW i \in 1 .. Len(p) PROVE a + i \in 1 .. Len(w) /\ w[a + i] = p[i]
  <2>1. i \in Nat
    BY <1>5
  <2> QED BY <1>1, <2>1
<1>7. /\ p[j].uses # {} => /\ j < Len(p)
                           /\ Len(p[j + 1].answers) = Cardinality(p[j].uses)
      /\ p[j].answers # <<>> => /\ j > 1
                                /\ ToSet(p[j].answers) = p[j - 1].uses
  BY <1>4 DEF WirePaired
<1> HIDE DEF a, p
<1>8. ASSUME w[k].uses # {} PROVE k < Len(w) /\ Len(w[k + 1].answers) = Cardinality(w[k].uses)
  <2>1. j < Len(p) /\ Len(p[j + 1].answers) = Cardinality(p[j].uses)
    BY <1>5, <1>7, <1>8
  <2>2. j + 1 \in 1 .. Len(p) /\ a + (j + 1) = k + 1
    BY <1>5, <2>1
  <2>3. k + 1 \in 1 .. Len(w) /\ w[k + 1] = p[j + 1]
    BY <1>6, <2>2
  <2>4. k < Len(w)
    BY <1>2, <2>3
  <2> QED BY <1>5, <2>1, <2>3, <2>4
<1>9. ASSUME w[k].answers # <<>> PROVE k > 1 /\ ToSet(w[k].answers) = w[k - 1].uses
  <2>1. j > 1 /\ ToSet(p[j].answers) = p[j - 1].uses
    BY <1>5, <1>7, <1>9
  <2>2. j - 1 \in 1 .. Len(p) /\ a + (j - 1) = k - 1
    BY <1>5, <2>1
  <2>3. k - 1 \in 1 .. Len(w) /\ w[k - 1] = p[j - 1]
    BY <1>6, <2>2
  <2>4. k > 1
    BY <1>2, <2>3
  <2> QED BY <1>5, <2>1, <2>3, <2>4
<1> QED BY <1>8, <1>9

\* The calls of a reply, and a sequence of all of them.
LEMMA CallsCounted ==
  ASSUME NEW m \in Msg
  PROVE  /\ CallsOf(m) \subseteq Call
         /\ IsFiniteSet(CallsOf(m)) /\ Cardinality(CallsOf(m)) = m.n
<1> DEFINE f == [k \in 1 .. m.n |-> [id |-> m.id, n |-> k]]
           T == CallsOf(m)
<1>1. m.id \in Nat /\ m.n \in Nat
  BY DEF Msg
<1>2. CallsOf(m) \subseteq Call
  BY <1>1 DEF CallsOf, Call
<1>3. \A k \in 1 .. m.n : f[k] \in T
  BY DEF CallsOf
<1>4. \A t \in T : \E k \in 1 .. m.n : f[k] = t
  BY DEF CallsOf
<1>5. \A i, j \in 1 .. m.n : f[i] = f[j] => i = j
  <2>1. \A i \in 1 .. m.n : f[i].n = i
    OBVIOUS
  <2> HIDE DEF f
  <2> QED BY <2>1
<1>6. f \in Bijection(1 .. m.n, T)
  <2>1. f \in [1 .. m.n -> T]
    BY <1>3
  <2> HIDE DEF f, T
  <2> QED BY <1>4, <1>5, <2>1 DEF Bijection, Injection, Surjection, IsInjective
<1>7. IsFiniteSet(1 .. m.n) /\ Cardinality(1 .. m.n) = m.n
  <2>1. \A b \in Nat : IsFiniteSet(1 .. b) /\ Cardinality(1 .. b) = b
    <3> SUFFICES ASSUME NEW b \in Nat PROVE IsFiniteSet(1 .. b) /\ Cardinality(1 .. b) = b
      OBVIOUS
    <3>1. IsFiniteSet(1 .. b) /\ Cardinality(1 .. b) = IF 1 > b THEN 0 ELSE b - 1 + 1
      BY FS_Interval
    <3> QED BY <3>1
  <2> QED BY <1>1, <2>1
<1>8. ExistsBijection(1 .. m.n, T)
  BY <1>6 DEF ExistsBijection
<1> QED BY <1>2, <1>7, <1>8, FS_Bijection

LEMMA ListsAll ==
  ASSUME NEW T, IsFiniteSet(T)
  PROVE  SetToSeq(T) \in Seq(T) /\ Len(SetToSeq(T)) = Cardinality(T) /\ ToSet(SetToSeq(T)) = T
<1> DEFINE n == Cardinality(T)
           f == SetToSeq(T)
<1>1. n \in Nat /\ ExistsBijection(1 .. n, T)
  BY FS_CardinalityType
<1>2. \E g \in [1 .. n -> T] : \A i, j \in 1 .. n : g[i] = g[j] => i = j
  BY <1>1 DEF ExistsBijection, Bijection, Injection, IsInjective
<1>3. f \in [1 .. n -> T] /\ \A i, j \in 1 .. n : f[i] = f[j] => i = j
  <2>1. \E g \in [1 .. Cardinality(T) -> T] : IsInjective(g)
    BY <1>2 DEF IsInjective
  <2>2. f \in [1 .. Cardinality(T) -> T] /\ IsInjective(f)
    BY <2>1 DEF SetToSeq
  <2> HIDE DEF f
  <2> QED BY <2>2 DEF IsInjective
<1> HIDE DEF f
<1>4. f \in Seq(T) /\ Len(f) = n
  BY <1>1, <1>3
<1>5. ASSUME NEW t \in T, \A i \in 1 .. n : f[i] # t PROVE FALSE
  <2>1. IsFiniteSet(T \ {t}) /\ Cardinality(T \ {t}) = n - 1
    BY <1>5, FS_RemoveElement
  <2>2. IsFiniteSet(1 .. n) /\ Cardinality(1 .. n) = n
    BY <1>1, FS_Interval
  <2>3. f \in [1 .. n -> T \ {t}]
    BY <1>3, <1>5
  <2>4. Cardinality(T \ {t}) < Cardinality(1 .. n)
    BY <1>1, <2>1, <2>2
  <2>5. \E i, j \in 1 .. n : i # j /\ f[i] = f[j]
    <3> HIDE DEF n
    <3> QED BY <2>1, <2>2, <2>3, <2>4, FS_PigeonHole
  <2> QED BY <1>3, <2>5
<1>6. ToSet(f) = T
  <2>1. \A i \in 1 .. n : f[i] \in T
    BY <1>3
  <2>2. DOMAIN f = 1 .. n
    BY <1>3
  <2>3. ToSet(f) = {f[i] : i \in 1 .. n}
    BY <2>2 DEF ToSet
  <2> QED BY <1>5, <2>1, <2>3
<1> QED BY <1>4, <1>6 DEF f

\* What directly follows a reply is its results, when it got any.
LEMMA FollowingIs ==
  ASSUME NEW c \in Seq(Msg), Paired(c, Len(c)), Answering(c),
         NEW i \in 1 .. Len(c), c[i].kind \in {"asst", "failed"},
         NEW r, r = IF c[i].kind = "asst" THEN c[i].n ELSE 0
  PROVE  /\ r \in Nat /\ Following(c, i) = (i + 1) .. (i + r) /\ Cardinality(Following(c, i)) = r
         /\ \A k \in 1 .. r : c[i + k] = [kind |-> "result", id |-> c[i].id, n |-> k]
<1>1. /\ Len(c) \in Nat /\ \A j \in 1 .. Len(c) : c[j] \in Msg /\ c[j].n \in Nat
  <2>1. Len(c) \in Nat /\ \A j \in 1 .. Len(c) : c[j] \in Msg
    BY LenProperties, ElementOfSeq
  <2> QED BY <2>1 DEF Msg
<1>2. \A j \in 1 .. Len(c) : c[j].kind = "asst" =>
         /\ j + c[j].n <= Len(c)
         /\ \A k \in 1 .. c[j].n : c[j + k] = [kind |-> "result", id |-> c[j].id, n |-> k]
  BY DEF Paired
<1>3. /\ r \in Nat /\ i + r <= Len(c)
      /\ \A k \in 1 .. r : c[i + k] = [kind |-> "result", id |-> c[i].id, n |-> k]
  <2>1. CASE c[i].kind = "asst"
    BY <1>1, <1>2, <2>1
  <2>2. CASE c[i].kind # "asst"
    BY <1>1, <2>2
  <2> QED BY <2>1, <2>2
<1>4. \A j \in 1 .. Len(c), k \in Nat : c[j].kind = "asst" /\ k \in 1 .. c[j].n => c[j + k].kind = "result"
  <2> SUFFICES ASSUME NEW j \in 1 .. Len(c), NEW k \in Nat, c[j].kind = "asst", k \in 1 .. c[j].n
               PROVE  c[j + k].kind = "result"
    OBVIOUS
  <2>1. c[j + k] = [kind |-> "result", id |-> c[j].id, n |-> k]
    BY <1>2
  <2> QED BY <2>1
<1>5. ASSUME NEW k \in 1 .. r PROVE c[i + k].kind = "result"
  <2>1. c[i + k] = [kind |-> "result", id |-> c[i].id, n |-> k]
    BY <1>3
  <2> QED BY <2>1
<1>6. ASSUME NEW j \in (i + 1) .. (i + r) PROVE j \in Following(c, i)
  <2>1. j \in (i + 1) .. Len(c)
    BY <1>1, <1>3
  <2>2. ASSUME NEW k \in (i + 1) .. j PROVE c[k].kind = "result"
    <3>1. k - i \in 1 .. r /\ i + (k - i) = k
      BY <1>1, <1>3
    <3>2. c[i + (k - i)].kind = "result"
      BY <1>5, <3>1
    <3> QED BY <3>1, <3>2
  <2> QED BY <2>1, <2>2 DEF Following
<1>7. ASSUME NEW j \in Following(c, i), j \notin (i + 1) .. (i + r) PROVE FALSE
  <2> DEFINE q == i + r + 1
  <2>1. j \in (i + 1) .. Len(c) /\ \A k \in (i + 1) .. j : c[k].kind = "result"
    BY DEF Following
  <2>2. q \in (i + 1) .. j /\ q \in 1 .. Len(c) /\ q \in Nat
    BY <1>1, <1>3, <1>7, <2>1
  <2>3. c[q].kind = "result"
    BY <2>1, <2>2
  <2> HIDE DEF q
  <2>4. PICK h \in 1 .. (q - 1) : c[h].kind = "asst" /\ q <= h + c[h].n
    BY <2>2, <2>3 DEF Answering
  <2>5. h \in 1 .. Len(c) /\ h \in Nat /\ c[h].n \in Nat
    <3>1. h \in 1 .. Len(c) /\ h \in Nat
      BY <1>1, <2>2
    <3> QED BY <1>1, <3>1
  <2>6. CASE h > i
    <3>1. h - i \in 1 .. r /\ i + (h - i) = h
      BY <1>1, <1>3, <2>5, <2>6 DEF q
    <3>2. c[i + (h - i)].kind = "result"
      BY <1>5, <3>1
    <3> QED BY <2>4, <3>1, <3>2
  <2>7. CASE h = i
    BY <1>3, <2>4, <2>5, <2>7 DEF q
  <2>8. CASE h < i
    <3>1. i - h \in Nat /\ i - h \in 1 .. c[h].n /\ h + (i - h) = i
      BY <1>1, <1>3, <2>4, <2>5, <2>8 DEF q
    <3>2. c[h + (i - h)].kind = "result"
      BY <1>4, <2>4, <2>5, <3>1
    <3> QED BY <3>1, <3>2
  <2> QED BY <2>5, <2>6, <2>7, <2>8
<1>8. Following(c, i) = (i + 1) .. (i + r)
  BY <1>6, <1>7
<1>9. Cardinality((i + 1) .. (i + r)) = r
  <2>1. i + 1 \in Int /\ i + r \in Int
    BY <1>3
  <2>2. Cardinality((i + 1) .. (i + r)) = IF i + 1 > i + r THEN 0 ELSE (i + r) - (i + 1) + 1
    BY <2>1, FS_Interval
  <2> QED BY <1>3, <2>2
<1> QED BY <1>3, <1>8, <1>9

\* Two one-element sequences in a row are the pair.
LEMMA OneThenOne ==
  ASSUME NEW S, NEW a \in S, NEW b \in S
  PROVE  <<a>> \o <<b>> = <<a, b>>
<1> DEFINE p == <<a>>
           q == <<b>>
           z == <<a, b>>
<1>1. p \in Seq(S) /\ Len(p) = 1 /\ p[1] = a /\ q \in Seq(S) /\ Len(q) = 1 /\ q[1] = b
  OBVIOUS
<1>2. z \in Seq(S) /\ Len(z) = 2 /\ z[1] = a /\ z[2] = b
  OBVIOUS
<1> HIDE DEF p, q, z
<1> DEFINE r == p \o q
<1>3. /\ r \in Seq(S) /\ Len(r) = Len(p) + Len(q)
      /\ \A i \in 1 .. Len(r) : r[i] = IF i <= Len(p) THEN p[i] ELSE q[i - Len(p)]
  BY <1>1, ConcatProperties
<1> HIDE DEF r
<1>4. Len(r) = 2 /\ r[1] = a /\ r[2] = b
  BY <1>1, <1>3
<1>5. \A i \in 1 .. Len(r) : r[i] = z[i]
  BY <1>2, <1>4
<1>6. r = z
  BY <1>2, <1>3, <1>4, <1>5, SeqEqual
<1> QED BY <1>6 DEF p, q, r, z

\* A message becomes turns that are paired by themselves.
LEMMA WirePiece ==
  ASSUME NEW c \in Seq(Msg), Paired(c, Len(c)), Answering(c),
         NEW i \in 1 .. Len(c), c[i].kind # "blank"
  PROVE  WireOf(c, i) \in Seq(WireTurn) /\ WirePaired(WireOf(c, i))
<1> DEFINE m == c[i]
           answers == [k \in 1 .. Cardinality(Following(c, i)) |-> Answer(c[i + k])]
           missing == CallsOf(m) \ {answers[k] : k \in DOMAIN answers}
           all == answers \o SetToSeq(missing)
           asks == Turn("assistant", CallsOf(m), <<>>)
           told == Turn("user", {}, all)
           none == Turn("user", {}, <<>>)
<1>1. m \in Msg
  BY ElementOfSeq
<1>2. m.kind \in InputKinds \/ m.kind = "result" \/ m.kind \in {"asst", "failed"}
  BY <1>1 DEF Msg, Replies
<1>3. WireOf(c, i) = CASE m.kind \in InputKinds -> <<none>>
                       [] m.kind = "result" -> <<>>
                       [] OTHER -> <<asks>> \o (IF all = <<>> THEN <<>> ELSE <<told>>)
  BY DEF WireOf
<1>4. CASE m.kind \in InputKinds
  <2>1. WireOf(c, i) = <<none>>
    BY <1>3, <1>4 DEF InputKinds
  <2>2. none \in WireTurn /\ none.uses = {} /\ none.answers = <<>>
    BY EmptySeq DEF Turn, WireTurn
  <2> HIDE DEF none
  <2>3. <<none>> \in Seq(WireTurn) /\ Len(<<none>>) = 1 /\ <<none>>[1] = none
    BY <2>2
  <2>4. WirePaired(<<none>>)
    BY <2>2, <2>3 DEF WirePaired
  <2> QED BY <2>1, <2>3, <2>4
<1>5. CASE m.kind = "result"
  <2>1. WireOf(c, i) = <<>>
    BY <1>3, <1>5 DEF InputKinds
  <2>2. Len(<<>>) = 0 /\ <<>> \in Seq(WireTurn)
    BY EmptySeq
  <2>3. WirePaired(<<>>)
    BY <2>2 DEF WirePaired
  <2> QED BY <2>1, <2>2, <2>3
<1>6. CASE m.kind \in {"asst", "failed"}
  <2> DEFINE r == IF m.kind = "asst" THEN m.n ELSE 0
  <2>1. /\ r \in Nat /\ Cardinality(Following(c, i)) = r
        /\ \A k \in 1 .. r : c[i + k] = [kind |-> "result", id |-> m.id, n |-> k]
    BY <1>6, FollowingIs
  <2>2. /\ CallsOf(m) \subseteq Call
        /\ IsFiniteSet(CallsOf(m)) /\ Cardinality(CallsOf(m)) = m.n /\ m.id \in Nat /\ m.n \in Nat
    BY <1>1, CallsCounted DEF Msg
  <2>3. ASSUME NEW k \in 1 .. r PROVE Answer(c[i + k]) = [id |-> m.id, n |-> k]
    <3>1. c[i + k] = [kind |-> "result", id |-> m.id, n |-> k]
      BY <2>1
    <3>2. c[i + k].id = m.id /\ c[i + k].n = k
      BY <3>1
    <3> QED BY <3>2 DEF Answer
  <2>4. answers = [k \in 1 .. r |-> [id |-> m.id, n |-> k]]
    BY <2>1, <2>3
  <2> DEFINE known == {answers[k] : k \in DOMAIN answers}
  <2>5. known = {[id |-> m.id, n |-> k] : k \in 1 .. r}
    <3>1. DOMAIN answers = 1 .. r /\ \A k \in 1 .. r : answers[k] = [id |-> m.id, n |-> k]
      BY <2>4
    <3> HIDE DEF answers
    <3> HIDE DEF r
    <3>2. ASSUME NEW x \in known PROVE x \in {[id |-> m.id, n |-> k] : k \in 1 .. r}
      <4>1. PICK k \in DOMAIN answers : x = answers[k]
        OBVIOUS
      <4> QED BY <3>1, <4>1
    <3>3. ASSUME NEW k \in 1 .. r PROVE [id |-> m.id, n |-> k] \in known
      <4>1. k \in DOMAIN answers /\ answers[k] = [id |-> m.id, n |-> k]
        BY <3>1
      <4> QED BY <4>1
    <3> HIDE DEF known
    <3> QED BY <3>2, <3>3
  <2>6. answers \in Seq(Call) /\ Len(answers) = r /\ ToSet(answers) = known
    <3>1. \A k \in 1 .. r : [id |-> m.id, n |-> k] \in Call
      BY <2>1, <2>2 DEF Call
    <3>2. answers \in [1 .. r -> Call] /\ DOMAIN answers = 1 .. r
      BY <2>4, <3>1
    <3> HIDE DEF answers
    <3>3. r \in Nat
      BY <2>1
    <3>4. ToSet(answers) = known
      BY DEF ToSet
    <3> HIDE DEF known, r
    <3>5. answers \in Seq(Call) /\ Len(answers) = r
      BY <3>2, <3>3
    <3> QED BY <3>4, <3>5
  <2>7. all \in Seq(Call) /\ Len(all) = m.n /\ ToSet(all) = CallsOf(m)
    <3>1. CASE m.kind = "asst"
      <4>1. known = CallsOf(m) /\ r = m.n
        BY <2>5, <3>1 DEF CallsOf
      <4>2. missing = {}
        BY <4>1
      <4>3. SetToSeq({}) = <<>>
        <5>1. IsFiniteSet({}) /\ Cardinality({}) = 0
          BY FS_EmptySet
        <5>2. SetToSeq({}) \in Seq({}) /\ Len(SetToSeq({})) = 0
          BY <5>1, ListsAll
        <5> QED BY <5>2, EmptySeq
      <4> HIDE DEF answers, known, missing
      <4>4. all = answers
        BY <2>6, <4>2, <4>3, ConcatEmptySeq
      <4> QED BY <2>6, <4>1, <4>4
    <3>2. CASE m.kind = "failed"
      <4>1. r = 0 /\ known = {}
        BY <2>5, <3>2
      <4>2. missing = CallsOf(m)
        BY <4>1
      <4> HIDE DEF known, missing
      <4>3. answers = <<>>
        BY <2>6, <4>1, EmptySeq
      <4> HIDE DEF answers
      <4>4. /\ SetToSeq(CallsOf(m)) \in Seq(CallsOf(m)) /\ Len(SetToSeq(CallsOf(m))) = m.n
            /\ ToSet(SetToSeq(CallsOf(m))) = CallsOf(m)
        BY <2>2, ListsAll
      <4>5. SetToSeq(CallsOf(m)) \in Seq(Call)
        BY <2>2, <4>4, SeqMonotonic
      <4>6. all = SetToSeq(CallsOf(m))
        BY <4>2, <4>3, <4>5, ConcatEmptySeq
      <4> QED BY <4>4, <4>5, <4>6
    <3> QED BY <1>6, <3>1, <3>2
  <2> HIDE DEF all, answers, missing, known
  <2>8. /\ asks \in WireTurn /\ asks.uses = CallsOf(m) /\ asks.answers = <<>>
        /\ told \in WireTurn /\ told.uses = {} /\ told.answers = all
    BY <2>2, <2>7, EmptySeq DEF Turn, WireTurn
  <2>9. WireOf(c, i) = <<asks>> \o (IF all = <<>> THEN <<>> ELSE <<told>>)
    BY <1>3, <1>6 DEF InputKinds
  <2> HIDE DEF asks, told
  <2>10. CASE all = <<>>
    <3>1. CallsOf(m) = {}
      BY <2>2, <2>7, <2>10, FS_EmptySet
    <3>2. WireOf(c, i) = <<asks>>
      <4>1. <<asks>> \in Seq(WireTurn)
        BY <2>8
      <4> QED BY <2>9, <2>10, <4>1, ConcatEmptySeq
    <3>3. <<asks>> \in Seq(WireTurn) /\ Len(<<asks>>) = 1 /\ <<asks>>[1] = asks
      BY <2>8
    <3>4. WirePaired(<<asks>>)
      BY <2>8, <3>1, <3>3 DEF WirePaired
    <3> QED BY <3>2, <3>3, <3>4
  <2>11. CASE all # <<>>
    <3>1. WireOf(c, i) = <<asks, told>>
      <4>1. <<asks>> \in Seq(WireTurn) /\ told \in WireTurn
        BY <2>8
      <4>2. <<asks>> \o <<told>> = <<asks, told>>
        BY <2>8, OneThenOne
      <4> QED BY <2>9, <2>11, <4>2
    <3>2. <<asks, told>> \in Seq(WireTurn) /\ Len(<<asks, told>>) = 2 /\ <<asks, told>>[1] = asks /\ <<asks, told>>[2] = told
      BY <2>8
    <3>3. WirePaired(<<asks, told>>)
      BY <2>2, <2>7, <2>8, <3>2 DEF WirePaired
    <3> QED BY <3>1, <3>2, <3>3
  <2> QED BY <2>10, <2>11
<1> QED BY <1>2, <1>4, <1>5, <1>6

\* The request made of a conversation whose calls are answered is paired.
LEMMA RequestIsPaired ==
  ASSUME NEW c \in Seq(Msg), Paired(c, Len(c)), Answering(c)
  PROVE  convertMessages(c) \in Seq(WireTurn) /\ WirePaired(convertMessages(c))
<1> DEFINE w == ToLLM(c)
           ss == [i \in DOMAIN w |-> WireOf(w, i)]
<1>1. /\ w \in Seq(Msg) /\ Paired(w, Len(w)) /\ Answering(w)
      /\ \A k \in 1 .. Len(w) : w[k].kind # "blank"
  BY LLMPaired
<1>2. convertMessages(c) = FlattenSeq(ss)
  BY DEF convertMessages
<1> HIDE DEF w
<1>3. DOMAIN w = 1 .. Len(w) /\ Len(w) \in Nat
  BY <1>1, LenProperties
<1>4. \A k \in 1 .. Len(w) : WireOf(w, k) \in Seq(WireTurn) /\ WirePaired(WireOf(w, k))
  BY <1>1, WirePiece
<1>5. \A k \in 1 .. Len(w) : ss[k] = WireOf(w, k)
  BY <1>3
<1>6. ss \in [1 .. Len(w) -> Seq(WireTurn)]
  BY <1>3, <1>4
<1> HIDE DEF ss
<1>7. ss \in Seq(Seq(WireTurn)) /\ Len(ss) = Len(w)
  BY <1>3, <1>6
<1>8. \A k \in 1 .. Len(ss) : WirePaired(ss[k])
  BY <1>4, <1>5, <1>7
<1> QED BY <1>2, <1>7, <1>8, FlatPaired, FlatParts

----------------------------------------------------------------------------
(* Every result in the conversation is one a reply asked for               *)

\* Results go where a reply asked for them.
LEMMA AnsweringGrows ==
  ASSUME NEW c \in Seq(Msg), NEW x \in Seq(Msg), Answering(c),
         \/ \A i \in 1 .. Len(x) : x[i].kind # "result"
         \/ c # <<>> /\ c[Len(c)].kind = "asst" /\ Len(x) = c[Len(c)].n
  PROVE  Answering(c \o x)
<1> DEFINE d == c \o x
           L == Len(c)
<1>1. /\ Len(d) = L + Len(x) /\ L \in Nat /\ Len(x) \in Nat
      /\ \A i \in 1 .. L + Len(x) : d[i] = IF i <= L THEN c[i] ELSE x[i - L]
  BY ConcatProperties, LenProperties
<1> HIDE DEF d, L
<1>2. \A i \in 1 .. L : d[i] = c[i]
  BY <1>1
<1>3. ASSUME NEW j \in 1 .. Len(d), d[j].kind = "result"
      PROVE  \E i \in 1 .. (j - 1) : d[i].kind = "asst" /\ j <= i + d[i].n
  <2>1. CASE j <= L
    <3>1. j \in 1 .. L /\ c[j].kind = "result"
      BY <1>1, <1>2, <1>3, <2>1
    <3>2. PICK i \in 1 .. (j - 1) : c[i].kind = "asst" /\ j <= i + c[i].n
      BY <3>1 DEF Answering, L
    <3>3. d[i] = c[i]
      BY <1>1, <1>2, <3>1
    <3> QED BY <3>2, <3>3
  <2>2. CASE ~(j <= L)
    <3>1. d[j] = x[j - L] /\ j - L \in 1 .. Len(x)
      BY <1>1, <2>2
    <3>2. c # <<>> /\ c[L].kind = "asst" /\ Len(x) = c[L].n
      BY <1>3, <3>1 DEF L
    <3>3. L \in 1 .. (j - 1) /\ L \in 1 .. L /\ j <= L + Len(x)
      <4>1. L # 0
        BY <3>2, EmptySeq DEF L
      <4> QED BY <1>1, <2>2, <3>1, <4>1
    <3>4. d[L] = c[L]
      BY <1>2, <3>3
    <3> QED BY <3>2, <3>3, <3>4
  <2> QED BY <2>1, <2>2
<1> QED BY <1>3 DEF Answering, d

\* What is injected is what callers sent.
LEMMA InjectedKinds ==
  ASSUME LoopTypes, QueueKinds, Inject
  PROVE  \E ms \in Seq(Msg) : /\ Record(ms) /\ UNCHANGED messages
                              /\ \A i \in 1 .. Len(ms) : ms[i].kind # "result"
<1> DEFINE x == Taken(steering, DrainOne)
           ms == pending \o x
<1>1. Record(ms) /\ UNCHANGED messages
  BY DEF Inject, agent
<1>2. /\ pending \in Seq(Msg) /\ x \in Seq(Msg)
      /\ \A i \in DOMAIN x : \E j \in DOMAIN steering : x[i] = steering[j]
  BY TakenAndLeft, DrainAssumption DEF LoopTypes
<1> HIDE DEF x
<1>3. /\ ms \in Seq(Msg) /\ Len(ms) = Len(pending) + Len(x) /\ Len(pending) \in Nat /\ Len(x) \in Nat
      /\ \A i \in 1 .. Len(pending) + Len(x) : ms[i] = IF i <= Len(pending) THEN pending[i] ELSE x[i - Len(pending)]
  BY <1>2, ConcatProperties, LenProperties
<1>4. ASSUME NEW i \in 1 .. Len(ms) PROVE ms[i].kind # "result"
  <2>1. CASE i <= Len(pending)
    <3>1. i \in DOMAIN pending /\ ms[i] = pending[i]
      BY <1>2, <1>3, <2>1
    <3> QED BY <3>1 DEF QueueKinds
  <2>2. CASE ~(i <= Len(pending))
    <3>1. i - Len(pending) \in DOMAIN x /\ ms[i] = x[i - Len(pending)]
      BY <1>2, <1>3, <2>2
    <3> QED BY <1>2, <3>1 DEF QueueKinds
  <2> QED BY <2>1, <2>2
<1> QED BY <1>1, <1>3, <1>4

LEMMA AnsweringKept ==
  ASSUME LoopInv, Answering(Context), Next
  PROVE  Answering(Context')
<1>1. /\ LoopTypes /\ PendingPlaced /\ QueueKinds /\ BatchInv
      /\ messages \in Seq(Msg) /\ newMsgs \in Seq(Msg) /\ streams \in Nat
  BY DEF LoopInv, LoopTypes
<1>2. Context \in Seq(Msg)
  BY <1>1, ConcatProperties DEF Context
<1>3. CASE Still
  BY <1>3 DEF Still, Context
<1>4. CASE Returns
  <2>1. Context \o <<>> = Context
    BY <1>2, ConcatEmptySeq
  <2>2. Context' = Context
    BY <1>4, <2>1 DEF Returns, Context
  <2> QED BY <2>2
<1>5. ASSUME NEW ms \in Seq(Msg), Record(ms), UNCHANGED messages,
             \/ \A i \in 1 .. Len(ms) : ms[i].kind # "result"
             \/ Context # <<>> /\ Context[Len(Context)].kind = "asst" /\ Len(ms) = Context[Len(Context)].n
      PROVE  Answering(Context')
  <2>1. Context' = Context \o ms
    BY <1>1, <1>5, RecordAppends
  <2>2. Answering(Context \o ms)
    BY <1>2, <1>5, AnsweringGrows
  <2> QED BY <2>1, <2>2
<1>6. CASE Inject
  BY <1>1, <1>5, <1>6, InjectedKinds
\* A reply is no result.
<1>7. ASSUME NEW kind \in Replies, NEW n \in Nat, Record(<<Reply(kind, n)>>), UNCHANGED messages
      PROVE  Answering(Context')
  <2> DEFINE m == Reply(kind, n)
  <2>1. /\ m \in Msg /\ m.kind = kind
        /\ <<m>> \in Seq(Msg) /\ Len(<<m>>) = 1 /\ <<m>>[1] = m
    BY <1>1, ReplyTyped, OneTyped
  <2>2. Record(<<m>>)
    BY <1>7
  <2> HIDE DEF m
  <2>3. \A i \in 1 .. Len(<<m>>) : <<m>>[i].kind # "result"
    BY <2>1 DEF Replies
  <2> QED BY <1>5, <1>7, <2>1, <2>2, <2>3
<1>8. ASSUME NEW n \in Nat, StreamDone(n) PROVE Answering(Context')
  <2>1. Record(<<Reply("asst", n)>>) /\ UNCHANGED messages
    BY <1>8 DEF StreamDone, agent
  <2> QED BY <1>7, <2>1 DEF Replies
<1>9. CASE Breaks
  <2>1. PICK kind \in {"failed", "blank"}, n \in Nat, why \in {"error", "aborted"} : BreakOff(kind, n, why)
    BY <1>9 DEF Breaks
  <2>2. Record(<<Reply(kind, n)>>) /\ UNCHANGED messages
    BY <2>1 DEF BreakOff, agent
  <2> QED BY <1>7, <2>2 DEF Replies
<1>10. CASE RecordResults
  <2>1. PICK ms \in Seq(Msg) : Record(ms) /\ Len(ms) = Context[Len(Context)].n
    BY <1>1, <1>10, ResultsTyped
  <2>2. UNCHANGED messages /\ pc = "tools"
    BY <1>10 DEF RecordResults, agent
  <2>3. Context # <<>> /\ Context[Len(Context)].kind = "asst"
    BY <1>1, <2>2 DEF BatchInv
  <2> QED BY <1>5, <2>1, <2>2, <2>3
<1> QED BY <1>1, <1>3, <1>4, <1>6, <1>8, <1>9, <1>10, ContextMoves

LEMMA ResultsAsked == Spec => []Answering(Context)
<1>1. Init => Answering(Context)
  <2> SUFFICES ASSUME Init PROVE Answering(Context)
    OBVIOUS
  <2>1. <<>> \o <<>> = <<>> /\ Len(<<>>) = 0
    BY EmptyTyped, ConcatEmptySeq
  <2>2. Context = <<>>
    BY <2>1 DEF Init, Context
  <2> QED BY <2>1, <2>2 DEF Answering
<1>2. LoopInv /\ Answering(Context) /\ [Next]_vars => Answering(Context)'
  <2>1. ASSUME LoopInv, Answering(Context), Next PROVE Answering(Context)'
    BY <2>1, AnsweringKept DEF Answering, Context
  <2>2. ASSUME Answering(Context), UNCHANGED vars PROVE Answering(Context)'
    <3>1. Context' = Context
      BY <2>2 DEF vars, agent, Context
    <3> QED BY <2>2, <3>1 DEF Answering
  <2> QED BY <2>1, <2>2
<1> QED BY <1>1, <1>2, LoopInvHolds, PTL DEF Spec

\* Whatever turns broke off, were retried or aborted before, a request
\* answers each tool_use once in the next turn, with the tool's result or a
\* synthetic one, and answers nothing else (ToLLM, convertMessages).
THEOREM RequestsPaired == Spec => []RequestPaired
<1>1. LoopInv /\ Answering(Context) => RequestPaired
  <2> SUFFICES ASSUME LoopInv, Answering(Context), pc = "stream" PROVE WirePaired(convertMessages(Context))
    <3>1. ASSUME LoopInv, Answering(Context), pc = "stream", WirePaired(convertMessages(Context))
          PROVE  RequestPaired
      <4>1. messages \in Seq(Msg) /\ newMsgs \in Seq(Msg)
        BY <3>1 DEF LoopInv, LoopTypes
      <4>2. Context \in Seq(Msg)
        BY <4>1, ConcatProperties DEF Context
      <4>3. Settled = Len(Context) /\ Paired(Context, Len(Context))
        BY <3>1, <4>2, PairedMeansResults DEF LoopInv, Settled
      <4>4. convertMessages(Context) \in Seq(WireTurn)
        BY <3>1, <4>2, <4>3, RequestIsPaired
      <4>5. DOMAIN convertMessages(Context) = 1 .. Len(convertMessages(Context))
        BY <4>4, LenProperties
      <4> QED BY <3>1, <4>5 DEF RequestPaired, WirePaired
    <3> QED BY <3>1 DEF RequestPaired
  <2>1. messages \in Seq(Msg) /\ newMsgs \in Seq(Msg)
    BY DEF LoopInv, LoopTypes
  <2>2. Context \in Seq(Msg)
    BY <2>1, ConcatProperties DEF Context
  <2>3. Settled = Len(Context) /\ Paired(Context, Len(Context))
    BY <2>2, PairedMeansResults DEF LoopInv, Settled
  <2> QED BY <2>2, <2>3, RequestIsPaired
<1> QED BY <1>1, LoopInvHolds, ResultsAsked, PTL
=============================================================================
