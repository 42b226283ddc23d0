----------------------------- MODULE ModelStream -----------------------------
(***************************************************************************)
(* One turn's request to the model: streamTurn and pumpStream of the loop  *)
(* (src/internal/agent/loop.go), and the Anthropic provider that pumps the *)
(* server's events through a channel (src/internal/ai/anthropic): its HTTP *)
(* retries, the tracker that folds the events into blocks, and the ends of *)
(* a stream by the server, a failure or an abort.                          *)
(*                                                                         *)
(* The server numbers its blocks from 1 and the pieces of its answer too;  *)
(* it sends one block after the other, and may stop at any point.  A tool  *)
(* call's body is the fragments its Args are parsed from.                  *)
(***************************************************************************)
EXTENDS Integers, Sequences

CONSTANTS Kinds,                \* kinds of the server's blocks; "other" is unknown
          Cap,                  \* room of the channel
          defaultMaxRetries, retryMaxAttempts,
          MaxBlocks, MaxPieces  \* bounds: blocks and pieces of an answer

ASSUME StreamAssumption ==
  /\ Kinds \subseteq {"text", "thinking", "redacted_thinking", "tool_use", "other"}
  /\ {defaultMaxRetries, retryMaxAttempts, MaxBlocks, MaxPieces} \subseteq Nat
  /\ Cap \in Nat \ {0}

VARIABLES answer,   \* what the server sends in reply to the request at hand
          tracker,  \* msg.Content, and each open block's place in it, or 0
          pump,     \* the provider's goroutine
          ch,       \* its channel
          turn,     \* streamTurn with its pumpStream
          view,     \* what the events of the turn add up to, and the last Partial
          cancelled \* the run's context

streamVars == <<answer, tracker, pump, ch, turn, view, cancelled>>

Block(kind) == [kind |-> kind, body |-> <<>>, sig |-> 0]
NoMessage == [reason |-> "", class |-> "", content |-> <<>>]
Event(type, i, msg) == [type |-> type, i |-> i, kind |-> "", piece |-> 0, msg |-> msg]

NewAnswer == [started |-> FALSE, blocks |-> <<>>, open |-> 0, pieces |-> 0]
newTracker == [content |-> <<>>, blocks |-> [i \in 1..MaxBlocks |-> 0]]
NewPump == [at |-> "request", tries |-> 0, out |-> Event("none", 0, NoMessage), bound |-> TRUE]

StreamInit ==
  /\ answer = NewAnswer
  /\ tracker = newTracker
  /\ pump = NewPump
  /\ ch = <<>>
  /\ turn = [at |-> "pumping", attempt |-> 0, overflowRetried |-> FALSE, emitted |-> FALSE,
             got |-> FALSE, final |-> NoMessage]
  /\ view = [content |-> <<>>, partial |-> <<>>]
  /\ cancelled = FALSE
----------------------------------------------------------------------------
(* The provider's goroutine, at the HTTP request                           *)

snapshot(t) == [NoMessage EXCEPT !.content = t.content]

\* tracker.fail; an error has the class that classifyError finds for it.
fail(reason, class) == Event("error", 0, [reason |-> reason, class |-> class, content |-> tracker.content])

\* The goroutine comes to send ev: unless the run's context ends, or always.
Emits(ev, bound) == pump' = [pump EXCEPT !.at = "emit", !.out = ev, !.bound = bound]

failFrom(class) == IF cancelled THEN Emits(fail("aborted", ""), FALSE) ELSE Emits(fail("error", class), TRUE)

\* The request ends in a stream.
RequestOK ==
  /\ pump.at = "request"
  /\ pump' = [pump EXCEPT !.at = "read"]
  /\ UNCHANGED <<answer, tracker, ch, turn, view, cancelled>>

\* A lost connection, 429 or 5xx is tried again after a while; the last one
\* is the answer.
RequestFails(class) ==
  /\ pump.at = "request"
  /\ IF pump.tries < defaultMaxRetries /\ ~cancelled
     THEN pump' = [pump EXCEPT !.at = "backoff"]
     ELSE failFrom(class)
  /\ UNCHANGED <<answer, tracker, ch, turn, view, cancelled>>

\* Another status is not tried again, nor is a request that cannot be built.
RequestRefused(class) ==
  /\ pump.at = "request"
  /\ failFrom(class)
  /\ UNCHANGED <<answer, tracker, ch, turn, view, cancelled>>

\* sleepCtx of the provider: the time is up, or the context ends.
BackoffEnds ==
  /\ pump.at = "backoff"
  /\ \/ pump' = [pump EXCEPT !.at = "request", !.tries = @ + 1]
     \/ cancelled /\ failFrom("")
  /\ UNCHANGED <<answer, tracker, ch, turn, view, cancelled>>
----------------------------------------------------------------------------
(* The provider's goroutine, at the stream: one server event each          *)

\* message_start
MessageStart ==
  /\ pump.at = "read" /\ ~answer.started
  /\ answer' = [answer EXCEPT !.started = TRUE]
  /\ Emits(Event("start", 0, snapshot(tracker)), TRUE)
  /\ UNCHANGED <<tracker, ch, turn, view, cancelled>>

\* startBlock: a block of an unknown kind is remembered as ignored.
startBlock(kind) ==
  LET i == Len(answer.blocks) + 1
      place == Len(tracker.content) + 1
      t == [content |-> Append(tracker.content, Block(kind)), blocks |-> [tracker.blocks EXCEPT ![i] = place]]
  IN  /\ pump.at = "read" /\ answer.started
      /\ answer.open = 0 /\ i <= MaxBlocks
      /\ answer' = [answer EXCEPT !.blocks = Append(@, Block(kind)), !.open = i]
      /\ IF kind = "other"
         THEN UNCHANGED <<tracker, pump>>
         ELSE tracker' = t /\ Emits([Event("open", place, snapshot(t)) EXCEPT !.kind = kind], TRUE)
      /\ UNCHANGED <<ch, turn, view, cancelled>>

\* The place in msg.Content of the server's block i, 0 for one that is ignored.
Place(i) == tracker.blocks[i]

\* deltaBlock: a piece of a text or of a tool call's input is told at once, a
\* piece of a signature is only kept.
deltaBlock(i, field) ==
  LET place == Place(i)
      piece == answer.pieces + 1
      Grown(b) == IF field = "body" THEN [b EXCEPT !.body = Append(@, piece)] ELSE [b EXCEPT !.sig = @ + 1]
      t == [tracker EXCEPT !.content[place] = Grown(@)]
  IN  /\ pump.at = "read"
      /\ i = answer.open /\ piece <= MaxPieces
      /\ IF field = "body" THEN answer.blocks[i].kind # "redacted_thinking" ELSE answer.blocks[i].kind = "thinking"
      /\ answer' = [answer EXCEPT !.blocks[i] = Grown(@), !.pieces = piece]
      /\ IF place = 0
         THEN UNCHANGED <<tracker, pump>>
         ELSE /\ tracker' = t
              /\ IF field = "sig" THEN UNCHANGED pump
                 ELSE Emits([Event("delta", place, snapshot(t)) EXCEPT !.piece = piece], TRUE)
      /\ UNCHANGED <<ch, turn, view, cancelled>>

\* stopBlock
stopBlock(i) ==
  /\ pump.at = "read"
  /\ i = answer.open
  /\ answer' = [answer EXCEPT !.open = 0]
  /\ IF Place(i) = 0
     THEN UNCHANGED <<tracker, pump>>
     ELSE /\ tracker' = [tracker EXCEPT !.blocks[i] = 0]
          /\ Emits(Event("end", Place(i), snapshot(tracker)), TRUE)
  /\ UNCHANGED <<ch, turn, view, cancelled>>

mapStopReason(s) == CASE s = "max_tokens" -> "length"
                      [] s = "tool_use" -> "toolUse"
                      [] s = "refusal" -> "error"
                      [] OTHER -> "stop"

\* message_delta brings the reason, message_stop ends the answer: finish.
MessageStop(s) ==
  /\ pump.at = "read" /\ answer.started
  /\ LET reason == mapStopReason(s)
     IN  IF reason = "error"
         THEN Emits(fail("error", "fatal"), TRUE)
         ELSE Emits(Event("done", 0, [snapshot(tracker) EXCEPT !.reason = reason]), TRUE)
  /\ UNCHANGED <<answer, tracker, ch, turn, view, cancelled>>

\* An error event of the server, or a payload that does not parse (an event
\* cut short is one: the decoder hands it over at the end of the stream).
ServerFails(class) ==
  /\ pump.at = "read"
  /\ Emits(fail("error", class), TRUE)
  /\ UNCHANGED <<answer, tracker, ch, turn, view, cancelled>>

\* The stream ends or breaks before message_stop.
ReadFails(class) ==
  /\ pump.at = "read"
  /\ failFrom(class)
  /\ UNCHANGED <<answer, tracker, ch, turn, view, cancelled>>

\* emit: there is room for the event; Done and Error are the last ones.
Send ==
  /\ pump.at = "emit" /\ Len(ch) < Cap
  /\ ch' = Append(ch, pump.out)
  /\ pump' = [pump EXCEPT !.at = IF pump.out.type \in {"done", "error"} THEN "exited" ELSE "read"]
  /\ UNCHANGED <<answer, tracker, turn, view, cancelled>>

\* Mutant: a goroutine that gives up leaves its channel open.
GiveUp_Silent ==
  /\ pump.at = "emit" /\ pump.bound /\ cancelled
  /\ pump' = [pump EXCEPT !.at = "gone"]
  /\ UNCHANGED <<answer, tracker, ch, turn, view, cancelled>>

\* emit: the context ends first, and the channel is closed without a word.
GiveUp ==
  /\ pump.at = "emit" /\ pump.bound /\ cancelled
  /\ pump' = [pump EXCEPT !.at = "exited"]
  /\ UNCHANGED <<answer, tracker, ch, turn, view, cancelled>>
----------------------------------------------------------------------------
(* pumpStream and streamTurn                                               *)

\* What a reader of the events has after ev.
Added(content, ev) ==
  CASE ev.type = "open" -> Append(content, [kind |-> ev.kind, body |-> <<>>])
    [] ev.type = "delta" -> [content EXCEPT ![ev.i].body = Append(@, ev.piece)]
    [] OTHER -> content

\* pumpStream takes an event from the channel and publishes it.
Take ==
  /\ turn.at = "pumping" /\ ch # <<>>
  /\ LET ev == Head(ch)
         last == ev.type \in {"done", "error"}
     IN  /\ turn' = [turn EXCEPT !.got = last, !.final = IF last THEN ev.msg ELSE @,
                                 !.emitted = @ \/ ev.type \in {"open", "delta", "end"}]
         /\ view' = [content |-> Added(view.content, ev), partial |-> ev.msg.content]
  /\ ch' = Tail(ch)
  /\ UNCHANGED <<answer, tracker, pump, cancelled>>

\* The channel is closed and empty; without a last event pumpStream makes one up.
Drained == turn.at = "pumping" /\ ch = <<>> /\ pump.at = "exited"
Final == IF turn.got THEN turn.final
         ELSE IF cancelled THEN [NoMessage EXCEPT !.reason = "aborted"]
         ELSE [NoMessage EXCEPT !.reason = "error", !.class = "fatal"]

Overflows == Final.reason = "error" /\ Final.class = "overflow" /\ ~turn.emitted /\ ~turn.overflowRetried

\* Mutant: an answer that was shown in part is asked for again.
Retryable_Shown == Final.reason = "error" /\ Final.class = "retryable" /\ turn.attempt < retryMaxAttempts

Retryable == /\ Final.reason = "error" /\ Final.class = "retryable"
             /\ ~turn.emitted
             /\ turn.attempt < retryMaxAttempts

\* d.Stream is called again, with what changed in turn.
Restarts(t) ==
  /\ turn' = [t EXCEPT !.at = "pumping", !.emitted = FALSE, !.got = FALSE, !.final = NoMessage]
  /\ answer' = NewAnswer
  /\ tracker' = newTracker
  /\ pump' = NewPump
  /\ UNCHANGED <<ch, view, cancelled>>

\* The request overflowed, and compaction made room.
OverflowRetry == Drained /\ Overflows /\ Restarts([turn EXCEPT !.overflowRetried = TRUE])

RetryStart ==
  /\ Drained /\ Retryable
  /\ turn' = [turn EXCEPT !.at = "sleeping", !.attempt = @ + 1, !.final = Final]
  /\ UNCHANGED <<answer, tracker, pump, ch, view, cancelled>>

SleepEnds == turn.at = "sleeping" /\ Restarts(turn)

SleepAborted ==
  /\ turn.at = "sleeping" /\ cancelled
  /\ turn' = [turn EXCEPT !.at = "returned", !.final.reason = "aborted"]
  /\ UNCHANGED <<answer, tracker, pump, ch, view, cancelled>>

\* An overflow returns too when compaction makes no room.
TurnReturns ==
  /\ Drained /\ ~Retryable
  /\ turn' = [turn EXCEPT !.at = "returned", !.final = Final]
  /\ UNCHANGED <<answer, tracker, pump, ch, view, cancelled>>

\* The run is aborted.
Cancel ==
  /\ turn.at # "returned" /\ ~cancelled
  /\ cancelled' = TRUE
  /\ UNCHANGED <<answer, tracker, pump, ch, turn, view>>
----------------------------------------------------------------------------
Goroutine == Send \/ GiveUp \/ BackoffEnds
Loop == Take \/ OverflowRetry \/ RetryStart \/ SleepEnds \/ SleepAborted \/ TurnReturns
HTTPFails == \E class \in {"retryable", "overflow", "fatal"} : RequestFails(class) \/ RequestRefused(class) \/ ReadFails(class)

StreamNext ==
  \/ Goroutine \/ Loop \/ HTTPFails \/ Cancel \/ RequestOK \/ MessageStart
  \/ \E kind \in Kinds : startBlock(kind)
  \/ \E i \in 1..MaxBlocks : stopBlock(i) \/ \E field \in {"body", "sig"} : deltaBlock(i, field)
  \/ \E s \in {"end_turn", "max_tokens", "tool_use", "refusal"} : MessageStop(s)
  \/ \E class \in {"retryable", "overflow", "fatal"} : ServerFails(class)

\* Goroutines and timers go on, and a request of a context that has ended
\* fails; the server may be silent for ever.
StreamFairness == /\ WF_streamVars(Goroutine) /\ WF_streamVars(Loop)
                  /\ WF_streamVars(cancelled /\ HTTPFails)

StreamSpec == StreamInit /\ [][StreamNext]_streamVars /\ StreamFairness
----------------------------------------------------------------------------
Bodies(content) == [i \in DOMAIN content |-> [kind |-> content[i].kind, body |-> content[i].body]]
Known(blocks) ==
  LET upTo[n \in 0..Len(blocks)] ==
        IF n = 0 THEN <<>>
        ELSE IF blocks[n].kind = "other" THEN upTo[n - 1]
        ELSE Append(upTo[n - 1], blocks[n])
  IN  upTo[Len(blocks)]

\* The events add up to the Partial that comes with them, over all attempts
\* of the turn ("re-running them would duplicate text", retry.go:15), and the
\* message the turn returns is what was shown and what the server sent:
\* unknown blocks between, blocks cut short, retries of both layers and a
\* server error included.  Only an aborted turn may return less.
ShownIsKept ==
  /\ view.content = Bodies(view.partial)
  /\ turn.at = "returned" => IF turn.got
                             THEN turn.final.content = Known(answer.blocks) /\ view.content = Bodies(turn.final.content)
                             ELSE cancelled

\* An abort ends the turn, whatever the goroutine, the channel and the
\* server are at, and leaves no goroutine; and without one, a server that
\* never falls silent is not asked again and again by the two layers of
\* retries: the turn returns too.
TurnEnds ==
  /\ cancelled ~> turn.at = "returned" /\ pump.at = "exited"
  /\ []<>(pump.at \notin {"request", "read"}) => <>(turn.at = "returned")
=============================================================================
