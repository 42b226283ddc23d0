------------------------------ MODULE EventBus ------------------------------
(***************************************************************************)
(* The event bus of src/internal/agent/events.go: publishers that deliver  *)
(* to bounded subscriber channels, the grace period of lifecycle events,   *)
(* and the disconnection of slow subscribers; with the consumer of print   *)
(* mode (modes/print.go), which reads until the end of the run, and others *)
(* that may read, stall and leave as they like (tui/bridge.go, ext).       *)
(*                                                                         *)
(* An event is its publisher, its class and its number among the lifecycle *)
(* events of that publisher.  The publisher Run is the agent's run: its    *)
(* last event is EvAgentEnd, and Printer subscribed before it began.       *)
(***************************************************************************)
EXTENDS Integers, Sequences, FiniteSets

CONSTANTS Pubs, Run,      \* goroutines that publish; the agent's run
          Subs, Printer,  \* subscribers; print mode's
          Cap,            \* subscriberBuf
          Quota           \* bound: the events each publisher publishes

Free == "free"

ASSUME BusAssumption == /\ Run \in Pubs /\ Printer \in Subs
                        /\ Free \notin Pubs
                        /\ Cap \in Nat \ {0}
                        /\ Quota \in [Pubs -> Nat \ {0}]

VARIABLES subs,     \* eventBus.subs
          ch,       \* subscriber.ch
          closed,   \* subscriber.closed
          mu,       \* subscriber.mu: a publisher that keeps it over a wait
          pub,      \* where each Publish stands
          life,     \* lifecycle events each publisher has published
          sent,     \* events each publisher has published
          last,     \* per subscriber and publisher: the last lifecycle event due
          reader,   \* per subscriber: "new", "reading", "left"
          leaving,  \* cancel of each subscriber: "no", "remove", "close", "done"
          sweep     \* the subscribers CloseAll has yet to close

vars == <<subs, ch, closed, mu, pub, life, sent, last, reader, leaving, sweep>>

Event == [from : Pubs, class : {"life", "render", "end"}, n : Nat]
Idle == [at |-> "idle", todo |-> {}, s |-> Printer, ev |-> [from |-> Run, class |-> "render", n |-> 0]]

Init == /\ subs = {Printer}
        /\ ch = [s \in Subs |-> <<>>]
        /\ closed = [s \in Subs |-> FALSE]
        /\ mu = [s \in Subs |-> Free]
        /\ pub = [p \in Pubs |-> Idle]
        /\ life = [p \in Pubs |-> 0]
        /\ sent = [p \in Pubs |-> 0]
        /\ last = [s \in Subs |-> [p \in Pubs |-> 0]]
        /\ reader = [s \in Subs |-> IF s = Printer THEN "reading" ELSE "new"]
        /\ leaving = [s \in Subs |-> "no"]
        /\ sweep = {}
----------------------------------------------------------------------------
(* Publish                                                                 *)

\* Publish takes its snapshot of the subscribers under the bus lock.
Publish(p, class) ==
  /\ pub[p].at = "idle"
  /\ sent[p] < Quota[p]
  /\ class = "end" <=> p = Run /\ sent[p] = Quota[p] - 1
  /\ sent' = [sent EXCEPT ![p] = @ + 1]
  /\ life' = [life EXCEPT ![p] = @ + (IF class = "render" THEN 0 ELSE 1)]
  /\ LET ev == [from |-> p, class |-> class, n |-> life'[p]]
     IN  pub' = [pub EXCEPT ![p] = IF subs = {} THEN Idle ELSE [Idle EXCEPT !.at = "deliver", !.todo = subs, !.ev = ev]]
  /\ UNCHANGED <<subs, ch, closed, mu, last, reader, leaving, sweep>>

\* p is done with s: the next one of its snapshot, or the end of Publish.
Onward(p, s) ==
  IF pub[p].todo \subseteq {s} THEN Idle ELSE [pub[p] EXCEPT !.at = "deliver", !.todo = @ \ {s}, !.s = Printer]

\* The event of p is put into the channel of s.
Put(p, s) ==
  /\ ch' = [ch EXCEPT ![s] = Append(@, pub[p].ev)]
  /\ last' = [last EXCEPT ![s][p] = pub[p].ev.n]

\* Mutant: every event may be dropped for a slow consumer.
Droppable_Any(ev) == TRUE

\* isRenderOnly
Droppable(ev) == ev.class = "render"

\* deliver, up to its wait: the lock is free, and kept only for the wait.
Deliver(p, s) ==
  /\ pub[p].at = "deliver"
  /\ s \in pub[p].todo
  /\ mu[s] = Free
  /\ \/ /\ ~closed[s] /\ Len(ch[s]) < Cap
        /\ Put(p, s)
        /\ pub' = [pub EXCEPT ![p] = Onward(p, s)]
        /\ UNCHANGED mu
     \/ /\ closed[s] \/ (Len(ch[s]) >= Cap /\ Droppable(pub[p].ev))
        /\ pub' = [pub EXCEPT ![p] = Onward(p, s)]
        /\ UNCHANGED <<ch, last, mu>>
     \/ /\ ~closed[s] /\ Len(ch[s]) >= Cap /\ ~Droppable(pub[p].ev)
        /\ mu' = [mu EXCEPT ![s] = p]
        /\ pub' = [pub EXCEPT ![p].at = "grace", ![p].s = s]
        /\ UNCHANGED <<ch, last>>
  /\ UNCHANGED <<subs, closed, life, sent, reader, leaving, sweep>>

\* Within the grace period the consumer made room.
GraceSend(p) ==
  /\ pub[p].at = "grace"
  /\ LET s == pub[p].s
     IN  /\ Len(ch[s]) < Cap
         /\ Put(p, s)
         /\ mu' = [mu EXCEPT ![s] = Free]
         /\ pub' = [pub EXCEPT ![p] = Onward(p, s)]
  /\ UNCHANGED <<subs, closed, life, sent, reader, leaving, sweep>>

\* The grace period is over: deliver returns false.
GraceTimer(p) ==
  /\ pub[p].at = "grace"
  /\ mu' = [mu EXCEPT ![pub[p].s] = Free]
  /\ pub' = [pub EXCEPT ![p].at = "remove"]
  /\ UNCHANGED <<subs, ch, closed, life, sent, last, reader, leaving, sweep>>

\* Publish takes the subscriber off the bus.
CutRemove(p) ==
  /\ pub[p].at = "remove"
  /\ subs' = subs \ {pub[p].s}
  /\ pub' = [pub EXCEPT ![p].at = "close"]
  /\ UNCHANGED <<ch, closed, mu, life, sent, last, reader, leaving, sweep>>

\* Mutant: the channel is closed while a publisher waits to send on it.
Closes_Unlocked(s) == closed' = [closed EXCEPT ![s] = TRUE]

\* subscriber.close, idempotent and under the subscriber's lock.
Closes(s) == mu[s] = Free /\ closed' = [closed EXCEPT ![s] = TRUE]

\* Mutant: a slow subscriber is only taken off the bus.
CutClose_RemoveOnly(p) ==
  /\ pub[p].at = "close"
  /\ pub' = [pub EXCEPT ![p] = Onward(p, pub[p].s)]
  /\ UNCHANGED <<subs, ch, closed, mu, life, sent, last, reader, leaving, sweep>>

\* Publish closes the subscriber it cut.
CutClose(p) ==
  /\ pub[p].at = "close"
  /\ Closes(pub[p].s)
  /\ pub' = [pub EXCEPT ![p] = Onward(p, pub[p].s)]
  /\ UNCHANGED <<subs, ch, mu, life, sent, last, reader, leaving, sweep>>
----------------------------------------------------------------------------
(* Subscribers                                                             *)

\* Subscribe: an event whose snapshot was taken before is not for s.
Subscribe(s) ==
  /\ reader[s] = "new"
  /\ subs' = subs \cup {s}
  /\ reader' = [reader EXCEPT ![s] = "reading"]
  /\ last' = [last EXCEPT ![s] = life]
  /\ UNCHANGED <<ch, closed, mu, pub, life, sent, leaving, sweep>>

\* The consumer takes an event; print mode is done at the end of the run.
Receive(s) ==
  /\ reader[s] = "reading"
  /\ ch[s] # <<>>
  /\ ch' = [ch EXCEPT ![s] = Tail(@)]
  /\ reader' = [reader EXCEPT ![s] = IF s = Printer /\ Head(ch[s]).class = "end" THEN "left" ELSE @]
  /\ UNCHANGED <<subs, closed, mu, pub, life, sent, last, leaving, sweep>>

\* The consumer finds its channel closed and empty.
SeesClosed(s) ==
  /\ reader[s] = "reading"
  /\ ch[s] = <<>> /\ closed[s]
  /\ reader' = [reader EXCEPT ![s] = "left"]
  /\ UNCHANGED <<subs, ch, closed, mu, pub, life, sent, last, leaving, sweep>>

\* cancel is called: by RunPrint when its consumer is done, by others at
\* any time, while their consumer stalls or has left (runBridge's context).
Leave(s) ==
  /\ leaving[s] = "no"
  /\ reader[s] # "new"
  /\ s = Printer => reader[s] = "left"
  /\ leaving' = [leaving EXCEPT ![s] = "remove"]
  /\ reader' = [reader EXCEPT ![s] = "left"]
  /\ UNCHANGED <<subs, ch, closed, mu, pub, life, sent, last, sweep>>

\* The two halves of cancel.
CancelRemove(s) ==
  /\ leaving[s] = "remove"
  /\ subs' = subs \ {s}
  /\ leaving' = [leaving EXCEPT ![s] = "close"]
  /\ UNCHANGED <<ch, closed, mu, pub, life, sent, last, reader, sweep>>

CancelClose(s) ==
  /\ leaving[s] = "close"
  /\ Closes(s)
  /\ leaving' = [leaving EXCEPT ![s] = "done"]
  /\ UNCHANGED <<subs, ch, mu, pub, life, sent, last, reader, sweep>>

\* CloseAll empties the bus, then closes what was on it.
CloseAll ==
  /\ subs # {}
  /\ sweep' = sweep \cup subs
  /\ subs' = {}
  /\ UNCHANGED <<ch, closed, mu, pub, life, sent, last, reader, leaving>>

SweepCloses(s) ==
  /\ s \in sweep
  /\ Closes(s)
  /\ sweep' = sweep \ {s}
  /\ UNCHANGED <<subs, ch, mu, pub, life, sent, last, reader, leaving>>
----------------------------------------------------------------------------
Publishing(p) == \/ \E s \in Subs : Deliver(p, s)
                 \/ GraceSend(p) \/ GraceTimer(p) \/ CutRemove(p) \/ CutClose(p)

Reads(s) == Receive(s) \/ SeesClosed(s)
Cancelling(s) == CancelRemove(s) \/ CancelClose(s)

Next == \/ \E p \in Pubs : Publishing(p) \/ \E class \in {"life", "render", "end"} : Publish(p, class)
        \/ \E s \in Subs : Subscribe(s) \/ Reads(s) \/ Leave(s) \/ Cancelling(s) \/ SweepCloses(s)
        \/ CloseAll

\* A Publish and a cancel that have begun go on, a grace period ends, the
\* run comes to its end, and print mode's consumer reads on.  Others may
\* stall for ever, holding a full channel.
Fairness == /\ \A p \in Pubs : WF_vars(Publishing(p))
            /\ WF_vars(\E class \in {"life", "render", "end"} : Publish(Run, class))
            /\ \A s \in Subs : WF_vars(Cancelling(s)) /\ WF_vars(SweepCloses(s))
            /\ WF_vars(Reads(Printer))

Spec == Init /\ [][Next]_vars /\ Fairness
----------------------------------------------------------------------------
\* "Lifecycle events must reach every subscriber or the subscriber is cut"
\* (events.go:120): what enters a channel never skips a lifecycle event of
\* the same publisher, a closed channel is never sent on, and what is in it
\* is not taken back - with publishers waiting on the same subscriber while
\* it unsubscribes or others cut it.
WholeOrCut ==
  [][\A s \in Subs : ch'[s] # ch[s] =>
       \/ ch[s] # <<>> /\ ch'[s] = Tail(ch[s])
       \/ /\ ~closed[s]
          /\ \E p \in Pubs : /\ ch'[s] = Append(ch[s], pub[p].ev)
                             /\ pub[p].ev.n = last[s][p] + (IF pub[p].ev.class = "render" THEN 0 ELSE 1)]_vars

\* "one stuck consumer cannot stall the run": every Publish and every
\* unsubscribe returns, and print mode comes to its exit code - by the end
\* of the run or by being cut, in which case it reports an error.
EveryoneReturns ==
  /\ \A p \in Pubs : []<>(pub[p].at = "idle")
  /\ \A s \in Subs : leaving[s] = "remove" ~> leaving[s] = "done"
  /\ <>(reader[Printer] = "left")
=============================================================================
