----------------------------- MODULE Compaction -----------------------------
(***************************************************************************)
(* Context compaction (src/internal/compact, controller.go, compact.go)    *)
(* with the request builder it steers (src/internal/workset, builder.go):  *)
(* the controller mirrors the agent's messages with the session entries    *)
(* they became, compactions cut the session path and leave an entry, and   *)
(* the builder shows a summary in place of the messages that were cut.     *)
(*                                                                         *)
(* The loop of the agent records messages, builds requests and compacts on *)
(* its three triggers; the user's /compact runs beside it, settings and    *)
(* labels are appended at any time, and the program may be restarted.  The *)
(* path is one branch, an entry is known by its place in it, and its       *)
(* estimate is 1 or 0: whether an estimate is over a budget is a choice,   *)
(* and trimming, which changes no order, is left out.                      *)
(***************************************************************************)
EXTENDS Integers, Sequences, FiniteSets

CONSTANTS KeepRecent,  \* tokens a compaction keeps, in messages
          MaxCalls,    \* tool calls in one answer
          MaxPath,     \* bound: entries the session grows to
          MaxAside     \* bound: /compact, settings, failed appends and restarts, together

ASSUME CompactionAssumption == MaxCalls \in Nat

VARIABLES path,     \* the session's entries
          mirror,   \* Controller.msgs and ids: 0 is the id of a message that was not saved
          half,     \* OnMessage between its two halves: the message saved and not mirrored
          builder,  \* Builder: what the summary covers, and keptFrom
          flags,    \* anchorFresh and compactedThisTurn
          phase,    \* where the loop is
          todo,     \* messages the loop has yet to record
          overflowed, \* this turn's overflow was answered by a compaction
          comp,     \* compactions under way, the loop's and the user's
          aside     \* how often something happened beside the loop

vars == <<path, mirror, half, builder, flags, phase, todo, overflowed, comp, aside>>

Messages == {"user", "assistant", "failed", "result"}
Nobody == [kind |-> "none", id |-> 0]
NoComp == [st |-> "none", first |-> 0, covers |-> {}, then |-> ""]
Actors == {"loop", "manual"}

Init == /\ path = <<>>
        /\ mirror = <<>>
        /\ half = Nobody
        /\ builder = [covers |-> {}, kept |-> 0]
        /\ flags = [fresh |-> FALSE, compacted |-> FALSE]
        /\ phase = "idle"
        /\ todo = <<>>
        /\ overflowed = FALSE
        /\ comp = [a \in Actors |-> NoComp]
        /\ aside = 0
----------------------------------------------------------------------------
\* An entry on the path; only a compaction has a first kept entry and a
\* summary that covers entries.
Entry(kind) == [kind |-> kind, first |-> 0, covers |-> {}]

\* estimateEntry: settings and labels cost nothing.
Cost(p, i) == Cardinality({j \in i..Len(p) : p[j].kind \in Messages \cup {"compaction"}})

LastComp(p) == LET cs == {i \in DOMAIN p : p[i].kind = "compaction"}
               IN  IF cs = {} THEN 0 ELSE CHOOSE i \in cs : \A j \in cs : j <= i

\* Mutant: the window begins at the previous compaction's own entry.
WindowStart_AtEntry(p) == IF LastComp(p) = 0 THEN 1 ELSE LastComp(p)

\* The first entry that no summary covers yet.
WindowStart(p) == IF LastComp(p) = 0 THEN 1 ELSE p[LastComp(p)].first

\* Mutant: a conversation may resume from any message.
validCut_Any(e) == e.kind \in Messages

\* A conversation may resume from any message but a tool result.
validCut(e) == e.kind \in Messages \ {"result"}

isSettings(e) == e.kind \in {"settings", "custom"}

Greatest(S) == CHOOSE i \in S : \A j \in S : j <= i
Least(S) == CHOOSE i \in S : \A j \in S : i <= j

\* planCut: from the end, far enough to keep KeepRecent, then back to a valid
\* cut and over the settings before it; 0 when there is nothing to compact.
planCut(p) ==
  LET w == WindowStart(p)
      far == {i \in (w + 1)..Len(p) : Cost(p, i) >= KeepRecent}
      cut == Greatest({w} \cup {i \in (w + 1)..Greatest(far) : validCut(p[i])})
      lead == {i \in (w + 1)..cut : i > LastComp(p) /\ \A j \in i..(cut - 1) : isSettings(p[j])}
  IN  IF far = {} THEN 0
      ELSE IF cut <= w \/ cut <= LastComp(p) THEN 0
      ELSE Least(lead)

\* What the summary of a compaction that cuts at c stands for.
Covered(p, c) == (IF LastComp(p) = 0 THEN {} ELSE p[LastComp(p)].covers)
                 \cup {i \in WindowStart(p)..(c - 1) : p[i].kind \in Messages}

\* keptFromLocked: the first kept entry's message, or that of the first
\* entry after it that has one; past the end while none has.
keptFrom(first, p, m) ==
  LET ids == {m[i].id : i \in DOMAIN m}
      later == {q \in first..Len(p) : q \in ids}
  IN  IF later = {} THEN Len(m)
      ELSE (CHOOSE i \in DOMAIN m : m[i].id = Least(later)) - 1

\* The messages LoadHistory takes from a path, in its order.
history(p) ==
  LET upTo[n \in 0..Len(p)] ==
        IF n = 0 THEN <<>>
        ELSE IF p[n].kind \in Messages THEN Append(upTo[n - 1], [kind |-> p[n].kind, id |-> n])
        ELSE upTo[n - 1]
  IN  upTo[Len(p)]

Room == Len(path) < MaxPath
Aside == aside < MaxAside /\ aside' = aside + 1
----------------------------------------------------------------------------
\* The loop records its next message: OnMessage saves it, which may fail ...
Save == /\ todo # <<>> /\ half = Nobody /\ Room
        /\ \/ /\ path' = Append(path, Entry(Head(todo)))
              /\ half' = [kind |-> Head(todo), id |-> Len(path) + 1]
              /\ UNCHANGED aside
           \/ /\ Aside
              /\ half' = [kind |-> Head(todo), id |-> 0]
              /\ UNCHANGED path
        /\ UNCHANGED <<mirror, builder, flags, phase, todo, overflowed, comp>>

\* ... and then mirrors it.
Mirror == /\ half # Nobody
          /\ mirror' = Append(mirror, half)
          /\ flags' = [flags EXCEPT !.fresh = @ \/ half.kind = "assistant"]
          /\ half' = Nobody
          /\ todo' = Tail(todo)
          /\ UNCHANGED <<path, builder, phase, overflowed, comp, aside>>

At(ph) == phase = ph /\ todo = <<>>

\* A run begins; a run that goes on may have been steered.
Prompt == /\ At("idle") /\ Room
          /\ todo' = <<"user">> /\ phase' = "build" /\ overflowed' = FALSE
          /\ UNCHANGED <<path, mirror, half, builder, flags, comp, aside>>

Turn == /\ At("next")
        /\ \E steered \in BOOLEAN :
             /\ steered \/ mirror[Len(mirror)].kind = "result"
             /\ todo' = IF steered THEN <<"user">> ELSE <<>>
        /\ phase' = "build" /\ overflowed' = FALSE
        /\ UNCHANGED <<path, mirror, half, builder, flags, comp, aside>>

Stop == /\ At("next")
        /\ phase' = "idle"
        /\ UNCHANGED <<path, mirror, half, builder, flags, todo, overflowed, comp, aside>>

\* compact plans its cut on the path as it is now; then is what its actor
\* goes on with.
Plan(a, then) == comp' = [comp EXCEPT ![a] = [st |-> "planned", first |-> planCut(path),
                                             covers |-> Covered(path, planCut(path)), then |-> then]]

\* TransformContext: within the budget; or over it, and compactForBuild is
\* tried once a turn.  Whatever comes of that, a request is sent: hooks.go
\* takes the message list as it is when Build gives up.
Build == /\ At("build")
         /\ \/ phase' = "stream" /\ UNCHANGED comp
            \/ /\ ~flags.compacted /\ planCut(path) # 0
               /\ Plan("loop", "stream")
               /\ phase' = "compacting"
         /\ UNCHANGED <<path, mirror, half, builder, flags, todo, overflowed, aside>>

\* An answer with its tool calls, whose results are recorded in order.
Answer == /\ At("stream") /\ Room
          /\ \E k \in 0..MaxCalls : todo' = <<"assistant">> \o [i \in 1..k |-> "result"]
          /\ phase' = "after"
          /\ UNCHANGED <<path, mirror, half, builder, flags, overflowed, comp, aside>>

\* An error or an abort ends the run, and AfterTurn is not called.
Broken == /\ At("stream") /\ Room
          /\ todo' = <<"failed">> /\ phase' = "idle"
          /\ UNCHANGED <<path, mirror, half, builder, flags, overflowed, comp, aside>>

\* The provider finds the request too long: OnContextOverflow, once a turn.
Overflow == /\ At("stream") /\ ~overflowed
            /\ planCut(path) # 0
            /\ Plan("loop", "build")
            /\ phase' = "compacting" /\ overflowed' = TRUE
            /\ UNCHANGED <<path, mirror, half, builder, flags, todo, aside>>

\* AfterTurn: the working set is saved if it changed, and the context
\* compacted if it is over the threshold.
AfterTurn ==
  /\ At("after")
  /\ path' \in {path} \cup IF Room THEN {Append(path, Entry("custom"))} ELSE {}
  /\ flags' = [flags EXCEPT !.compacted = FALSE]
  /\ \/ phase' = "next" /\ UNCHANGED comp
     \/ /\ flags.fresh /\ planCut(path') # 0
        /\ comp' = [comp EXCEPT !["loop"] = [st |-> "planned", first |-> planCut(path'),
                                             covers |-> Covered(path', planCut(path')), then |-> "next"]]
        /\ phase' = "compacting"
  /\ UNCHANGED <<mirror, half, builder, todo, overflowed, aside>>
----------------------------------------------------------------------------
\* /compact, beside whatever the loop does.
Manual == /\ comp["manual"].st = "none"
          /\ planCut(path) # 0
          /\ Plan("manual", "")
          /\ Aside
          /\ UNCHANGED <<path, mirror, half, builder, flags, phase, todo, overflowed>>

\* The loop goes on after its compaction.
Resumes(a, ph) == phase' = IF a = "loop" THEN ph ELSE phase

\* Compact: the summary is there, long after the plan, and the entry goes to
\* the end of the path as that is now.
AppendEntry(a) ==
  /\ comp[a].st = "planned" /\ Room
  /\ path' = Append(path, [kind |-> "compaction", first |-> comp[a].first, covers |-> comp[a].covers])
  /\ comp' = [comp EXCEPT ![a].st = "appended"]
  /\ UNCHANGED <<mirror, half, builder, flags, phase, todo, overflowed, aside>>

\* The summarizer or the append fails, and nothing is changed; the answer
\* to an overflow is then the error.
CompactFails(a) ==
  /\ comp[a].st = "planned"
  /\ comp' = [comp EXCEPT ![a] = NoComp]
  /\ IF a = "loop" /\ comp[a].then = "build"
     THEN phase' = "idle" /\ todo' = <<"failed">>
     ELSE Resumes(a, comp[a].then) /\ UNCHANGED todo
  /\ UNCHANGED <<path, mirror, half, builder, flags, overflowed, aside>>

\* installCompactionState, and the flags.
Install(a) ==
  /\ comp[a].st = "appended"
  /\ builder' = [covers |-> comp[a].covers, kept |-> keptFrom(comp[a].first, path, mirror)]
  /\ flags' = [fresh |-> FALSE, compacted |-> TRUE]
  /\ comp' = [comp EXCEPT ![a] = NoComp]
  /\ Resumes(a, comp[a].then)
  /\ UNCHANGED <<path, mirror, half, todo, overflowed, aside>>

\* /model, /thinking, /pin and the like append to the path.
Settings == /\ Room /\ Aside
            /\ \E kind \in {"settings", "label"} : path' = Append(path, Entry(kind))
            /\ UNCHANGED <<mirror, half, builder, flags, phase, todo, overflowed, comp>>

\* The program is killed and started again: LoadHistory takes messages and
\* the last compaction from the path.
Restart ==
  /\ Aside
  /\ LET saved == history(path)
         c == LastComp(path)
     IN  /\ mirror' = saved
         /\ builder' = IF c = 0 THEN [covers |-> {}, kept |-> 0]
                       ELSE [covers |-> path[c].covers, kept |-> keptFrom(path[c].first, path, saved)]
         /\ flags' = [fresh |-> \E i \in DOMAIN path : i > c /\ path[i].kind = "assistant", compacted |-> FALSE]
  /\ half' = Nobody /\ todo' = <<>> /\ phase' = "idle" /\ overflowed' = FALSE
  /\ comp' = [a \in Actors |-> NoComp]
  /\ UNCHANGED path

Next == \/ Save \/ Mirror \/ Prompt \/ Turn \/ Stop \/ Build \/ Answer \/ Broken \/ Overflow \/ AfterTurn
        \/ Manual \/ Settings \/ Restart
        \/ \E a \in Actors : AppendEntry(a) \/ CompactFails(a) \/ Install(a)

Spec == Init /\ [][Next]_vars
----------------------------------------------------------------------------
\* project: how many messages the next request leaves out.
LeftOut == IF builder.kept <= Len(mirror) THEN builder.kept ELSE 0

\* What a request leaves out its summary covers, and so it is for a request
\* after a restart: whichever compaction was planned, appended and installed
\* in which order, nothing that was saved is forgotten (builder.go:103,
\* compact.go:121).
NothingForgotten ==
  /\ \A i \in 1..LeftOut : mirror[i].id = 0 \/ mirror[i].id \in builder.covers
  /\ LET c == LastComp(path)
     IN  c # 0 => \A i \in 1..(path[c].first - 1) : path[i].kind \in Messages => i \in path[c].covers

\* The messages a request keeps never begin with a result whose call was
\* cut (compact.go:117): in memory, and for whoever resumes the session.
PairsKept ==
  /\ LeftOut > 0 /\ LeftOut < Len(mirror) => mirror[LeftOut + 1].kind # "result"
  /\ LET c == LastComp(path)
         rest == {i \in path[c].first..Len(path) : path[i].kind \in Messages}
     IN  c # 0 /\ rest # {} => path[Least(rest)].kind # "result"
=============================================================================
