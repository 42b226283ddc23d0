----------------------------- MODULE Permission -----------------------------
(***************************************************************************)
(* The permission engine (src/internal/perm): every tool call is decided   *)
(* by rules, screens, session grants and the mode, or by asking.           *)
(*                                                                         *)
(* A call is what the rules see of it: its category, whether a dangerous   *)
(* pattern matches it, whether it is a write outside the working directory *)
(* or a read of a secret, the rule lists that match it, the grant its      *)
(* "always" gives (scope) and the grants that cover it (within).  Calls    *)
(* are decided one at a time (prepareCall).  The mode is written by the    *)
(* user interface with no lock while the engine reads it: a Go string is   *)
(* two words, and a read between their writes sees no mode ("torn").       *)
(***************************************************************************)
EXTENDS Integers, Sequences

CONSTANTS Calls,       \* the calls a model may make
          MaxCalls,    \* bound: decisions in a behaviour
          MaxSwitches  \* bound: changes of the mode

Modes == {"plan", "prompt", "auto-edit", "yolo"}
Lists == {"flagDeny", "flagAllow", "deny", "allow"}
Answers == {"allow", "always", "deny"}

ASSUME CallsAssumption ==
  \A c \in Calls : c.cat \in {"read", "write", "execute", "mcp"} /\ c.rules \subseteq Lists
ASSUME CallBoundAssumption == MaxCalls \in Nat

VARIABLES mode,      \* Policy.Mode: what a read finds, and what it is to be
          switches,  \* mode changes so far
          grants,    \* grantStore.rules
          dec,       \* the decision under way, or the last one
          made,      \* decisions so far
          asked,     \* the asks, with what the user answered (for the properties) and what became of them
          reply,     \* PendingAsk.Reply of each ask: buffered, one answer
          asker,     \* the engine's asker: "notify", or a HeadlessAsker, "all" with AllowAll or "nobody"
          bus        \* asks on their way to the user interface

permVars == <<mode, switches, grants, dec, made, asked, reply, asker, bus>>

NoDecision == [st |-> "idle", call |-> [cat |-> "none"], seen |-> {}, ask |-> 0, allow |-> FALSE]

PermInit == /\ mode \in {[now |-> m, to |-> m] : m \in Modes}
            /\ switches = 0
            /\ grants = {}
            /\ dec = NoDecision
            /\ made = 0
            /\ asked = <<>>
            /\ reply = [k \in 1..MaxCalls |-> "none"]
            /\ bus = <<>>
            /\ asker \in {"notify", IF mode.now \in {"yolo", "auto-edit"} THEN "all" ELSE "nobody"}
----------------------------------------------------------------------------
\* firstMatch over the rule lists: flags above settings, deny above allow.
DeniedByRule(c) == \/ "flagDeny" \in c.rules
                   \/ "deny" \in c.rules /\ "flagAllow" \notin c.rules
AllowedByFlag(c) == "flagAllow" \in c.rules /\ "flagDeny" \notin c.rules

\* The mode matrix, for what is not yolo and may be torn.
defaultFor(m, cat) == CASE m = "yolo" -> "allow"
                        [] cat = "read" -> "allow"
                        [] m = "auto-edit" /\ cat = "write" -> "allow"
                        [] m = "plan" -> "deny"
                        [] OTHER -> "ask"

\* The baseline screens: a hard denial, or an ask that nothing settles.
Blocked(m, c) == m # "yolo" /\ c.dangerous
Forced(m, c) == m # "yolo" /\ c.suspicious

Granted(c) == "allow" \in c.rules \/ c.within \cap grants # {}

\* The decision under way ends.
Settle(allow) == dec' = [dec EXCEPT !.st = "settled", !.allow = allow, !.seen = @ \cup {mode.now}]

\* Mutant: all asks share one reply channel.
Chan_Shared(k) == 1

\* The reply channel of an ask.
Chan(k) == k

\* NotifyAsker.Ask: the request is published, and the call waits.
NotifyAsk == LET k == Len(asked) + 1
             IN  /\ asked' = Append(asked, [call |-> dec.call, answer |-> "none", became |-> "open"])
                 /\ bus' = Append(bus, k)
                 /\ dec' = [dec EXCEPT !.st = "waiting", !.ask = k, !.seen = @ \cup {mode.now}]

\* HeadlessAsker.Ask: there is nobody to ask.
HeadlessAsk == Settle(asker = "all") /\ UNCHANGED <<asked, bus>>

Ask == IF asker = "notify" THEN NotifyAsk ELSE HeadlessAsk

\* Decide, up to the rules, which never change.
Begin(c) ==
  /\ dec.st \in {"idle", "settled"}
  /\ made < MaxCalls
  /\ made' = made + 1
  /\ dec' = [NoDecision EXCEPT !.call = c, !.seen = {mode.now},
                               !.st = IF DeniedByRule(c) \/ AllowedByFlag(c) THEN "settled" ELSE "screens",
                               !.allow = AllowedByFlag(c)]
  /\ UNCHANGED <<mode, switches, grants, asked, reply, asker, bus>>

\* The screens, with one look at the mode, then allow rules and grants.
Screens ==
  /\ dec.st = "screens"
  /\ \/ /\ Blocked(mode.now, dec.call)
        /\ Settle(FALSE)
        /\ UNCHANGED <<asked, bus>>
     \/ /\ ~Blocked(mode.now, dec.call) /\ Forced(mode.now, dec.call)
        /\ Ask
     \/ /\ ~Blocked(mode.now, dec.call) /\ ~Forced(mode.now, dec.call)
        /\ IF Granted(dec.call) THEN Settle(TRUE)
                                ELSE dec' = [dec EXCEPT !.st = "default", !.seen = @ \cup {mode.now}]
        /\ UNCHANGED <<asked, bus>>
  /\ UNCHANGED <<mode, switches, grants, made, reply, asker>>

\* The mode's default, with another look at it.
Default ==
  /\ dec.st = "default"
  /\ \/ /\ defaultFor(mode.now, dec.call.cat) = "ask"
        /\ Ask
     \/ /\ defaultFor(mode.now, dec.call.cat) # "ask"
        /\ Settle(defaultFor(mode.now, dec.call.cat) = "allow")
        /\ UNCHANGED <<asked, bus>>
  /\ UNCHANGED <<mode, switches, grants, made, reply, asker>>

\* The ask is answered: an "always" leaves a grant.
Answered ==
  /\ dec.st = "waiting"
  /\ reply[Chan(dec.ask)] # "none"
  /\ LET a == reply[Chan(dec.ask)]
     IN  /\ grants' = IF a = "always" THEN grants \cup {dec.call.scope} ELSE grants
         /\ Settle(a # "deny")
         /\ asked' = [asked EXCEPT ![dec.ask].became = IF a = "deny" THEN "denied" ELSE "allowed"]
  /\ reply' = [reply EXCEPT ![Chan(dec.ask)] = "none"]
  /\ UNCHANGED <<mode, switches, made, asker, bus>>

\* The run's context is cancelled, and select takes that side: the call is
\* denied, and the answer, if there is one or comes later, is never read.
Cancelled ==
  /\ dec.st = "waiting"
  /\ Settle(FALSE)
  /\ asked' = [asked EXCEPT ![dec.ask].became = "cancelled"]
  /\ UNCHANGED <<mode, switches, grants, made, reply, asker, bus>>

\* Modes whose names have the same length are never seen torn.
SameLength(m, n) == m = n \/ {m, n} = {"plan", "yolo"}

\* SetMode: the two words of the string are written one after the other.
SwitchStarts(m) ==
  /\ asker = "notify"
  /\ switches < MaxSwitches
  /\ mode.now = mode.to /\ m # mode.now
  /\ mode' = [now |-> IF SameLength(m, mode.now) THEN m ELSE "torn", to |-> m]
  /\ switches' = switches + 1
  /\ dec' = [dec EXCEPT !.seen = @ \cup {mode'.now}]
  /\ UNCHANGED <<grants, made, asked, reply, asker, bus>>

SwitchEnds ==
  /\ mode.now # mode.to
  /\ mode' = [mode EXCEPT !.now = mode.to]
  /\ dec' = [dec EXCEPT !.seen = @ \cup {mode.to}]
  /\ UNCHANGED <<switches, grants, made, asked, reply, asker, bus>>
----------------------------------------------------------------------------
\* What the user has said "always" to, in time.
Always == {asked[k].call.scope : k \in {j \in DOMAIN asked : asked[j].answer = "always" /\ asked[j].became = "allowed"}}

\* The policy, said once: what mode m lets run without asking; with nobody
\* to ask, a mode that was chosen to be permissive stands for the answer.
Permits(m, c) ==
  \/ m = "yolo"
  \/ asker # "notify" /\ m = "auto-edit" /\ ~c.dangerous
  \/ /\ ~c.dangerous /\ ~c.suspicious
     /\ \/ "allow" \in c.rules
        \/ c.within \cap Always # {}
        \/ c.cat = "read"
        \/ m = "auto-edit" /\ c.cat = "write"

\* A call that was allowed is allowed by a flag, or is denied by no rule and
\* was approved by the user's answer to its own ask, or is permitted by a
\* mode that was in force while it was decided (engine.go:52), whatever was
\* switched, cancelled or answered meanwhile.  Grants count only from an
\* "always" that let its own call through: an answer to a cancelled ask, or
\* one that came too late, permits nothing (ask.go:51, grants.go:17).
AllowedRightly ==
  dec.st = "settled" /\ dec.allow =>
    /\ ~DeniedByRule(dec.call)
    /\ \/ AllowedByFlag(dec.call)
       \/ dec.ask # 0 /\ asked[dec.ask].answer \in {"allow", "always"}
       \/ \E m \in dec.seen : Permits(m, dec.call)
=============================================================================
