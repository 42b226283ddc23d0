-------------------------- MODULE Frontend_proofs --------------------------
(***************************************************************************)
(* A call that runs was allowed, for any calls, rules and number of        *)
(* decisions, switches of the mode and runs.                               *)
(*                                                                         *)
(* The arguments of a call, as they are shown while they stream, follow    *)
(* their text, wherever it is cut, for any object that is malformed in its *)
(* strings at most.  A cut text is read as the whole is, up to the cut or  *)
(* to a backslash that Repair doubles; and what Repair makes of more text  *)
(* begins with what it makes of less.                                      *)
(***************************************************************************)
EXTENDS Frontend, PartialJSON, FiniteSetTheorems, SequenceTheorems, TLAPS

AskRecord == [call : Calls, answer : Answers \cup {"none"}, became : {"open", "allowed", "denied", "cancelled"}]
Looks == Modes \cup {"torn"}
Stages == {"idle", "screens", "default", "waiting", "settled"}

PermTypes ==
  /\ mode \in [now : Looks, to : Modes]
  /\ dec \in [st : Stages, call : Calls \cup {NoDecision.call}, seen : SUBSET Looks, ask : Nat, allow : BOOLEAN]
  /\ asked \in Seq(AskRecord)
  /\ reply \in [1 .. MaxCalls -> Answers \cup {"none"}]
  /\ {asks, bus} \subseteq Seq(Nat)
  /\ made \in Nat /\ Len(asked) <= made /\ made <= MaxCalls

\* With nobody to ask, the mode is the one the session was started with.
HeadlessInv ==
  asker # "notify" => mode.now = mode.to /\ (asker = "all" => mode.now \in {"yolo", "auto-edit"})

\* An ask that is still to be shown, or is shown, has no answer.
Unanswered == {k \in 1 .. Len(asked) : asked[k].answer = "none"}

\* Every ask comes by once: on the bus, in the queue, in the modal.
LineInv ==
  /\ modal # 0 => modal \in Unanswered
  /\ \A i \in DOMAIN asks : asks[i] \in Unanswered /\ asks[i] # modal
  /\ \A i \in DOMAIN bus : bus[i] \in Unanswered /\ bus[i] # modal
  /\ \A i, j \in DOMAIN asks : asks[i] = asks[j] => i = j
  /\ \A i, j \in DOMAIN bus : bus[i] = bus[j] => i = j
  /\ \A i \in DOMAIN asks : \A j \in DOMAIN bus : asks[i] # bus[j]
  /\ modal = 0 => asks = <<>>

\* What waits in a reply channel is the answer to its ask.
ReplyInv == \A k \in 1 .. MaxCalls : reply[k] # "none" => k \in 1 .. Len(asked) /\ asked[k].answer = reply[k]

GrantsInv == grants \subseteq Always

\* What is settled about the call at each stage of its decision.
StageInv ==
  /\ dec.ask <= Len(asked)
  /\ dec.st # "idle" => dec.call \in Calls
  /\ dec.st \in {"screens", "default"} => dec.ask = 0 /\ Len(asked) < made
  /\ dec.st \in {"screens", "default", "waiting"} => ~DeniedByRule(dec.call)
  /\ dec.st = "default" => (~dec.call.dangerous /\ ~dec.call.suspicious) \/ "yolo" \in dec.seen
  /\ dec.st = "waiting" => /\ dec.ask # 0
                           /\ asked[dec.ask].call = dec.call /\ asked[dec.ask].became = "open"

PermInv == PermTypes /\ HeadlessInv /\ LineInv /\ ReplyInv /\ GrantsInv /\ StageInv /\ AllowedRightly
----------------------------------------------------------------------------
(* What steps keep                                                         *)

\* What a call was allowed for stays.
LEMMA RightlyStays ==
  ASSUME AllowedRightly, dec'.st = dec.st, dec'.call = dec.call, dec'.ask = dec.ask, dec'.allow = dec.allow,
         dec.seen \subseteq dec'.seen, asker' = asker, Always \subseteq Always',
         dec.ask # 0 /\ asked[dec.ask].answer \in {"allow", "always"} => asked'[dec.ask].answer \in {"allow", "always"}
  PROVE  AllowedRightly'
<1> SUFFICES ASSUME dec.st = "settled", dec.allow
             PROVE  /\ ~DeniedByRule(dec.call)
                    /\ \/ AllowedByFlag(dec.call)
                       \/ dec.ask # 0 /\ asked'[dec.ask].answer \in {"allow", "always"}
                       \/ \E m \in dec'.seen : Permits(m, dec.call)'
  BY DEF AllowedRightly, DeniedByRule, AllowedByFlag, Permits
<1>1. \A m : Permits(m, dec.call) => Permits(m, dec.call)'
  BY DEF Permits
<1> QED
  BY <1>1 DEF AllowedRightly

\* An ask that is recorded, or a field of one that is set.
LEMMA AskRecorded ==
  ASSUME asked \in Seq(AskRecord), NEW r \in AskRecord
  PROVE  /\ Append(asked, r) \in Seq(AskRecord) /\ Len(Append(asked, r)) = Len(asked) + 1 /\ Len(asked) \in Nat
         /\ Append(asked, r)[Len(asked) + 1] = r
         /\ \A i \in 1 .. Len(asked) : Append(asked, r)[i] = asked[i]
OBVIOUS

LEMMA AskMarked ==
  ASSUME asked \in Seq(AskRecord), NEW k \in 1 .. Len(asked), NEW s \in Seq(AskRecord), Len(s) = Len(asked),
         \A i \in 1 .. Len(asked) : i # k => s[i] = asked[i],
         s[k].call = asked[k].call,
         ~(asked[k].answer = "always" /\ asked[k].became = "allowed"),
         asked' = s
  PROVE  Always \subseteq Always'
<1>1. DOMAIN asked = 1 .. Len(asked) /\ DOMAIN asked' = 1 .. Len(asked)
  OBVIOUS
<1> QED
  BY <1>1 DEF Always

\* The decision ends: everything but it stays.
LEMMA Settles ==
  ASSUME PermInv, NEW allow \in BOOLEAN, Settle(allow), dec.st \in {"screens", "default", "waiting"},
         UNCHANGED <<mode, grants, made, asked, reply, asker, bus, modal, asks>>,
         allow => \/ dec.ask # 0 /\ asked[dec.ask].answer \in {"allow", "always"}
                  \/ \E m \in dec.seen \cup {mode.now} : Permits(m, dec.call)
  PROVE  PermInv'
<1>1. PermTypes /\ HeadlessInv /\ LineInv /\ ReplyInv /\ GrantsInv /\ StageInv
  BY DEF PermInv
<1>2. mode.now \in Looks
  BY <1>1 DEF PermTypes
<1>3. /\ dec' \in [st : Stages, call : Calls \cup {NoDecision.call}, seen : SUBSET Looks, ask : Nat, allow : BOOLEAN]
      /\ dec'.st = "settled" /\ dec'.call = dec.call /\ dec'.ask = dec.ask /\ dec'.allow = allow /\ dec'.seen = dec.seen \cup {mode.now}
  BY <1>1, <1>2 DEF Settle, PermTypes, Stages
<1>4. PermTypes'
  BY <1>1, <1>3 DEF PermTypes
<1>5. HeadlessInv' /\ LineInv' /\ ReplyInv'
  BY <1>1 DEF HeadlessInv, LineInv, ReplyInv, Unanswered
<1>6. Always' = Always
  BY DEF Always
<1>7. GrantsInv'
  BY <1>1, <1>6 DEF GrantsInv
<1>8. StageInv'
  BY <1>1, <1>3 DEF StageInv
<1>9. AllowedRightly'
  <2>1. ~DeniedByRule(dec.call)
    BY <1>1 DEF StageInv
  <2>2. \A m : Permits(m, dec.call)' <=> Permits(m, dec.call)
    BY <1>3, <1>6 DEF Permits
  <2>3. dec'.call = dec.call /\ asked' = asked
    BY <1>3
  <2> QED
    BY <1>3, <2>1, <2>2, <2>3 DEF AllowedRightly, DeniedByRule
<1> QED
  BY <1>4, <1>5, <1>7, <1>8, <1>9 DEF PermInv

\* The ask goes out, and the call waits for its answer.
LEMMA Notifies ==
  ASSUME PermInv, NotifyAsk, dec.st \in {"screens", "default"},
         UNCHANGED <<mode, grants, made, reply, asker, modal, asks>>
  PROVE  PermInv'
<1>1. PermTypes /\ HeadlessInv /\ LineInv /\ ReplyInv /\ GrantsInv /\ StageInv
  BY DEF PermInv
<1> DEFINE r == [call |-> dec.call, answer |-> "none", became |-> "open"]
           k == Len(asked) + 1
<1>2. r \in AskRecord /\ r.call = dec.call /\ r.answer = "none" /\ r.became = "open"
  BY <1>1 DEF StageInv, AskRecord
<1>3. mode.now \in Looks /\ asked \in Seq(AskRecord) /\ bus \in Seq(Nat) /\ asks \in Seq(Nat) /\ made \in Nat
  BY <1>1 DEF PermTypes
<1>4. asked' = Append(asked, r) /\ bus' = Append(bus, k)
  BY DEF NotifyAsk
<1>5. Len(asked) \in Nat /\ k \in Nat /\ k > Len(asked) /\ k <= made
  BY <1>1, <1>3 DEF StageInv
<1>6. /\ dec' \in [st : Stages, call : Calls \cup {NoDecision.call}, seen : SUBSET Looks, ask : Nat, allow : BOOLEAN]
      /\ dec'.st = "waiting" /\ dec'.call = dec.call /\ dec'.ask = k
  BY <1>1, <1>3, <1>5 DEF NotifyAsk, PermTypes, Stages
<1> HIDE DEF r, k
<1>7. /\ asked' \in Seq(AskRecord) /\ Len(asked') = k /\ asked'[k] = r
      /\ \A i \in 1 .. Len(asked) : asked'[i] = asked[i]
  BY <1>2, <1>3, <1>4, AskRecorded DEF k
<1>8. /\ bus' \in Seq(Nat) /\ DOMAIN bus' = 1 .. Len(bus) + 1 /\ Len(bus) \in Nat /\ DOMAIN bus = 1 .. Len(bus)
      /\ bus'[Len(bus) + 1] = k /\ \A i \in 1 .. Len(bus) : bus'[i] = bus[i]
  BY <1>3, <1>4, <1>5
<1>9. PermTypes'
  BY <1>1, <1>5, <1>6, <1>7, <1>8 DEF PermTypes
<1>10. HeadlessInv'
  BY <1>1 DEF HeadlessInv
<1>11. /\ \A j : j \in Unanswered => j \in Unanswered' /\ j # k
       /\ k \in 1 .. Len(asked') /\ asked'[k].answer = "none"
  <2>1. k \in 1 .. Len(asked') /\ \A j \in 1 .. Len(asked) : j \in 1 .. Len(asked') /\ j # k
    BY <1>5, <1>7
  <2>2. ASSUME NEW j, j \in Unanswered PROVE j \in Unanswered' /\ j # k
    BY <1>7, <2>1, <2>2 DEF Unanswered
  <2> QED
    BY <1>2, <1>7, <2>1, <2>2
<1>12. LineInv'
  <2>1. /\ modal' # 0 => modal' \in Unanswered'
        /\ modal' = 0 => asks' = <<>>
    BY <1>1, <1>11 DEF LineInv
  <2>2. \A i \in DOMAIN asks' : asks'[i] \in Unanswered' /\ asks'[i] # modal' /\ asks'[i] # k
    BY <1>1, <1>11 DEF LineInv
  <2>3. \A i \in 1 .. Len(bus) : bus'[i] \in Unanswered' /\ bus'[i] # modal' /\ bus'[i] # k
    BY <1>1, <1>8, <1>11 DEF LineInv
  <2>4. modal # k
    BY <1>1, <1>5, <1>11 DEF LineInv
  <2>5. \A i \in DOMAIN bus' : i \in 1 .. Len(bus) \/ i = Len(bus) + 1
    BY <1>8
  <2>6. \A i \in DOMAIN bus' : bus'[i] \in Unanswered' /\ bus'[i] # modal'
    BY <1>8, <1>11, <2>3, <2>4, <2>5 DEF Unanswered
  <2>7. \A i, j \in DOMAIN bus' : bus'[i] = bus'[j] => i = j
    BY <1>1, <1>8, <2>3, <2>5 DEF LineInv
  <2>8. \A i \in DOMAIN asks' : \A j \in DOMAIN bus' : asks'[i] # bus'[j]
    BY <1>1, <1>8, <2>2, <2>5 DEF LineInv
  <2>9. \A i, j \in DOMAIN asks' : asks'[i] = asks'[j] => i = j
    BY <1>1 DEF LineInv
  <2> QED
    BY <2>1, <2>2, <2>6, <2>7, <2>8, <2>9 DEF LineInv
<1>13. ReplyInv'
  BY <1>1, <1>5, <1>7 DEF ReplyInv
<1>14. GrantsInv'
  <2>1. Always \subseteq Always'
    <3>1. DOMAIN asked = 1 .. Len(asked) /\ DOMAIN asked' = 1 .. k /\ \A i \in 1 .. Len(asked) : i \in 1 .. k
      BY <1>3, <1>5, <1>7
    <3> QED
      BY <1>7, <3>1 DEF Always
  <2> QED
    BY <1>1, <2>1 DEF GrantsInv
<1>15. StageInv'
  <2>1. ~DeniedByRule(dec.call) /\ dec.call \in Calls
    BY <1>1 DEF StageInv
  <2> QED
    BY <1>2, <1>5, <1>6, <1>7, <2>1 DEF StageInv, DeniedByRule
<1>16. AllowedRightly'
  BY <1>6 DEF AllowedRightly
<1> QED
  BY <1>9, <1>10, <1>12, <1>13, <1>14, <1>15, <1>16 DEF PermInv
----------------------------------------------------------------------------
(* The decision                                                            *)

LEMMA BeginKeeps ==
  ASSUME PermInv, NEW c \in Calls, Begin(c), UNCHANGED <<modal, asks>>
  PROVE  PermInv'
<1>1. PermTypes /\ HeadlessInv /\ LineInv /\ ReplyInv /\ GrantsInv /\ StageInv
  BY DEF PermInv
<1>2. /\ UNCHANGED <<mode, grants, asked, reply, asker, bus, modal, asks>> /\ made < MaxCalls /\ made' = made + 1
      /\ made \in Nat /\ Len(asked) <= made /\ Len(asked) \in Nat /\ mode.now \in Looks
  BY <1>1 DEF Begin, PermTypes
<1>3. /\ dec' \in [st : Stages, call : Calls \cup {NoDecision.call}, seen : SUBSET Looks, ask : Nat, allow : BOOLEAN]
      /\ dec'.st = (IF DeniedByRule(c) \/ AllowedByFlag(c) THEN "settled" ELSE "screens")
      /\ dec'.call = c /\ dec'.ask = 0 /\ dec'.allow = AllowedByFlag(c)
  <2>1. AllowedByFlag(c) \in BOOLEAN
    BY DEF AllowedByFlag
  <2> QED
    BY <1>2, <2>1 DEF Begin, NoDecision, Stages
<1>4. PermTypes'
  BY <1>1, <1>2, <1>3, CallBoundAssumption DEF PermTypes
<1>5. HeadlessInv' /\ LineInv' /\ ReplyInv'
  BY <1>1, <1>2 DEF HeadlessInv, LineInv, ReplyInv, Unanswered
<1>6. GrantsInv'
  BY <1>1, <1>2 DEF GrantsInv, Always
<1>7. StageInv'
  BY <1>2, <1>3 DEF StageInv, DeniedByRule
<1>8. AllowedRightly'
  <2>1. AllowedByFlag(c) => ~DeniedByRule(c)
    BY DEF AllowedByFlag, DeniedByRule
  <2>2. dec'.allow => AllowedByFlag(c)
    BY <1>3
  <2> QED
    BY <1>3, <2>1, <2>2 DEF AllowedRightly, DeniedByRule, AllowedByFlag
<1> QED
  BY <1>4, <1>5, <1>6, <1>7, <1>8 DEF PermInv

\* An ask is settled by who is there: the user, or nobody.
LEMMA AskKeeps ==
  ASSUME PermInv, Ask, dec.st \in {"screens", "default"},
         UNCHANGED <<mode, grants, made, reply, asker, modal, asks>>,
         mode.now = "yolo" \/ (~dec.call.dangerous \/ "yolo" \in dec.seen)
  PROVE  PermInv'
<1>1. CASE asker = "notify"
  <2>1. NotifyAsk
    BY <1>1 DEF Ask
  <2> QED
    BY <2>1, Notifies
<1>2. CASE asker # "notify"
  <2>1. Settle(asker = "all") /\ UNCHANGED <<asked, bus>>
    BY <1>2 DEF Ask, HeadlessAsk
  <2>2. CASE asker = "all"
    <3>1. mode.now \in {"yolo", "auto-edit"}
      BY <2>2 DEF PermInv, HeadlessInv
    <3>2. \E m \in dec.seen \cup {mode.now} : Permits(m, dec.call)
      BY <1>2, <3>1 DEF Permits
    <3>3. Settle(TRUE)
      BY <2>1, <2>2
    <3> QED
      BY <2>1, <3>2, <3>3, Settles
  <2>3. CASE asker # "all"
    <3>1. Settle(FALSE)
      BY <2>1, <2>3
    <3> QED
      BY <2>1, <3>1, Settles
  <2> QED
    BY <2>2, <2>3
<1> QED
  BY <1>1, <1>2

LEMMA ScreensKeep ==
  ASSUME PermInv, Screens, UNCHANGED <<modal, asks>>
  PROVE  PermInv'
<1>1. PermTypes /\ HeadlessInv /\ LineInv /\ ReplyInv /\ GrantsInv /\ StageInv
  BY DEF PermInv
<1>2. UNCHANGED <<mode, grants, made, reply, asker, modal, asks>> /\ dec.st = "screens" /\ mode.now \in Looks
  BY <1>1 DEF Screens, PermTypes
<1>3. CASE Settle(FALSE) /\ UNCHANGED <<asked, bus>>
  BY <1>2, <1>3, Settles
<1>4. CASE ~Blocked(mode.now, dec.call) /\ Ask
  BY <1>2, <1>4, AskKeeps DEF Blocked
<1>5. CASE /\ ~Blocked(mode.now, dec.call) /\ ~Forced(mode.now, dec.call)
           /\ Granted(dec.call) /\ Settle(TRUE) /\ UNCHANGED <<asked, bus>>
  <2>1. Permits(mode.now, dec.call)
    BY <1>1, <1>5 DEF Blocked, Forced, Granted, Permits, GrantsInv
  <2> QED
    BY <1>2, <1>5, <2>1, Settles
<1>6. CASE /\ ~Blocked(mode.now, dec.call) /\ ~Forced(mode.now, dec.call)
           /\ dec' = [dec EXCEPT !.st = "default", !.seen = @ \cup {mode.now}] /\ UNCHANGED <<asked, bus>>
  <2>1. /\ dec' \in [st : Stages, call : Calls \cup {NoDecision.call}, seen : SUBSET Looks, ask : Nat, allow : BOOLEAN]
        /\ dec'.st = "default" /\ dec'.call = dec.call /\ dec'.ask = dec.ask /\ mode.now \in dec'.seen
    BY <1>1, <1>2, <1>6 DEF PermTypes, Stages
  <2>2. PermTypes'
    BY <1>1, <1>2, <1>6, <2>1 DEF PermTypes
  <2>3. HeadlessInv' /\ LineInv' /\ ReplyInv'
    BY <1>1, <1>2, <1>6 DEF HeadlessInv, LineInv, ReplyInv, Unanswered
  <2>4. GrantsInv'
    BY <1>1, <1>2, <1>6 DEF GrantsInv, Always
  <2>5. StageInv'
    <3>1. (~dec.call.dangerous /\ ~dec.call.suspicious) \/ "yolo" \in dec'.seen
      BY <1>6, <2>1 DEF Blocked, Forced
    <3>2. /\ dec.ask <= Len(asked) /\ dec.call \in Calls /\ dec.ask = 0 /\ Len(asked) < made /\ ~DeniedByRule(dec.call)
      BY <1>1, <1>2 DEF StageInv
    <3> QED
      BY <1>2, <1>6, <2>1, <3>1, <3>2 DEF StageInv, DeniedByRule
  <2>6. AllowedRightly'
    BY <2>1 DEF AllowedRightly
  <2> QED
    BY <2>2, <2>3, <2>4, <2>5, <2>6 DEF PermInv
<1> QED
  BY <1>3, <1>4, <1>5, <1>6 DEF Screens

LEMMA DefaultKeeps ==
  ASSUME PermInv, Default, UNCHANGED <<modal, asks>>
  PROVE  PermInv'
<1>1. PermTypes /\ HeadlessInv /\ LineInv /\ ReplyInv /\ GrantsInv /\ StageInv
  BY DEF PermInv
<1>2. UNCHANGED <<mode, grants, made, reply, asker, modal, asks>> /\ dec.st = "default"
  BY DEF Default
<1>3. (~dec.call.dangerous /\ ~dec.call.suspicious) \/ "yolo" \in dec.seen
  BY <1>1, <1>2 DEF StageInv
<1>4. CASE Ask
  <2>1. mode.now = "yolo" \/ (~dec.call.dangerous \/ "yolo" \in dec.seen)
    BY <1>3
  <2> QED
    BY <1>2, <1>4, <2>1, AskKeeps
<1>5. CASE Settle(defaultFor(mode.now, dec.call.cat) = "allow") /\ UNCHANGED <<asked, bus>>
  <2>1. CASE defaultFor(mode.now, dec.call.cat) = "allow"
    <3>1. mode.now = "yolo" \/ dec.call.cat = "read" \/ (mode.now = "auto-edit" /\ dec.call.cat = "write")
      BY <2>1 DEF defaultFor
    <3>2. \E m \in dec.seen \cup {mode.now} : Permits(m, dec.call)
      BY <1>3, <3>1 DEF Permits
    <3>3. Settle(TRUE)
      BY <1>5, <2>1
    <3> QED
      BY <1>2, <1>5, <3>2, <3>3, Settles
  <2>2. CASE defaultFor(mode.now, dec.call.cat) # "allow"
    <3>1. Settle(FALSE)
      BY <1>5, <2>2
    <3> QED
      BY <1>2, <1>5, <3>1, Settles
  <2> QED
    BY <2>1, <2>2
<1> QED
  BY <1>4, <1>5 DEF Default

\* The ask k gets its answer, or what became of it.
LEMMA AskChanged ==
  ASSUME asked \in Seq(AskRecord), NEW k \in 1 .. Len(asked), NEW r \in AskRecord,
         asked' = [asked EXCEPT ![k] = r]
  PROVE  /\ asked' \in Seq(AskRecord) /\ Len(asked') = Len(asked) /\ asked'[k] = r
         /\ \A i \in 1 .. Len(asked) : i # k => asked'[i] = asked[i]
OBVIOUS

LEMMA AskAnswered ==
  ASSUME asked \in Seq(AskRecord), NEW k \in 1 .. Len(asked), NEW a \in Answers,
         asked' = [asked EXCEPT ![k].answer = a]
  PROVE  /\ asked' \in Seq(AskRecord) /\ Len(asked') = Len(asked)
         /\ \A i \in 1 .. Len(asked) : i # k => asked'[i] = asked[i]
         /\ asked'[k].call = asked[k].call /\ asked'[k].answer = a /\ asked'[k].became = asked[k].became
<1> DEFINE r == [asked[k] EXCEPT !.answer = a]
<1>1. asked[k] \in AskRecord
  OBVIOUS
<1>2. r \in AskRecord /\ r.call = asked[k].call /\ r.answer = a /\ r.became = asked[k].became
  BY <1>1 DEF AskRecord
<1>3. asked' = [asked EXCEPT ![k] = r]
  OBVIOUS
<1> HIDE DEF r
<1> QED
  BY <1>2, <1>3, AskChanged

LEMMA AskClosed ==
  ASSUME asked \in Seq(AskRecord), NEW k \in 1 .. Len(asked), NEW b \in {"allowed", "denied", "cancelled"},
         asked' = [asked EXCEPT ![k].became = b]
  PROVE  /\ asked' \in Seq(AskRecord) /\ Len(asked') = Len(asked)
         /\ \A i \in 1 .. Len(asked) : i # k => asked'[i] = asked[i]
         /\ asked'[k].call = asked[k].call /\ asked'[k].became = b /\ asked'[k].answer = asked[k].answer
<1> DEFINE r == [asked[k] EXCEPT !.became = b]
<1>1. asked[k] \in AskRecord
  OBVIOUS
<1>2. r \in AskRecord /\ r.call = asked[k].call /\ r.became = b /\ r.answer = asked[k].answer
  BY <1>1 DEF AskRecord
<1>3. asked' = [asked EXCEPT ![k] = r]
  OBVIOUS
<1> HIDE DEF r
<1> QED
  BY <1>2, <1>3, AskChanged

\* The ask is over for the call, with what became of it.
LEMMA WaitEnds ==
  ASSUME PermInv, dec.st = "waiting", NEW b \in {"allowed", "denied", "cancelled"},
         asked' = [asked EXCEPT ![dec.ask].became = b]
  PROVE  /\ asked' \in Seq(AskRecord) /\ Len(asked') = Len(asked) /\ dec.ask \in 1 .. Len(asked)
         /\ \A i \in 1 .. Len(asked) : asked'[i].answer = asked[i].answer /\ asked'[i].call = asked[i].call
         /\ asked[dec.ask].call = dec.call /\ asked'[dec.ask].became = b
         /\ Always \subseteq Always'
<1>1. PermTypes /\ StageInv
  BY DEF PermInv
<1>2. asked \in Seq(AskRecord) /\ dec.ask \in Nat /\ dec.ask <= Len(asked) /\ dec.ask # 0
      /\ asked[dec.ask].call = dec.call /\ asked[dec.ask].became = "open"
  BY <1>1 DEF PermTypes, StageInv
<1>3. dec.ask \in 1 .. Len(asked)
  BY <1>2
<1>4. /\ asked' \in Seq(AskRecord) /\ Len(asked') = Len(asked)
      /\ \A i \in 1 .. Len(asked) : i # dec.ask => asked'[i] = asked[i]
      /\ asked'[dec.ask].call = asked[dec.ask].call
      /\ asked'[dec.ask].became = b /\ asked'[dec.ask].answer = asked[dec.ask].answer
  BY <1>2, <1>3, AskClosed
<1>5. Always \subseteq Always'
  BY <1>2, <1>3, <1>4, AskMarked
<1>6. \A i \in 1 .. Len(asked) : asked'[i].answer = asked[i].answer /\ asked'[i].call = asked[i].call
  BY <1>4
<1> QED
  BY <1>2, <1>3, <1>4, <1>5, <1>6

\* Both ways a wait ends.
LEMMA WaitEndsSettled ==
  ASSUME PermInv, dec.st = "waiting", NEW b \in {"allowed", "denied", "cancelled"}, NEW allow \in BOOLEAN,
         asked' = [asked EXCEPT ![dec.ask].became = b], Settle(allow),
         UNCHANGED <<mode, made, asker, bus, modal, asks>>,
         grants' \subseteq Always',
         reply' = reply \/ reply' = [reply EXCEPT ![dec.ask] = "none"],
         allow => asked[dec.ask].answer \in {"allow", "always"}
  PROVE  PermInv'
<1>1. PermTypes /\ HeadlessInv /\ LineInv /\ ReplyInv /\ GrantsInv /\ StageInv
  BY DEF PermInv
<1>2. /\ asked' \in Seq(AskRecord) /\ Len(asked') = Len(asked) /\ dec.ask \in 1 .. Len(asked)
      /\ \A i \in 1 .. Len(asked) : asked'[i].answer = asked[i].answer
  BY WaitEnds
<1>3. /\ dec' \in [st : Stages, call : Calls \cup {NoDecision.call}, seen : SUBSET Looks, ask : Nat, allow : BOOLEAN]
      /\ dec'.st = "settled" /\ dec'.call = dec.call /\ dec'.ask = dec.ask /\ dec'.allow = allow
  BY <1>1 DEF Settle, PermTypes, Stages
<1>4. /\ reply' \in [1 .. MaxCalls -> Answers \cup {"none"}]
      /\ \A k \in 1 .. MaxCalls : reply'[k] \in {"none", reply[k]}
  BY <1>1 DEF PermTypes
<1>5. PermTypes'
  BY <1>1, <1>2, <1>3, <1>4 DEF PermTypes
<1>6. HeadlessInv'
  BY <1>1 DEF HeadlessInv
<1>7. \A k : k \in Unanswered => k \in Unanswered'
  BY <1>2 DEF Unanswered
<1>8. LineInv'
  BY <1>1, <1>7 DEF LineInv
<1>9. ReplyInv'
  BY <1>1, <1>2, <1>4 DEF ReplyInv
<1>10. GrantsInv'
  BY DEF GrantsInv
<1>11. StageInv'
  BY <1>1, <1>2, <1>3 DEF StageInv
<1>12. AllowedRightly'
  <2>1. ~DeniedByRule(dec.call) /\ dec.ask # 0
    BY <1>1 DEF StageInv
  <2> QED
    BY <1>2, <1>3, <2>1 DEF AllowedRightly, DeniedByRule
<1> QED
  BY <1>5, <1>6, <1>8, <1>9, <1>10, <1>11, <1>12 DEF PermInv

LEMMA AnsweredKeeps ==
  ASSUME PermInv, Answered, UNCHANGED <<modal, asks>>
  PROVE  PermInv'
<1> DEFINE a == reply[dec.ask]
           b == IF a = "deny" THEN "denied" ELSE "allowed"
<1>1. PermTypes /\ ReplyInv /\ GrantsInv /\ StageInv
  BY DEF PermInv
<1>2. /\ dec.st = "waiting" /\ a # "none"
      /\ grants' = IF a = "always" THEN grants \cup {dec.call.scope} ELSE grants
      /\ Settle(a # "deny") /\ asked' = [asked EXCEPT ![dec.ask].became = b]
      /\ reply' = [reply EXCEPT ![dec.ask] = "none"]
      /\ UNCHANGED <<mode, made, asker, bus>>
  BY DEF Answered, Chan
<1>3. b \in {"allowed", "denied", "cancelled"} /\ (a # "deny") \in BOOLEAN
  OBVIOUS
<1>4. /\ asked' \in Seq(AskRecord) /\ Len(asked') = Len(asked) /\ dec.ask \in 1 .. Len(asked)
      /\ \A i \in 1 .. Len(asked) : asked'[i].answer = asked[i].answer /\ asked'[i].call = asked[i].call
      /\ asked[dec.ask].call = dec.call /\ asked'[dec.ask].became = b
      /\ Always \subseteq Always'
  BY <1>2, <1>3, WaitEnds
<1>5. a \in Answers /\ asked[dec.ask].answer = a
  <2>1. dec.ask \in 1 .. MaxCalls
    BY <1>1, <1>4, CallBoundAssumption DEF PermTypes
  <2> QED
    BY <1>1, <1>2, <2>1 DEF PermTypes, ReplyInv
<1>6. a # "deny" => a \in {"allow", "always"}
  BY <1>5 DEF Answers
<1> HIDE DEF a
<1>7. grants' \subseteq Always'
  <2>1. a = "always" => dec.call.scope \in Always'
    <3> SUFFICES ASSUME a = "always" PROVE dec.call.scope \in Always'
      OBVIOUS
    <3>1. b = "allowed"
      OBVIOUS
    <3>2. DOMAIN asked' = 1 .. Len(asked)
      BY <1>4
    <3>3. dec.ask \in DOMAIN asked' /\ asked'[dec.ask].answer = "always" /\ asked'[dec.ask].became = "allowed" /\ asked'[dec.ask].call = dec.call
      BY <1>4, <1>5, <3>1, <3>2
    <3> QED
      BY <3>3 DEF Always
  <2> QED
    BY <1>1, <1>2, <1>4, <2>1 DEF GrantsInv
<1> HIDE DEF b
<1> QED
  BY <1>2, <1>3, <1>5, <1>6, <1>7, WaitEndsSettled

LEMMA CancelledKeeps ==
  ASSUME PermInv, Cancelled, UNCHANGED <<modal, asks>>
  PROVE  PermInv'
<1>1. /\ dec.st = "waiting" /\ Settle(FALSE) /\ asked' = [asked EXCEPT ![dec.ask].became = "cancelled"]
      /\ UNCHANGED <<mode, grants, made, reply, asker, bus>>
  BY DEF Cancelled
<1>2. grants' \subseteq Always'
  <2>1. Always \subseteq Always'
    BY <1>1, WaitEnds
  <2> QED
    BY <1>1, <2>1 DEF PermInv, GrantsInv
<1> QED
  BY <1>1, <1>2, WaitEndsSettled
----------------------------------------------------------------------------
(* The mode                                                                *)

LEMMA SwitchKeeps ==
  ASSUME PermInv, (\E m \in Modes : SwitchStarts(m)) \/ SwitchEnds, UNCHANGED <<modal, asks>>
  PROVE  PermInv'
<1>1. PermTypes /\ HeadlessInv /\ LineInv /\ ReplyInv /\ GrantsInv /\ StageInv /\ AllowedRightly
  BY DEF PermInv
<1>2. PICK m \in Looks, t \in Modes :
        /\ mode' = [now |-> m, to |-> t] /\ dec' = [dec EXCEPT !.seen = @ \cup {m}]
        /\ UNCHANGED <<grants, made, asked, reply, asker, bus>> /\ asker = "notify"
  <2>1. ASSUME NEW t \in Modes, SwitchStarts(t)
        PROVE  \E m \in Looks : /\ mode' = [now |-> m, to |-> t] /\ dec' = [dec EXCEPT !.seen = @ \cup {m}]
                                /\ UNCHANGED <<grants, made, asked, reply, asker, bus>> /\ asker = "notify"
    <3> DEFINE m == IF SameLength(t, mode.now) THEN t ELSE "torn"
    <3>1. m \in Looks /\ mode' = [now |-> m, to |-> t] /\ dec' = [dec EXCEPT !.seen = @ \cup {mode'.now}]
          /\ UNCHANGED <<grants, made, asked, reply, asker, bus>> /\ asker = "notify"
      BY <2>1 DEF SwitchStarts, Looks
    <3> HIDE DEF m
    <3>2. mode'.now = m
      BY <3>1
    <3> QED
      BY <3>1, <3>2
  <2>2. ASSUME SwitchEnds
        PROVE  /\ mode' = [now |-> mode.to, to |-> mode.to] /\ dec' = [dec EXCEPT !.seen = @ \cup {mode.to}]
               /\ UNCHANGED <<grants, made, asked, reply, asker, bus>> /\ asker = "notify"
               /\ mode.to \in Modes /\ mode.to \in Looks
    BY <1>1, <2>2 DEF SwitchEnds, HeadlessInv, PermTypes, Looks
  <2> QED
    BY <2>1, <2>2
<1>3. /\ dec' \in [st : Stages, call : Calls \cup {NoDecision.call}, seen : SUBSET Looks, ask : Nat, allow : BOOLEAN]
      /\ dec'.st = dec.st /\ dec'.call = dec.call /\ dec'.ask = dec.ask /\ dec'.allow = dec.allow /\ dec.seen \subseteq dec'.seen
  BY <1>1, <1>2 DEF PermTypes
<1>4. PermTypes'
  <2>1. mode' \in [now : Looks, to : Modes]
    BY <1>2
  <2> QED
    BY <1>1, <1>2, <1>3, <2>1 DEF PermTypes
<1>5. HeadlessInv' /\ LineInv' /\ ReplyInv'
  BY <1>1, <1>2 DEF HeadlessInv, LineInv, ReplyInv, Unanswered
<1>6. Always' = Always
  BY <1>2 DEF Always
<1>7. GrantsInv'
  BY <1>1, <1>2, <1>6 DEF GrantsInv
<1>8. StageInv'
  BY <1>1, <1>2, <1>3 DEF StageInv, DeniedByRule
<1>9. AllowedRightly'
  BY <1>1, <1>2, <1>3, <1>6, RightlyStays
<1> QED
  BY <1>4, <1>5, <1>7, <1>8, <1>9 DEF PermInv
----------------------------------------------------------------------------
(* The interface                                                           *)

\* The modal's ask gets its answer.
LEMMA ModalAnswered ==
  ASSUME PermInv, modal # 0, NEW a \in Answers,
         asked' = [asked EXCEPT ![modal].answer = a], reply' = [reply EXCEPT ![modal] = a],
         UNCHANGED <<mode, grants, dec, made, asker>>
  PROVE  /\ asked' \in Seq(AskRecord) /\ Len(asked') = Len(asked) /\ reply' \in [1 .. MaxCalls -> Answers \cup {"none"}]
         /\ HeadlessInv' /\ ReplyInv' /\ GrantsInv' /\ StageInv' /\ AllowedRightly'
         /\ \A k : k \in Unanswered /\ k # modal => k \in Unanswered'
<1>1. PermTypes /\ HeadlessInv /\ LineInv /\ ReplyInv /\ GrantsInv /\ StageInv /\ AllowedRightly
  BY DEF PermInv
<1>2. asked \in Seq(AskRecord) /\ reply \in [1 .. MaxCalls -> Answers \cup {"none"}] /\ Len(asked) <= MaxCalls
      /\ dec.ask \in Nat /\ Len(asked) \in Nat
  BY <1>1, CallBoundAssumption DEF PermTypes
<1>3. modal \in 1 .. Len(asked) /\ asked[modal].answer = "none" /\ modal \in 1 .. MaxCalls
  BY <1>1, <1>2, CallBoundAssumption DEF LineInv, Unanswered
<1>4. /\ asked' \in Seq(AskRecord) /\ Len(asked') = Len(asked)
      /\ \A i \in 1 .. Len(asked) : i # modal => asked'[i] = asked[i]
      /\ asked'[modal].call = asked[modal].call
      /\ asked'[modal].answer = a /\ asked'[modal].became = asked[modal].became
  BY <1>2, <1>3, AskAnswered
<1>5. /\ reply' \in [1 .. MaxCalls -> Answers \cup {"none"}] /\ reply'[modal] = a
      /\ \A k \in 1 .. MaxCalls : k # modal => reply'[k] = reply[k]
  BY <1>2, <1>3
<1>6. Always \subseteq Always'
  BY <1>2, <1>3, <1>4, AskMarked
<1>7. HeadlessInv'
  BY <1>1 DEF HeadlessInv
<1>8. ReplyInv'
  BY <1>1, <1>3, <1>4, <1>5 DEF ReplyInv
<1>9. GrantsInv'
  BY <1>1, <1>6 DEF GrantsInv
<1>10. StageInv'
  <2>1. dec.st = "waiting" => asked'[dec.ask].call = asked[dec.ask].call /\ asked'[dec.ask].became = asked[dec.ask].became
    <3> SUFFICES ASSUME dec.st = "waiting" PROVE asked'[dec.ask].call = asked[dec.ask].call /\ asked'[dec.ask].became = asked[dec.ask].became
      OBVIOUS
    <3>1. dec.ask \in 1 .. Len(asked)
      BY <1>1, <1>2 DEF StageInv
    <3> QED
      BY <1>4, <3>1
  <2> QED
    BY <1>1, <1>4, <2>1 DEF StageInv, DeniedByRule
<1>11. AllowedRightly'
  <2>1. dec.ask # 0 /\ asked[dec.ask].answer \in {"allow", "always"} => asked'[dec.ask].answer \in {"allow", "always"}
    <3> SUFFICES ASSUME dec.ask # 0, asked[dec.ask].answer \in {"allow", "always"} PROVE asked'[dec.ask].answer = asked[dec.ask].answer
      OBVIOUS
    <3>1. dec.ask \in 1 .. Len(asked)
      BY <1>1, <1>2 DEF StageInv
    <3>2. dec.ask # modal
      BY <1>3
    <3> QED
      BY <1>4, <3>1, <3>2
  <2> QED
    BY <1>1, <1>6, <2>1, RightlyStays
<1>12. ASSUME NEW k, k \in Unanswered, k # modal PROVE k \in Unanswered'
  BY <1>4, <1>12 DEF Unanswered
<1> QED
  BY <1>4, <1>5, <1>7, <1>8, <1>9, <1>10, <1>11, <1>12

\* The asks that wait move up.
LEMMA QueueMoves ==
  ASSUME NEW q \in Seq(Nat), q # <<>>
  PROVE  /\ Head(q) \in Nat /\ Tail(q) \in Seq(Nat) /\ 1 \in DOMAIN q /\ Head(q) = q[1]
         /\ \A i \in DOMAIN Tail(q) : i + 1 \in DOMAIN q /\ Tail(q)[i] = q[i + 1] /\ i + 1 # 1 /\ i \in Int
OBVIOUS

LEMMA AnswerKeeps ==
  ASSUME PermInv, NEW a \in Answers, Answer(a)
  PROVE  PermInv'
<1>1. PermTypes /\ LineInv
  BY DEF PermInv
<1>2. /\ modal # 0 /\ asked' = [asked EXCEPT ![modal].answer = a] /\ reply' = [reply EXCEPT ![modal] = a]
      /\ UNCHANGED <<mode, grants, dec, made, asker, bus>>
      /\ IF asks = <<>> THEN modal' = 0 /\ asks' = asks ELSE modal' = Head(asks) /\ asks' = Tail(asks)
  BY DEF Answer, Chan, Queued
<1>3. /\ asked' \in Seq(AskRecord) /\ Len(asked') = Len(asked) /\ reply' \in [1 .. MaxCalls -> Answers \cup {"none"}]
      /\ HeadlessInv' /\ ReplyInv' /\ GrantsInv' /\ StageInv' /\ AllowedRightly'
      /\ \A k : k \in Unanswered /\ k # modal => k \in Unanswered'
  BY <1>2, ModalAnswered
<1>4. asks \in Seq(Nat) /\ bus \in Seq(Nat)
  BY <1>1 DEF PermTypes
<1>5. /\ \A i \in DOMAIN asks : asks[i] \in Unanswered' /\ asks[i] # 0
      /\ \A i \in DOMAIN bus : bus[i] \in Unanswered' /\ bus[i] # modal
      /\ 0 \notin Unanswered
  BY <1>1, <1>3 DEF LineInv, Unanswered
<1>6. CASE asks = <<>>
  <2>1. modal' = 0 /\ asks' = asks
    BY <1>2, <1>6
  <2>2. PermTypes'
    BY <1>1, <1>2, <1>3, <2>1 DEF PermTypes
  <2>3. \A i \in DOMAIN bus : bus[i] # 0
    BY <1>1, <1>5 DEF LineInv
  <2>4. LineInv'
    BY <1>1, <1>2, <1>5, <1>6, <2>1, <2>3 DEF LineInv
  <2> QED
    BY <1>3, <2>2, <2>4 DEF PermInv
<1>7. CASE asks # <<>>
  <2>1. /\ modal' = asks[1] /\ asks' = Tail(asks) /\ asks' \in Seq(Nat) /\ 1 \in DOMAIN asks
        /\ \A i \in DOMAIN asks' : i + 1 \in DOMAIN asks /\ asks'[i] = asks[i + 1] /\ i + 1 # 1 /\ i \in Int
    BY <1>2, <1>4, <1>7, QueueMoves
  <2>2. PermTypes'
    BY <1>1, <1>2, <1>3, <2>1 DEF PermTypes
  <2>3. modal' # 0 /\ modal' \in Unanswered'
    BY <1>5, <2>1
  <2>4. \A i \in DOMAIN asks' : asks'[i] \in Unanswered' /\ asks'[i] # modal'
    BY <1>1, <1>5, <2>1 DEF LineInv
  <2>5. \A i \in DOMAIN bus' : bus'[i] \in Unanswered' /\ bus'[i] # modal'
    BY <1>1, <1>2, <1>5, <2>1 DEF LineInv
  <2>6. \A i, j \in DOMAIN asks' : asks'[i] = asks'[j] => i = j
    <3> SUFFICES ASSUME NEW i \in DOMAIN asks', NEW j \in DOMAIN asks', asks'[i] = asks'[j] PROVE i = j
      OBVIOUS
    <3>1. i + 1 = j + 1
      BY <1>1, <2>1 DEF LineInv
    <3> QED
      BY <2>1, <3>1
  <2>7. \A i \in DOMAIN asks' : \A j \in DOMAIN bus' : asks'[i] # bus'[j]
    BY <1>1, <1>2, <2>1 DEF LineInv
  <2>8. \A i, j \in DOMAIN bus' : bus'[i] = bus'[j] => i = j
    BY <1>1, <1>2 DEF LineInv
  <2>9. LineInv'
    BY <2>3, <2>4, <2>5, <2>6, <2>7, <2>8 DEF LineInv
  <2> QED
    BY <1>3, <2>2, <2>9 DEF PermInv
<1> QED
  BY <1>6, <1>7

LEMMA ReceiveKeeps ==
  ASSUME PermInv, Receive
  PROVE  PermInv'
<1>1. PermTypes /\ HeadlessInv /\ LineInv /\ ReplyInv /\ GrantsInv /\ StageInv /\ AllowedRightly
  BY DEF PermInv
<1>2. /\ bus # <<>> /\ bus' = Tail(bus)
      /\ IF modal = 0 THEN modal' = Head(bus) /\ asks' = asks ELSE asks' = Append(asks, Head(bus)) /\ modal' = modal
      /\ UNCHANGED <<mode, grants, dec, made, asked, reply, asker>>
  BY DEF Receive
<1>3. asks \in Seq(Nat) /\ bus \in Seq(Nat)
  BY <1>1 DEF PermTypes
<1>4. /\ bus[1] \in Nat /\ Head(bus) = bus[1] /\ bus' \in Seq(Nat) /\ 1 \in DOMAIN bus
      /\ \A i \in DOMAIN bus' : i + 1 \in DOMAIN bus /\ bus'[i] = bus[i + 1] /\ i + 1 # 1 /\ i \in Int
  BY <1>2, <1>3, QueueMoves
<1>5. HeadlessInv' /\ ReplyInv' /\ GrantsInv' /\ StageInv' /\ Unanswered' = Unanswered
  BY <1>1, <1>2 DEF HeadlessInv, ReplyInv, GrantsInv, Always, StageInv, DeniedByRule, Unanswered
<1>6. AllowedRightly'
  <2>1. Always' = Always
    BY <1>2 DEF Always
  <2> QED
    BY <1>1, <1>2, <2>1, RightlyStays
<1>7. /\ \A i \in DOMAIN bus' : bus'[i] \in Unanswered /\ bus'[i] # bus[1] /\ bus'[i] # modal
      /\ \A i \in DOMAIN bus' : \A j \in DOMAIN asks : asks[j] # bus'[i]
      /\ bus[1] \in Unanswered /\ bus[1] # modal /\ \A j \in DOMAIN asks : asks[j] # bus[1]
  BY <1>1, <1>4 DEF LineInv
<1>8. \A i, j \in DOMAIN bus' : bus'[i] = bus'[j] => i = j
  <2> SUFFICES ASSUME NEW i \in DOMAIN bus', NEW j \in DOMAIN bus', bus'[i] = bus'[j] PROVE i = j
    OBVIOUS
  <2>1. i + 1 = j + 1
    BY <1>1, <1>4 DEF LineInv
  <2> QED
    BY <1>4, <2>1
<1>9. 0 \notin Unanswered
  BY DEF Unanswered
<1>10. CASE modal = 0
  <2>1. asks = <<>> /\ asks' = asks /\ modal' = bus[1] /\ DOMAIN asks = {}
    BY <1>1, <1>2, <1>4, <1>10 DEF LineInv
  <2>2. LineInv'
    BY <1>5, <1>7, <1>8, <2>1 DEF LineInv
  <2>3. PermTypes'
    BY <1>1, <1>2, <1>4, <2>1 DEF PermTypes
  <2> QED
    BY <1>5, <1>6, <2>2, <2>3 DEF PermInv
<1>11. CASE modal # 0
  <2>1. modal' = modal /\ asks' = Append(asks, bus[1])
    BY <1>2, <1>4, <1>11
  <2>2. asks' \in Seq(Nat) /\ \A i \in DOMAIN asks' : (i \in DOMAIN asks /\ asks'[i] = asks[i]) \/ (asks'[i] = bus[1] /\ i = Len(asks) + 1)
    BY <1>3, <1>4, <2>1
  <2>3. PermTypes'
    BY <1>1, <1>2, <1>4, <2>2 DEF PermTypes
  <2>4. /\ \A i \in DOMAIN asks' : asks'[i] \in Unanswered' /\ asks'[i] # modal'
        /\ modal' # 0 => modal' \in Unanswered'
    BY <1>1, <1>5, <1>7, <2>1, <2>2 DEF LineInv
  <2>5. \A i, j \in DOMAIN asks' : asks'[i] = asks'[j] => i = j
    BY <1>1, <1>7, <2>2 DEF LineInv
  <2>6. \A i \in DOMAIN asks' : \A j \in DOMAIN bus' : asks'[i] # bus'[j]
    BY <1>7, <2>2
  <2>7. \A i \in DOMAIN bus' : bus'[i] \in Unanswered' /\ bus'[i] # modal'
    BY <1>5, <1>7, <2>1
  <2>8. LineInv'
    BY <1>8, <1>11, <2>1, <2>4, <2>5, <2>6, <2>7 DEF LineInv
  <2> QED
    BY <1>5, <1>6, <2>3, <2>8 DEF PermInv
<1> QED
  BY <1>10, <1>11

LEMMA QuitKeeps ==
  ASSUME PermInv, Quit
  PROVE  PermInv'
<1>1. PermTypes /\ HeadlessInv /\ LineInv /\ ReplyInv /\ GrantsInv /\ StageInv /\ AllowedRightly
  BY DEF PermInv
<1>2. /\ modal' = 0 /\ asks' = <<>> /\ UNCHANGED <<mode, grants, dec, made, asker, bus>>
      /\ IF modal = 0 THEN UNCHANGED <<reply, asked>>
         ELSE reply' = [reply EXCEPT ![modal] = "deny"] /\ asked' = [asked EXCEPT ![modal].answer = "deny"]
  BY DEF Quit, Chan
<1>3. <<>> \in Seq(Nat) /\ DOMAIN <<>> = {}
  OBVIOUS
<1>4. /\ asked' \in Seq(AskRecord) /\ Len(asked') = Len(asked) /\ reply' \in [1 .. MaxCalls -> Answers \cup {"none"}]
      /\ HeadlessInv' /\ ReplyInv' /\ GrantsInv' /\ StageInv' /\ AllowedRightly'
      /\ \A i \in DOMAIN bus : bus[i] \in Unanswered'
  <2>1. CASE modal # 0
    <3>1. "deny" \in Answers
      BY DEF Answers
    <3>2. /\ asked' \in Seq(AskRecord) /\ Len(asked') = Len(asked) /\ reply' \in [1 .. MaxCalls -> Answers \cup {"none"}]
          /\ HeadlessInv' /\ ReplyInv' /\ GrantsInv' /\ StageInv' /\ AllowedRightly'
          /\ \A k : k \in Unanswered /\ k # modal => k \in Unanswered'
      BY <1>2, <2>1, <3>1, ModalAnswered
    <3> QED
      BY <1>1, <3>2 DEF LineInv
  <2>2. CASE modal = 0
    <3>1. UNCHANGED <<mode, grants, dec, made, asker, bus, reply, asked>>
      BY <1>2, <2>2
    <3>2. HeadlessInv' /\ ReplyInv' /\ GrantsInv' /\ StageInv' /\ Unanswered' = Unanswered
      BY <1>1, <3>1 DEF HeadlessInv, ReplyInv, GrantsInv, Always, StageInv, DeniedByRule, Unanswered
    <3>3. AllowedRightly'
      <4>1. Always' = Always
        BY <3>1 DEF Always
      <4> QED
        BY <1>1, <3>1, <4>1, RightlyStays
    <3> QED
      BY <1>1, <3>1, <3>2, <3>3 DEF PermTypes, LineInv
  <2> QED
    BY <2>1, <2>2
<1>5. PermTypes'
  BY <1>1, <1>2, <1>3, <1>4 DEF PermTypes
<1>6. LineInv'
  <2>1. 0 \notin Unanswered
    BY DEF Unanswered
  <2> QED
    BY <1>1, <1>2, <1>3, <1>4, <2>1 DEF LineInv
<1> QED
  BY <1>4, <1>5, <1>6 DEF PermInv
----------------------------------------------------------------------------
(* The theorem                                                             *)

LEMMA PermInvHolds == Spec => []PermInv
<1>1. Init => PermInv
  <2> SUFFICES ASSUME Init PROVE PermInv
    OBVIOUS
  <2>1. <<>> \in Seq(Nat) /\ <<>> \in Seq(AskRecord) /\ Len(<<>>) = 0 /\ DOMAIN <<>> = {}
    OBVIOUS
  <2>2. PICK m \in Modes : mode = [now |-> m, to |-> m]
    BY DEF Init, PermInit
  <2>3. /\ grants = {} /\ dec = NoDecision /\ made = 0 /\ asked = <<>> /\ reply = [k \in 1 .. MaxCalls |-> "none"]
        /\ bus = <<>> /\ asker \in {"notify", IF mode.now \in {"yolo", "auto-edit"} THEN "all" ELSE "nobody"}
        /\ modal = 0 /\ asks = <<>>
    BY DEF Init, PermInit
  <2>4. /\ NoDecision \in [st : Stages, call : Calls \cup {NoDecision.call}, seen : SUBSET Looks, ask : Nat, allow : BOOLEAN]
        /\ NoDecision.st = "idle" /\ NoDecision.ask = 0
    BY DEF NoDecision, Stages
  <2>5. PermTypes
    BY <2>1, <2>2, <2>3, <2>4, CallBoundAssumption DEF PermTypes, Looks
  <2>6. HeadlessInv
    BY <2>2, <2>3 DEF HeadlessInv
  <2>7. LineInv /\ ReplyInv /\ GrantsInv
    BY <2>1, <2>3 DEF LineInv, ReplyInv, GrantsInv
  <2>8. StageInv
    BY <2>1, <2>3, <2>4 DEF StageInv
  <2>9. AllowedRightly
    BY <2>3, <2>4 DEF AllowedRightly
  <2> QED
    BY <2>5, <2>6, <2>7, <2>8, <2>9 DEF PermInv
<1>2. PermInv /\ [Next]_vars => PermInv'
  <2> SUFFICES ASSUME PermInv, [Next]_vars PROVE PermInv'
    OBVIOUS
  <2>1. ASSUME UNCHANGED <<mode, switches, grants, dec, made, asked, reply, asker, bus, modal, asks>> PROVE PermInv'
    <3>1. PermTypes /\ HeadlessInv /\ LineInv /\ ReplyInv /\ GrantsInv /\ StageInv /\ AllowedRightly
      BY DEF PermInv
    <3>2. Unanswered' = Unanswered /\ Always' = Always
      BY <2>1 DEF Unanswered, Always
    <3>3. PermTypes' /\ HeadlessInv' /\ LineInv' /\ ReplyInv'
      BY <2>1, <3>1, <3>2 DEF PermTypes, HeadlessInv, LineInv, ReplyInv
    <3>4. GrantsInv' /\ StageInv'
      BY <2>1, <3>1, <3>2 DEF GrantsInv, StageInv, DeniedByRule
    <3>5. AllowedRightly'
      BY <2>1, <3>1, <3>2, RightlyStays
    <3> QED
      BY <3>3, <3>4, <3>5 DEF PermInv
  <2>2. CASE UNCHANGED vars
    BY <2>1, <2>2 DEF vars, permVars, uiVars
  <2>3. CASE Decide
    <3>1. UNCHANGED <<modal, asks>>
      BY <2>3 DEF Decide, uiVars
    <3> QED
      BY <2>3, <3>1, ScreensKeep, DefaultKeeps, AnsweredKeeps, CancelledKeeps DEF Decide
  <2>4. ASSUME NEW r \in Runs, Prompt(r) \/ RunReturns(r) \/ Submit(r) PROVE PermInv'
    BY <2>1, <2>4 DEF Prompt, RunReturns, Submit, permVars, uiVars
  <2>5. ASSUME NEW r \in Runs, Returned(r) PROVE PermInv'
    BY <2>1, <2>5 DEF Returned, permVars
  <2>6. CASE Interrupt
    BY <2>1, <2>6 DEF Interrupt, permVars, uiVars
  <2>7. CASE Switch
    <3>1. (\E m \in Modes : SwitchStarts(m)) \/ SwitchEnds
      BY <2>7 DEF Switch
    <3>2. UNCHANGED <<modal, asks>>
      BY <2>7 DEF Switch, uiVars
    <3> QED
      BY <3>1, <3>2, SwitchKeeps
  <2>8. ASSUME NEW r \in Runs, NEW c \in Calls, Call(r, c) PROVE PermInv'
    BY <2>8, BeginKeeps DEF Call, uiVars
  <2>9. ASSUME NEW a \in Answers, Answer(a) PROVE PermInv'
    BY <2>9, AnswerKeeps
  <2>10. CASE Receive
    BY <2>10, ReceiveKeeps
  <2>11. CASE Quit
    BY <2>11, QuitKeeps
  <2> QED
    BY <2>2, <2>3, <2>4, <2>5, <2>6, <2>7, <2>8, <2>9, <2>10, <2>11 DEF Next, Agent, Interface
<1> QED
  BY <1>1, <1>2, PTL DEF Spec

\* A call that runs is denied by no rule, and a flag, the user's answer to
\* this very call, or a mode that was in force while it was decided allows
\* it; what an "always" leaves counts only once its own call got through it
\* (Engine.Decide, NotifyAsker.Ask, closeModal).
THEOREM CallsAllowedRightly == Spec => []AllowedRightly
<1>1. PermInv => AllowedRightly
  BY DEF PermInv
<1> QED
  BY <1>1, PermInvHolds, PTL

\* An ask that is shown, queued or on its way has no answer yet, and is in
\* one of these places only: no answer overwrites another, and none goes to
\* an ask it was not given for (runBridge, applyAgentEvent, closeModal).
THEOREM AsksShownOnce == Spec => []LineInv
<1>1. PermInv => LineInv
  BY DEF PermInv
<1> QED
  BY <1>1, PermInvHolds, PTL
----------------------------------------------------------------------------
\* A set of naturals below a bound has a greatest and a least element.
Greatest(S) == CHOOSE i \in S : \A j \in S : j <= i
Least(S) == CHOOSE i \in S : \A j \in S : i <= j

LEMMA BothExist ==
  ASSUME NEW n \in Nat, NEW S, S \subseteq 0 .. n, S # {}
  PROVE  /\ Greatest(S) \in S /\ \A j \in S : j <= Greatest(S)
         /\ Least(S) \in S /\ \A j \in S : Least(S) <= j
<1> DEFINE T == {i .. n : i \in S}
           B == {0 .. i : i \in S}
           R == StrictSubsetOrdering(0 .. n)
<1>1. IsWellFoundedOn(R, SUBSET (0 .. n))
  <2>1. IsFiniteSet(0 .. n)
    BY FS_Interval
  <2> QED BY <2>1, FS_StrictSubsetOrderingWellFounded, FS_FiniteSubsetsOfFinite
<1>2. \A i \in S : i \in Nat /\ i <= n /\ i .. n \subseteq 0 .. n /\ 0 .. i \subseteq 0 .. n
  OBVIOUS
<1>3. T \subseteq SUBSET (0 .. n) /\ T # {} /\ B \subseteq SUBSET (0 .. n) /\ B # {}
  BY <1>2
<1>4. PICK t \in T : \A u \in T : ~(<<u, t>> \in R)
  <2> HIDE DEF T, B, R
  <2> QED BY <1>1, <1>3, WFMin
<1>5. PICK b \in B : \A u \in B : ~(<<u, b>> \in R)
  <2> HIDE DEF T, B, R
  <2> QED BY <1>1, <1>3, WFMin
<1>6. \E i \in S : \A j \in S : j <= i
  <2>1. PICK i \in S : t = i .. n
    OBVIOUS
  <2>2. ASSUME NEW j \in S, ~(j <= i) PROVE FALSE
    <3>1. i \in Nat /\ j \in Nat /\ i < j /\ j <= n /\ i <= n
      BY <1>2, <2>2
    <3>2. j .. n \subseteq i .. n /\ i \notin j .. n /\ i \in i .. n
      BY <3>1
    <3>3. j .. n \in SUBSET (0 .. n) /\ i .. n \in SUBSET (0 .. n)
      BY <1>2
    <3>4. <<j .. n, t>> \in R
      BY <3>2, <3>3, <2>1 DEF StrictSubsetOrdering
    <3>5. j .. n \in T
      OBVIOUS
    <3> QED BY <3>4, <3>5, <1>4
  <2> QED BY <2>2
<1>7. \E i \in S : \A j \in S : i <= j
  <2>1. PICK i \in S : b = 0 .. i
    OBVIOUS
  <2>2. ASSUME NEW j \in S, ~(i <= j) PROVE FALSE
    <3>1. i \in Nat /\ j \in Nat /\ j < i /\ j <= n /\ i <= n
      BY <1>2, <2>2
    <3>2. 0 .. j \subseteq 0 .. i /\ i \notin 0 .. j /\ i \in 0 .. i
      BY <3>1
    <3>3. 0 .. j \in SUBSET (0 .. n) /\ 0 .. i \in SUBSET (0 .. n)
      BY <1>2
    <3>4. <<0 .. j, b>> \in R
      BY <3>2, <3>3, <2>1 DEF StrictSubsetOrdering
    <3>5. 0 .. j \in B
      OBVIOUS
    <3> QED BY <3>4, <3>5, <1>5
  <2> QED BY <2>2
<1>8. Greatest(S) \in S /\ \A j \in S : j <= Greatest(S)
  BY <1>6 DEF Greatest
<1>9. Least(S) \in S /\ \A j \in S : Least(S) <= j
  BY <1>7 DEF Least
<1> QED BY <1>8, <1>9

\* What goes from each number to the next one holds up to a bound.
LEMMA UpTo ==
  ASSUME NEW n \in Nat, NEW S, 0 \in S, \A i \in 0 .. n : i \in S /\ i < n => i + 1 \in S
  PROVE  \A i \in 0 .. n : i \in S
<1> DEFINE T == {i \in 0 .. n : i \notin S}
<1>1. CASE T # {}
  <2>1. Least(T) \in T /\ \A j \in T : Least(T) <= j
    BY <1>1, BothExist
  <2>2. PICK k \in 0 .. n : k = Least(T) /\ k \notin S
    BY <2>1
  <2>3. k # 0 /\ k - 1 \in 0 .. n /\ k - 1 < n /\ k = (k - 1) + 1
    BY <2>2
  <2>4. k - 1 \notin T
    BY <2>1, <2>2, <2>3
  <2>5. k - 1 \in S
    BY <2>3, <2>4
  <2> QED BY <2>2, <2>3, <2>5
<1> QED BY <1>1

\* What F makes of g at a place only looks at places of a lower rank.
Causal(I, D, rank, F) ==
  \A g, h \in D, x \in I :
    (\A y \in I : rank[y] < rank[x] => g[y] = h[y]) => F[g][x] = F[h][x]

Solved(I, D, F) == \E g \in D : \A x \in I : g[x] = F[g][x]

\* A recursion over such places has a solution: applied over and over, F
\* leaves more and more of them as they are.
LEMMA Recursion ==
  ASSUME NEW I, NEW D, D # {}, NEW M \in Nat, NEW rank \in [I -> 0..M], NEW F \in [D -> D],
         Causal(I, D, rank, F)
  PROVE  Solved(I, D, F)
<1> DEFINE Settled(g, n) == \A x \in I : rank[x] < n => g[x] = F[g][x]
           S == {n \in 0..(M + 1) : \E g \in D : Settled(g, n)}
<1>1. 0 \in S
  <2>1. PICK g \in D : TRUE
    OBVIOUS
  <2>2. Settled(g, 0)
    OBVIOUS
  <2> QED BY <2>2
<1>2. ASSUME NEW n \in 0..(M + 1), n \in S, n < M + 1 PROVE n + 1 \in S
  <2>1. PICK g \in D : Settled(g, n)
    BY <1>2
  <2>2. F[g] \in D
    OBVIOUS
  <2>3. ASSUME NEW x \in I, rank[x] < n + 1 PROVE F[g][x] = F[F[g]][x]
    <3>1. ASSUME NEW y \in I, rank[y] < rank[x] PROVE g[y] = F[g][y]
      <4>1. rank[y] < n
        BY <2>3, <3>1
      <4> QED BY <2>1, <4>1
    <3> QED BY <2>2, <3>1 DEF Causal
  <2>4. Settled(F[g], n + 1)
    BY <2>3
  <2>5. n + 1 \in 0..(M + 1)
    BY <1>2
  <2> HIDE DEF Settled
  <2> QED BY <2>2, <2>4, <2>5
<1>3. M + 1 \in S
  <2> HIDE DEF S
  <2>1. \A i \in 0..(M + 1) : i \in S
    BY <1>1, <1>2, UpTo
  <2> QED BY <2>1
<1>4. PICK g \in D : Settled(g, M + 1)
  BY <1>3
<1> QED BY <1>4 DEF Solved

\* What holds at a place of a text when it holds at the later ones holds at all.
LEMMA FromTheEnd ==
  ASSUME NEW n \in Nat, NEW S, \A p \in 1..n : (\A q \in (p + 1)..n : q \in S) => p \in S
  PROVE  \A p \in 1..n : p \in S
<1> DEFINE U == {p \in 1..n : p \notin S}
<1>1. CASE U # {}
  <2>1. U \subseteq 0..n
    OBVIOUS
  <2>2. Greatest(U) \in U /\ \A j \in U : j <= Greatest(U)
    BY <1>1, <2>1, BothExist
  <2>3. PICK p \in 1..n : p = Greatest(U) /\ p \notin S
    BY <2>2
  <2>4. \A q \in (p + 1)..n : q \in S
    BY <2>2, <2>3
  <2> QED BY <2>3, <2>4
<1> QED BY <1>1

\* The bytes, whose names the provers have to be told apart.
OtherBytes == {"[", "]", ":", "\\", "1", "-", ".", "t", "e", "n", "u", "h", "c", "ctl", "null", "value"}

LEMMA Distinct ==
  /\ Quote # Comma /\ Quote # OpenBrace /\ Quote # CloseBrace
  /\ Comma # OpenBrace /\ Comma # CloseBrace /\ OpenBrace # CloseBrace
  /\ \A a \in {Quote, Comma, OpenBrace, CloseBrace} : a \notin OtherBytes
  BY DEF Quote, Comma, OpenBrace, CloseBrace, OtherBytes

\* The ends of the strings of a text, by what comes next.
StringEnds(s) == CHOOSE end : end = [q \in Places(s) |-> StringEndFrom(s, q, end)]

AreEnds(s, g) ==
  /\ g \in [Places(s) -> 0..(Len(s) + 1)]
  /\ \A q \in Places(s) : g[q] = 0 \/ g[q] > q

LEMMA StringEndsExist ==
  ASSUME NEW T, NEW s \in Seq(T)
  PROVE  /\ \A q \in Places(s) : StringEnd(s, q) = StringEnds(s)[q]
         /\ \A q \in Places(s) : StringEnds(s)[q] = StringEndFrom(s, q, StringEnds(s))
         /\ AreEnds(s, StringEnds(s))
<1> DEFINE n == Len(s)
           P == Places(s)
           D == {g \in [P -> 0..(n + 1)] : AreEnds(s, g)}
           Next1(g) == [q \in P |-> StringEndFrom(s, q, g)]
           F == [g \in D |-> Next1(g)]
           rank == [q \in P |-> n + 1 - q]
<1>1. n \in Nat /\ P = 1..(n + 1)
  BY LenProperties DEF Places
<1>2. D # {}
  <2>1. [q \in P |-> 0] \in [P -> 0..(n + 1)] /\ \A q \in P : [r \in P |-> 0][q] = 0
    BY <1>1
  <2>2. AreEnds(s, [q \in P |-> 0])
    BY <2>1 DEF AreEnds
  <2> QED BY <2>1, <2>2
<1>3. rank \in [P -> 0..n]
  BY <1>1
<1>4. ASSUME NEW g, NEW q \in 1..(n + 1),
             \A r \in (q + 1)..(n + 1) : g[r] \in 0..(n + 1) /\ (g[r] = 0 \/ g[r] > r)
      PROVE  StringEndFrom(s, q, g) \in 0..(n + 1) /\ (StringEndFrom(s, q, g) = 0 \/ StringEndFrom(s, q, g) > q)
  <2>1. CASE q + 1 <= n /\ s[q + 1] = "u" /\ q + 2 <= n
    <3>1. q + 3 \in (q + 1)..(n + 1) /\ q + 1 \in (q + 1)..(n + 1)
      BY <1>1, <2>1
    <3> QED BY <1>1, <1>4, <2>1, <3>1 DEF StringEndFrom, Has
  <2>2. CASE ~(q + 1 <= n /\ s[q + 1] = "u" /\ q + 2 <= n) /\ q <= n
    <3>1. q + 1 \in (q + 1)..(n + 1) /\ (q < n => q + 2 \in (q + 1)..(n + 1))
      BY <1>1, <2>2
    <3> QED BY <1>1, <1>4, <2>2, <3>1 DEF StringEndFrom, Has
  <2>3. CASE q > n
    BY <1>1, <2>3 DEF StringEndFrom
  <2> QED BY <1>1, <2>1, <2>2, <2>3
<1>5. F \in [D -> D]
  <2>1. ASSUME NEW g \in D PROVE Next1(g) \in D
    <3>1. \A r \in 1..(n + 1) : g[r] \in 0..(n + 1) /\ (g[r] = 0 \/ g[r] > r)
      BY <1>1 DEF AreEnds
    <3>2. ASSUME NEW q \in P
          PROVE  StringEndFrom(s, q, g) \in 0..(n + 1) /\ (StringEndFrom(s, q, g) = 0 \/ StringEndFrom(s, q, g) > q)
      <4>1. q \in 1..(n + 1) /\ \A r \in (q + 1)..(n + 1) : r \in 1..(n + 1)
        BY <1>1
      <4> HIDE DEF D
      <4> QED BY <1>4, <3>1, <4>1
    <3>3. Next1(g) \in [P -> 0..(n + 1)] /\ \A q \in P : Next1(g)[q] = 0 \/ Next1(g)[q] > q
      BY <3>2
    <3>4. AreEnds(s, Next1(g))
      BY <3>3 DEF AreEnds
    <3> QED BY <3>3, <3>4
  <2> HIDE DEF Next1, D
  <2> QED BY <2>1
<1>6. Causal(P, D, rank, F)
  <2>1. ASSUME NEW g \in D, NEW h \in D, NEW q \in P, \A r \in P : rank[r] < rank[q] => g[r] = h[r]
        PROVE  F[g][q] = F[h][q]
    <3>1. \A r \in P : r > q => g[r] = h[r]
      BY <1>1, <2>1
    <3>2. q \in 1..(n + 1)
      BY <1>1
    <3> HIDE DEF D, rank
    <3>3. StringEndFrom(s, q, g) = StringEndFrom(s, q, h)
      <4>1. q <= n => g[q + 1] = h[q + 1]
        BY <1>1, <3>1, <3>2
      <4>2. q + 1 <= n => g[q + 2] = h[q + 2]
        BY <1>1, <3>1, <3>2
      <4>3. q + 2 <= n => g[q + 3] = h[q + 3]
        BY <1>1, <3>1, <3>2
      <4> QED BY <1>1, <3>2, <4>1, <4>2, <4>3 DEF StringEndFrom, Has
    <3> QED BY <3>3
  <2> HIDE DEF F, D, rank
  <2> QED BY <2>1 DEF Causal
<1>7. PICK g \in D : \A q \in P : g[q] = F[g][q]
  <2> HIDE DEF F, D, rank, P, n
  <2>1. Solved(P, D, F)
    BY <1>1, <1>2, <1>3, <1>5, <1>6, Recursion
  <2> QED BY <2>1 DEF Solved
<1>8. g = [q \in P |-> StringEndFrom(s, q, g)]
  BY <1>7
<1> DEFINE e == StringEnds(s)
<1>9. e = [q \in P |-> StringEndFrom(s, q, e)]
  <2> HIDE DEF P, D
  <2> QED BY <1>8 DEF StringEnds, P
<1> HIDE DEF e
<1>10. \A q \in P : e[q] = StringEndFrom(s, q, e)
  BY <1>9
<1> DEFINE S == {q \in 1..(n + 1) : e[q] \in 0..(n + 1) /\ (e[q] = 0 \/ e[q] > q)}
<1>11. ASSUME NEW q \in 1..(n + 1), \A r \in (q + 1)..(n + 1) : r \in S PROVE q \in S
  <2>1. \A r \in (q + 1)..(n + 1) : e[r] \in 0..(n + 1) /\ (e[r] = 0 \/ e[r] > r)
    BY <1>11
  <2>2. StringEndFrom(s, q, e) \in 0..(n + 1) /\ (StringEndFrom(s, q, e) = 0 \/ StringEndFrom(s, q, e) > q)
    BY <1>4, <2>1
  <2> QED BY <1>1, <1>10, <2>2
<1>12. \A q \in 1..(n + 1) : q \in S
  <2> HIDE DEF S
  <2>1. n + 1 \in Nat
    BY <1>1
  <2> QED BY <1>11, <2>1, FromTheEnd
<1>13. AreEnds(s, e)
  BY <1>1, <1>9, <1>12 DEF AreEnds
<1>14. \A q \in P : StringEnd(s, q) = e[q]
  BY DEF StringEnd, StringEnds, e
<1> QED BY <1>10, <1>13, <1>14 DEF e

\* Where the strings of a text are over, by what comes next.
Stops(s) == CHOOSE stop : stop = [q \in Places(s) |-> strStopFrom(s, q, stop)]

AreStops(s, g) ==
  /\ g \in [Places(s) -> 1..(Len(s) + 1)]
  /\ \A q \in Places(s) : g[q] >= q

LEMMA StopsExist ==
  ASSUME NEW T, NEW s \in Seq(T)
  PROVE  /\ \A q \in Places(s) : strStop(s, q) = Stops(s)[q]
         /\ \A q \in Places(s) : Stops(s)[q] = strStopFrom(s, q, Stops(s))
         /\ AreStops(s, Stops(s))
<1> DEFINE n == Len(s)
           P == Places(s)
           D == {g \in [P -> 1..(n + 1)] : AreStops(s, g)}
           Next1(g) == [q \in P |-> strStopFrom(s, q, g)]
           F == [g \in D |-> Next1(g)]
           rank == [q \in P |-> n + 1 - q]
<1>1. n \in Nat /\ P = 1..(n + 1)
  BY LenProperties DEF Places
<1>2. D # {}
  <2>1. [q \in P |-> q] \in [P -> 1..(n + 1)] /\ \A q \in P : [r \in P |-> r][q] = q
    BY <1>1
  <2>2. AreStops(s, [q \in P |-> q])
    BY <1>1, <2>1 DEF AreStops
  <2> QED BY <2>1, <2>2
<1>3. rank \in [P -> 0..n]
  BY <1>1
<1>4. ASSUME NEW g, NEW q \in 1..(n + 1),
             \A r \in (q + 1)..(n + 1) : g[r] \in 1..(n + 1) /\ g[r] >= r
      PROVE  strStopFrom(s, q, g) \in 1..(n + 1) /\ strStopFrom(s, q, g) >= q
  <2>1. CASE q + 2 <= n
    <3>1. q + 1 \in (q + 1)..(n + 1) /\ q + 2 \in (q + 1)..(n + 1) /\ q + 3 \in (q + 1)..(n + 1)
      BY <1>1, <2>1
    <3> QED BY <1>1, <1>4, <2>1, <3>1 DEF strStopFrom, Has
  <2>2. CASE q + 1 = n
    <3>1. q + 1 \in (q + 1)..(n + 1) /\ q + 2 \in (q + 1)..(n + 1) /\ q + 2 > n
      BY <1>1, <2>2
    <3>2. s[q + 1] = "u" => Dangling(s, q)
      BY <1>1, <2>2, <3>1 DEF Dangling, Has
    <3> QED BY <1>1, <1>4, <2>2, <3>1, <3>2 DEF strStopFrom
  <2>3. CASE q = n
    <3>1. q + 1 \in (q + 1)..(n + 1) /\ Dangling(s, q)
      BY <1>1, <2>3 DEF Dangling
    <3> QED BY <1>1, <1>4, <2>3, <3>1 DEF strStopFrom
  <2>4. CASE q > n
    BY <1>1, <2>4 DEF strStopFrom
  <2> QED BY <1>1, <2>1, <2>2, <2>3, <2>4
<1>5. F \in [D -> D]
  <2>1. ASSUME NEW g \in D PROVE Next1(g) \in D
    <3>1. \A r \in 1..(n + 1) : g[r] \in 1..(n + 1) /\ g[r] >= r
      BY <1>1 DEF AreStops
    <3>2. ASSUME NEW q \in P
          PROVE  strStopFrom(s, q, g) \in 1..(n + 1) /\ strStopFrom(s, q, g) >= q
      <4>1. q \in 1..(n + 1) /\ \A r \in (q + 1)..(n + 1) : r \in 1..(n + 1)
        BY <1>1
      <4> HIDE DEF D
      <4> QED BY <1>4, <3>1, <4>1
    <3>3. Next1(g) \in [P -> 1..(n + 1)] /\ \A q \in P : Next1(g)[q] >= q
      BY <3>2
    <3>4. AreStops(s, Next1(g))
      BY <3>3 DEF AreStops
    <3> QED BY <3>3, <3>4
  <2> HIDE DEF Next1, D
  <2> QED BY <2>1
<1>6. Causal(P, D, rank, F)
  <2>1. ASSUME NEW g \in D, NEW h \in D, NEW q \in P, \A r \in P : rank[r] < rank[q] => g[r] = h[r]
        PROVE  F[g][q] = F[h][q]
    <3>1. \A r \in P : r > q => g[r] = h[r]
      BY <1>1, <2>1
    <3>2. q \in 1..(n + 1)
      BY <1>1
    <3> HIDE DEF D, rank
    <3>3. strStopFrom(s, q, g) = strStopFrom(s, q, h)
      <4>1. q <= n => g[q + 1] = h[q + 1]
        BY <1>1, <3>1, <3>2
      <4>2. q + 1 <= n => g[q + 2] = h[q + 2]
        BY <1>1, <3>1, <3>2
      <4>3. q + 2 <= n => g[q + 3] = h[q + 3]
        BY <1>1, <3>1, <3>2
      <4> QED BY <1>1, <3>2, <4>1, <4>2, <4>3 DEF strStopFrom, Has, Dangling
    <3> QED BY <3>3
  <2> HIDE DEF F, D, rank
  <2> QED BY <2>1 DEF Causal
<1>7. PICK g \in D : \A q \in P : g[q] = F[g][q]
  <2> HIDE DEF F, D, rank, P, n
  <2>1. Solved(P, D, F)
    BY <1>1, <1>2, <1>3, <1>5, <1>6, Recursion
  <2> QED BY <2>1 DEF Solved
<1>8. g = [q \in P |-> strStopFrom(s, q, g)]
  BY <1>7
<1> DEFINE e == Stops(s)
<1>9. e = [q \in P |-> strStopFrom(s, q, e)]
  <2> HIDE DEF P, D
  <2> QED BY <1>8 DEF Stops, P
<1> HIDE DEF e
<1>10. \A q \in P : e[q] = strStopFrom(s, q, e)
  BY <1>9
<1> DEFINE S == {q \in 1..(n + 1) : e[q] \in 1..(n + 1) /\ e[q] >= q}
<1>11. ASSUME NEW q \in 1..(n + 1), \A r \in (q + 1)..(n + 1) : r \in S PROVE q \in S
  <2>1. \A r \in (q + 1)..(n + 1) : e[r] \in 1..(n + 1) /\ e[r] >= r
    BY <1>11
  <2>2. strStopFrom(s, q, e) \in 1..(n + 1) /\ strStopFrom(s, q, e) >= q
    BY <1>4, <2>1
  <2> QED BY <1>1, <1>10, <2>2
<1>12. \A q \in 1..(n + 1) : q \in S
  <2> HIDE DEF S
  <2>1. n + 1 \in Nat
    BY <1>1
  <2> QED BY <1>11, <2>1, FromTheEnd
<1>13. AreStops(s, e)
  BY <1>1, <1>9, <1>12 DEF AreStops
<1>14. \A q \in P : strStop(s, q) = e[q]
  BY DEF strStop, Stops, e
<1> QED BY <1>10, <1>13, <1>14 DEF e

\* The end of a run is where its bytes are no longer of B.
IsRunEnd(s, p, B, q) ==
  /\ q \in p..(Len(s) + 1)
  /\ \A i \in p..(q - 1) : s[i] \in B
  /\ q <= Len(s) => s[q] \notin B

LEMMA RunEndIs ==
  ASSUME NEW T, NEW s \in Seq(T), NEW B, NEW p \in Places(s)
  PROVE  /\ IsRunEnd(s, p, B, RunEnd(s, p, B))
         /\ \A q : IsRunEnd(s, p, B, q) => RunEnd(s, p, B) = q
<1>1. Len(s) \in Nat /\ p \in 1..(Len(s) + 1)
  BY LenProperties DEF Places
<1> DEFINE U == {q \in p..(Len(s) + 1) : q <= Len(s) => s[q] \notin B}
<1>2. U \subseteq 0..(Len(s) + 1) /\ Len(s) + 1 \in U
  BY <1>1
<1>3. Least(U) \in U /\ \A j \in U : Least(U) <= j
  <2>1. U # {} /\ Len(s) + 1 \in Nat
    BY <1>1, <1>2
  <2> HIDE DEF U
  <2> QED BY <1>2, <2>1, BothExist
<1>4. PICK q \in p..(Len(s) + 1) : q = Least(U) /\ (q <= Len(s) => s[q] \notin B)
  BY <1>3
<1>5. \A i \in p..(q - 1) : s[i] \in B
  <2>1. ASSUME NEW i \in p..(q - 1), s[i] \notin B PROVE FALSE
    <3>1. i \in p..(Len(s) + 1) /\ ~(q <= i)
      BY <1>1, <1>4
    <3>2. i \in U
      BY <2>1, <3>1
    <3> QED BY <1>3, <1>4, <3>1, <3>2
  <2> QED BY <2>1
<1>6. RunEnd(s, p, B) \in p..(Len(s) + 1) /\ (\A i \in p..(RunEnd(s, p, B) - 1) : s[i] \in B)
      /\ (RunEnd(s, p, B) <= Len(s) => s[RunEnd(s, p, B)] \notin B)
  BY <1>4, <1>5 DEF RunEnd
<1>7. ASSUME NEW r, NEW t, IsRunEnd(s, p, B, r), IsRunEnd(s, p, B, t) PROVE ~(r < t)
  BY <1>1, <1>7 DEF IsRunEnd
<1>8. ASSUME NEW r, IsRunEnd(s, p, B, r) PROVE RunEnd(s, p, B) = r
  <2>1. IsRunEnd(s, p, B, RunEnd(s, p, B))
    BY <1>6 DEF IsRunEnd
  <2>2. r \in Int /\ RunEnd(s, p, B) \in Int
    BY <1>1, <1>6, <1>8 DEF IsRunEnd
  <2>3. ~(r < RunEnd(s, p, B)) /\ ~(RunEnd(s, p, B) < r)
    BY <1>7, <1>8, <2>1
  <2> QED BY <2>2, <2>3
<1> QED BY <1>6, <1>8 DEF IsRunEnd

\* The two texts have the same bytes from a to b.
Agree(s, t, a, b) == \A i \in a..b : i \in 1..Len(s) /\ i \in 1..Len(t) /\ s[i] = t[i]

\* What StringEnd says of a place, by its byte.
StringEndStep(s, q) ==
  /\ StringEnd(s, q) \in {0} \cup (q + 1)..(Len(s) + 1)
  /\ q > Len(s) => StringEnd(s, q) = 0
  /\ q <= Len(s) /\ s[q] = "ctl" => StringEnd(s, q) = 0
  /\ q <= Len(s) /\ s[q] = Quote => StringEnd(s, q) = q + 1
  /\ q <= Len(s) /\ s[q] \notin {"ctl", Quote, "\\"} => StringEnd(s, q) = StringEnd(s, q + 1)
  /\ q <= Len(s) /\ s[q] = "\\" =>
       IF q < Len(s) /\ s[q + 1] = "u"
       THEN StringEnd(s, q) = IF q + 2 <= Len(s) /\ s[q + 2] = "h" THEN StringEnd(s, q + 3) ELSE 0
       ELSE StringEnd(s, q) = IF q < Len(s) /\ s[q + 1] \in Escapable THEN StringEnd(s, q + 2) ELSE 0

LEMMA StringEndSteps ==
  ASSUME NEW T, NEW s \in Seq(T), NEW q \in Places(s)
  PROVE  StringEndStep(s, q)
<1>1. Len(s) \in Nat /\ q \in 1..(Len(s) + 1) /\ Places(s) = 1..(Len(s) + 1)
  BY LenProperties DEF Places
<1> DEFINE e == StringEnds(s)
<1>2. /\ \A r \in 1..(Len(s) + 1) : StringEnd(s, r) = e[r]
      /\ e[q] = StringEndFrom(s, q, e)
      /\ e[q] \in 0..(Len(s) + 1) /\ (e[q] = 0 \/ e[q] > q)
  BY <1>1, StringEndsExist DEF AreEnds
<1> HIDE DEF e
<1>3. StringEnd(s, q) = StringEndFrom(s, q, e) /\ StringEnd(s, q) \in {0} \cup (q + 1)..(Len(s) + 1)
  BY <1>1, <1>2
<1>4. Quote # "\\" /\ Quote # "ctl"
  BY DEF Quote
<1>5. CASE q > Len(s)
  BY <1>1, <1>3, <1>5 DEF StringEndFrom, StringEndStep
<1>6. CASE q <= Len(s) /\ s[q] # "\\"
  <2>1. e[q + 1] = StringEnd(s, q + 1)
    BY <1>1, <1>2, <1>6
  <2> QED BY <1>1, <1>3, <1>4, <1>6, <2>1 DEF StringEndFrom, StringEndStep
<1>7. CASE q <= Len(s) /\ s[q] = "\\"
  <2>1. /\ q + 1 <= Len(s) => e[q + 2] = StringEnd(s, q + 2)
        /\ q + 2 <= Len(s) => e[q + 3] = StringEnd(s, q + 3)
    BY <1>1, <1>2
  <2>2. (q + 1 <= Len(s)) = (q < Len(s))
    BY <1>1
  <2> QED BY <1>1, <1>3, <1>4, <1>7, <2>1, <2>2 DEF StringEndFrom, StringEndStep, Has
<1> QED BY <1>1, <1>5, <1>6, <1>7

\* What strStop says of a place, by its byte.
StopStep(s, q) ==
  /\ strStop(s, q) \in q..(Len(s) + 1)
  /\ q > Len(s) => strStop(s, q) = q
  /\ q <= Len(s) /\ s[q] = Quote => strStop(s, q) = q
  /\ q <= Len(s) /\ s[q] \notin {Quote, "\\"} => strStop(s, q) = strStop(s, q + 1)
  /\ q <= Len(s) /\ s[q] = "\\" /\ Dangling(s, q) => strStop(s, q) = q
  /\ q <= Len(s) /\ s[q] = "\\" /\ ~Dangling(s, q) =>
       IF s[q + 1] = "u" THEN q + 3 <= Len(s) + 1 /\ strStop(s, q) = strStop(s, q + 3)
       ELSE q + 2 <= Len(s) + 1 /\ strStop(s, q) = strStop(s, q + 2)

LEMMA StopSteps ==
  ASSUME NEW T, NEW s \in Seq(T), NEW q \in Places(s)
  PROVE  StopStep(s, q)
<1>1. Len(s) \in Nat /\ q \in 1..(Len(s) + 1) /\ Places(s) = 1..(Len(s) + 1)
  BY LenProperties DEF Places
<1> DEFINE e == Stops(s)
<1>2. /\ \A r \in 1..(Len(s) + 1) : strStop(s, r) = e[r]
      /\ e[q] = strStopFrom(s, q, e)
      /\ e[q] \in q..(Len(s) + 1)
  BY <1>1, StopsExist DEF AreStops
<1> HIDE DEF e
<1>3. strStop(s, q) = strStopFrom(s, q, e) /\ strStop(s, q) \in q..(Len(s) + 1)
  BY <1>1, <1>2
<1>4. Quote # "\\"
  BY DEF Quote
<1>5. CASE q > Len(s)
  BY <1>1, <1>3, <1>5 DEF strStopFrom, StopStep
<1>6. CASE q <= Len(s) /\ (s[q] # "\\" \/ Dangling(s, q))
  <2>1. e[q + 1] = strStop(s, q + 1)
    BY <1>1, <1>2, <1>6
  <2> QED BY <1>1, <1>3, <1>4, <1>6, <2>1 DEF strStopFrom, StopStep
<1>7. CASE q <= Len(s) /\ s[q] = "\\" /\ ~Dangling(s, q)
  <2>1. q + 1 <= Len(s) /\ (s[q + 1] = "u" => q + 2 <= Len(s))
    BY <1>1, <1>7 DEF Dangling, Has
  <2>2. /\ q + 2 <= Len(s) + 1 /\ e[q + 2] = strStop(s, q + 2)
        /\ s[q + 1] = "u" => q + 3 <= Len(s) + 1 /\ e[q + 3] = strStop(s, q + 3)
    BY <1>1, <1>2, <2>1
  <2> QED BY <1>1, <1>3, <1>4, <1>7, <2>1, <2>2 DEF strStopFrom, StopStep
<1> QED BY <1>1, <1>5, <1>6, <1>7

\* A string that is there whole: the parser finds the end that it has.
WholeString(s, r, p) ==
  /\ StringEnd(r, p) - 1 \in p..Len(r) /\ r[StringEnd(r, p) - 1] = Quote
  /\ StringEnd(s, p) = StringEnd(r, p)
  /\ strStop(s, p) = StringEnd(r, p) - 1

LEMMA WholeStrings ==
  ASSUME NEW T, NEW s \in Seq(T), NEW r \in Seq(T), NEW p \in Places(r),
         StringEnd(r, p) # 0, Agree(s, r, p, StringEnd(r, p) - 1)
  PROVE  WholeString(s, r, p)
<1> DEFINE n == Len(r)
           e(q) == StringEnd(r, q)
           S == {q \in 1..(n + 1) : e(q) # 0 /\ Agree(s, r, q, e(q) - 1) => WholeString(s, r, q)}
<1>1. n \in Nat /\ Len(s) \in Nat /\ Places(r) = 1..(n + 1) /\ Places(s) = 1..(Len(s) + 1)
  BY LenProperties DEF Places
<1>2. ASSUME NEW q \in 1..(n + 1), \A i \in (q + 1)..(n + 1) : i \in S PROVE q \in S
  <2> SUFFICES ASSUME e(q) # 0, Agree(s, r, q, e(q) - 1) PROVE WholeString(s, r, q)
    OBVIOUS
  <2>1. StringEndStep(r, q)
    BY <1>1, StringEndSteps
  <2>2. e(q) \in (q + 1)..(n + 1) /\ q <= n /\ r[q] # "ctl"
    BY <1>1, <2>1 DEF StringEndStep
  <2>3. \A i \in q..(e(q) - 1) : i \in 1..Len(s) /\ s[i] = r[i]
    BY DEF Agree
  <2>4. q \in 1..Len(s) /\ s[q] = r[q]
    BY <1>1, <2>2, <2>3
  <2>5. StringEndStep(s, q) /\ StopStep(s, q)
    <3>1. q \in Places(s)
      BY <1>1, <2>4
    <3> QED BY <3>1, StringEndSteps, StopSteps
  <2>6. ASSUME NEW i \in (q + 1)..(n + 1), e(q) = e(i)
        PROVE  WholeString(s, r, i) /\ i < e(q)
    <3>1. Agree(s, r, i, e(i) - 1)
      BY <1>1, <2>2, <2>6 DEF Agree
    <3>2. WholeString(s, r, i)
      BY <1>2, <2>6, <3>1
    <3> QED BY <1>1, <2>2, <2>6, <3>2 DEF WholeString
  <2> HIDE DEF S
  <2>7. CASE r[q] = Quote
    BY <1>1, <2>1, <2>2, <2>4, <2>5, <2>7 DEF StringEndStep, StopStep, WholeString
  <2>8. CASE r[q] \notin {Quote, "\\"}
    <3>1. e(q) = e(q + 1) /\ StringEnd(s, q) = StringEnd(s, q + 1) /\ strStop(s, q) = strStop(s, q + 1)
      BY <2>1, <2>2, <2>4, <2>5, <2>8 DEF StringEndStep, StopStep
    <3>2. WholeString(s, r, q + 1)
      BY <1>1, <2>2, <2>6, <3>1
    <3> QED BY <1>1, <2>2, <3>1, <3>2 DEF WholeString
  <2>9. CASE r[q] = "\\" /\ q < n /\ r[q + 1] = "u"
    <3>1. q + 2 <= n /\ r[q + 2] = "h" /\ e(q) = e(q + 3)
      BY <1>1, <2>1, <2>2, <2>9 DEF StringEndStep
    <3>2. WholeString(s, r, q + 3) /\ q + 3 < e(q)
      BY <1>1, <2>2, <2>6, <3>1
    <3>3. q + 1 \in q..(e(q) - 1) /\ q + 2 \in q..(e(q) - 1)
      BY <1>1, <2>2, <3>2
    <3>4. q + 2 <= Len(s) /\ s[q] = "\\" /\ s[q + 1] = "u" /\ s[q + 2] = "h"
      BY <1>1, <2>3, <2>4, <2>9, <3>1, <3>3
    <3>5. ~Dangling(s, q) /\ q <= Len(s) /\ q < Len(s)
      BY <1>1, <2>4, <3>4 DEF Dangling
    <3>6. StringEnd(s, q) = StringEnd(s, q + 3) /\ strStop(s, q) = strStop(s, q + 3)
      BY <2>5, <3>4, <3>5 DEF StringEndStep, StopStep
    <3> QED BY <1>1, <2>2, <3>1, <3>2, <3>6 DEF WholeString
  <2>10. CASE r[q] = "\\" /\ ~(q < n /\ r[q + 1] = "u")
    <3>1. q < n /\ r[q + 1] \in Escapable /\ e(q) = e(q + 2)
      BY <1>1, <2>1, <2>2, <2>10 DEF StringEndStep
    <3>2. WholeString(s, r, q + 2) /\ q + 2 < e(q)
      BY <1>1, <2>2, <2>6, <3>1
    <3>3. q + 1 \in q..(e(q) - 1)
      BY <1>1, <2>2, <3>2
    <3>4. q + 1 <= Len(s) /\ s[q] = "\\" /\ s[q + 1] # "u" /\ s[q + 1] \in Escapable
      BY <1>1, <2>3, <2>4, <2>10, <3>1, <3>3
    <3>5. ~Dangling(s, q) /\ q <= Len(s) /\ q < Len(s)
      BY <1>1, <2>4, <3>4 DEF Dangling, Has
    <3>6. StringEnd(s, q) = StringEnd(s, q + 2) /\ strStop(s, q) = strStop(s, q + 2)
      BY <2>5, <3>4, <3>5 DEF StringEndStep, StopStep
    <3> QED BY <1>1, <2>2, <3>1, <3>2, <3>6 DEF WholeString
  <2> QED BY <2>7, <2>8, <2>9, <2>10
<1>3. \A q \in 1..(n + 1) : q \in S
  <2> HIDE DEF S
  <2>1. n + 1 \in Nat
    BY <1>1
  <2> QED BY <1>2, <2>1, FromTheEnd
<1> QED BY <1>1, <1>3

\* A string that is cut is over where only what began an escape is left,
\* and a quote there makes a string of it.
CutString(T, s, p) ==
  /\ strStop(s, p) \in p..(Len(s) + 1) /\ ~Has(s, strStop(s, p), Quote)
  /\ \A i \in strStop(s, p)..Len(s) : s[i] \in {"\\", "u"}
  /\ \A x \in Seq(T) : Agree(x, s, p, strStop(s, p) - 1) /\ Has(x, strStop(s, p), Quote) =>
       StringEnd(x, p) = strStop(s, p) + 1

LEMMA CutStrings ==
  ASSUME NEW T, NEW s \in Seq(T), NEW r \in Seq(T), NEW p \in Places(s),
         StringEnd(r, p) > Len(s) + 1, Len(s) < Len(r), Agree(s, r, p, Len(s))
  PROVE  CutString(T, s, p)
<1> DEFINE n == Len(s)
           e(q) == StringEnd(r, q)
           S == {q \in 1..(n + 1) : e(q) > n + 1 /\ Agree(s, r, q, n) => CutString(T, s, q)}
<1>1. n \in Nat /\ Len(r) \in Nat /\ Places(s) = 1..(n + 1) /\ Places(r) = 1..(Len(r) + 1)
  BY LenProperties DEF Places
<1>2. ASSUME NEW q \in 1..(n + 1), \A i \in (q + 1)..(n + 1) : i \in S PROVE q \in S
  <2> SUFFICES ASSUME e(q) > n + 1, Agree(s, r, q, n) PROVE CutString(T, s, q)
    OBVIOUS
  <2>1. StringEndStep(r, q) /\ StopStep(s, q)
    BY <1>1, StringEndSteps, StopSteps
  <2>2. q <= n => s[q] = r[q] /\ q <= Len(r) /\ r[q] # "ctl" /\ r[q] # Quote
    BY <1>1, <2>1 DEF Agree, StringEndStep
  <2>3. \A i \in q..n : s[i] = r[i]
    BY DEF Agree
  <2>4. ASSUME NEW i \in (q + 1)..(n + 1), e(q) = e(i) PROVE CutString(T, s, i)
    <3>1. Agree(s, r, i, n)
      BY <1>1 DEF Agree
    <3> QED BY <1>2, <2>4, <3>1
  <2> HIDE DEF S
  <2>5. ASSUME strStop(s, q) = q, ~Has(s, q, Quote), \A i \in q..n : s[i] \in {"\\", "u"}
        PROVE  CutString(T, s, q)
    <3>1. ASSUME NEW x \in Seq(T), Has(x, q, Quote) PROVE StringEnd(x, q) = q + 1
      <4>1. Len(x) \in Nat /\ q \in Places(x)
        BY <1>1, <3>1, LenProperties DEF Places, Has
      <4>2. StringEndStep(x, q)
        BY <4>1, StringEndSteps
      <4> QED BY <3>1, <4>2 DEF StringEndStep, Has
    <3> QED BY <1>1, <2>5, <3>1 DEF CutString
  <2>6. ASSUME NEW i \in (q + 1)..(n + 1), e(q) = e(i), strStop(s, q) = strStop(s, i),
               \A x \in Seq(T) : Agree(x, s, q, i - 1) => StringEnd(x, q) = StringEnd(x, i)
        PROVE  CutString(T, s, q)
    <3>1. CutString(T, s, i)
      BY <2>4, <2>6
    <3> DEFINE t == strStop(s, q)
    <3>2. t \in i..(n + 1) /\ ~Has(s, t, Quote) /\ \A j \in t..n : s[j] \in {"\\", "u"}
      BY <2>6, <3>1 DEF CutString
    <3>3. ASSUME NEW x \in Seq(T), Agree(x, s, q, t - 1), Has(x, t, Quote) PROVE StringEnd(x, q) = t + 1
      <4>1. Agree(x, s, q, i - 1) /\ Agree(x, s, i, t - 1)
        BY <1>1, <3>2, <3>3 DEF Agree
      <4>2. StringEnd(x, i) = t + 1
        BY <2>6, <3>1, <3>3, <4>1 DEF CutString
      <4> QED BY <2>6, <4>1, <4>2
    <3> QED BY <1>1, <3>2, <3>3 DEF CutString
  <2>7. CASE q = n + 1
    BY <1>1, <2>1, <2>5, <2>7 DEF StopStep, Has
  <2>8. CASE q <= n /\ r[q] # "\\"
    <3>1. e(q) = e(q + 1) /\ strStop(s, q) = strStop(s, q + 1)
      BY <1>1, <2>1, <2>2, <2>8 DEF StringEndStep, StopStep
    <3>2. ASSUME NEW x \in Seq(T), Agree(x, s, q, q + 1 - 1) PROVE StringEnd(x, q) = StringEnd(x, q + 1)
      <4>1. q <= Len(x) /\ x[q] = r[q] /\ q \in Places(x)
        <5>1. q \in q..(q + 1 - 1)
          BY <1>1
        <5> QED BY <1>1, <2>2, <2>8, <3>2, <5>1, LenProperties DEF Agree, Places
      <4>2. StringEndStep(x, q)
        BY <4>1, StringEndSteps
      <4> QED BY <2>2, <2>8, <4>1, <4>2 DEF StringEndStep
    <3> QED BY <1>1, <2>6, <2>8, <3>1, <3>2
  <2>9. CASE q <= n /\ r[q] = "\\" /\ Dangling(s, q)
    <3>1. strStop(s, q) = q /\ Quote # "\\"
      BY <2>1, <2>2, <2>9 DEF StopStep, Quote
    <3>2. ~Has(s, q, Quote)
      BY <2>2, <2>9, <3>1 DEF Has
    <3>3. \A i \in q..n : s[i] \in {"\\", "u"}
      BY <1>1, <2>2, <2>9 DEF Dangling, Has
    <3> QED BY <2>5, <3>1, <3>2, <3>3
  <2>10. CASE q <= n /\ r[q] = "\\" /\ ~Dangling(s, q) /\ s[q + 1] = "u"
    <3>1. q + 2 <= n
      BY <1>1, <2>10 DEF Dangling, Has
    <3>2. s[q] = "\\" /\ r[q + 1] = "u" /\ s[q + 2] = r[q + 2]
      BY <1>1, <2>2, <2>3, <2>10, <3>1
    <3>3. r[q + 2] = "h" /\ e(q) = e(q + 3) /\ strStop(s, q) = strStop(s, q + 3)
      BY <1>1, <2>1, <2>2, <2>10, <3>1, <3>2 DEF StringEndStep, StopStep
    <3>4. ASSUME NEW x \in Seq(T), Agree(x, s, q, q + 3 - 1) PROVE StringEnd(x, q) = StringEnd(x, q + 3)
      <4>1. q \in q..(q + 3 - 1) /\ q + 1 \in q..(q + 3 - 1) /\ q + 2 \in q..(q + 3 - 1)
        BY <1>1
      <4>2. q + 2 <= Len(x) /\ x[q] = "\\" /\ x[q + 1] = "u" /\ x[q + 2] = "h"
        BY <1>1, <2>2, <2>10, <3>2, <3>3, <3>4, <4>1 DEF Agree
      <4>3. Len(x) \in Nat /\ q \in Places(x) /\ q <= Len(x) /\ q < Len(x)
        BY <1>1, <4>2, LenProperties DEF Places
      <4>4. StringEndStep(x, q)
        BY <4>3, StringEndSteps
      <4> QED BY <4>2, <4>3, <4>4 DEF StringEndStep
    <3>5. q + 3 \in (q + 1)..(n + 1)
      BY <1>1, <3>1
    <3> QED BY <2>6, <3>3, <3>4, <3>5
  <2>11. CASE q <= n /\ r[q] = "\\" /\ ~Dangling(s, q) /\ s[q + 1] # "u"
    <3>1. q + 1 <= n
      BY <1>1, <2>11 DEF Dangling
    <3>2. s[q] = "\\" /\ r[q + 1] = s[q + 1]
      BY <1>1, <2>2, <2>3, <2>11, <3>1
    <3>3. r[q + 1] \in Escapable /\ e(q) = e(q + 2) /\ strStop(s, q) = strStop(s, q + 2)
      BY <1>1, <2>1, <2>2, <2>11, <3>1, <3>2 DEF StringEndStep, StopStep
    <3>4. ASSUME NEW x \in Seq(T), Agree(x, s, q, q + 2 - 1) PROVE StringEnd(x, q) = StringEnd(x, q + 2)
      <4>1. q \in q..(q + 2 - 1) /\ q + 1 \in q..(q + 2 - 1)
        BY <1>1
      <4>2. q + 1 <= Len(x) /\ x[q] = "\\" /\ x[q + 1] = s[q + 1]
        BY <1>1, <2>2, <2>11, <3>2, <3>4, <4>1 DEF Agree
      <4>3. Len(x) \in Nat /\ q \in Places(x) /\ q <= Len(x) /\ q < Len(x)
        BY <1>1, <4>2, LenProperties DEF Places
      <4>4. StringEndStep(x, q)
        BY <4>3, StringEndSteps
      <4> QED BY <2>11, <3>2, <3>3, <4>2, <4>3, <4>4 DEF StringEndStep
    <3>5. q + 2 \in (q + 1)..(n + 1)
      BY <1>1, <3>1
    <3> QED BY <2>6, <3>3, <3>4, <3>5
  <2> QED BY <1>1, <2>7, <2>8, <2>9, <2>10, <2>11
<1>3. \A q \in 1..(n + 1) : q \in S
  <2> HIDE DEF S
  <2>1. n + 1 \in Nat
    BY <1>1
  <2> QED BY <1>2, <2>1, FromTheEnd
<1> QED BY <1>1, <1>3

\* The bytes of s are those of r up to c.  The next one escapes nothing and
\* in r there is a backslash instead: what Repair does at the first byte it
\* changes.
Diverts(s, r, c) ==
  /\ c \in Nat /\ c < Len(s) /\ c < Len(r)
  /\ r[c + 1] = "\\" /\ s[c + 1] \notin Escapable

\* A string of r that is not over there is not over in s either.
LEMMA DivertedStrings ==
  ASSUME NEW T, NEW s \in Seq(T), NEW r \in Seq(T), NEW c, Diverts(s, r, c), NEW p \in 1..(c + 1),
         StringEnd(r, p) > c + 1, Agree(s, r, p, c)
  PROVE  strStop(s, p) > c + 1
<1> DEFINE e(q) == StringEnd(r, q)
           S == {q \in 1..(c + 1) : e(q) > c + 1 /\ Agree(s, r, q, c) => strStop(s, q) > c + 1}
<1>1. /\ Len(s) \in Nat /\ Len(r) \in Nat /\ c \in Nat /\ c < Len(s) /\ c < Len(r)
      /\ Places(s) = 1..(Len(s) + 1) /\ Places(r) = 1..(Len(r) + 1)
  BY LenProperties DEF Places, Diverts
<1>2. r[c + 1] = "\\" /\ s[c + 1] \notin {Quote, "\\", "u"}
  BY DEF Diverts, Escapable
<1>3. ASSUME NEW q \in 1..(c + 1), \A i \in (q + 1)..(c + 1) : i \in S PROVE q \in S
  <2> SUFFICES ASSUME e(q) > c + 1, Agree(s, r, q, c) PROVE strStop(s, q) > c + 1
    OBVIOUS
  <2>1. StringEndStep(r, q) /\ StopStep(s, q) /\ q <= Len(s) /\ q <= Len(r)
    BY <1>1, StringEndSteps, StopSteps
  <2>2. \A i \in q..c : s[i] = r[i]
    BY DEF Agree
  <2>3. ASSUME NEW i \in (q + 1)..(c + 1), e(q) = e(i) PROVE strStop(s, i) > c + 1
    <3>1. Agree(s, r, i, c)
      BY <1>1 DEF Agree
    <3> QED BY <1>3, <2>3, <3>1
  <2> HIDE DEF S
  <2>4. CASE q = c + 1
    <3>1. strStop(s, q) = strStop(s, q + 1)
      BY <1>1, <1>2, <2>1, <2>4 DEF StopStep
    <3>2. StopStep(s, q + 1)
      <4>1. q + 1 \in Places(s)
        BY <1>1, <2>4
      <4> QED BY <4>1, StopSteps
    <3> QED BY <1>1, <2>4, <3>1, <3>2 DEF StopStep
  <2>5. CASE q <= c /\ r[q] # "\\"
    <3>1. s[q] = r[q] /\ r[q] # Quote /\ r[q] # "ctl"
      BY <1>1, <2>1, <2>2, <2>5 DEF StringEndStep
    <3>2. e(q) = e(q + 1) /\ strStop(s, q) = strStop(s, q + 1)
      BY <2>1, <2>5, <3>1 DEF StringEndStep, StopStep
    <3> QED BY <1>1, <2>3, <2>5, <3>2
  <2>6. CASE q = c /\ r[q] = "\\"
    <3>1. s[q] = "\\" /\ s[q + 1] # "u" /\ ~Dangling(s, q)
      BY <1>1, <1>2, <2>2, <2>6 DEF Dangling, Has
    <3>2. strStop(s, q) = strStop(s, q + 2) /\ q + 2 <= Len(s) + 1
      BY <2>1, <3>1 DEF StopStep
    <3>3. StopStep(s, q + 2)
      <4>1. q + 2 \in Places(s)
        BY <1>1, <2>6, <3>2
      <4> QED BY <4>1, StopSteps
    <3> QED BY <1>1, <2>6, <3>2, <3>3 DEF StopStep
  <2>7. CASE q < c /\ r[q] = "\\" /\ r[q + 1] = "u"
    <3>1. q < Len(r) /\ r[q + 2] = "h" /\ e(q) = e(q + 3)
      BY <1>1, <2>1, <2>7 DEF StringEndStep
    <3>2. q + 2 <= c
      BY <1>1, <1>2, <2>7, <3>1
    <3>3. s[q] = "\\" /\ s[q + 1] = "u" /\ ~Dangling(s, q)
      BY <1>1, <2>2, <2>7, <3>2 DEF Dangling
    <3>4. strStop(s, q) = strStop(s, q + 3)
      BY <2>1, <3>3 DEF StopStep
    <3>5. q + 3 \in (q + 1)..(c + 1)
      BY <1>1, <3>2
    <3> QED BY <2>3, <3>1, <3>4, <3>5
  <2>8. CASE q < c /\ r[q] = "\\" /\ r[q + 1] # "u"
    <3>1. q < Len(r) /\ e(q) = e(q + 2)
      BY <1>1, <2>1, <2>8 DEF StringEndStep
    <3>2. s[q] = "\\" /\ s[q + 1] # "u" /\ ~Dangling(s, q)
      BY <1>1, <2>2, <2>8 DEF Dangling, Has
    <3>3. strStop(s, q) = strStop(s, q + 2)
      BY <2>1, <3>2 DEF StopStep
    <3>4. q + 2 \in (q + 1)..(c + 1)
      BY <1>1, <2>8
    <3> QED BY <2>3, <3>1, <3>3, <3>4
  <2> QED BY <1>1, <2>4, <2>5, <2>6, <2>7, <2>8
<1>4. \A q \in 1..(c + 1) : q \in S
  <2> HIDE DEF S
  <2>1. c + 1 \in Nat
    BY <1>1
  <2> QED BY <1>3, <2>1, FromTheEnd
<1> QED BY <1>4

\* What Repair makes of a text from a place on, within a string or not.
Mendings(s) == CHOOSE from : from = [at \in Places(s) \X BOOLEAN |-> RepairFrom(s, at[1], at[2], from)]
Mended(s, p, b) == Mendings(s)[<<p, b>>]

MendStep(s, p, b) ==
  IF p > Len(s) THEN Mended(s, p, b) = <<>>
  ELSE IF s[p] = Quote THEN Mended(s, p, b) = <<Quote>> \o Mended(s, p + 1, ~b)
  ELSE IF b /\ s[p] = "ctl" THEN Mended(s, p, b) = <<"\\", "n">> \o Mended(s, p + 1, TRUE)
  ELSE IF ~b \/ s[p] # "\\" \/ p = Len(s) THEN Mended(s, p, b) = <<s[p]>> \o Mended(s, p + 1, b)
  ELSE IF s[p + 1] \in Escapable THEN Mended(s, p, b) = <<"\\", s[p + 1]>> \o Mended(s, p + 2, TRUE)
  ELSE Mended(s, p, b) = <<"\\", "\\">> \o Mended(s, p + 1, TRUE)

LEMMA OneByte ==
  ASSUME NEW T, NEW a \in T, NEW t \in Seq(T)
  PROVE  /\ <<a>> \o t \in Seq(T) /\ Len(<<a>> \o t) = Len(t) + 1
         /\ (<<a>> \o t)[1] = a
         /\ \A i \in 1..Len(t) : (<<a>> \o t)[i + 1] = t[i]
<1>1. <<a>> \in Seq(T) /\ Len(<<a>>) = 1 /\ <<a>>[1] = a
  OBVIOUS
<1> DEFINE x == <<a>>
<1> HIDE DEF x
<1>2. x \in Seq(T) /\ Len(x) = 1 /\ x[1] = a
  BY <1>1 DEF x
<1>3. /\ x \o t \in Seq(T) /\ Len(x \o t) = Len(x) + Len(t)
      /\ \A i \in 1..(Len(x) + Len(t)) : (x \o t)[i] = IF i <= Len(x) THEN x[i] ELSE t[i - Len(x)]
  BY <1>2, ConcatProperties
<1>4. Len(t) \in Nat
  BY LenProperties
<1>5. (x \o t)[1] = a
  BY <1>2, <1>3, <1>4
<1>6. ASSUME NEW i \in 1..Len(t) PROVE (x \o t)[i + 1] = t[i]
  <2>1. i + 1 \in 1..(Len(x) + Len(t)) /\ ~(i + 1 <= Len(x)) /\ (i + 1) - Len(x) = i
    BY <1>2, <1>4
  <2> QED BY <1>3, <2>1
<1> QED BY <1>2, <1>3, <1>4, <1>5, <1>6 DEF x

LEMMA TwoBytes ==
  ASSUME NEW T, NEW a \in T, NEW b \in T, NEW t \in Seq(T)
  PROVE  /\ <<a, b>> \o t \in Seq(T) /\ Len(<<a, b>> \o t) = Len(t) + 2
         /\ (<<a, b>> \o t)[1] = a /\ (<<a, b>> \o t)[2] = b
         /\ \A i \in 1..Len(t) : (<<a, b>> \o t)[i + 2] = t[i]
<1>1. <<a, b>> \in Seq(T) /\ Len(<<a, b>>) = 2 /\ <<a, b>>[1] = a /\ <<a, b>>[2] = b
  OBVIOUS
<1> DEFINE x == <<a, b>>
<1> HIDE DEF x
<1>2. x \in Seq(T) /\ Len(x) = 2 /\ x[1] = a /\ x[2] = b
  BY <1>1 DEF x
<1>3. /\ x \o t \in Seq(T) /\ Len(x \o t) = Len(x) + Len(t)
      /\ \A i \in 1..(Len(x) + Len(t)) : (x \o t)[i] = IF i <= Len(x) THEN x[i] ELSE t[i - Len(x)]
  BY <1>2, ConcatProperties
<1>4. Len(t) \in Nat
  BY LenProperties
<1>5. (x \o t)[1] = a /\ (x \o t)[2] = b
  BY <1>2, <1>3, <1>4
<1>6. ASSUME NEW i \in 1..Len(t) PROVE (x \o t)[i + 2] = t[i]
  <2>1. i + 2 \in 1..(Len(x) + Len(t)) /\ ~(i + 2 <= Len(x)) /\ (i + 2) - Len(x) = i
    BY <1>2, <1>4
  <2> QED BY <1>3, <2>1
<1> QED BY <1>2, <1>3, <1>4, <1>5, <1>6 DEF x

AreMendings(T, s, g) ==
  \A p \in Places(s), b \in BOOLEAN : g[<<p, b>>] \in Seq(T) /\ g[<<p, b>>] = RepairFrom(s, p, b, g)

LEMMA MendingsExist ==
  ASSUME NEW T, {"\\", "n"} \subseteq T, NEW s \in Seq(T)
  PROVE  AreMendings(T, s, Mendings(s))
<1> DEFINE n == Len(s)
           P == Places(s)
           I == P \X BOOLEAN
           D == [I -> Seq(T)]
           Next1(g) == [at \in I |-> RepairFrom(s, at[1], at[2], g)]
           F == [g \in D |-> Next1(g)]
           rank == [at \in I |-> n + 1 - at[1]]
<1>1. n \in Nat /\ P = 1..(n + 1) /\ \A i \in 1..n : s[i] \in T
  BY LenProperties, ElementOfSeq DEF Places
<1>2. D # {}
  <2>1. [at \in I |-> <<>>] \in D
    BY EmptySeq
  <2> QED BY <2>1
<1>3. rank \in [I -> 0..n]
  BY <1>1
<1>4. ASSUME NEW g, NEW p \in 1..(n + 1), NEW b \in BOOLEAN,
             \A r \in (p + 1)..(n + 1), d \in BOOLEAN : g[<<r, d>>] \in Seq(T)
      PROVE  RepairFrom(s, p, b, g) \in Seq(T)
  <2>1. CASE p > n
    BY <2>1, EmptySeq DEF RepairFrom
  <2>2. CASE p <= n
    <3>1. p + 1 \in (p + 1)..(n + 1) /\ s[p] \in T
      BY <1>1, <2>2
    <3>2. g[<<p + 1, TRUE>>] \in Seq(T) /\ g[<<p + 1, b>>] \in Seq(T) /\ g[<<p + 1, ~b>>] \in Seq(T)
      BY <1>4, <3>1
    <3>3. /\ <<s[p]>> \o g[<<p + 1, b>>] \in Seq(T)
          /\ <<s[p]>> \o g[<<p + 1, ~b>>] \in Seq(T)
          /\ <<"\\", "n">> \o g[<<p + 1, TRUE>>] \in Seq(T)
          /\ <<"\\", "\\">> \o g[<<p + 1, TRUE>>] \in Seq(T)
      BY <3>1, <3>2, OneByte, TwoBytes
    <3>4. p # n => <<"\\", s[p + 1]>> \o g[<<p + 2, TRUE>>] \in Seq(T)
      <4>1. p # n => p + 2 \in (p + 1)..(n + 1) /\ s[p + 1] \in T
        BY <1>1, <2>2
      <4>2. p # n => g[<<p + 2, TRUE>>] \in Seq(T)
        BY <1>4, <4>1
      <4> QED BY <4>1, <4>2, TwoBytes
    <3>5. ~(p > n)
      BY <1>1, <2>2
    <3> QED BY <3>3, <3>4, <3>5 DEF RepairFrom
  <2> QED BY <1>1, <2>1, <2>2
<1>5. F \in [D -> D]
  <2>1. ASSUME NEW g \in D PROVE Next1(g) \in D
    <3>1. ASSUME NEW at \in I PROVE RepairFrom(s, at[1], at[2], g) \in Seq(T)
      <4>1. at[1] \in 1..(n + 1) /\ at[2] \in BOOLEAN
        BY <1>1
      <4>2. \A r \in (at[1] + 1)..(n + 1), d \in BOOLEAN : <<r, d>> \in I
        BY <1>1, <4>1
      <4>3. \A r \in (at[1] + 1)..(n + 1), d \in BOOLEAN : g[<<r, d>>] \in Seq(T)
        BY <4>2
      <4> HIDE DEF D, I
      <4> QED BY <1>4, <4>1, <4>3
    <3> HIDE DEF I
    <3> QED BY <3>1
  <2> HIDE DEF Next1, D
  <2> QED BY <2>1
<1>6. Causal(I, D, rank, F)
  <2>1. ASSUME NEW g \in D, NEW h \in D, NEW at \in I, \A y \in I : rank[y] < rank[at] => g[y] = h[y]
        PROVE  F[g][at] = F[h][at]
    <3>1. PICK p \in 1..(n + 1), b \in BOOLEAN : at = <<p, b>> /\ at[1] = p /\ at[2] = b
      BY <1>1
    <3>2. ASSUME NEW r \in 1..(n + 1), NEW d \in BOOLEAN, r > p PROVE g[<<r, d>>] = h[<<r, d>>]
      <4>1. <<r, d>> \in I /\ <<r, d>>[1] = r
        BY <1>1
      <4>2. rank[<<r, d>>] < rank[at]
        BY <1>1, <3>1, <3>2, <4>1
      <4> HIDE DEF rank, I, D
      <4> QED BY <2>1, <4>1, <4>2
    <3> HIDE DEF D, rank
    <3>3. RepairFrom(s, p, b, g) = RepairFrom(s, p, b, h)
      <4>1. p <= n => /\ g[<<p + 1, TRUE>>] = h[<<p + 1, TRUE>>] /\ g[<<p + 1, b>>] = h[<<p + 1, b>>]
                      /\ g[<<p + 1, ~b>>] = h[<<p + 1, ~b>>]
        <5>1. p <= n => p + 1 \in 1..(n + 1) /\ p + 1 > p
          BY <1>1
        <5> QED BY <3>2, <5>1
      <4>2. p <= n /\ p # n => g[<<p + 2, TRUE>>] = h[<<p + 2, TRUE>>]
        <5>1. p <= n /\ p # n => p + 2 \in 1..(n + 1) /\ p + 2 > p
          BY <1>1
        <5> QED BY <3>2, <5>1
      <4>3. p > n \/ p <= n
        BY <1>1
      <4> QED BY <4>1, <4>2, <4>3 DEF RepairFrom
    <3> QED BY <3>1, <3>3
  <2> HIDE DEF F, D, rank, I
  <2> QED BY <2>1 DEF Causal
<1>7. PICK g \in D : \A at \in I : g[at] = F[g][at]
  <2> HIDE DEF F, D, rank, I, n
  <2>1. Solved(I, D, F)
    BY <1>1, <1>2, <1>3, <1>5, <1>6, Recursion
  <2> QED BY <2>1 DEF Solved
<1>8. g = [at \in I |-> RepairFrom(s, at[1], at[2], g)]
  <2>1. \A at \in I : g[at] = RepairFrom(s, at[1], at[2], g)
    <3> HIDE DEF I, D
    <3> QED BY <1>7
  <2> HIDE DEF I
  <2> QED BY <2>1
<1> DEFINE e == Mendings(s)
<1>9. e = [at \in I |-> RepairFrom(s, at[1], at[2], e)]
  <2> HIDE DEF D
  <2> QED BY <1>8 DEF Mendings
<1> HIDE DEF e
<1>10. ASSUME NEW p \in 1..(n + 1), NEW b \in BOOLEAN PROVE e[<<p, b>>] = RepairFrom(s, p, b, e)
  <2> DEFINE at == <<p, b>>
  <2>1. at \in I /\ at[1] = p /\ at[2] = b
    BY <1>1
  <2> HIDE DEF at, I
  <2>2. e[at] = RepairFrom(s, p, b, e)
    BY <1>9, <2>1
  <2> QED BY <2>2 DEF at
<1> DEFINE S == {p \in 1..(n + 1) : \A b \in BOOLEAN : e[<<p, b>>] \in Seq(T)}
<1>11. ASSUME NEW p \in 1..(n + 1), \A r \in (p + 1)..(n + 1) : r \in S PROVE p \in S
  <2>1. \A r \in (p + 1)..(n + 1), d \in BOOLEAN : e[<<r, d>>] \in Seq(T)
    BY <1>11
  <2>2. ASSUME NEW b \in BOOLEAN PROVE e[<<p, b>>] \in Seq(T)
    <3>1. RepairFrom(s, p, b, e) \in Seq(T)
      BY <1>4, <2>1
    <3> QED BY <1>10, <3>1
  <2> QED BY <2>2
<1>12. \A p \in 1..(n + 1) : p \in S
  <2> HIDE DEF S
  <2>1. n + 1 \in Nat
    BY <1>1
  <2> QED BY <1>11, <2>1, FromTheEnd
<1> QED BY <1>1, <1>10, <1>12 DEF AreMendings, e

LEMMA MendSteps ==
  ASSUME NEW T, {"\\", "n"} \subseteq T, NEW s \in Seq(T), NEW p \in Places(s), NEW b \in BOOLEAN
  PROVE  MendStep(s, p, b) /\ Mended(s, p, b) \in Seq(T)
<1> DEFINE e == Mendings(s)
<1>1. e[<<p, b>>] = RepairFrom(s, p, b, e) /\ e[<<p, b>>] \in Seq(T)
  BY MendingsExist DEF AreMendings
<1> HIDE DEF e
<1>2. Mended(s, p, b) \in Seq(T)
  BY <1>1 DEF Mended, e
<1>3. /\ Mended(s, p, b) = RepairFrom(s, p, b, e)
      /\ Mended(s, p + 1, ~b) = e[<<p + 1, ~b>>] /\ Mended(s, p + 1, b) = e[<<p + 1, b>>]
      /\ Mended(s, p + 1, TRUE) = e[<<p + 1, TRUE>>] /\ Mended(s, p + 2, TRUE) = e[<<p + 2, TRUE>>]
  BY <1>1 DEF Mended, e
<1> QED BY <1>2, <1>3 DEF RepairFrom, MendStep

LEMMA RepairIs == ASSUME NEW s PROVE Repair(s) = Mended(s, 1, FALSE)
  BY DEF Repair, Mended, Mendings

\* What is mended from a place on begins with the bytes of s up to c.
KeepsTo(s, p, b, c) ==
  /\ c + 1 - p <= Len(Mended(s, p, b))
  /\ \A i \in p..c : Mended(s, p, b)[i + 1 - p] = s[i]

\* Nothing is to mend from there on.
Intact(s, p, b) == Len(Mended(s, p, b)) = Len(s) + 1 - p /\ KeepsTo(s, p, b, Len(s))

\* What a byte that is kept, or a good escape, adds.
KeptBehind(s, p, b, d, c) ==
  /\ KeepsTo(s, p + 1, d, c) => KeepsTo(s, p, b, c)
  /\ Intact(s, p + 1, d) => Intact(s, p, b)

LEMMA KeepsOne ==
  ASSUME NEW T, {"\\", "n"} \subseteq T, NEW s \in Seq(T), NEW p \in 1..Len(s), NEW b \in BOOLEAN, NEW d \in BOOLEAN,
         NEW c \in p..Len(s), Mended(s, p, b) = <<s[p]>> \o Mended(s, p + 1, d)
  PROVE  KeptBehind(s, p, b, d, c)
<1> DEFINE m == Mended(s, p, b)
           t == Mended(s, p + 1, d)
<1>1. Len(s) \in Nat /\ p \in 1..Len(s) /\ p + 1 \in Places(s) /\ s[p] \in T
  BY LenProperties, ElementOfSeq DEF Places
<1>2. t \in Seq(T) /\ Len(t) \in Nat
  BY <1>1, MendSteps, LenProperties
<1>3. m = <<s[p]>> \o t
  OBVIOUS
<1> HIDE DEF m, t
<1>4. Len(m) = Len(t) + 1 /\ m[1] = s[p] /\ \A i \in 1..Len(t) : m[i + 1] = t[i]
  BY <1>1, <1>2, <1>3, OneByte
<1>5. ASSUME NEW e \in p..Len(s), e - p <= Len(t), \A i \in (p + 1)..e : t[i - p] = s[i]
      PROVE  e + 1 - p <= Len(m) /\ \A i \in p..e : m[i + 1 - p] = s[i]
  <2>1. ASSUME NEW i \in p..e PROVE m[i + 1 - p] = s[i]
    <3>1. CASE i = p
      <4>1. i + 1 - p = 1
        BY <1>1, <3>1
      <4> QED BY <1>4, <3>1, <4>1
    <3>2. CASE i # p
      <4>1. i - p \in 1..Len(t) /\ i \in (p + 1)..e /\ i + 1 - p = (i - p) + 1
        BY <1>1, <1>2, <1>5, <3>2
      <4> QED BY <1>4, <1>5, <4>1
    <3> QED BY <3>1, <3>2
  <2> QED BY <1>1, <1>2, <1>4, <1>5, <2>1
<1>6. ASSUME NEW e \in p..Len(s), KeepsTo(s, p + 1, d, e) PROVE KeepsTo(s, p, b, e)
  <2>1. /\ e + 1 - (p + 1) <= Len(t)
        /\ \A i \in (p + 1)..e : t[i + 1 - (p + 1)] = s[i]
    BY <1>6 DEF KeepsTo, t
  <2>2. /\ e + 1 - (p + 1) = e - p
        /\ \A i \in (p + 1)..e : i + 1 - (p + 1) = i - p
    BY <1>1
  <2>3. e - p <= Len(t) /\ \A i \in (p + 1)..e : t[i - p] = s[i]
    BY <2>1, <2>2
  <2>4. e + 1 - p <= Len(m) /\ \A i \in p..e : m[i + 1 - p] = s[i]
    BY <1>5, <2>3
  <2> QED BY <2>4 DEF KeepsTo, m
<1>7. Intact(s, p + 1, d) => Intact(s, p, b)
  <2>1. Intact(s, p + 1, d) => KeepsTo(s, p, b, Len(s)) /\ Len(t) = Len(s) + 1 - (p + 1)
    BY <1>1, <1>6 DEF Intact, t
  <2>2. Len(t) = Len(s) + 1 - (p + 1) => Len(m) = Len(s) + 1 - p
    BY <1>1, <1>2, <1>4
  <2> QED BY <2>1, <2>2 DEF Intact, m
<1> QED BY <1>6, <1>7 DEF KeptBehind

LEMMA KeepsTwo ==
  ASSUME NEW T, {"\\", "n"} \subseteq T, NEW s \in Seq(T), NEW p \in 1..(Len(s) - 1), NEW c \in (p + 1)..Len(s), NEW b \in BOOLEAN,
         Mended(s, p, b) = <<s[p], s[p + 1]>> \o Mended(s, p + 2, b)
  PROVE  /\ KeepsTo(s, p + 2, b, c) => KeepsTo(s, p, b, c)
         /\ Intact(s, p + 2, b) => Intact(s, p, b)
<1> DEFINE m == Mended(s, p, b)
           t == Mended(s, p + 2, b)
<1>1. Len(s) \in Nat /\ p \in 1..Len(s) /\ p + 1 \in 1..Len(s) /\ p + 2 \in Places(s) /\ s[p] \in T /\ s[p + 1] \in T
  BY LenProperties, ElementOfSeq DEF Places
<1>2. t \in Seq(T) /\ Len(t) \in Nat
  BY <1>1, MendSteps, LenProperties
<1>3. m = <<s[p], s[p + 1]>> \o t
  OBVIOUS
<1> HIDE DEF m, t
<1>4. /\ Len(m) = Len(t) + 2 /\ m[1] = s[p] /\ m[2] = s[p + 1]
      /\ \A i \in 1..Len(t) : m[i + 2] = t[i]
  BY <1>1, <1>2, <1>3, TwoBytes
<1>5. ASSUME NEW e \in (p + 1)..Len(s), e - (p + 1) <= Len(t), \A i \in (p + 2)..e : t[i - (p + 1)] = s[i]
      PROVE  e + 1 - p <= Len(m) /\ \A i \in p..e : m[i + 1 - p] = s[i]
  <2>1. ASSUME NEW i \in p..e PROVE m[i + 1 - p] = s[i]
    <3>1. CASE i = p
      <4>1. i + 1 - p = 1
        BY <1>1, <3>1
      <4> QED BY <1>4, <3>1, <4>1
    <3>2. CASE i = p + 1
      <4>1. i + 1 - p = 2
        BY <1>1, <3>2
      <4> QED BY <1>4, <3>2, <4>1
    <3>3. CASE i # p /\ i # p + 1
      <4>1. i - (p + 1) \in 1..Len(t) /\ i \in (p + 2)..e /\ i + 1 - p = (i - (p + 1)) + 2
        BY <1>1, <1>2, <1>5, <3>3
      <4> QED BY <1>4, <1>5, <4>1
    <3> QED BY <3>1, <3>2, <3>3
  <2> QED BY <1>1, <1>2, <1>4, <1>5, <2>1
<1>6. ASSUME NEW e \in (p + 1)..Len(s), KeepsTo(s, p + 2, b, e) PROVE KeepsTo(s, p, b, e)
  <2>1. /\ e + 1 - (p + 2) <= Len(t)
        /\ \A i \in (p + 2)..e : t[i + 1 - (p + 2)] = s[i]
    BY <1>6 DEF KeepsTo, t
  <2>2. /\ e + 1 - (p + 2) = e - (p + 1)
        /\ \A i \in (p + 2)..e : i + 1 - (p + 2) = i - (p + 1)
    BY <1>1
  <2>3. e - (p + 1) <= Len(t) /\ \A i \in (p + 2)..e : t[i - (p + 1)] = s[i]
    BY <2>1, <2>2
  <2>4. e + 1 - p <= Len(m) /\ \A i \in p..e : m[i + 1 - p] = s[i]
    BY <1>5, <2>3
  <2> QED BY <2>4 DEF KeepsTo, m
<1>7. Intact(s, p + 2, b) => Intact(s, p, b)
  <2>1. Intact(s, p + 2, b) => KeepsTo(s, p, b, Len(s)) /\ Len(t) = Len(s) + 1 - (p + 2)
    <3>1. Len(s) \in (p + 1)..Len(s)
      BY <1>1
    <3>2. KeepsTo(s, p + 2, b, Len(s)) => KeepsTo(s, p, b, Len(s))
      BY <1>6, <3>1
    <3> QED BY <3>2 DEF Intact, t
  <2>2. Len(t) = Len(s) + 1 - (p + 2) => Len(m) = Len(s) + 1 - p
    BY <1>1, <1>2, <1>4
  <2> QED BY <2>1, <2>2 DEF Intact, m
<1> QED BY <1>6, <1>7

\* A text of which nothing is mended is the same after Repair.
LEMMA IntactIsSame ==
  ASSUME NEW T, {"\\", "n"} \subseteq T, NEW s \in Seq(T), Intact(s, 1, FALSE)
  PROVE  Repair(s) = s
<1> DEFINE m == Mended(s, 1, FALSE)
<1>1. Len(s) \in Nat /\ 1 \in Places(s)
  BY LenProperties DEF Places
<1>2. m \in Seq(T)
  BY <1>1, MendSteps
<1>3. Len(m) = Len(s) + 1 - 1 /\ \A i \in 1..Len(s) : m[i + 1 - 1] = s[i]
  BY DEF Intact, KeepsTo
<1> HIDE DEF m
<1>4. Len(m) = Len(s) /\ \A i \in 1..Len(s) : m[i] = s[i]
  BY <1>1, <1>3
<1>5. m = s
  BY <1>2, <1>4, SeqEqual
<1> QED BY <1>5, RepairIs DEF m

\* Bytes that Repair lets pass, and what it is in after them.
Passes(a, b, d) ==
  \/ a = Quote /\ d = ~b
  \/ a # Quote /\ ~b /\ ~d
  \/ a \notin {Quote, "ctl", "\\"} /\ b /\ d

LEMMA PassesByte ==
  ASSUME NEW T, {"\\", "n"} \subseteq T, NEW s \in Seq(T), NEW p \in 1..Len(s),
         NEW b \in BOOLEAN, NEW d \in BOOLEAN, Passes(s[p], b, d)
  PROVE  Mended(s, p, b) = <<s[p]>> \o Mended(s, p + 1, d)
<1>1. Len(s) \in Nat /\ p \in Places(s) /\ ~(p > Len(s))
  BY LenProperties DEF Places
<1>2. MendStep(s, p, b)
  BY <1>1, MendSteps
<1>3. CASE s[p] = Quote /\ d = ~b
  BY <1>1, <1>2, <1>3 DEF MendStep
<1>4. CASE s[p] # Quote /\ b = FALSE /\ d = FALSE
  BY <1>1, <1>2, <1>4 DEF MendStep
<1>5. CASE s[p] \notin {Quote, "ctl", "\\"} /\ b = TRUE /\ d = TRUE
  BY <1>1, <1>2, <1>5 DEF MendStep
<1> QED BY <1>3, <1>4, <1>5 DEF Passes

\* An escape within a string passes too.
LEMMA PassesEscape ==
  ASSUME NEW T, {"\\", "n"} \subseteq T, NEW s \in Seq(T), NEW p \in 1..(Len(s) - 1),
         s[p] = "\\", s[p + 1] \in Escapable, NEW b \in BOOLEAN, b
  PROVE  Mended(s, p, b) = <<s[p], s[p + 1]>> \o Mended(s, p + 2, b)
<1>1. Len(s) \in Nat /\ p \in Places(s) /\ ~(p > Len(s)) /\ p # Len(s)
  BY LenProperties DEF Places
<1>2. MendStep(s, p, b) /\ b = TRUE
  BY <1>1, MendSteps
<1>3. Quote # "\\"
  BY DEF Quote
<1> QED BY <1>1, <1>2, <1>3 DEF MendStep

\* The first byte that is mended, which escapes nothing: a backslash comes
\* in its place, in every text that has the same bytes up to it.
Changes(T, s, p, b, c) ==
  /\ c \in (p - 1)..(Len(s) - 1) /\ s[c + 1] \notin Escapable
  /\ KeepsTo(s, p, b, c)
  /\ \A x \in Seq(T) : Agree(x, s, p, c + 1) =>
       c + 2 - p <= Len(Mended(x, p, b)) /\ Mended(x, p, b)[c + 2 - p] = "\\"

LEMMA FirstChange ==
  ASSUME NEW T, {"\\", "n"} \subseteq T, NEW s \in Seq(T), NEW p \in Places(s), NEW b \in BOOLEAN
  PROVE  Intact(s, p, b) \/ \E c : Changes(T, s, p, b, c)
<1> DEFINE n == Len(s)
           Known(q) == \A d \in BOOLEAN : Intact(s, q, d) \/ \E c : Changes(T, s, q, d, c)
           S == {q \in 1..(n + 1) : Known(q)}
<1>1. n \in Nat /\ Places(s) = 1..(n + 1)
  BY LenProperties DEF Places
<1>2. ASSUME NEW q \in 1..(n + 1), \A i \in (q + 1)..(n + 1) : i \in S PROVE q \in S
  <2>1. ASSUME NEW i \in (q + 1)..(n + 1), NEW d \in BOOLEAN
        PROVE  Intact(s, i, d) \/ \E c : Changes(T, s, i, d, c)
    BY <1>2
  <2> SUFFICES ASSUME NEW d \in BOOLEAN PROVE Intact(s, q, d) \/ \E c : Changes(T, s, q, d, c)
    OBVIOUS
  <2> HIDE DEF S
  <2> DEFINE m == Mended(s, q, d)
  <2>2. MendStep(s, q, d) /\ m \in Seq(T) /\ Len(m) \in Nat
    BY <1>1, MendSteps, LenProperties
  <2>3. CASE q = n + 1
    <3>1. m = <<>> /\ Len(m) = 0
      <4>1. q > Len(s)
        BY <1>1, <2>3
      <4> QED BY <2>2, <4>1 DEF MendStep
    <3> QED BY <1>1, <2>3, <3>1 DEF Intact, KeepsTo
  <2>4. ASSUME q <= n, NEW f \in BOOLEAN, Passes(s[q], d, f) PROVE Intact(s, q, d) \/ \E c : Changes(T, s, q, d, c)
    <3>1. q \in 1..n /\ q + 1 \in (q + 1)..(n + 1)
      BY <1>1, <2>4
    <3>2. m = <<s[q]>> \o Mended(s, q + 1, f)
      BY <2>4, <3>1, PassesByte
    <3>3. ASSUME NEW c, Changes(T, s, q + 1, f, c) PROVE Changes(T, s, q, d, c)
      <4>1. c \in q..(n - 1) /\ s[c + 1] \notin Escapable /\ KeepsTo(s, q + 1, f, c)
        BY <1>1, <3>3 DEF Changes
      <4>2. KeepsTo(s, q, d, c)
        <5>1. c \in q..Len(s) /\ KeepsTo(s, q + 1, f, c)
          BY <1>1, <4>1
        <5>2. q \in 1..Len(s) /\ Mended(s, q, d) = <<s[q]>> \o Mended(s, q + 1, f)
          BY <3>1, <3>2
        <5> HIDE DEF m, n
        <5>3. KeptBehind(s, q, d, f, c)
          BY <5>1, <5>2, KeepsOne
        <5> QED BY <5>1, <5>3 DEF KeptBehind
      <4>3. ASSUME NEW x \in Seq(T), Agree(x, s, q, c + 1)
            PROVE  c + 2 - q <= Len(Mended(x, q, d)) /\ Mended(x, q, d)[c + 2 - q] = "\\"
        <5>1. q \in 1..Len(x) /\ x[q] = s[q] /\ q + 1 \in Places(x)
          <6>1. q \in q..(c + 1) /\ Len(x) \in Nat
            BY <1>1, <4>1, LenProperties
          <6> QED BY <4>3, <6>1 DEF Agree, Places
        <5>2. Mended(x, q, d) = <<x[q]>> \o Mended(x, q + 1, f)
          BY <2>4, <5>1, PassesByte
        <5>3. Agree(x, s, q + 1, c + 1)
          BY <1>1, <4>3 DEF Agree
        <5> DEFINE t == Mended(x, q + 1, f)
        <5>4. c + 2 - (q + 1) <= Len(t) /\ t[c + 2 - (q + 1)] = "\\"
          BY <3>3, <5>3 DEF Changes
        <5>5. t \in Seq(T) /\ Len(t) \in Nat /\ x[q] \in T
          BY <5>1, MendSteps, LenProperties, ElementOfSeq
        <5> HIDE DEF t
        <5>6. Len(<<x[q]>> \o t) = Len(t) + 1 /\ \A i \in 1..Len(t) : (<<x[q]>> \o t)[i + 1] = t[i]
          BY <5>5, OneByte
        <5> DEFINE y == <<x[q]>> \o t
        <5> HIDE DEF y
        <5>7. PICK z : z = c + 2 - (q + 1) /\ z = c + 1 - q /\ c + 2 - q = z + 1 /\ z >= 1
          BY <1>1, <4>1
        <5>8. z \in 1..Len(t) /\ t[z] = "\\"
          BY <1>1, <4>1, <5>4, <5>5, <5>7
        <5>9. y[z + 1] = "\\" /\ z + 1 <= Len(y)
          BY <5>5, <5>6, <5>8 DEF y
        <5> QED BY <5>2, <5>7, <5>9 DEF t, y
      <4> QED BY <1>1, <4>1, <4>2, <4>3 DEF Changes
    <3>4. Intact(s, q + 1, f) => Intact(s, q, d)
      <4>1. Len(s) \in q..Len(s) /\ q \in 1..Len(s) /\ Mended(s, q, d) = <<s[q]>> \o Mended(s, q + 1, f)
        BY <1>1, <3>1, <3>2
      <4>2. KeptBehind(s, q, d, f, Len(s))
        BY <4>1, KeepsOne
      <4> QED BY <4>2 DEF KeptBehind
    <3>5. Intact(s, q + 1, f) \/ \E c : Changes(T, s, q + 1, f, c)
      BY <2>1, <3>1
    <3> QED BY <3>3, <3>4, <3>5
  <2>5. CASE q < n /\ d = TRUE /\ s[q] = "\\" /\ s[q + 1] \in Escapable
    <3>1. q \in 1..n /\ q \in 1..(n - 1) /\ q + 2 \in (q + 1)..(n + 1)
      BY <1>1, <2>5
    <3>2. m = <<s[q], s[q + 1]>> \o Mended(s, q + 2, d)
      BY <2>5, <3>1, PassesEscape
    <3>3. ASSUME NEW c, Changes(T, s, q + 2, d, c) PROVE Changes(T, s, q, d, c)
      <4>1. c \in (q + 1)..(n - 1) /\ s[c + 1] \notin Escapable /\ KeepsTo(s, q + 2, d, c)
        <5>1. c \in (q + 2 - 1)..(n - 1) /\ s[c + 1] \notin Escapable /\ KeepsTo(s, q + 2, d, c)
          BY <3>3 DEF Changes
        <5>2. q + 2 - 1 = q + 1
          BY <1>1
        <5> QED BY <5>1, <5>2
      <4>2. KeepsTo(s, q, d, c)
        <5>1. c \in (q + 1)..n
          BY <1>1, <4>1
        <5> QED BY <1>1, <3>1, <3>2, <4>1, <5>1, KeepsTwo
      <4>3. ASSUME NEW x \in Seq(T), Agree(x, s, q, c + 1)
            PROVE  c + 2 - q <= Len(Mended(x, q, d)) /\ Mended(x, q, d)[c + 2 - q] = "\\"
        <5>1. q \in 1..(Len(x) - 1) /\ q + 2 \in Places(x) /\ x[q] = s[q] /\ x[q + 1] = s[q + 1]
          <6>1. q \in q..(c + 1) /\ q + 1 \in q..(c + 1) /\ Len(x) \in Nat
            BY <1>1, <4>1, LenProperties
          <6> QED BY <4>3, <6>1 DEF Agree, Places
        <5>2. Mended(x, q, d) = <<x[q], x[q + 1]>> \o Mended(x, q + 2, d)
          BY <2>5, <5>1, PassesEscape
        <5>3. Agree(x, s, q + 2, c + 1)
          BY <1>1, <4>3 DEF Agree
        <5> DEFINE t == Mended(x, q + 2, d)
        <5>4. c + 2 - (q + 2) <= Len(t) /\ t[c + 2 - (q + 2)] = "\\"
          BY <3>3, <5>3 DEF Changes
        <5>5. t \in Seq(T) /\ Len(t) \in Nat /\ x[q] \in T /\ x[q + 1] \in T
          <6>1. q \in 1..Len(x) /\ q + 1 \in 1..Len(x)
            BY <5>1, LenProperties
          <6> QED BY <5>1, <6>1, MendSteps, LenProperties, ElementOfSeq
        <5> HIDE DEF t
        <5> DEFINE y == <<x[q], x[q + 1]>> \o t
        <5>6. Len(y) = Len(t) + 2 /\ \A i \in 1..Len(t) : y[i + 2] = t[i]
          BY <5>5, TwoBytes
        <5>7. c + 2 - (q + 2) \in 1..Len(t) /\ c + 2 - q = (c + 2 - (q + 2)) + 2
          BY <1>1, <4>1, <5>4, <5>5
        <5> HIDE DEF y
        <5>8. y[c + 2 - q] = "\\" /\ c + 2 - q <= Len(y)
          BY <5>4, <5>5, <5>6, <5>7
        <5> QED BY <5>2, <5>8 DEF t, y
      <4> QED BY <1>1, <4>1, <4>2, <4>3 DEF Changes
    <3>4. Intact(s, q + 2, d) => Intact(s, q, d)
      <4>1. n \in (q + 1)..n
        BY <1>1, <2>5
      <4> QED BY <2>5, <3>1, <3>2, <4>1, KeepsTwo
    <3>5. Intact(s, q + 2, d) \/ \E c : Changes(T, s, q + 2, d, c)
      BY <2>1, <3>1
    <3> QED BY <3>3, <3>4, <3>5
  <2>6. CASE q = n /\ d = TRUE /\ s[q] = "\\"
    <3>1. m = <<s[q]>> \o Mended(s, q + 1, d)
      <4>1. Quote # "\\" /\ ~(q > n)
        BY <1>1, <2>6 DEF Quote
      <4> QED BY <2>2, <2>6, <4>1 DEF MendStep
    <3>2. q \in 1..n /\ q + 1 \in Places(s) /\ q + 1 > n
      BY <1>1, <2>6
    <3>3. MendStep(s, q + 1, d)
      BY <3>2, MendSteps
    <3>4. Mended(s, q + 1, d) = <<>>
      BY <3>2, <3>3 DEF MendStep
    <3>5. Intact(s, q + 1, d)
      <4>1. Len(Mended(s, q + 1, d)) = 0 /\ n + 1 - (q + 1) = 0
        <5> DEFINE t == Mended(s, q + 1, d)
        <5> HIDE DEF t
        <5>1. t = <<>>
          BY <3>4 DEF t
        <5>2. Len(t) = 0
          BY <5>1
        <5>3. n + 1 - (q + 1) = 0
          BY <1>1, <2>6
        <5> QED BY <5>2, <5>3 DEF t
      <4>2. \A i \in (q + 1)..n : FALSE
        BY <1>1, <2>6
      <4> QED BY <1>1, <4>1, <4>2 DEF Intact, KeepsTo
    <3>6. Intact(s, q, d)
      <4>1. n \in q..n
        BY <1>1, <3>2
      <4>2. KeptBehind(s, q, d, d, Len(s))
        BY <2>6, <3>1, <3>2, <4>1, KeepsOne
      <4> QED BY <3>5, <4>2 DEF KeptBehind
    <3> QED BY <3>6
  <2>7. CASE q <= n /\ d = TRUE /\ s[q] = "ctl"
    <3>1. ASSUME NEW x \in Seq(T), Agree(x, s, q, q - 1 + 1)
          PROVE  1 <= Len(Mended(x, q, d)) /\ Mended(x, q, d)[1] = "\\"
      <4>1. q \in 1..Len(x) /\ x[q] = "ctl" /\ q \in Places(x) /\ q + 1 \in Places(x) /\ ~(q > Len(x))
        <5>1. q \in q..(q - 1 + 1) /\ Len(x) \in Nat
          BY <1>1, LenProperties
        <5> QED BY <2>7, <3>1, <5>1 DEF Agree, Places
      <4>2. MendStep(x, q, d) /\ Quote # "ctl"
        BY <4>1, MendSteps DEF Quote
      <4>3. Mended(x, q, d) = <<"\\", "n">> \o Mended(x, q + 1, TRUE)
        BY <2>7, <4>1, <4>2 DEF MendStep
      <4>4. Mended(x, q + 1, TRUE) \in Seq(T) /\ Len(Mended(x, q + 1, TRUE)) \in Nat
        BY <4>1, MendSteps, LenProperties
      <4>5. "\\" \in T /\ "n" \in T
        OBVIOUS
      <4> DEFINE t == Mended(x, q + 1, TRUE)
      <4> HIDE DEF t
      <4>6. t \in Seq(T) /\ Len(t) \in Nat /\ Mended(x, q, d) = <<"\\", "n">> \o t
        BY <4>3, <4>4 DEF t
      <4>7. Len(<<"\\", "n">> \o t) = Len(t) + 2 /\ (<<"\\", "n">> \o t)[1] = "\\"
        BY <4>5, <4>6, TwoBytes
      <4> QED BY <4>6, <4>7
    <3>2. q - 1 \in (q - 1)..(n - 1) /\ q - 1 + 1 = q /\ q - 1 + 2 - q = 1 /\ q - 1 + 1 - q = 0
      BY <1>1, <2>7
    <3>3. KeepsTo(s, q, d, q - 1)
      BY <1>1, <2>2, <3>2 DEF KeepsTo
    <3>4. "ctl" \notin Escapable
      BY DEF Escapable, Quote
    <3>5. Changes(T, s, q, d, q - 1)
      BY <2>7, <3>1, <3>2, <3>3, <3>4 DEF Changes
    <3> QED BY <3>5
  <2>8. CASE q < n /\ d = TRUE /\ s[q] = "\\" /\ s[q + 1] \notin Escapable
    <3>1. ASSUME NEW x \in Seq(T), Agree(x, s, q, q + 1)
          PROVE  /\ 2 <= Len(Mended(x, q, d))
                 /\ Mended(x, q, d)[1] = "\\" /\ Mended(x, q, d)[2] = "\\"
      <4>1. /\ q \in Places(x) /\ q + 1 \in Places(x) /\ ~(q > Len(x)) /\ q # Len(x)
            /\ x[q] = "\\" /\ x[q + 1] = s[q + 1]
        <5>1. q \in q..(q + 1) /\ q + 1 \in q..(q + 1) /\ Len(x) \in Nat
          BY <1>1, LenProperties
        <5> QED BY <2>8, <3>1, <5>1 DEF Agree, Places
      <4>2. MendStep(x, q, d) /\ Quote # "\\"
        BY <4>1, MendSteps DEF Quote
      <4>3. Mended(x, q, d) = <<"\\", "\\">> \o Mended(x, q + 1, TRUE)
        BY <2>8, <4>1, <4>2 DEF MendStep
      <4> DEFINE t == Mended(x, q + 1, TRUE)
      <4>4. t \in Seq(T) /\ Len(t) \in Nat
        BY <4>1, MendSteps, LenProperties
      <4>5. "\\" \in T
        OBVIOUS
      <4> HIDE DEF t
      <4>6. Mended(x, q, d) = <<"\\", "\\">> \o t
        BY <4>3 DEF t
      <4>7. /\ Len(<<"\\", "\\">> \o t) = Len(t) + 2
            /\ (<<"\\", "\\">> \o t)[1] = "\\" /\ (<<"\\", "\\">> \o t)[2] = "\\"
        BY <4>4, <4>5, TwoBytes
      <4> QED BY <4>4, <4>6, <4>7
    <3>2. q \in (q - 1)..(n - 1) /\ q + 2 - q = 2 /\ q + 1 - q = 1
      BY <1>1, <2>8
    <3>3. Agree(s, s, q, q + 1)
      BY <1>1, <2>8 DEF Agree
    <3>4. KeepsTo(s, q, d, q)
      <4>1. 2 <= Len(m) /\ m[1] = s[q]
        BY <2>8, <3>1, <3>3
      <4>2. \A i \in q..q : i + 1 - q = 1 /\ i = q
        BY <1>1
      <4> QED BY <2>2, <3>2, <4>1, <4>2 DEF KeepsTo
    <3>5. Changes(T, s, q, d, q)
      BY <2>8, <3>1, <3>2, <3>4 DEF Changes
    <3> QED BY <3>5
  <2>9. q <= n => \/ Passes(s[q], d, TRUE) \/ Passes(s[q], d, FALSE)
                  \/ (d = TRUE /\ s[q] = "\\") \/ (d = TRUE /\ s[q] = "ctl")
    <3>1. Quote # "ctl" /\ Quote # "\\"
      BY DEF Quote
    <3>2. CASE d = TRUE
      BY <3>1, <3>2 DEF Passes
    <3>3. CASE d = FALSE
      BY <3>1, <3>3 DEF Passes
    <3> QED BY <3>2, <3>3
  <2>10. q = n + 1 \/ q < n \/ q = n
    BY <1>1
  <2>11. CASE q = n
    <3>1. q <= n
      BY <1>1, <2>11
    <3> QED BY <2>4, <2>6, <2>7, <2>9, <2>11, <3>1
  <2>12. CASE q < n
    <3>1. q <= n
      BY <1>1, <2>12
    <3> QED BY <2>4, <2>5, <2>7, <2>8, <2>9, <2>12, <3>1
  <2> QED BY <2>3, <2>10, <2>11, <2>12
<1>3. \A q \in 1..(n + 1) : q \in S
  <2> HIDE DEF S
  <2>1. n + 1 \in Nat
    BY <1>1
  <2> QED BY <1>2, <2>1, FromTheEnd
<1> QED BY <1>1, <1>3

\* One text is the beginning of the other.
Begins(x, y) == Agree(x, y, 1, Len(x))

LEMMA BeginsAfter ==
  ASSUME NEW T, NEW a \in T, NEW b \in T, NEW t \in Seq(T), NEW u \in Seq(T), Begins(t, u)
  PROVE  Begins(<<a>> \o t, <<a>> \o u) /\ Begins(<<a, b>> \o t, <<a, b>> \o u)
<1>1. /\ Len(t) \in Nat /\ Len(u) \in Nat
      /\ \A i \in 1..Len(t) : i \in 1..Len(u) /\ t[i] = u[i]
  BY LenProperties DEF Begins, Agree
<1>2. Begins(<<a>> \o t, <<a>> \o u)
  <2> DEFINE x == <<a>> \o t
             y == <<a>> \o u
  <2>1. Len(x) = Len(t) + 1 /\ x[1] = a /\ \A i \in 1..Len(t) : x[i + 1] = t[i]
    BY OneByte
  <2>2. Len(y) = Len(u) + 1 /\ y[1] = a /\ \A i \in 1..Len(u) : y[i + 1] = u[i]
    BY OneByte
  <2> HIDE DEF x, y
  <2>3. ASSUME NEW i \in 1..Len(x) PROVE i \in 1..Len(y) /\ x[i] = y[i]
    <3>1. CASE i = 1
      BY <1>1, <2>1, <2>2, <3>1
    <3>2. CASE i # 1
      <4>1. i - 1 \in 1..Len(t) /\ (i - 1) + 1 = i
        BY <1>1, <2>1, <3>2
      <4>2. i - 1 \in 1..Len(u) /\ t[i - 1] = u[i - 1]
        BY <1>1, <4>1
      <4>3. i \in 1..Len(y)
        BY <1>1, <2>2, <4>2
      <4> QED BY <2>1, <2>2, <4>1, <4>2, <4>3
    <3> QED BY <3>1, <3>2
  <2>4. Begins(x, y)
    BY <2>3 DEF Begins, Agree
  <2> QED BY <2>4 DEF x, y
<1>3. Begins(<<a, b>> \o t, <<a, b>> \o u)
  <2> DEFINE x == <<a, b>> \o t
             y == <<a, b>> \o u
  <2>1. Len(x) = Len(t) + 2 /\ x[1] = a /\ x[2] = b /\ \A i \in 1..Len(t) : x[i + 2] = t[i]
    BY TwoBytes
  <2>2. Len(y) = Len(u) + 2 /\ y[1] = a /\ y[2] = b /\ \A i \in 1..Len(u) : y[i + 2] = u[i]
    BY TwoBytes
  <2> HIDE DEF x, y
  <2>3. ASSUME NEW i \in 1..Len(x) PROVE i \in 1..Len(y) /\ x[i] = y[i]
    <3>1. CASE i = 1 \/ i = 2
      BY <1>1, <2>1, <2>2, <3>1
    <3>2. CASE i # 1 /\ i # 2
      <4>1. i - 2 \in 1..Len(t) /\ (i - 2) + 2 = i
        BY <1>1, <2>1, <3>2
      <4>2. i - 2 \in 1..Len(u) /\ t[i - 2] = u[i - 2]
        BY <1>1, <4>1
      <4>3. i \in 1..Len(y)
        BY <1>1, <2>2, <4>2
      <4> QED BY <2>1, <2>2, <4>1, <4>2, <4>3
    <3> QED BY <3>1, <3>2
  <2>4. Begins(x, y)
    BY <2>3 DEF Begins, Agree
  <2> QED BY <2>4 DEF x, y
<1> QED BY <1>2, <1>3

\* What Repair makes of a beginning, cut anywhere, even in an escape, is the
\* beginning of what it makes of the whole: what was repaired while a string
\* streams is never taken back (Repair).
THEOREM RepairGrows ==
  ASSUME NEW T, {"\\", "n"} \subseteq T, NEW s \in Seq(T), NEW d \in Seq(T), Begins(s, d)
  PROVE  Begins(Repair(s), Repair(d))
<1> DEFINE n == Len(s)
           S == {q \in 1..(n + 1) : \A b \in BOOLEAN : Begins(Mended(s, q, b), Mended(d, q, b))}
<1>1. /\ n \in Nat /\ Len(d) \in Nat /\ n <= Len(d)
      /\ Places(s) = 1..(n + 1) /\ Places(d) = 1..(Len(d) + 1)
      /\ \A i \in 1..n : s[i] = d[i] /\ s[i] \in T
  <2>1. /\ n \in Nat /\ Len(d) \in Nat
        /\ \A i \in 1..n : i \in 1..Len(d) /\ s[i] = d[i] /\ s[i] \in T
    BY LenProperties, ElementOfSeq DEF Begins, Agree
  <2>2. n <= Len(d)
    BY <2>1
  <2> QED BY <2>1, <2>2 DEF Places
<1>2. Quote # "\\" /\ Quote # "ctl"
  BY DEF Quote
<1>3. ASSUME NEW q \in 1..(n + 1), \A i \in (q + 1)..(n + 1) : i \in S PROVE q \in S
  <2>1. ASSUME NEW i \in (q + 1)..(n + 1), NEW b \in BOOLEAN PROVE Begins(Mended(s, i, b), Mended(d, i, b))
    BY <1>3
  <2> HIDE DEF S
  <2>2. ASSUME NEW b \in BOOLEAN PROVE Begins(Mended(s, q, b), Mended(d, q, b))
    <3>1. MendStep(s, q, b) /\ MendStep(d, q, b) /\ Mended(s, q, b) \in Seq(T) /\ Mended(d, q, b) \in Seq(T)
      <4>1. q \in Places(s) /\ q \in Places(d)
        BY <1>1
      <4> QED BY <4>1, MendSteps
    <3>2. CASE q = n + 1
      <4>1. q > Len(s)
        BY <1>1, <3>2
      <4>2. Mended(s, q, b) = <<>>
        BY <3>1, <4>1 DEF MendStep
      <4> QED BY <4>2 DEF Begins, Agree
    <3>3. ASSUME q <= n, NEW f \in BOOLEAN, Passes(s[q], b, f) PROVE Begins(Mended(s, q, b), Mended(d, q, b))
      <4>1. q \in 1..n /\ q \in 1..Len(d) /\ s[q] = d[q] /\ s[q] \in T /\ q + 1 \in (q + 1)..(n + 1)
            /\ q + 1 \in Places(s) /\ q + 1 \in Places(d)
        BY <1>1, <3>3
      <4>2. Mended(s, q, b) = <<s[q]>> \o Mended(s, q + 1, f) /\ Mended(d, q, b) = <<s[q]>> \o Mended(d, q + 1, f)
        BY <3>3, <4>1, PassesByte
      <4>3. Mended(s, q + 1, f) \in Seq(T) /\ Mended(d, q + 1, f) \in Seq(T)
            /\ Begins(Mended(s, q + 1, f), Mended(d, q + 1, f))
        BY <2>1, <4>1, MendSteps
      <4> QED BY <4>1, <4>2, <4>3, BeginsAfter
    <3>4. CASE q <= n /\ b = TRUE /\ s[q] = "ctl"
      <4>1. q \in 1..n /\ ~(q > n) /\ ~(q > Len(d)) /\ d[q] = "ctl" /\ q + 1 \in (q + 1)..(n + 1)
            /\ q + 1 \in Places(s) /\ q + 1 \in Places(d)
        BY <1>1, <3>4
      <4>2. /\ Mended(s, q, b) = <<"\\", "n">> \o Mended(s, q + 1, TRUE)
            /\ Mended(d, q, b) = <<"\\", "n">> \o Mended(d, q + 1, TRUE)
        BY <1>2, <3>1, <3>4, <4>1 DEF MendStep
      <4>3. Mended(s, q + 1, b) \in Seq(T) /\ Mended(d, q + 1, b) \in Seq(T)
            /\ Begins(Mended(s, q + 1, b), Mended(d, q + 1, b))
        BY <2>1, <4>1, MendSteps
      <4>4. "\\" \in T /\ "n" \in T
        OBVIOUS
      <4> QED BY <3>4, <4>2, <4>3, <4>4, BeginsAfter
    <3>5. CASE q < n /\ b = TRUE /\ s[q] = "\\" /\ s[q + 1] \in Escapable
      <4>1. /\ q \in 1..(n - 1) /\ q \in 1..(Len(d) - 1) /\ q + 1 \in 1..n /\ q \in 1..n
            /\ q + 2 \in (q + 1)..(n + 1) /\ q + 2 \in Places(s) /\ q + 2 \in Places(d)
        BY <1>1, <3>5
      <4>2. s[q] = d[q] /\ s[q + 1] = d[q + 1] /\ s[q] \in T /\ s[q + 1] \in T
        BY <1>1, <4>1
      <4>3. b
        BY <3>5
      <4>4. /\ Mended(s, q, b) = <<s[q], s[q + 1]>> \o Mended(s, q + 2, b)
            /\ Mended(d, q, b) = <<s[q], s[q + 1]>> \o Mended(d, q + 2, b)
        BY <3>5, <4>1, <4>2, <4>3, PassesEscape
      <4>5. Mended(s, q + 2, b) \in Seq(T) /\ Mended(d, q + 2, b) \in Seq(T)
            /\ Begins(Mended(s, q + 2, b), Mended(d, q + 2, b))
        BY <2>1, <4>1, MendSteps
      <4> QED BY <4>2, <4>4, <4>5, BeginsAfter
    <3>6. CASE q < n /\ b = TRUE /\ s[q] = "\\" /\ s[q + 1] \notin Escapable
      <4>1. /\ q \in 1..n /\ q + 1 \in 1..n /\ ~(q > n) /\ ~(q > Len(d)) /\ q # n /\ q # Len(d)
            /\ d[q] = "\\" /\ q + 1 \in (q + 1)..(n + 1) /\ q + 1 \in Places(s) /\ q + 1 \in Places(d)
        BY <1>1, <3>6
      <4>2. d[q + 1] \notin Escapable
        BY <1>1, <3>6, <4>1
      <4>3. /\ Mended(s, q, b) = <<"\\", "\\">> \o Mended(s, q + 1, TRUE)
            /\ Mended(d, q, b) = <<"\\", "\\">> \o Mended(d, q + 1, TRUE)
        BY <1>2, <3>1, <3>6, <4>1, <4>2 DEF MendStep
      <4>4. Mended(s, q + 1, b) \in Seq(T) /\ Mended(d, q + 1, b) \in Seq(T)
            /\ Begins(Mended(s, q + 1, b), Mended(d, q + 1, b))
        BY <2>1, <4>1, MendSteps
      <4>5. "\\" \in T
        OBVIOUS
      <4> QED BY <3>6, <4>3, <4>4, <4>5, BeginsAfter
    <3>7. CASE q = n /\ b = TRUE /\ s[q] = "\\"
      <4>1. ~(q > n) /\ ~(q > Len(d)) /\ d[q] = "\\" /\ q + 1 \in Places(s) /\ q + 1 \in Places(d) /\ q + 1 > n
            /\ (q # Len(d) => q + 1 \in 1..Len(d) /\ q + 2 \in Places(d))
        BY <1>1, <3>7
      <4> DEFINE x == Mended(s, q, b)
                 y == Mended(d, q, b)
                 t == Mended(s, q + 1, b)
      <4>2. x = <<"\\">> \o t
        BY <1>2, <3>1, <3>7, <4>1 DEF MendStep
      <4>3. MendStep(s, q + 1, b) /\ q + 1 > Len(s)
        BY <4>1, MendSteps
      <4>4. t = <<>>
        BY <4>3 DEF MendStep
      <4>5. "\\" \in T /\ "n" \in T /\ (q # Len(d) => d[q + 1] \in T)
        BY <1>1, <4>1, ElementOfSeq
      <4>6. \/ \E u \in Seq(T) : y = <<"\\">> \o u
            \/ \E a \in T, u \in Seq(T) : y = <<"\\", a>> \o u
        <5>1. CASE q = Len(d)
          <6>1. y = <<"\\">> \o Mended(d, q + 1, b)
            BY <1>2, <3>1, <3>7, <4>1, <5>1 DEF MendStep
          <6>2. Mended(d, q + 1, b) \in Seq(T)
            BY <4>1, MendSteps
          <6> QED BY <6>1, <6>2
        <5>2. CASE q # Len(d) /\ d[q + 1] \in Escapable
          <6>1. y = <<"\\", d[q + 1]>> \o Mended(d, q + 2, TRUE)
            BY <1>2, <3>1, <3>7, <4>1, <5>2 DEF MendStep
          <6>2. Mended(d, q + 2, b) \in Seq(T)
            BY <4>1, <5>2, MendSteps
          <6> QED BY <3>7, <4>5, <5>2, <6>1, <6>2
        <5>3. CASE q # Len(d) /\ d[q + 1] \notin Escapable
          <6>1. y = <<"\\", "\\">> \o Mended(d, q + 1, TRUE)
            BY <1>2, <3>1, <3>7, <4>1, <5>3 DEF MendStep
          <6>2. Mended(d, q + 1, b) \in Seq(T)
            BY <4>1, MendSteps
          <6> QED BY <3>7, <4>5, <6>1, <6>2
        <5> QED BY <5>1, <5>2, <5>3
      <4> HIDE DEF x, y, t
      <4>7. Len(y) >= 1 /\ y[1] = "\\"
        <5>1. ASSUME NEW u \in Seq(T), y = <<"\\">> \o u PROVE Len(y) >= 1 /\ y[1] = "\\"
          <6>1. Len(u) \in Nat /\ Len(<<"\\">> \o u) = Len(u) + 1 /\ (<<"\\">> \o u)[1] = "\\"
            BY <4>5, OneByte, LenProperties
          <6> QED BY <5>1, <6>1
        <5>2. ASSUME NEW a \in T, NEW u \in Seq(T), y = <<"\\", a>> \o u PROVE Len(y) >= 1 /\ y[1] = "\\"
          <6>1. Len(u) \in Nat /\ Len(<<"\\", a>> \o u) = Len(u) + 2 /\ (<<"\\", a>> \o u)[1] = "\\"
            BY <4>5, TwoBytes, LenProperties
          <6> QED BY <5>2, <6>1
        <5> QED BY <4>6, <5>1, <5>2
      <4>8. Len(x) = 1 /\ x[1] = "\\"
        <5>1. t \in Seq(T) /\ Len(t) = 0
          BY <4>4, EmptySeq
        <5>2. Len(<<"\\">> \o t) = Len(t) + 1 /\ (<<"\\">> \o t)[1] = "\\"
          BY <4>5, <5>1, OneByte
        <5> QED BY <4>2, <5>1, <5>2
      <4>9. Len(y) \in Nat
        BY <3>1, LenProperties DEF y
      <4>10. Begins(x, y)
        BY <4>7, <4>8, <4>9 DEF Begins, Agree
      <4> QED BY <4>10 DEF x, y
    <3>8. q = n + 1 \/ q < n \/ q = n
      BY <1>1
    <3>9. q <= n => \/ Passes(s[q], b, TRUE) \/ Passes(s[q], b, FALSE)
                    \/ (b = TRUE /\ s[q] = "\\") \/ (b = TRUE /\ s[q] = "ctl")
      <4>1. CASE b = TRUE
        BY <1>2, <4>1 DEF Passes
      <4>2. CASE b = FALSE
        BY <1>2, <4>2 DEF Passes
      <4> QED BY <4>1, <4>2
    <3>10. CASE q = n
      <4>1. q <= n
        BY <1>1, <3>10
      <4> QED BY <3>3, <3>4, <3>7, <3>9, <3>10, <4>1
    <3>11. CASE q < n
      <4>1. q <= n
        BY <1>1, <3>11
      <4> QED BY <3>3, <3>4, <3>5, <3>6, <3>9, <3>11, <4>1
    <3> QED BY <3>2, <3>8, <3>10, <3>11
  <2> QED BY <2>2 DEF S
<1>4. \A q \in 1..(n + 1) : q \in S
  <2> HIDE DEF S
  <2>1. n + 1 \in Nat
    BY <1>1
  <2> QED BY <1>3, <2>1, FromTheEnd
<1>5. Begins(Mended(s, 1, FALSE), Mended(d, 1, FALSE))
  <2>1. 1 \in 1..(n + 1) /\ FALSE \in BOOLEAN
    BY <1>1
  <2> QED BY <1>4, <2>1
<1> QED BY <1>5, RepairIs

\* The ends of the values and of the items of a text.
Ends(s) == CHOOSE end : end = [at \in Parts \X Places(s) |->
             IF at[1] = "value" THEN ValueEndFrom(s, at[2], end) ELSE ItemsEndFrom(s, at[1], at[2], end)]
EndAt(s, k, p) == Ends(s)[<<k, p>>]

EndFrom(s, k, p, g) == IF k = "value" THEN ValueEndFrom(s, p, g) ELSE ItemsEndFrom(s, k, p, g)

IsEnd(s, p, e) == e \in {0} \cup (p + 1)..(Len(s) + 1)
AreValueEnds(s, g) == \A k \in Parts, p \in Places(s) : IsEnd(s, p, g[<<k, p>>]) /\ g[<<k, p>>] = EndFrom(s, k, p, g)

\* An item begins where it is, or its value does behind its key.
LEMMA ItemValueIs ==
  ASSUME NEW T, NEW s \in Seq(T), NEW k \in Parts, NEW p \in Places(s)
  PROVE  ItemValue(s, k, p) \in {0} \cup p..(Len(s) + 1)
<1>1. Len(s) \in Nat /\ Places(s) = 1..(Len(s) + 1) /\ p \in 1..(Len(s) + 1)
  BY LenProperties DEF Places
<1>2. CASE k = "]"
  BY <1>1, <1>2 DEF ItemValue
<1>3. CASE k # "]" /\ Has(s, p, Quote)
  <2>1. p + 1 \in Places(s) /\ p + 1 \in Nat
    BY <1>1, <1>3 DEF Has
  <2>2. StringEnd(s, p + 1) \in {0} \cup (p + 2)..(Len(s) + 1)
    <3>1. StringEnd(s, p + 1) \in {0} \cup (p + 1 + 1)..(Len(s) + 1)
      BY <2>1, StringEndSteps DEF StringEndStep
    <3> QED BY <1>1, <3>1
  <2> QED BY <1>1, <1>3, <2>2 DEF ItemValue, Has
<1>4. CASE k # "]" /\ ~Has(s, p, Quote)
  BY <1>4 DEF ItemValue
<1> QED BY <1>2, <1>3, <1>4

LEMMA EndsExist ==
  ASSUME NEW T, NEW s \in Seq(T)
  PROVE  AreValueEnds(s, Ends(s))
<1> DEFINE n == Len(s)
           P == Places(s)
           I == Parts \X P
           D == {g \in [I -> 0..(n + 1)] : \A k \in Parts, p \in P : IsEnd(s, p, g[<<k, p>>])}
           Next1(g) == [at \in I |-> EndFrom(s, at[1], at[2], g)]
           F == [g \in D |-> Next1(g)]
           rank == [at \in I |-> 2 * (n + 1 - at[2]) + (IF at[1] = "value" THEN 0 ELSE 1)]
<1>1. n \in Nat /\ P = 1..(n + 1)
  BY LenProperties DEF Places
<1>0. "value" \in Parts /\ "]" \in Parts /\ CloseBrace \in Parts /\ \A c : Closing(c) \in Parts /\ Closing(c) # "value"
  BY Distinct DEF OtherBytes, Parts, Closing
<1>2. D # {}
  <2> DEFINE z == [at \in I |-> 0]
  <2>1. z \in [I -> 0..(n + 1)]
    BY <1>1
  <2>2. ASSUME NEW k \in Parts, NEW p \in P PROVE IsEnd(s, p, z[<<k, p>>])
    BY DEF IsEnd
  <2>3. z \in D
    BY <2>1, <2>2
  <2> QED BY <2>3
<1>3. rank \in [I -> 0..(2 * n + 1)]
  <2>1. ASSUME NEW at \in I PROVE 2 * (n + 1 - at[2]) + (IF at[1] = "value" THEN 0 ELSE 1) \in 0..(2 * n + 1)
    <3>1. at[2] \in 1..(n + 1)
      BY <1>1
    <3> QED BY <1>1, <3>1
  <2> QED BY <2>1
<1>4. ASSUME NEW g, NEW p \in 1..(n + 1), NEW k \in Parts,
             \A r \in (p + 1)..(n + 1), j \in Parts : IsEnd(s, r, g[<<j, r>>]),
             k # "value" => IsEnd(s, p, g[<<"value", p>>])
      PROVE  IsEnd(s, p, EndFrom(s, k, p, g))
  <2>1. CASE k = "value"
    <3>1. CASE p > n
      BY <2>1, <3>1 DEF EndFrom, ValueEndFrom, IsEnd
    <3>2. CASE p <= n
      <4>1. p + 1 \in (p + 1)..(n + 1) /\ p + 1 \in P /\ p \in P
        BY <1>1, <3>2
      <4>2. StringEnd(s, p + 1) \in {0} \cup (p + 1)..(n + 1)
        <5>1. StringEnd(s, p + 1) \in {0} \cup (p + 1 + 1)..(n + 1)
          BY <4>1, StringEndSteps DEF StringEndStep
        <5> QED BY <1>1, <5>1
      <4>3. g[<<Closing(s[p]), p + 1>>] \in {0} \cup (p + 1)..(n + 1)
        <5>1. IsEnd(s, p + 1, g[<<Closing(s[p]), p + 1>>])
          BY <1>0, <1>4, <4>1
        <5> QED BY <1>1, <4>1, <5>1 DEF IsEnd
      <4>4. s[p] \in Digits => RunEnd(s, p, Digits) \in {0} \cup (p + 1)..(n + 1)
        <5>1. IsRunEnd(s, p, Digits, RunEnd(s, p, Digits))
          BY <4>1, RunEndIs
        <5>2. RunEnd(s, p, Digits) \in p..(n + 1) /\ (RunEnd(s, p, Digits) = p => s[p] \notin Digits)
          BY <1>1, <3>2, <5>1 DEF IsRunEnd
        <5> QED BY <1>1, <5>2
      <4>5. p + 1 \in {0} \cup (p + 1)..(n + 1) /\ \A c : Has(s, p + 1, c) => p + 2 \in {0} \cup (p + 1)..(n + 1)
        BY <1>1, <4>1 DEF Has
      <4>6. ~(p > n)
        BY <1>1, <3>2
      <4>7. ValueEndFrom(s, p, g) \in {0} \cup (p + 1)..(n + 1)
        BY <4>2, <4>3, <4>4, <4>5, <4>6 DEF ValueEndFrom
      <4> QED BY <2>1, <4>7 DEF EndFrom, IsEnd
    <3> QED BY <1>1, <3>1, <3>2
  <2>2. CASE k # "value"
    <3> DEFINE v == ItemValue(s, k, p)
               q == IF v = 0 THEN 0 ELSE g[<<"value", v>>]
    <3>1. v \in {0} \cup p..(n + 1)
      BY <1>1, ItemValueIs
    <3>2. v # 0 => IsEnd(s, v, g[<<"value", v>>])
      <4>1. v # 0 => v = p \/ v \in (p + 1)..(n + 1)
        BY <1>1, <3>1
      <4> HIDE DEF v
      <4> QED BY <1>0, <1>4, <2>2, <4>1
    <3>3. q \in {0} \cup (p + 1)..(n + 1)
      <4> HIDE DEF v
      <4> QED BY <1>1, <3>1, <3>2 DEF IsEnd
    <3> HIDE DEF q
    <3>4. Has(s, q, Comma) /\ q # 0 => g[<<k, q + 1>>] \in {0} \cup (p + 1)..(n + 1)
      <4> SUFFICES ASSUME Has(s, q, Comma), q # 0 PROVE g[<<k, q + 1>>] \in {0} \cup (p + 1)..(n + 1)
        OBVIOUS
      <4>0. q \in (p + 1)..(n + 1) /\ q <= n
        BY <3>3 DEF Has
      <4>1. q + 1 \in (p + 1)..(n + 1)
        BY <1>1, <4>0
      <4>2. IsEnd(s, q + 1, g[<<k, q + 1>>])
        BY <1>4, <4>1
      <4> QED BY <1>1, <4>0, <4>1, <4>2 DEF IsEnd
    <3>5. Has(s, q, k) /\ q # 0 => q + 1 \in {0} \cup (p + 1)..(n + 1)
      BY <1>1, <3>3 DEF Has
    <3>6. ItemsEndFrom(s, k, p, g) \in {0} \cup (p + 1)..(n + 1)
      BY <3>4, <3>5 DEF ItemsEndFrom, q
    <3> QED BY <2>2, <3>6 DEF EndFrom, IsEnd
  <2> QED BY <2>1, <2>2
<1>5. F \in [D -> D]
  <2>1. ASSUME NEW g \in D PROVE Next1(g) \in D
    <3>1. ASSUME NEW k \in Parts, NEW p \in 1..(n + 1) PROVE IsEnd(s, p, EndFrom(s, k, p, g))
      <4>1. \A r \in 1..(n + 1), j \in Parts : IsEnd(s, r, g[<<j, r>>])
        BY <1>1
      <4>2. \A r \in (p + 1)..(n + 1) : r \in 1..(n + 1)
        BY <1>1
      <4> HIDE DEF D
      <4>3. \A r \in (p + 1)..(n + 1), j \in Parts : IsEnd(s, r, g[<<j, r>>])
        BY <4>1, <4>2
      <4>4. IsEnd(s, p, g[<<"value", p>>])
        BY <1>0, <4>1
      <4> QED BY <1>4, <4>3, <4>4
    <3>2. ASSUME NEW at \in I PROVE EndFrom(s, at[1], at[2], g) \in 0..(n + 1)
      <4>1. at[1] \in Parts /\ at[2] \in 1..(n + 1)
        BY <1>1
      <4>2. IsEnd(s, at[2], EndFrom(s, at[1], at[2], g))
        BY <3>1, <4>1
      <4> QED BY <1>1, <4>1, <4>2 DEF IsEnd
    <3>3. Next1(g) \in [I -> 0..(n + 1)]
      <4> HIDE DEF I, D
      <4> QED BY <3>2
    <3>4. ASSUME NEW k \in Parts, NEW p \in P PROVE IsEnd(s, p, Next1(g)[<<k, p>>])
      <4>1. Next1(g)[<<k, p>>] = EndFrom(s, k, p, g)
        OBVIOUS
      <4> QED BY <1>1, <3>1, <4>1
    <3> HIDE DEF Next1
    <3> QED BY <3>3, <3>4
  <2> HIDE DEF Next1, D
  <2> QED BY <2>1
<1>6. Causal(I, D, rank, F)
  <2>1. ASSUME NEW g \in D, NEW h \in D, NEW at \in I, \A y \in I : rank[y] < rank[at] => g[y] = h[y]
        PROVE  F[g][at] = F[h][at]
    <3>1. PICK k \in Parts, p \in 1..(n + 1) : at = <<k, p>> /\ at[1] = k /\ at[2] = p
      BY <1>1
    <3>2. ASSUME NEW r \in 1..(n + 1), NEW j \in Parts, r > p \/ (r = p /\ j = "value" /\ k # "value")
          PROVE  g[<<j, r>>] = h[<<j, r>>] /\ IsEnd(s, r, g[<<j, r>>])
      <4>1. <<j, r>> \in I /\ <<j, r>>[1] = j /\ <<j, r>>[2] = r
        BY <1>1
      <4>2. rank[<<j, r>>] < rank[at]
        <5>1. rank[<<j, r>>] = 2 * (n + 1 - r) + (IF j = "value" THEN 0 ELSE 1)
          BY <4>1
        <5>2. rank[at] = 2 * (n + 1 - p) + (IF k = "value" THEN 0 ELSE 1)
          BY <3>1
        <5> HIDE DEF rank
        <5> QED BY <1>1, <3>2, <5>1, <5>2
      <4>3. IsEnd(s, r, g[<<j, r>>])
        BY <1>1
      <4> HIDE DEF rank, I, D
      <4> QED BY <2>1, <4>1, <4>2, <4>3
    <3> HIDE DEF D, rank
    <3>3. EndFrom(s, k, p, g) = EndFrom(s, k, p, h)
      <4>1. CASE k = "value"
        <5>1. p <= n => g[<<Closing(s[p]), p + 1>>] = h[<<Closing(s[p]), p + 1>>]
          <6>1. p <= n => p + 1 \in 1..(n + 1) /\ p + 1 > p
            BY <1>1
          <6> QED BY <1>0, <3>2, <6>1
        <5>2. p > n \/ p <= n
          BY <1>1
        <5> QED BY <4>1, <5>1, <5>2 DEF EndFrom, ValueEndFrom
      <4>2. CASE k # "value"
        <5> DEFINE v == ItemValue(s, k, p)
                   q == IF v = 0 THEN 0 ELSE g[<<"value", v>>]
                   q2 == IF v = 0 THEN 0 ELSE h[<<"value", v>>]
        <5>1. v \in {0} \cup p..(n + 1)
          BY <1>1, ItemValueIs
        <5>2. v # 0 => v \in 1..(n + 1) /\ (v > p \/ v = p)
          BY <1>1, <5>1
        <5> HIDE DEF v
        <5>3. v # 0 => g[<<"value", v>>] = h[<<"value", v>>] /\ IsEnd(s, v, g[<<"value", v>>])
          BY <1>0, <3>2, <4>2, <5>2
        <5>4. q = q2 /\ q \in {0} \cup (p + 1)..(n + 1)
          BY <1>1, <5>2, <5>3 DEF IsEnd
        <5> HIDE DEF q, q2
        <5>5. Has(s, q, Comma) /\ q # 0 => g[<<k, q + 1>>] = h[<<k, q + 1>>]
          <6>0. Has(s, q, Comma) /\ q # 0 => q \in (p + 1)..(n + 1) /\ q <= n
            BY <5>4 DEF Has
          <6>1. Has(s, q, Comma) /\ q # 0 => q + 1 \in 1..(n + 1) /\ q + 1 > p
            BY <1>1, <6>0
          <6> QED BY <3>2, <6>1
        <5>6. /\ ItemsEndFrom(s, k, p, g) = IF q = 0 THEN 0 ELSE IF Has(s, q, Comma) THEN g[<<k, q + 1>>]
                                            ELSE IF Has(s, q, k) THEN q + 1 ELSE 0
              /\ ItemsEndFrom(s, k, p, h) = IF q2 = 0 THEN 0 ELSE IF Has(s, q2, Comma) THEN h[<<k, q2 + 1>>]
                                            ELSE IF Has(s, q2, k) THEN q2 + 1 ELSE 0
          BY DEF ItemsEndFrom, q, q2, v
        <5>7. ItemsEndFrom(s, k, p, g) = ItemsEndFrom(s, k, p, h)
          <6> HIDE DEF n, P
          <6>1. CASE q = 0
            BY <5>4, <5>6, <6>1
          <6>2. CASE q # 0 /\ Has(s, q, Comma)
            BY <5>4, <5>5, <5>6, <6>2
          <6>3. CASE q # 0 /\ ~Has(s, q, Comma)
            BY <5>4, <5>6, <6>3
          <6> QED BY <6>1, <6>2, <6>3
        <5> QED BY <4>2, <5>7 DEF EndFrom
      <4> QED BY <4>1, <4>2
    <3>4. F[g][at] = EndFrom(s, k, p, g) /\ F[h][at] = EndFrom(s, k, p, h)
      BY <3>1
    <3> QED BY <3>3, <3>4
  <2> HIDE DEF F, D, rank, I
  <2> QED BY <2>1 DEF Causal
<1>7. PICK g \in D : \A at \in I : g[at] = F[g][at]
  <2>0. 2 * n + 1 \in Nat
    BY <1>1
  <2> HIDE DEF F, D, rank, I, n
  <2>1. Solved(I, D, F)
    BY <2>0, <1>2, <1>3, <1>5, <1>6, Recursion
  <2> QED BY <2>1 DEF Solved
<1>8. g = [at \in I |-> EndFrom(s, at[1], at[2], g)]
  <2>1. \A at \in I : g[at] = EndFrom(s, at[1], at[2], g)
    <3> HIDE DEF I, D
    <3> QED BY <1>7
  <2> HIDE DEF I
  <2> QED BY <2>1
<1> DEFINE e == Ends(s)
<1>9. e = [at \in I |-> EndFrom(s, at[1], at[2], e)]
  <2> HIDE DEF D
  <2> QED BY <1>8 DEF Ends, EndFrom
<1> HIDE DEF e
<1>10. ASSUME NEW p \in 1..(n + 1), NEW k \in Parts PROVE e[<<k, p>>] = EndFrom(s, k, p, e)
  <2> DEFINE at == <<k, p>>
  <2>1. at \in I /\ at[1] = k /\ at[2] = p
    BY <1>1
  <2> HIDE DEF at, I
  <2>2. e[at] = EndFrom(s, k, p, e)
    BY <1>9, <2>1
  <2> QED BY <2>2 DEF at
<1> DEFINE S == {p \in 1..(n + 1) : \A k \in Parts : IsEnd(s, p, e[<<k, p>>])}
<1>11. ASSUME NEW p \in 1..(n + 1), \A r \in (p + 1)..(n + 1) : r \in S PROVE p \in S
  <2>1. \A r \in (p + 1)..(n + 1), j \in Parts : IsEnd(s, r, e[<<j, r>>])
    BY <1>11
  <2>2. IsEnd(s, p, e[<<"value", p>>])
    <3>1. IsEnd(s, p, EndFrom(s, "value", p, e))
      BY <1>0, <1>4, <2>1
    <3> QED BY <1>0, <1>10, <3>1
  <2>3. ASSUME NEW k \in Parts PROVE IsEnd(s, p, e[<<k, p>>])
    <3>1. IsEnd(s, p, EndFrom(s, k, p, e))
      BY <1>4, <2>1, <2>2
    <3> QED BY <1>10, <3>1
  <2> QED BY <2>3
<1>12. \A p \in 1..(n + 1) : p \in S
  <2> HIDE DEF S
  <2>1. n + 1 \in Nat
    BY <1>1
  <2> QED BY <1>11, <2>1, FromTheEnd
<1> QED BY <1>1, <1>10, <1>12 DEF AreValueEnds, e

Brackets == {"]", CloseBrace}
Openers == {OpenBrace, "["}

\* What a value that ends at e is.
ValueIs(s, p, e) ==
  /\ p <= Len(s)
  /\ \/ s[p] = Quote /\ StringEnd(s, p + 1) = e
     \/ s[p] \in Openers /\ Has(s, p + 1, Closing(s[p])) /\ e = p + 2
     \/ s[p] \in Openers /\ ~Has(s, p + 1, Closing(s[p])) /\ EndAt(s, Closing(s[p]), p + 1) = e
     \/ s[p] = "null" /\ e = p + 1
     \/ s[p] = "t" /\ Has(s, p + 1, "e") /\ e = p + 2
     \/ s[p] \in Digits /\ RunEnd(s, p, Digits) = e /\ IsNumber(SubSeq(s, p, e - 1))

LEMMA ValueEnds ==
  ASSUME NEW T, NEW s \in Seq(T), NEW p \in Places(s)
  PROVE  /\ IsEnd(s, p, EndAt(s, "value", p))
         /\ \A e : e # 0 => (EndAt(s, "value", p) = e <=> ValueIs(s, p, e))
<1>1. Len(s) \in Nat /\ p \in 1..(Len(s) + 1)
  BY LenProperties DEF Places
<1>2. "value" \in Parts
  BY DEF Parts
<1> DEFINE g == Ends(s)
<1>3. IsEnd(s, p, g[<<"value", p>>]) /\ g[<<"value", p>>] = EndFrom(s, "value", p, g)
  BY <1>2, EndsExist DEF AreValueEnds
<1> HIDE DEF g
<1>4. EndAt(s, "value", p) = g[<<"value", p>>] /\ \A k, q : EndAt(s, k, q) = g[<<k, q>>]
  BY DEF EndAt, g
<1>5. EndAt(s, "value", p) = ValueEndFrom(s, p, g)
  BY <1>3, <1>4 DEF EndFrom
<1>6. CASE p > Len(s)
  <2>1. EndAt(s, "value", p) = 0 /\ ~(p <= Len(s))
    BY <1>1, <1>5, <1>6 DEF ValueEndFrom
  <2> QED BY <1>3, <1>4, <2>1 DEF ValueIs
<1>7. CASE p <= Len(s)
  <2> DEFINE a == s[p]
             z == EndAt(s, "value", p)
  <2> HIDE DEF a, z
  <2>1. ~(p > Len(s))
    BY <1>1, <1>7
  <2>2. z = CASE a = Quote -> StringEnd(s, p + 1)
              [] a \in Openers -> IF Has(s, p + 1, Closing(a)) THEN p + 2 ELSE EndAt(s, Closing(a), p + 1)
              [] a = "null" -> p + 1
              [] a = "t" -> IF Has(s, p + 1, "e") THEN p + 2 ELSE 0
              [] a \in Digits -> LET q == RunEnd(s, p, Digits)
                                 IN  IF IsNumber(SubSeq(s, p, q - 1)) THEN q ELSE 0
              [] OTHER -> 0
    BY <1>4, <1>5, <2>1 DEF ValueEndFrom, a, z, Openers
  <2>3. ASSUME NEW e, e # 0
        PROVE  z = e <=>
                 \/ a = Quote /\ StringEnd(s, p + 1) = e
                 \/ a \in Openers /\ Has(s, p + 1, Closing(a)) /\ e = p + 2
                 \/ a \in Openers /\ ~Has(s, p + 1, Closing(a)) /\ EndAt(s, Closing(a), p + 1) = e
                 \/ a = "null" /\ e = p + 1
                 \/ a = "t" /\ Has(s, p + 1, "e") /\ e = p + 2
                 \/ a \in Digits /\ RunEnd(s, p, Digits) = e /\ IsNumber(SubSeq(s, p, e - 1))
    <3>1. /\ Quote \notin Openers /\ Quote \notin {"null", "t"} /\ Quote \notin Digits
          /\ Openers \cap {"null", "t"} = {} /\ Openers \cap Digits = {}
          /\ "null" \notin Digits /\ "t" \notin Digits /\ "null" # "t"
      BY Distinct DEF Openers, OtherBytes, Digits
    <3>2. CASE a = Quote
      BY <2>2, <2>3, <3>1, <3>2
    <3>3. CASE a \in Openers /\ Has(s, p + 1, Closing(a))
      <4>1. a # Quote /\ a \notin {"null", "t"} /\ a \notin Digits
        BY <3>1, <3>3
      <4> QED BY <2>2, <2>3, <3>3, <4>1
    <3>4. CASE a \in Openers /\ ~Has(s, p + 1, Closing(a))
      <4>1. a # Quote /\ a \notin {"null", "t"} /\ a \notin Digits
        BY <3>1, <3>4
      <4> QED BY <2>2, <2>3, <3>4, <4>1
    <3>5. CASE a = "null"
      BY <2>2, <2>3, <3>1, <3>5
    <3>6. CASE a = "t"
      BY <2>2, <2>3, <3>1, <3>6
    <3>7. CASE a \in Digits
      <4>1. a # Quote /\ a \notin {"null", "t"} /\ a \notin Openers
        BY <3>1, <3>7
      <4>2. z = IF IsNumber(SubSeq(s, p, RunEnd(s, p, Digits) - 1)) THEN RunEnd(s, p, Digits) ELSE 0
        BY <2>2, <3>7, <4>1
      <4> QED BY <2>3, <3>7, <4>1, <4>2
    <3>8. CASE a # Quote /\ a \notin Openers /\ a # "null" /\ a # "t" /\ a \notin Digits
      BY <2>2, <2>3, <3>8
    <3> QED BY <3>2, <3>3, <3>4, <3>5, <3>6, <3>7, <3>8
  <2>4. ASSUME NEW e, e # 0 PROVE EndAt(s, "value", p) = e <=> ValueIs(s, p, e)
    BY <1>7, <2>3, <2>4 DEF a, z, ValueIs
  <2> QED BY <1>3, <1>4, <2>4
<1> QED BY <1>1, <1>6, <1>7

\* The end of the value of the item at p, and what comes after it.
ValueOfItem(s, k, p) == IF ItemValue(s, k, p) = 0 THEN 0 ELSE EndAt(s, "value", ItemValue(s, k, p))

ItemsAre(s, k, p, e) ==
  /\ ItemValue(s, k, p) \in p..(Len(s) + 1)
  /\ ValueOfItem(s, k, p) \in (ItemValue(s, k, p) + 1)..Len(s)
  /\ \/ s[ValueOfItem(s, k, p)] = Comma /\ EndAt(s, k, ValueOfItem(s, k, p) + 1) = e
     \/ s[ValueOfItem(s, k, p)] = k /\ e = ValueOfItem(s, k, p) + 1

LEMMA ItemsEnds ==
  ASSUME NEW T, NEW s \in Seq(T), NEW k \in Brackets, NEW p \in Places(s)
  PROVE  /\ IsEnd(s, p, EndAt(s, k, p))
         /\ \A e : e # 0 => (EndAt(s, k, p) = e <=> ItemsAre(s, k, p, e))
<1>1. Len(s) \in Nat /\ p \in 1..(Len(s) + 1) /\ Places(s) = 1..(Len(s) + 1)
  BY LenProperties DEF Places
<1>2. k \in Parts /\ k # "value" /\ k # Comma
  BY Distinct DEF Parts, Brackets, OtherBytes
<1> DEFINE g == Ends(s)
           v == ItemValue(s, k, p)
           q == ValueOfItem(s, k, p)
           z == EndAt(s, k, p)
<1>3. IsEnd(s, p, g[<<k, p>>]) /\ g[<<k, p>>] = EndFrom(s, k, p, g)
  BY <1>2, EndsExist DEF AreValueEnds
<1> HIDE DEF g
<1>4. \A j, r : EndAt(s, j, r) = g[<<j, r>>]
  BY DEF EndAt, g
<1>5. v \in {0} \cup p..(Len(s) + 1)
  BY <1>2, ItemValueIs
<1>6. z = ItemsEndFrom(s, k, p, g)
  BY <1>2, <1>3, <1>4 DEF EndFrom
<1>7. z = IF q = 0 THEN 0 ELSE IF Has(s, q, Comma) THEN EndAt(s, k, q + 1) ELSE IF Has(s, q, k) THEN q + 1 ELSE 0
  BY <1>4, <1>6 DEF ItemsEndFrom, ValueOfItem
<1>8. v # 0 => v \in p..(Len(s) + 1) /\ v \in Places(s)
  BY <1>1, <1>5
<1>9. q \in {0} \cup (v + 1)..(Len(s) + 1)
  <2> HIDE DEF v
  <2>1. v # 0 => IsEnd(s, v, EndAt(s, "value", v))
    BY <1>8, ValueEnds
  <2> QED BY <1>1, <1>5, <2>1 DEF IsEnd, ValueOfItem, v
<1>10. v = 0 => q = 0
  BY DEF ValueOfItem
<1> HIDE DEF q, v, z
<1>11. ASSUME NEW e, e # 0
       PROVE  z = e <=> /\ v \in p..(Len(s) + 1)
                        /\ q \in (v + 1)..Len(s)
                        /\ \/ s[q] = Comma /\ EndAt(s, k, q + 1) = e
                           \/ s[q] = k /\ e = q + 1
  <2>1. CASE q = 0
    <3>1. z # e
      BY <1>7, <1>11, <2>1
    <3>2. ~(v \in p..(Len(s) + 1) /\ q \in (v + 1)..Len(s))
      BY <1>1, <2>1
    <3> QED BY <3>1, <3>2
  <2>2. CASE q # 0 /\ q > Len(s)
    <3>1. ~Has(s, q, Comma) /\ ~Has(s, q, k)
      BY <1>1, <1>9, <2>2 DEF Has
    <3>2. z # e
      BY <1>7, <1>11, <2>2, <3>1
    <3>3. ~(q \in (v + 1)..Len(s))
      BY <1>1, <1>5, <2>2
    <3> QED BY <3>2, <3>3
  <2>3. CASE q # 0 /\ q <= Len(s)
    <3>1. v \in p..(Len(s) + 1) /\ q \in (v + 1)..Len(s)
      BY <1>1, <1>8, <1>9, <1>10, <2>3
    <3>2. (Has(s, q, Comma) <=> s[q] = Comma) /\ (Has(s, q, k) <=> s[q] = k)
      BY <2>3 DEF Has
    <3> QED BY <1>2, <1>7, <1>11, <2>3, <3>1, <3>2
  <2>4. q # 0 => q > Len(s) \/ q <= Len(s)
    BY <1>1, <1>5, <1>9
  <2> QED BY <2>1, <2>2, <2>3, <2>4
<1>12. ASSUME NEW e, e # 0 PROVE EndAt(s, k, p) = e <=> ItemsAre(s, k, p, e)
  BY <1>11, <1>12 DEF ItemsAre, q, v, z
<1> QED BY <1>3, <1>4, <1>12

LEMMA ValidIs == ASSUME NEW s PROVE Valid(s) <=> EndAt(s, "value", 1) = Len(s) + 1
  BY DEF Valid, ValueEnd, EndAt, Ends

\* The byte at p stays as it is.
Stays(s, p, b, d) == Mended(s, p, b) = <<s[p]>> \o Mended(s, p + 1, d)

LEMMA Staying ==
  ASSUME NEW T, {"\\", "n"} \subseteq T, NEW s \in Seq(T), NEW p \in 1..Len(s), NEW b \in BOOLEAN, NEW d \in BOOLEAN
  PROVE  Stays(s, p, b, d) => (Intact(s, p + 1, d) => Intact(s, p, b))
<1>1. Len(s) \in p..Len(s)
  BY LenProperties
<1> QED BY <1>1, KeepsOne DEF Stays, KeptBehind

\* What passes leaves the rest as intact as it is.
LEMMA IntactOne ==
  ASSUME NEW T, {"\\", "n"} \subseteq T, NEW s \in Seq(T), NEW p \in 1..Len(s),
         NEW b \in BOOLEAN, NEW d \in BOOLEAN, Passes(s[p], b, d), Intact(s, p + 1, d)
  PROVE  Intact(s, p, b)
<1>1. Stays(s, p, b, d)
  BY PassesByte DEF Stays
<1> QED BY <1>1, Staying

LEMMA IntactRun ==
  ASSUME NEW T, {"\\", "n"} \subseteq T, NEW s \in Seq(T), NEW q \in Places(s), NEW p \in 1..q,
         \A i \in p..(q - 1) : s[i] # Quote, NEW d \in BOOLEAN, ~d, Intact(s, q, d)
  PROVE  Intact(s, p, d)
<1>1. Len(s) \in Nat /\ q \in 1..(Len(s) + 1) /\ q \in Nat
  BY LenProperties DEF Places
<1> DEFINE S == {i \in 1..q : i >= p => Intact(s, i, d)}
<1>2. ASSUME NEW i \in 1..q, \A j \in (i + 1)..q : j \in S PROVE i \in S
  <2> SUFFICES ASSUME i >= p PROVE Intact(s, i, d)
    OBVIOUS
  <2>1. CASE i = q
    BY <2>1
  <2>2. CASE i # q
    <3>1. i \in p..(q - 1) /\ i \in 1..Len(s) /\ i + 1 \in (i + 1)..q /\ i + 1 >= p
      BY <1>1, <2>2
    <3>2. Intact(s, i + 1, d)
      BY <1>2, <3>1
    <3>3. Passes(s[i], d, d)
      BY <3>1 DEF Passes
    <3> QED BY <3>1, <3>2, <3>3, IntactOne
  <2> QED BY <2>1, <2>2
<1>3. \A i \in 1..q : i \in S
  <2> HIDE DEF S
  <2> QED BY <1>1, <1>2, FromTheEnd
<1> QED BY <1>3

\* A string that ends has nothing to mend.
LEMMA StringsAreIntact ==
  ASSUME NEW T, {"\\", "n"} \subseteq T, NEW s \in Seq(T), NEW p \in Places(s),
         NEW b \in BOOLEAN, b, NEW d \in BOOLEAN, ~d,
         StringEnd(s, p) # 0, Intact(s, StringEnd(s, p), d)
  PROVE  Intact(s, p, b)
<1> DEFINE n == Len(s)
           e(q) == StringEnd(s, q)
           S == {q \in 1..(n + 1) : e(q) # 0 /\ Intact(s, e(q), d) => Intact(s, q, b)}
<1>1. n \in Nat /\ n + 1 \in Nat /\ Places(s) = 1..(n + 1)
  BY LenProperties DEF Places
<1>2. ASSUME NEW q \in 1..(n + 1), \A r \in (q + 1)..(n + 1) : r \in S PROVE q \in S
  <2> SUFFICES ASSUME e(q) # 0, Intact(s, e(q), d) PROVE Intact(s, q, b)
    OBVIOUS
  <2>1. StringEndStep(s, q)
    BY <1>1, StringEndSteps
  <2>2. q <= n /\ s[q] # "ctl"
    BY <1>1, <2>1 DEF StringEndStep
  <2>3. q \in 1..Len(s) /\ q + 1 \in (q + 1)..(n + 1)
    BY <1>1, <2>2
  <2>4. CASE s[q] = Quote
    <3>1. e(q) = q + 1
      BY <2>1, <2>2, <2>4 DEF StringEndStep
    <3>2. Passes(s[q], b, d)
      BY <2>4 DEF Passes
    <3> QED BY <2>3, <3>1, <3>2, IntactOne
  <2>5. CASE s[q] # Quote /\ s[q] # "\\"
    <3>1. e(q) = e(q + 1)
      BY <2>1, <2>2, <2>5 DEF StringEndStep
    <3>2. Intact(s, q + 1, b)
      BY <1>2, <2>3, <3>1
    <3>3. Passes(s[q], b, b)
      BY <2>2, <2>5 DEF Passes
    <3> QED BY <2>3, <3>2, <3>3, IntactOne
  <2>6. CASE s[q] = "\\"
    <3>1. /\ q < n /\ s[q + 1] \in Escapable
          /\ \/ s[q + 1] = "u" /\ q + 2 <= n /\ s[q + 2] = "h" /\ e(q) = e(q + 3)
             \/ e(q) = e(q + 2)
      BY <2>1, <2>2, <2>6 DEF StringEndStep, Escapable
    <3>2. Mended(s, q, b) = <<s[q], s[q + 1]>> \o Mended(s, q + 2, b)
      <4>1. q \in 1..(Len(s) - 1)
        BY <1>1, <3>1
      <4> QED BY <2>6, <3>1, <4>1, PassesEscape
    <3>3. Intact(s, q + 2, b)
      <4>1. CASE s[q + 1] = "u" /\ q + 2 <= n /\ s[q + 2] = "h" /\ e(q) = e(q + 3)
        <5>1. q + 3 \in (q + 1)..(n + 1) /\ q + 2 \in 1..Len(s) /\ (q + 2) + 1 = q + 3
          BY <1>1, <4>1
        <5>2. Intact(s, q + 3, b)
          BY <1>2, <4>1, <5>1
        <5>3. Passes(s[q + 2], b, b)
          <6>1. "h" # Quote
            BY Distinct DEF OtherBytes
          <6> QED BY <4>1, <6>1 DEF Passes
        <5> QED BY <5>1, <5>2, <5>3, IntactOne
      <4>2. CASE e(q) = e(q + 2)
        <5>1. q + 2 \in (q + 1)..(n + 1)
          BY <1>1, <3>1
        <5> QED BY <1>2, <4>2, <5>1
      <4> QED BY <3>1, <4>1, <4>2
    <3>4. q \in 1..(Len(s) - 1) /\ Len(s) \in (q + 1)..Len(s)
      BY <1>1, <3>1
    <3> QED BY <3>2, <3>3, <3>4, KeepsTwo
  <2> QED BY <2>4, <2>5, <2>6
<1>3. \A q \in 1..(n + 1) : q \in S
  <2> HIDE DEF S
  <2> QED BY <1>1, <1>2, FromTheEnd
<1> QED BY <1>1, <1>3

\* Where the value of an item is.
LEMMA ItemIs ==
  ASSUME NEW s, NEW k \in Brackets, NEW p, ItemValue(s, k, p) # 0
  PROVE  \/ k = "]" /\ ItemValue(s, k, p) = p
         \/ /\ k = CloseBrace /\ Has(s, p, Quote) /\ StringEnd(s, p + 1) # 0
            /\ Has(s, StringEnd(s, p + 1), ":") /\ ItemValue(s, k, p) = StringEnd(s, p + 1) + 1
BY DEF ItemValue, Brackets

\* Nor has a value that ends, or the items of one.
LEMMA ValuesAreIntact ==
  ASSUME NEW T, {"\\", "n"} \subseteq T, NEW s \in Seq(T), NEW p \in Places(s), NEW d \in BOOLEAN, ~d, NEW k \in Parts,
         EndAt(s, k, p) # 0, Intact(s, EndAt(s, k, p), d)
  PROVE  Intact(s, p, d)
<1> DEFINE n == Len(s)
           Known(j, q) == EndAt(s, j, q) # 0 /\ Intact(s, EndAt(s, j, q), d) => Intact(s, q, d)
           S == {q \in 1..(n + 1) : \A j \in Parts : Known(j, q)}
<1>1. n \in Nat /\ n + 1 \in Nat /\ Places(s) = 1..(n + 1)
  BY LenProperties DEF Places
<1>2. PICK b \in BOOLEAN : b
  OBVIOUS
<1>3. /\ "value" \in Parts /\ \A c : Closing(c) \in Parts
      /\ \A j \in Parts : j = "value" \/ j \in Brackets
      /\ \A j \in Brackets : j # Quote
      /\ \A j \in Openers : j # Quote
      /\ Quote \notin Digits /\ Quote \notin {"null", "t", "e", ":", Comma}
  BY Distinct DEF OtherBytes, Parts, Closing, Brackets, Openers, Digits
<1>4. ASSUME NEW q \in 1..(n + 1), \A r \in (q + 1)..(n + 1) : r \in S PROVE Known("value", q)
  <2> SUFFICES ASSUME NEW e, e # 0, EndAt(s, "value", q) = e, Intact(s, e, d) PROVE Intact(s, q, d)
    OBVIOUS
  <2>1. ValueIs(s, q, e) /\ e \in (q + 1)..(n + 1)
    BY <1>1, ValueEnds DEF IsEnd
  <2>2. q \in 1..Len(s) /\ q + 1 \in (q + 1)..(n + 1) /\ q + 1 \in Places(s) /\ q \in 1..e /\ e \in Places(s)
    BY <1>1, <2>1 DEF ValueIs
  <2>3. ASSUME \A i \in q..(e - 1) : s[i] # Quote PROVE Intact(s, q, d)
    BY <2>2, <2>3, IntactRun
  <2>4. CASE s[q] = Quote /\ StringEnd(s, q + 1) = e
    <3>1. Intact(s, q + 1, b)
      BY <1>2, <2>2, <2>4, StringsAreIntact
    <3>2. Passes(s[q], d, b)
      BY <1>2, <2>4 DEF Passes
    <3> QED BY <2>2, <3>1, <3>2, IntactOne
  <2>5. CASE s[q] \in Openers /\ Has(s, q + 1, Closing(s[q])) /\ e = q + 2
    <3>1. Closing(s[q]) # Quote
      BY <1>3 DEF Closing, Brackets
    <3>2. \A i \in q..(e - 1) : i = q \/ i = q + 1
      BY <1>1, <2>5
    <3> QED BY <1>3, <2>3, <2>5, <3>1, <3>2 DEF Has
  <2>6. CASE s[q] \in Openers /\ EndAt(s, Closing(s[q]), q + 1) = e
    <3>1. Intact(s, q + 1, d)
      BY <1>3, <1>4, <2>2, <2>6
    <3>2. Passes(s[q], d, d)
      BY <1>3, <2>6 DEF Passes
    <3> QED BY <2>2, <3>1, <3>2, IntactOne
  <2>7. CASE s[q] = "null" /\ e = q + 1
    <3>1. \A i \in q..(e - 1) : i = q
      BY <1>1, <2>7
    <3> QED BY <1>3, <2>3, <2>7, <3>1
  <2>8. CASE s[q] = "t" /\ Has(s, q + 1, "e") /\ e = q + 2
    <3>1. \A i \in q..(e - 1) : i = q \/ i = q + 1
      BY <1>1, <2>8
    <3> QED BY <1>3, <2>3, <2>8, <3>1 DEF Has
  <2>9. CASE s[q] \in Digits /\ RunEnd(s, q, Digits) = e
    <3>1. IsRunEnd(s, q, Digits, e)
      BY <1>1, <2>9, RunEndIs
    <3> QED BY <1>3, <2>3, <3>1 DEF IsRunEnd
  <2> QED BY <2>1, <2>4, <2>5, <2>6, <2>7, <2>8, <2>9 DEF ValueIs
<1>5. ASSUME NEW q \in 1..(n + 1), \A r \in (q + 1)..(n + 1) : r \in S, NEW j \in Brackets PROVE Known(j, q)
  <2> SUFFICES ASSUME NEW e, e # 0, EndAt(s, j, q) = e, Intact(s, e, d) PROVE Intact(s, q, d)
    OBVIOUS
  <2> DEFINE f == ItemValue(s, j, q)
             v == ValueOfItem(s, j, q)
  <2>1. ItemsAre(s, j, q, e)
    BY <1>1, ItemsEnds
  <2>2. f \in q..(n + 1) /\ f # 0 /\ v \in (f + 1)..n /\ v # 0 /\ v = EndAt(s, "value", f)
    BY <1>1, <2>1 DEF ItemsAre, ValueOfItem
  <2>3. Intact(s, v, d)
    <3>1. Intact(s, v + 1, d)
      <4>1. CASE s[v] = Comma /\ EndAt(s, j, v + 1) = e
        <5>1. v + 1 \in (q + 1)..(n + 1) /\ j \in Parts
          BY <1>1, <2>2 DEF Parts, Brackets
        <5> HIDE DEF v
        <5> QED BY <1>5, <4>1, <5>1
      <4>2. CASE e = v + 1
        BY <4>2
      <4> QED BY <2>1, <4>1, <4>2 DEF ItemsAre
    <3>2. Passes(s[v], d, d)
      <4>1. s[v] # Quote
        BY <1>3, <2>1 DEF ItemsAre
      <4> QED BY <4>1 DEF Passes
    <3>3. v \in 1..Len(s)
      BY <1>1, <2>2
    <3> HIDE DEF v
    <3> QED BY <3>1, <3>2, <3>3, IntactOne
  <2> HIDE DEF v
  <2>4. Intact(s, f, d)
    <3>1. Known("value", f)
      <4>1. f = q \/ f \in (q + 1)..(n + 1)
        BY <1>1, <2>2
      <4> HIDE DEF f
      <4>2. CASE f = q
        BY <1>4, <1>5, <4>2
      <4>3. CASE f \in (q + 1)..(n + 1)
        BY <1>3, <1>5, <4>3
      <4> QED BY <4>1, <4>2, <4>3
    <3> QED BY <2>2, <2>3, <3>1
  <2>5. CASE f = q
    BY <2>4, <2>5
  <2>6. CASE Has(s, q, Quote) /\ StringEnd(s, q + 1) # 0 /\ Has(s, StringEnd(s, q + 1), ":") /\ f = StringEnd(s, q + 1) + 1
    <3> DEFINE c == StringEnd(s, q + 1)
    <3>1. q \in 1..Len(s) /\ q + 1 \in Places(s) /\ s[q] = Quote
      BY <1>1, <2>6 DEF Has
    <3>2. c \in 1..Len(s) /\ s[c] = ":"
      <4>1. c \in {0} \cup (q + 1 + 1)..(Len(s) + 1)
        BY <3>1, StringEndSteps DEF StringEndStep
      <4> QED BY <1>1, <2>6, <4>1 DEF Has
    <3>3. Intact(s, c, d)
      <4>1. Passes(s[c], d, d)
        BY <1>3, <3>2 DEF Passes
      <4> HIDE DEF c
      <4> QED BY <2>4, <2>6, <3>2, <4>1, IntactOne DEF c
    <3>4. Intact(s, q + 1, b)
      BY <1>2, <2>6, <3>1, <3>3, StringsAreIntact
    <3>5. Passes(s[q], d, b)
      BY <1>2, <3>1 DEF Passes
    <3> QED BY <3>1, <3>4, <3>5, IntactOne
  <2> QED BY <2>2, <2>5, <2>6, ItemIs
<1>6. \A q \in 1..(n + 1) : q \in S
  <2>1. ASSUME NEW q \in 1..(n + 1), \A r \in (q + 1)..(n + 1) : r \in S PROVE q \in S
    <3> HIDE DEF Known
    <3>1. Known("value", q) /\ \A j \in Brackets : Known(j, q)
      BY <1>4, <1>5, <2>1
    <3> QED BY <1>3, <3>1
  <2> HIDE DEF S
  <2> QED BY <1>1, <2>1, FromTheEnd
<1> QED BY <1>1, <1>6

\* Repair leaves what is valid json as it is, so trying it first changes no
\* arguments that were well formed (Repair, ParsePartial).
THEOREM ValidIsKept ==
  ASSUME NEW T, {"\\", "n"} \subseteq T, NEW s \in Seq(T), Valid(s)
  PROVE  Repair(s) = s
<1> DEFINE n == Len(s)
<1>1. n \in Nat /\ n + 1 \in Places(s) /\ 1 \in Places(s) /\ n + 1 # 0 /\ "value" \in Parts
  BY LenProperties DEF Places, Parts
<1>2. EndAt(s, "value", 1) = n + 1
  BY ValidIs
<1>3. PICK d \in BOOLEAN : ~d
  OBVIOUS
<1>4. Intact(s, n + 1, d)
  <2>1. Mended(s, n + 1, d) = <<>>
    <3>1. n + 1 > n
      BY <1>1
    <3> QED BY <1>1, <3>1, MendSteps DEF MendStep
  <2> QED BY <1>1, <2>1 DEF Intact, KeepsTo
<1>5. Intact(s, 1, d)
  BY <1>1, <1>2, <1>3, <1>4, ValuesAreIntact
<1>6. d = FALSE
  BY <1>3
<1>7. Intact(s, 1, FALSE)
  BY <1>5, <1>6
<1> QED BY <1>7, IntactIsSame

\* A part of a text.
IsPart(T, s, p, q, x) ==
  /\ x \in Seq(T) /\ Len(x) = q + 1 - p
  /\ \A i \in 1..(q + 1 - p) : x[i] = s[p + i - 1]

LEMMA PartIs ==
  ASSUME NEW T, NEW s \in Seq(T), NEW p \in 1..(Len(s) + 1), NEW q \in (p - 1)..Len(s)
  PROVE  IsPart(T, s, p, q, SubSeq(s, p, q))
<1> DEFINE x == SubSeq(s, p, q)
<1>1. Len(s) \in Nat /\ p \in Int /\ q \in Int
  BY LenProperties
<1>2. \A i \in p..q : s[i] \in T
  <2>1. \A i \in p..q : i \in 1..Len(s)
    BY <1>1
  <2> QED BY <2>1, ElementOfSeq
<1>3. /\ x \in Seq(T) /\ Len(x) = IF p <= q THEN q - p + 1 ELSE 0
      /\ \A i \in 1..(q - p + 1) : x[i] = s[p + i - 1]
  BY <1>1, <1>2, SubSeqProperties
<1> HIDE DEF x
<1>4. Len(x) = q + 1 - p /\ q - p + 1 = q + 1 - p
  BY <1>1, <1>3
<1> QED BY <1>3, <1>4 DEF IsPart, x

\* Texts that agree have the same parts.
LEMMA SameParts ==
  ASSUME NEW T, NEW s \in Seq(T), NEW r \in Seq(T), NEW p \in 1..(Len(s) + 1), NEW q \in (p - 1)..Len(s), q <= Len(r),
         Agree(s, r, p, q)
  PROVE  SubSeq(s, p, q) = SubSeq(r, p, q)
<1> DEFINE x == SubSeq(s, p, q)
           y == SubSeq(r, p, q)
<1>1. Len(s) \in Nat /\ Len(r) \in Nat
  BY LenProperties
<1>2. p \in 1..(Len(r) + 1) /\ q \in (p - 1)..Len(r)
  BY <1>1
<1>3. IsPart(T, s, p, q, x) /\ IsPart(T, r, p, q, y)
  BY <1>2, PartIs
<1>4. \A i \in 1..(q + 1 - p) : p + i - 1 \in p..q
  BY <1>1
<1> HIDE DEF x, y
<1>5. x \in Seq(T) /\ y \in Seq(T) /\ Len(x) = Len(y) /\ \A i \in 1..Len(x) : x[i] = y[i]
  BY <1>3, <1>4 DEF IsPart, Agree
<1>6. x = y
  BY <1>5, SeqEqual
<1> QED BY <1>6 DEF x, y

\* What is made of a text from p on, behind the rest of it.
Put(s, p, w) == SubSeq(s, 1, p - 1) \o w

IsPut(T, s, p, w, y) ==
  /\ y \in Seq(T) /\ Len(y) = p - 1 + Len(w)
  /\ \A i \in 1..(p - 1) : y[i] = s[i]
  /\ \A i \in 1..Len(w) : y[p - 1 + i] = w[i]

\* What one text is behind another.
IsJoined(T, x, w, y) ==
  /\ y \in Seq(T) /\ Len(y) = Len(x) + Len(w)
  /\ \A i \in 1..Len(x) : y[i] = x[i]
  /\ \A i \in 1..Len(w) : y[Len(x) + i] = w[i]

LEMMA JoinedIs ==
  ASSUME NEW T, NEW x \in Seq(T), NEW w \in Seq(T)
  PROVE  IsJoined(T, x, w, x \o w)
<1> DEFINE y == x \o w
<1>1. Len(x) \in Nat /\ Len(w) \in Nat
  BY LenProperties
<1>2. /\ y \in Seq(T) /\ Len(y) = Len(x) + Len(w)
      /\ \A i \in 1..(Len(x) + Len(w)) : y[i] = IF i <= Len(x) THEN x[i] ELSE w[i - Len(x)]
  BY ConcatProperties
<1> HIDE DEF y
<1>3. \A i \in 1..Len(x) : y[i] = x[i]
  BY <1>1, <1>2
<1>4. ASSUME NEW i \in 1..Len(w) PROVE y[Len(x) + i] = w[i]
  <2> DEFINE j == Len(x) + i
  <2>1. j \in 1..(Len(x) + Len(w)) /\ ~(j <= Len(x)) /\ j - Len(x) = i
    BY <1>1
  <2> HIDE DEF j
  <2>2. y[j] = w[i]
    BY <1>2, <2>1
  <2> QED BY <2>2 DEF j
<1> QED BY <1>2, <1>3, <1>4 DEF y, IsJoined

LEMMA PutIs ==
  ASSUME NEW T, NEW s \in Seq(T), NEW p \in 1..(Len(s) + 1), NEW w \in Seq(T)
  PROVE  IsPut(T, s, p, w, Put(s, p, w))
<1> DEFINE x == SubSeq(s, 1, p - 1)
<1>1. Len(s) \in Nat /\ Len(w) \in Nat
  BY LenProperties
<1>2. IsPart(T, s, 1, p - 1, x)
  <2>1. 1 \in 1..(Len(s) + 1) /\ p - 1 \in (1 - 1)..Len(s)
    BY <1>1
  <2> QED BY <2>1, PartIs
<1> HIDE DEF x
<1>3. x \in Seq(T) /\ Len(x) = p - 1 /\ \A i \in 1..(p - 1) : x[i] = s[i]
  <2>1. p - 1 + 1 - 1 = p - 1 /\ \A i \in 1..(p - 1) : 1 + i - 1 = i
    BY <1>1
  <2> QED BY <1>2, <2>1 DEF IsPart
<1>4. IsJoined(T, x, w, x \o w)
  BY <1>3, JoinedIs
<1> QED BY <1>3, <1>4 DEF IsJoined, IsPut, Put, x

\* Bytes of the text itself may as well be counted to what is before.
LEMMA PutMore ==
  ASSUME NEW T, NEW s \in Seq(T), NEW p \in 1..(Len(s) + 1), NEW q \in (p - 1)..Len(s), NEW w \in Seq(T)
  PROVE  /\ SubSeq(s, p, q) \o w \in Seq(T)
         /\ Put(s, p, SubSeq(s, p, q) \o w) = Put(s, q + 1, w)
<1> DEFINE x == SubSeq(s, p, q)
           y == x \o w
           a == Put(s, p, y)
           b == Put(s, q + 1, w)
<1>1. Len(s) \in Nat /\ Len(w) \in Nat /\ q + 1 \in 1..(Len(s) + 1) /\ q + 1 - 1 = q
  BY LenProperties
<1>2. IsPart(T, s, p, q, x)
  BY PartIs
<1> HIDE DEF x
<1>3. IsJoined(T, x, w, y)
  BY <1>2, JoinedIs DEF IsPart
<1> HIDE DEF y
<1>4. IsPut(T, s, p, y, a)
  BY <1>3, PutIs DEF IsJoined
<1>5. IsPut(T, s, q + 1, w, b)
  BY <1>1, PutIs
<1> HIDE DEF a, b
<1>6. Len(a) = Len(b) /\ Len(a) = q + Len(w)
  BY <1>1, <1>2, <1>3, <1>4, <1>5 DEF IsPart, IsJoined, IsPut
<1>7. ASSUME NEW i \in 1..Len(a) PROVE a[i] = b[i]
  <2>1. CASE i <= p - 1
    <3>1. i \in 1..(p - 1) /\ i \in 1..(q + 1 - 1)
      BY <1>1, <2>1
    <3> QED BY <1>4, <1>5, <3>1 DEF IsPut
  <2>2. CASE i > p - 1 /\ i <= q
    <3> DEFINE j == i - (p - 1)
    <3>1. /\ j \in 1..Len(y) /\ p - 1 + j = i /\ j \in 1..(q + 1 - p) /\ p + j - 1 = i /\ i \in 1..(q + 1 - 1)
          /\ j \in 1..Len(x)
      BY <1>1, <1>2, <1>3, <2>2 DEF IsPart, IsJoined
    <3> HIDE DEF j
    <3>2. a[i] = y[j]
      <4>1. a[p - 1 + j] = y[j]
        BY <1>4, <3>1 DEF IsPut
      <4> QED BY <3>1, <4>1
    <3>3. y[j] = x[j]
      BY <1>3, <3>1 DEF IsJoined
    <3>4. x[j] = s[i]
      <4>1. x[j] = s[p + j - 1]
        BY <1>2, <3>1 DEF IsPart
      <4> QED BY <3>1, <4>1
    <3>5. b[i] = s[i]
      BY <1>5, <3>1 DEF IsPut
    <3> QED BY <3>2, <3>3, <3>4, <3>5
  <2>3. CASE i > q
    <3> DEFINE j == i - q
               l == i - (p - 1)
    <3>1. /\ l \in 1..Len(y) /\ p - 1 + l = i /\ j \in 1..Len(w) /\ q + 1 - 1 + j = i
          /\ Len(x) + j = l
      BY <1>1, <1>2, <1>3, <1>6, <2>3 DEF IsPart, IsJoined
    <3> HIDE DEF j, l
    <3>2. a[i] = y[l]
      <4>1. a[p - 1 + l] = y[l]
        BY <1>4, <3>1 DEF IsPut
      <4> QED BY <3>1, <4>1
    <3>3. y[l] = w[j]
      <4>1. y[Len(x) + j] = w[j]
        BY <1>3, <3>1 DEF IsJoined
      <4> QED BY <3>1, <4>1
    <3>4. b[i] = w[j]
      <4>1. \A z \in 1..Len(w) : b[q + 1 - 1 + z] = w[z]
        BY <1>5 DEF IsPut
      <4>2. b[q + 1 - 1 + j] = w[j]
        BY <3>1, <4>1
      <4> QED BY <3>1, <4>2
    <3> QED BY <3>2, <3>3, <3>4
  <2> QED BY <1>1, <2>1, <2>2, <2>3
<1>8. a = b
  <2>1. a \in Seq(T) /\ b \in Seq(T)
    BY <1>4, <1>5 DEF IsPut
  <2> QED BY <1>6, <1>7, <2>1, SeqEqual
<1>9. y \in Seq(T)
  BY <1>3 DEF IsJoined
<1> QED BY <1>8, <1>9 DEF a, b, y, x

\* Concatenation, in a form that the provers leave alone.
Assoc(x, y, z) == (x \o y) \o z = x \o (y \o z)

LEMMA AssocIs ==
  ASSUME NEW T, NEW x \in Seq(T), NEW y \in Seq(T), NEW z \in Seq(T)
  PROVE  Assoc(x, y, z)
  BY ConcatAssociative DEF Assoc

\* What is added at its end.
LEMMA PutThen ==
  ASSUME NEW T, NEW s \in Seq(T), NEW p \in 1..(Len(s) + 1), NEW w \in Seq(T), NEW u \in Seq(T)
  PROVE  Put(s, p, w \o u) = Put(s, p, w) \o u
<1> DEFINE x == SubSeq(s, 1, p - 1)
<1>1. x \in Seq(T)
  <2>1. Len(s) \in Nat
    BY LenProperties
  <2>2. 1 \in 1..(Len(s) + 1) /\ p - 1 \in (1 - 1)..Len(s)
    BY <2>1
  <2> QED BY <2>2, PartIs DEF IsPart
<1> HIDE DEF x
<1>2. Assoc(x, w, u)
  BY <1>1, AssocIs
<1> QED BY <1>2 DEF Assoc, Put, x

LEMMA PutFirst ==
  ASSUME NEW T, NEW s \in Seq(T), NEW w \in Seq(T)
  PROVE  Put(s, 1, w) = w
<1>1. SubSeq(s, 1, 0) = <<>>
  <2>1. Len(s) \in Nat /\ 1 \in 1..(Len(s) + 1) /\ 0 \in (1 - 1)..Len(s) /\ 0 + 1 - 1 = 0
    BY LenProperties
  <2> QED BY SubSeqEmpty
<1> QED BY <1>1, ConcatEmptySeq DEF Put

\* A number that is cut is one, or is one without its last byte, or is a sign.
LEMMA NumberCut ==
  ASSUME NEW T, NEW w \in Seq(T), NEW u \in Seq(T), NEW v \in Seq(T), IsNumber(w),
         Begins(u, w), Len(u) > 0, Begins(v, u), Len(v) = Len(u) - 1
  PROVE  IsNumber(u) \/ (u[Len(u)] \in {"-", "."} /\ (Len(u) = 1 \/ IsNumber(v)))
<1> DEFINE l == Len(u)
<1>1. /\ Len(w) \in Nat /\ l \in Nat /\ Len(v) \in Nat /\ l <= Len(w) /\ l >= 1
      /\ \A i \in 1..l : u[i] = w[i]
      /\ \A i \in 1..(l - 1) : v[i] = u[i]
  <2>1. Len(w) \in Nat /\ l \in Nat /\ Len(v) \in Nat
    BY LenProperties
  <2>2. l \in 1..Len(w)
    <3>1. l \in 1..Len(u)
      BY <2>1
    <3> QED BY <3>1 DEF Begins, Agree
  <2> QED BY <2>1, <2>2 DEF Begins, Agree
<1>2. PICK a \in {0, 1}, b \in 1..Len(w) :
        /\ a = 1 => w[1] = "-"
        /\ a < b /\ \A i \in (a + 1)..b : w[i] = "1"
        /\ b = Len(w) \/ (w[b + 1] = "." /\ b + 1 < Len(w) /\ \A i \in (b + 2)..Len(w) : w[i] = "1")
  BY DEF IsNumber
<1>3. CASE l <= a
  <2>1. l = 1 /\ a = 1
    BY <1>1, <1>3
  <2> QED BY <1>1, <1>2, <2>1
<1>4. CASE a < l /\ l <= b
  <2>1. l \in 1..Len(u) /\ (a = 1 => u[1] = "-") /\ a < l
    BY <1>1, <1>2, <1>4
  <2>2. \A i \in (a + 1)..l : u[i] = "1"
    BY <1>1, <1>2, <1>4
  <2> QED BY <2>1, <2>2 DEF IsNumber
<1>5. CASE l = b + 1
  <2>1. u[l] = "." /\ b \in 1..Len(v) /\ b = Len(v) /\ b \in 1..(l - 1) /\ 1 \in 1..(l - 1)
    BY <1>1, <1>2, <1>5
  <2>2. (a = 1 => v[1] = "-") /\ a < b
    BY <1>1, <1>2, <2>1
  <2>3. \A i \in (a + 1)..b : v[i] = "1"
    <3>1. \A i \in (a + 1)..b : i \in 1..(l - 1) /\ i \in 1..l
      BY <1>1, <1>2, <1>5
    <3> QED BY <1>1, <1>2, <3>1
  <2>4. IsNumber(v)
    BY <2>1, <2>2, <2>3 DEF IsNumber
  <2> QED BY <2>1, <2>4
<1>6. CASE l > b + 1
  <2>1. b \in 1..Len(u) /\ (a = 1 => u[1] = "-") /\ a < b /\ b + 1 < Len(u)
    BY <1>1, <1>2, <1>6
  <2>2. \A i \in (a + 1)..b : u[i] = "1"
    <3>1. \A i \in (a + 1)..b : i \in 1..l
      BY <1>1, <1>2, <1>6
    <3> QED BY <1>1, <1>2, <3>1
  <2>3. u[b + 1] = "."
    BY <1>1, <1>2, <1>6
  <2>4. \A i \in (b + 2)..Len(u) : u[i] = "1"
    BY <1>1, <1>2, <1>6
  <2> QED BY <2>1, <2>2, <2>3, <2>4 DEF IsNumber
<1> QED BY <1>1, <1>2, <1>3, <1>4, <1>5, <1>6

\* The bytes that Repair and the parser add.
Added == {"\\", "n", Quote, Comma, CloseBrace, "]", ":", "null", "t", "e"}

IsMade(T, s, p, m) == m \in [out: Seq(T), pos: Nat] /\ m.pos \in p..(Len(s) + 1)

LEMMA MadeIs ==
  ASSUME NEW T, NEW s, Len(s) \in Nat, NEW p \in 1..(Len(s) + 1), NEW w \in Seq(T), NEW q \in p..(Len(s) + 1)
  PROVE  IsMade(T, s, p, Made(w, q)) /\ Made(w, q).out = w /\ Made(w, q).pos = q
<1>1. q \in Nat
  OBVIOUS
<1> QED BY <1>1 DEF IsMade, Made

LEMMA StrMade ==
  ASSUME NEW T, Added \subseteq T, NEW s \in Seq(T), NEW p \in 1..Len(s)
  PROVE  IsMade(T, s, p, str(s, p)) /\ str(s, p).pos > p /\ str(s, p).out # <<>>
<1> DEFINE q == strStop(s, p + 1)
           w == SubSeq(s, p, q - 1) \o <<Quote>>
           e == IF Has(s, q, Quote) THEN q + 1 ELSE Len(s) + 1
<1>1. Len(s) \in Nat /\ p + 1 \in Places(s)
  BY LenProperties DEF Places
<1>2. q \in (p + 1)..(Len(s) + 1)
  BY <1>1, StopSteps DEF StopStep
<1> HIDE DEF q
<1>3. e \in (p + 1)..(Len(s) + 1)
  BY <1>1, <1>2 DEF Has
<1>4. w \in Seq(T) /\ Len(w) > 0
  <2>1. IsPart(T, s, p, q - 1, SubSeq(s, p, q - 1))
    <3>1. p \in 1..(Len(s) + 1) /\ q - 1 \in (p - 1)..Len(s)
      BY <1>1, <1>2
    <3> QED BY <3>1, PartIs
  <2>2. <<Quote>> \in Seq(T) /\ Len(<<Quote>>) = 1
    BY DEF Added
  <2>3. SubSeq(s, p, q - 1) \in Seq(T) /\ Len(SubSeq(s, p, q - 1)) \in Nat
    BY <2>1, LenProperties DEF IsPart
  <2> QED BY <2>2, <2>3, JoinedIs DEF IsJoined
<1> HIDE DEF e, w
<1>5. str(s, p) = Made(w, e)
  BY DEF str, w, e, q
<1>6. p \in 1..(Len(s) + 1) /\ e \in p..(Len(s) + 1)
  BY <1>1, <1>3
<1>7. w # <<>>
  BY <1>4, EmptySeq
<1> QED BY <1>1, <1>3, <1>4, <1>5, <1>6, <1>7, MadeIs

LEMMA LiteralMade ==
  ASSUME NEW T, Added \subseteq T, NEW s \in Seq(T), NEW p \in 1..Len(s)
  PROVE  IsMade(T, s, p, literal(s, p))
<1> DEFINE q == RunEnd(s, p, Letters)
           w == IF SubSeq(s, p, q - 1) \in {<<"t">>, <<"t", "e">>} THEN <<"t", "e">> ELSE <<>>
<1>1. Len(s) \in Nat /\ p \in Places(s) /\ p \in 1..(Len(s) + 1)
  BY LenProperties DEF Places
<1>2. q \in p..(Len(s) + 1)
  BY <1>1, RunEndIs DEF IsRunEnd
<1>3. w \in Seq(T)
  <2>1. <<"t", "e">> \in Seq(T) /\ <<>> \in Seq(T)
    BY DEF Added
  <2> QED BY <2>1
<1> HIDE DEF q, w
<1>4. literal(s, p) = Made(w, q)
  BY DEF literal, w, q
<1> QED BY <1>1, <1>2, <1>3, <1>4, MadeIs

\* Where the number that a run of digits begins with may end.
NumberEnds(s, p) == {e \in p..(RunEnd(s, p, Digits) - 1) : IsNumber(SubSeq(s, p, e))}

LEMMA NumberIs ==
  ASSUME NEW T, NEW s \in Seq(T), NEW p \in 1..Len(s)
  PROVE  /\ IsMade(T, s, p, number(s, p)) /\ number(s, p).pos = RunEnd(s, p, Digits)
         /\ NumberEnds(s, p) = {} => number(s, p).out = <<>>
         /\ \A e \in NumberEnds(s, p) : (\A f \in NumberEnds(s, p) : f <= e) => number(s, p).out = SubSeq(s, p, e)
<1> DEFINE q == RunEnd(s, p, Digits)
           ends == NumberEnds(s, p)
           w == IF ends = {} THEN <<>> ELSE SubSeq(s, p, Greatest(ends))
<1>1. Len(s) \in Nat /\ p \in Places(s) /\ p \in 1..(Len(s) + 1)
  BY LenProperties DEF Places
<1>2. q \in p..(Len(s) + 1)
  BY <1>1, RunEndIs DEF IsRunEnd
<1>3. number(s, p) = Made(w, q)
  BY DEF number, NumberEnds, Greatest
<1> HIDE DEF q
<1>4. ends \subseteq p..(q - 1)
  BY DEF NumberEnds, q
<1>5. ends # {} => Greatest(ends) \in ends /\ \A f \in ends : f <= Greatest(ends)
  <2>1. ends \subseteq 0..Len(s)
    BY <1>1, <1>2, <1>4
  <2> HIDE DEF ends
  <2> QED BY <1>1, <2>1, BothExist
<1>6. w \in Seq(T)
  <2>1. CASE ends = {}
    BY <2>1
  <2>2. CASE ends # {}
    <3> DEFINE g == Greatest(ends)
    <3>1. g \in p..(q - 1)
      BY <1>4, <1>5, <2>2
    <3> HIDE DEF g
    <3>2. g \in (p - 1)..Len(s)
      BY <1>1, <1>2, <3>1
    <3>3. SubSeq(s, p, g) \in Seq(T)
      BY <1>1, <3>2, PartIs DEF IsPart
    <3> QED BY <2>2, <3>3 DEF g
  <2> QED BY <2>1, <2>2
<1>7. ASSUME NEW e \in ends, \A f \in ends : f <= e PROVE w = SubSeq(s, p, e)
  <2>1. ends # {} /\ Greatest(ends) <= e /\ e <= Greatest(ends) /\ Greatest(ends) \in p..(q - 1) /\ e \in p..(q - 1)
    BY <1>4, <1>5, <1>7
  <2>2. Greatest(ends) = e
    BY <1>1, <1>2, <2>1
  <2> QED BY <2>1, <2>2
<1>8. ends = {} => w = <<>>
  OBVIOUS
<1> HIDE DEF w
<1>9. IsMade(T, s, p, number(s, p)) /\ number(s, p).out = w /\ number(s, p).pos = q
  BY <1>1, <1>2, <1>3, <1>6, MadeIs
<1> QED BY <1>7, <1>8, <1>9 DEF q

\* What the parts of an item are when what they are made from is.
PartsMade(T, s, k, p, g) ==
  /\ \A r \in (p + 1)..(Len(s) + 1), j \in Parts : IsMade(T, s, r, g[<<j, r>>])
  /\ k # "value" => IsMade(T, s, p, g[<<"value", p>>])

LEMMA KeyMade ==
  ASSUME NEW T, Added \subseteq T, NEW s \in Seq(T), NEW k \in Brackets, NEW p \in 1..(Len(s) + 1)
  PROVE  IsMade(T, s, p, keyAt(s, k, p))
<1>1. Len(s) \in Nat /\ p \in p..(Len(s) + 1)
  BY LenProperties
<1>2. CASE k = CloseBrace /\ Has(s, p, Quote)
  <2>1. p \in 1..Len(s)
    BY <1>1, <1>2 DEF Has
  <2> QED BY <1>2, <2>1, StrMade DEF keyAt
<1>3. CASE ~(k = CloseBrace /\ Has(s, p, Quote))
  <2>1. PICK w \in Seq(T) : w = <<>>
    BY EmptySeq
  <2>2. keyAt(s, k, p) = Made(w, p)
    BY <1>3, <2>1 DEF keyAt
  <2>3. IsMade(T, s, p, Made(w, p))
    BY <1>1, MadeIs
  <2> QED BY <2>2, <2>3
<1> QED BY <1>2, <1>3

\* The place that a value is taken from.
FromPlace(s, k, p) == IF k = "]" THEN p ELSE keyAt(s, k, p).pos + 1
HasValue(s, k, p) == k = "]" \/ (keyAt(s, k, p).out # <<>> /\ Has(s, keyAt(s, k, p).pos, ":"))

LEMMA ValueFrom ==
  ASSUME NEW T, Added \subseteq T, NEW s \in Seq(T), NEW k \in Brackets, NEW p \in 1..(Len(s) + 1), NEW g
  PROVE  /\ HasValue(s, k, p) => /\ FromPlace(s, k, p) \in p..(Len(s) + 1)
                                 /\ valueOf(s, k, p, g) = g[<<"value", FromPlace(s, k, p)>>]
         /\ ~HasValue(s, k, p) => valueOf(s, k, p, g) = Made(<<>>, keyAt(s, k, p).pos)
<1>1. Len(s) \in Nat
  BY LenProperties
<1>2. keyAt(s, k, p).pos \in p..(Len(s) + 1)
  BY KeyMade DEF IsMade
<1>3. HasValue(s, k, p) => FromPlace(s, k, p) \in p..(Len(s) + 1)
  BY <1>1, <1>2 DEF HasValue, FromPlace, Has
<1> QED BY <1>3 DEF HasValue, FromPlace, valueOf

LEMMA ValueMade ==
  ASSUME NEW T, Added \subseteq T, NEW s \in Seq(T), NEW k \in Brackets, NEW p \in 1..(Len(s) + 1), NEW g,
         PartsMade(T, s, k, p, g)
  PROVE  IsMade(T, s, p, valueOf(s, k, p, g))
<1>1. Len(s) \in Nat
  BY LenProperties
<1>2. k # "value" /\ "value" \in Parts
  BY Distinct DEF Parts, Brackets, OtherBytes
<1> DEFINE f == FromPlace(s, k, p)
           c == keyAt(s, k, p).pos
<1>3. CASE HasValue(s, k, p)
  <2>1. f \in p..(Len(s) + 1) /\ valueOf(s, k, p, g) = g[<<"value", f>>]
    BY <1>3, ValueFrom
  <2> HIDE DEF f
  <2>2. f = p \/ f \in (p + 1)..(Len(s) + 1)
    BY <1>1, <2>1
  <2>3. IsMade(T, s, f, g[<<"value", f>>])
    BY <1>2, <2>2 DEF PartsMade
  <2> QED BY <1>1, <2>1, <2>3 DEF IsMade
<1>4. CASE ~HasValue(s, k, p)
  <2>1. PICK w \in Seq(T) : w = <<>>
    BY EmptySeq
  <2>2. c \in p..(Len(s) + 1)
    BY KeyMade DEF IsMade
  <2>3. valueOf(s, k, p, g) = Made(w, c)
    BY <1>4, <2>1, ValueFrom
  <2> HIDE DEF c
  <2>4. IsMade(T, s, p, Made(w, c))
    BY <1>1, <2>2, MadeIs
  <2> QED BY <2>3, <2>4
<1> QED BY <1>3, <1>4

LEMMA RestMade ==
  ASSUME NEW T, Added \subseteq T, NEW s \in Seq(T), NEW k \in Brackets, NEW p \in 1..(Len(s) + 1), NEW g,
         PartsMade(T, s, k, p, g), NEW v, IsMade(T, s, p, v)
  PROVE  IsMade(T, s, p, restAfter(s, k, v, g))
<1>1. Len(s) \in Nat /\ k \in Parts
  BY LenProperties DEF Parts, Brackets
<1> DEFINE c == v.pos
<1>2. c \in p..(Len(s) + 1)
  BY DEF IsMade
<1> HIDE DEF c
<1>3. CASE v.out # <<>> /\ Has(s, c, Comma)
  <2>1. c + 1 \in (p + 1)..(Len(s) + 1)
    BY <1>1, <1>2, <1>3 DEF Has
  <2>2. IsMade(T, s, c + 1, g[<<k, c + 1>>])
    BY <1>1, <2>1 DEF PartsMade
  <2>3. restAfter(s, k, v, g) = g[<<k, c + 1>>]
    BY <1>3 DEF restAfter, c
  <2>4. IsMade(T, s, p, g[<<k, c + 1>>])
    BY <1>1, <2>1, <2>2 DEF IsMade
  <2> QED BY <2>3, <2>4
<1>4. CASE ~(v.out # <<>> /\ Has(s, c, Comma))
  <2> DEFINE e == IF v.out # <<>> /\ Has(s, c, k) THEN c + 1 ELSE c
  <2>1. e \in p..(Len(s) + 1)
    BY <1>1, <1>2 DEF Has
  <2>2. PICK w \in Seq(T) : w = <<k>>
    <3>1. k \in T
      BY DEF Brackets, Added
    <3>2. <<k>> \in Seq(T)
      BY <3>1
    <3> QED BY <3>2
  <2>3. restAfter(s, k, v, g) = Made(w, e)
    BY <1>4, <2>2 DEF restAfter, c
  <2> HIDE DEF e
  <2>4. IsMade(T, s, p, Made(w, e))
    BY <1>1, <2>1, MadeIs
  <2> QED BY <2>3, <2>4
<1> QED BY <1>3, <1>4

\* The bytes of an item, and with what comes after it.
LEMMA ItemBytes ==
  ASSUME NEW T, Added \subseteq T, NEW key \in Seq(T), NEW v \in Seq(T)
  PROVE  item(key, v) \in Seq(T)
<1>1. <<":">> \in Seq(T) /\ <<"null">> \in Seq(T)
  BY DEF Added
<1>2. \A x \in Seq(T), y \in Seq(T) : x \o y \in Seq(T)
  BY ConcatProperties
<1> QED BY <1>1, <1>2 DEF item

ItemsOut(s, k, p, v, rest) ==
  item(keyAt(s, k, p).out, v.out) \o (IF rest.out = <<k>> THEN <<>> ELSE <<Comma>>) \o rest.out

LEMMA ItemsMade ==
  ASSUME NEW T, Added \subseteq T, NEW s \in Seq(T), NEW k \in Brackets, NEW p \in 1..(Len(s) + 1), NEW g,
         PartsMade(T, s, k, p, g)
  PROVE  IsMade(T, s, p, itemsFrom(s, k, p, g))
<1>1. Len(s) \in Nat
  BY LenProperties
<1> DEFINE v == valueOf(s, k, p, g)
           rest == restAfter(s, k, v, g)
           w == ItemsOut(s, k, p, v, rest)
           key == keyAt(s, k, p)
<1>2. IsMade(T, s, p, v)
  BY ValueMade
<1> HIDE DEF v
<1>3. IsMade(T, s, p, rest)
  BY <1>2, RestMade
<1> HIDE DEF rest
<1>4. IsMade(T, s, p, key)
  BY KeyMade
<1>5. w \in Seq(T)
  <2>1. key.out \in Seq(T) /\ v.out \in Seq(T) /\ rest.out \in Seq(T)
    BY <1>2, <1>3, <1>4 DEF IsMade
  <2>2. item(key.out, v.out) \in Seq(T)
    BY <2>1, ItemBytes
  <2>3. <<Comma>> \in Seq(T) /\ <<>> \in Seq(T)
    BY DEF Added
  <2>4. \A x \in Seq(T), y \in Seq(T) : x \o y \in Seq(T)
    BY ConcatProperties
  <2> QED BY <2>1, <2>2, <2>3, <2>4 DEF ItemsOut
<1>6. itemsFrom(s, k, p, g) = IF Has(s, p, k) THEN Made(<<k>>, p + 1) ELSE Made(w, rest.pos)
  BY DEF itemsFrom, ItemsOut, v, rest
<1> HIDE DEF w
<1>7. CASE Has(s, p, k)
  <2>1. p + 1 \in p..(Len(s) + 1)
    BY <1>1, <1>7 DEF Has
  <2>2. PICK x \in Seq(T) : x = <<k>>
    <3>1. k \in T
      BY DEF Brackets, Added
    <3>2. <<k>> \in Seq(T)
      BY <3>1
    <3> QED BY <3>2
  <2>3. itemsFrom(s, k, p, g) = Made(x, p + 1)
    BY <1>6, <1>7, <2>2
  <2> QED BY <1>1, <2>1, <2>3, MadeIs
<1>8. CASE ~Has(s, p, k)
  <2>1. rest.pos \in p..(Len(s) + 1)
    BY <1>3 DEF IsMade
  <2> QED BY <1>1, <1>5, <1>6, <1>8, <2>1, MadeIs
<1> QED BY <1>7, <1>8

\* What the parser makes of every part of a text.
Parse(s) == CHOOSE parse : parse = [at \in Parts \X Places(s) |->
              IF at[1] = "value" THEN valueFrom(s, at[2], parse) ELSE itemsFrom(s, at[1], at[2], parse)]
ParseAt(s, k, p) == Parse(s)[<<k, p>>]

MadeFrom(s, k, p, g) == IF k = "value" THEN valueFrom(s, p, g) ELSE itemsFrom(s, k, p, g)
AreParsed(T, s, g) == \A k \in Parts, p \in Places(s) : IsMade(T, s, p, g[<<k, p>>]) /\ g[<<k, p>>] = MadeFrom(s, k, p, g)

LEMMA CompleteIs == ASSUME NEW s PROVE complete(s) = ParseAt(s, "value", 1).out
  BY DEF complete, ParseAt, Parse

PartNames ==
  /\ "value" \in Parts /\ \A c : Closing(c) \in Brackets
  /\ Brackets \subseteq Parts /\ "value" \notin Brackets
  /\ \A k \in Parts : k = "value" \/ k \in Brackets

LEMMA PartsAre == PartNames
<1>1. "value" # "]" /\ "value" # CloseBrace
  BY Distinct DEF OtherBytes
<1> QED BY <1>1 DEF PartNames, Parts, Brackets, Closing

\* What a value is made of, by its first byte.
ValueMadeOf(s, p, g, m) ==
  \/ p > Len(s) /\ m = Made(<<>>, p)
  \/ p <= Len(s) /\ s[p] = Quote /\ m = str(s, p)
  \/ /\ p <= Len(s) /\ s[p] \in Openers
     /\ m = Made(<<s[p]>> \o g[<<Closing(s[p]), p + 1>>].out, g[<<Closing(s[p]), p + 1>>].pos)
  \/ p <= Len(s) /\ s[p] = "t" /\ m = literal(s, p)
  \/ p <= Len(s) /\ s[p] \in {"1", "-"} /\ m = number(s, p)
  \/ p <= Len(s) /\ s[p] \notin {Quote, "t", "1", "-"} \cup Openers /\ m = Made(<<>>, p)

LEMMA ValueMadeIs ==
  ASSUME NEW T, NEW s \in Seq(T), NEW p \in 1..(Len(s) + 1), NEW g
  PROVE  ValueMadeOf(s, p, g, valueFrom(s, p, g))
<1>1. Len(s) \in Nat
  BY LenProperties
<1> DEFINE a == s[p]
           m == valueFrom(s, p, g)
<1> HIDE DEF a, m
<1>2. CASE p > Len(s)
  BY <1>2 DEF valueFrom, ValueMadeOf, m
<1>3. CASE p <= Len(s)
  <2>1. ~(p > Len(s))
    BY <1>1, <1>3
  <2>2. m = CASE a = Quote -> str(s, p)
              [] a \in Openers -> Made(<<a>> \o g[<<Closing(a), p + 1>>].out, g[<<Closing(a), p + 1>>].pos)
              [] a = "t" -> literal(s, p)
              [] a \in {"1", "-"} -> number(s, p)
              [] OTHER -> Made(<<>>, p)
    <3>1. Digits \ {"."} = {"1", "-"}
      BY DEF Digits
    <3> QED BY <2>1, <3>1 DEF valueFrom, m, a, Openers
  <2>3. /\ Quote \notin Openers /\ Quote \notin {"t", "1", "-"}
        /\ "t" \notin Openers /\ "1" \notin Openers /\ "-" \notin Openers /\ "t" \notin {"1", "-"}
    BY Distinct DEF Openers, OtherBytes
  <2>4. CASE a = Quote
    <3>1. m = str(s, p)
      BY <2>2, <2>3, <2>4
    <3> QED BY <1>3, <2>4, <3>1 DEF ValueMadeOf, a, m
  <2>5. CASE a \in Openers
    <3>1. m = Made(<<a>> \o g[<<Closing(a), p + 1>>].out, g[<<Closing(a), p + 1>>].pos)
      BY <2>2, <2>3, <2>5
    <3> QED BY <1>3, <2>5, <3>1 DEF ValueMadeOf, a, m
  <2>6. CASE a = "t"
    <3>1. m = literal(s, p)
      BY <2>2, <2>3, <2>6
    <3> QED BY <1>3, <2>6, <3>1 DEF ValueMadeOf, a, m
  <2>7. CASE a \in {"1", "-"}
    <3>1. m = number(s, p)
      BY <2>2, <2>3, <2>7
    <3> QED BY <1>3, <2>7, <3>1 DEF ValueMadeOf, a, m
  <2>8. CASE a \notin {Quote, "t", "1", "-"} \cup Openers
    <3>1. m = Made(<<>>, p)
      BY <2>2, <2>8
    <3> QED BY <1>3, <2>8, <3>1 DEF ValueMadeOf, a, m
  <2> QED BY <2>4, <2>5, <2>6, <2>7, <2>8
<1> QED BY <1>1, <1>2, <1>3

LEMMA AValueIsMade ==
  ASSUME NEW T, Added \subseteq T, NEW s \in Seq(T), NEW p \in 1..(Len(s) + 1), NEW g,
         PartsMade(T, s, "value", p, g)
  PROVE  IsMade(T, s, p, valueFrom(s, p, g))
<1>1. Len(s) \in Nat /\ p \in p..(Len(s) + 1)
  BY LenProperties
<1> DEFINE m == valueFrom(s, p, g)
<1>2. ValueMadeOf(s, p, g, m)
  BY ValueMadeIs
<1> HIDE DEF m
<1>3. PICK w \in Seq(T) : w = <<>>
  BY EmptySeq
<1>4. m = Made(<<>>, p) => IsMade(T, s, p, m)
  <2>1. IsMade(T, s, p, Made(w, p))
    BY <1>1, MadeIs
  <2> QED BY <1>3, <2>1
<1>5. ASSUME p <= Len(s) PROVE p \in 1..Len(s)
  BY <1>1, <1>5
<1>6. ASSUME p <= Len(s), m = Made(<<s[p]>> \o g[<<Closing(s[p]), p + 1>>].out, g[<<Closing(s[p]), p + 1>>].pos)
      PROVE  IsMade(T, s, p, m)
  <2> DEFINE i == g[<<Closing(s[p]), p + 1>>]
             x == <<s[p]>> \o i.out
             e == i.pos
  <2>1. p + 1 \in (p + 1)..(Len(s) + 1)
    BY <1>1, <1>6
  <2>2. IsMade(T, s, p + 1, i)
    BY <2>1, PartsAre DEF PartsMade, PartNames
  <2> HIDE DEF i
  <2>3. s[p] \in T
    BY <1>5, <1>6, ElementOfSeq
  <2>4. x \in Seq(T)
    <3>1. i.out \in Seq(T)
      BY <2>2 DEF IsMade
    <3> QED BY <2>3, <3>1, OneByte
  <2>5. e \in p..(Len(s) + 1)
    BY <1>1, <2>2 DEF IsMade
  <2> HIDE DEF x, e
  <2>6. IsMade(T, s, p, Made(x, e))
    BY <1>1, <2>4, <2>5, MadeIs
  <2>7. m = Made(x, e)
    BY <1>6 DEF x, e, i
  <2> QED BY <2>6, <2>7
<1>7. ASSUME p <= Len(s), m = str(s, p) \/ m = literal(s, p) \/ m = number(s, p) PROVE IsMade(T, s, p, m)
  BY <1>5, <1>7, StrMade, LiteralMade, NumberIs
<1>8. \/ m = Made(<<>>, p)
      \/ p <= Len(s) /\ m = Made(<<s[p]>> \o g[<<Closing(s[p]), p + 1>>].out, g[<<Closing(s[p]), p + 1>>].pos)
      \/ p <= Len(s) /\ (m = str(s, p) \/ m = literal(s, p) \/ m = number(s, p))
  BY <1>2 DEF ValueMadeOf
<1>9. IsMade(T, s, p, m)
  BY <1>4, <1>6, <1>7, <1>8
<1> QED BY <1>9 DEF m

LEMMA PartsAreMade ==
  ASSUME NEW T, Added \subseteq T, NEW s \in Seq(T), NEW p \in 1..(Len(s) + 1), NEW k \in Parts, NEW g,
         PartsMade(T, s, k, p, g)
  PROVE  IsMade(T, s, p, MadeFrom(s, k, p, g))
<1>1. CASE k = "value"
  BY <1>1, AValueIsMade DEF MadeFrom
<1>2. CASE k # "value"
  <2>1. k \in Brackets
    BY <1>2, PartsAre DEF PartNames
  <2> QED BY <1>2, <2>1, ItemsMade DEF MadeFrom
<1> QED BY <1>1, <1>2

\* Only later places, and the value at a place for its items, are looked at.
SameBelow(s, k, p, g, h) ==
  /\ \A r \in (p + 1)..(Len(s) + 1), j \in Parts : g[<<j, r>>] = h[<<j, r>>]
  /\ k # "value" => g[<<"value", p>>] = h[<<"value", p>>]

LEMMA PartsAreSame ==
  ASSUME NEW T, Added \subseteq T, NEW s \in Seq(T), NEW p \in 1..(Len(s) + 1), NEW k \in Parts, NEW g, NEW h,
         PartsMade(T, s, k, p, g), SameBelow(s, k, p, g, h)
  PROVE  MadeFrom(s, k, p, g) = MadeFrom(s, k, p, h)
<1>1. Len(s) \in Nat
  BY LenProperties
<1>2. CASE k = "value"
  <2>1. p <= Len(s) => g[<<Closing(s[p]), p + 1>>] = h[<<Closing(s[p]), p + 1>>]
    <3>1. p <= Len(s) => p + 1 \in (p + 1)..(Len(s) + 1)
      BY <1>1
    <3> QED BY <3>1, PartsAre DEF SameBelow, PartNames
  <2>2. p > Len(s) \/ p <= Len(s)
    BY <1>1
  <2> QED BY <1>2, <2>1, <2>2 DEF MadeFrom, valueFrom
<1>3. CASE k # "value"
  <2>1. k \in Brackets
    BY <1>3, PartsAre DEF PartNames
  <2> DEFINE v == valueOf(s, k, p, g)
  <2>2. v = valueOf(s, k, p, h)
    <3>1. CASE HasValue(s, k, p)
      <4> DEFINE f == FromPlace(s, k, p)
      <4>1. f \in p..(Len(s) + 1) /\ v = g[<<"value", f>>] /\ valueOf(s, k, p, h) = h[<<"value", f>>]
        BY <2>1, <3>1, ValueFrom
      <4> HIDE DEF f
      <4>2. f = p \/ f \in (p + 1)..(Len(s) + 1)
        BY <1>1, <4>1
      <4> QED BY <1>3, <4>1, <4>2, PartsAre DEF SameBelow, PartNames
    <3>2. CASE ~HasValue(s, k, p)
      BY <2>1, <3>2, ValueFrom
    <3> QED BY <3>1, <3>2
  <2>3. IsMade(T, s, p, v)
    BY <2>1, ValueMade
  <2> HIDE DEF v
  <2>4. restAfter(s, k, v, g) = restAfter(s, k, v, h)
    <3>1. CASE Has(s, v.pos, Comma)
      <4>1. v.pos + 1 \in (p + 1)..(Len(s) + 1)
        BY <1>1, <2>3, <3>1 DEF IsMade, Has
      <4>2. g[<<k, v.pos + 1>>] = h[<<k, v.pos + 1>>]
        BY <2>1, <4>1, PartsAre DEF SameBelow, PartNames
      <4> QED BY <4>2 DEF restAfter
    <3>2. CASE ~Has(s, v.pos, Comma)
      BY <3>2 DEF restAfter
    <3> QED BY <3>1, <3>2
  <2>5. valueOf(s, k, p, g) = v
    BY DEF v
  <2> QED BY <1>3, <2>2, <2>4, <2>5 DEF MadeFrom, itemsFrom
<1> QED BY <1>2, <1>3

LEMMA ParseExists ==
  ASSUME NEW T, Added \subseteq T, NEW s \in Seq(T)
  PROVE  AreParsed(T, s, Parse(s))
<1> DEFINE n == Len(s)
           P == Places(s)
           I == Parts \X P
           D == {g \in [I -> [out: Seq(T), pos: Nat]] : \A k \in Parts, p \in P : IsMade(T, s, p, g[<<k, p>>])}
           Next1(g) == [at \in I |-> MadeFrom(s, at[1], at[2], g)]
           F == [g \in D |-> Next1(g)]
           rank == [at \in I |-> 2 * (n + 1 - at[2]) + (IF at[1] = "value" THEN 0 ELSE 1)]
<1>1. n \in Nat /\ P = 1..(n + 1)
  BY LenProperties DEF Places
<1>2. D # {}
  <2> DEFINE z == [at \in I |-> Made(<<>>, n + 1)]
  <2>1. PICK w \in Seq(T) : w = <<>>
    BY EmptySeq
  <2>2. ASSUME NEW p \in P PROVE IsMade(T, s, p, Made(<<>>, n + 1))
    <3>1. p \in 1..(n + 1) /\ n + 1 \in p..(Len(s) + 1)
      BY <1>1
    <3>2. IsMade(T, s, p, Made(w, n + 1))
      BY <1>1, <3>1, MadeIs
    <3> QED BY <2>1, <3>2
  <2>3. Made(<<>>, n + 1) \in [out: Seq(T), pos: Nat]
    <3>1. 1 \in P
      BY <1>1
    <3> QED BY <2>2, <3>1 DEF IsMade
  <2>4. z \in [I -> [out: Seq(T), pos: Nat]]
    BY <2>3
  <2>5. ASSUME NEW k \in Parts, NEW p \in P PROVE IsMade(T, s, p, z[<<k, p>>])
    BY <2>2
  <2>6. z \in D
    BY <2>4, <2>5
  <2> QED BY <2>6
<1>3. rank \in [I -> 0..(2 * n + 1)]
  <2>1. ASSUME NEW at \in I PROVE 2 * (n + 1 - at[2]) + (IF at[1] = "value" THEN 0 ELSE 1) \in 0..(2 * n + 1)
    <3>1. at[2] \in 1..(n + 1)
      BY <1>1
    <3> QED BY <1>1, <3>1
  <2> QED BY <2>1
<1>4. ASSUME NEW g \in D, NEW k \in Parts, NEW p \in 1..(n + 1) PROVE PartsMade(T, s, k, p, g)
  <2>1. \A r \in (p + 1)..(n + 1) : r \in P
    BY <1>1
  <2>2. p \in P
    BY <1>1
  <2>3. \A j \in Parts, r \in P : IsMade(T, s, r, g[<<j, r>>])
    OBVIOUS
  <2> HIDE DEF D, P
  <2> QED BY <2>1, <2>2, <2>3, PartsAre DEF PartsMade, PartNames
<1>5. F \in [D -> D]
  <2>1. ASSUME NEW g \in D PROVE Next1(g) \in D
    <3>1. ASSUME NEW k \in Parts, NEW p \in 1..(n + 1) PROVE IsMade(T, s, p, MadeFrom(s, k, p, g))
      BY <1>4, PartsAreMade
    <3>2. ASSUME NEW at \in I PROVE MadeFrom(s, at[1], at[2], g) \in [out: Seq(T), pos: Nat]
      <4>1. at[1] \in Parts /\ at[2] \in 1..(n + 1)
        BY <1>1
      <4> HIDE DEF D, I
      <4>2. IsMade(T, s, at[2], MadeFrom(s, at[1], at[2], g))
        BY <3>1, <4>1
      <4> QED BY <4>2 DEF IsMade
    <3>3. Next1(g) \in [I -> [out: Seq(T), pos: Nat]]
      <4> HIDE DEF I, D
      <4> QED BY <3>2
    <3>4. ASSUME NEW k \in Parts, NEW p \in P PROVE IsMade(T, s, p, Next1(g)[<<k, p>>])
      <4>1. Next1(g)[<<k, p>>] = MadeFrom(s, k, p, g)
        OBVIOUS
      <4> QED BY <1>1, <3>1, <4>1
    <3> HIDE DEF Next1
    <3> QED BY <3>3, <3>4
  <2> HIDE DEF Next1, D
  <2> QED BY <2>1
<1>6. Causal(I, D, rank, F)
  <2>1. ASSUME NEW g \in D, NEW h \in D, NEW at \in I, \A y \in I : rank[y] < rank[at] => g[y] = h[y]
        PROVE  F[g][at] = F[h][at]
    <3>1. PICK k \in Parts, p \in 1..(n + 1) : at = <<k, p>> /\ at[1] = k /\ at[2] = p
      BY <1>1
    <3>2. ASSUME NEW r \in 1..(n + 1), NEW j \in Parts, r > p \/ (r = p /\ j = "value" /\ k # "value")
          PROVE  g[<<j, r>>] = h[<<j, r>>]
      <4>1. <<j, r>> \in I /\ <<j, r>>[1] = j /\ <<j, r>>[2] = r
        BY <1>1
      <4>2. rank[<<j, r>>] < rank[at]
        <5>1. rank[<<j, r>>] = 2 * (n + 1 - r) + (IF j = "value" THEN 0 ELSE 1)
          BY <4>1
        <5>2. rank[at] = 2 * (n + 1 - p) + (IF k = "value" THEN 0 ELSE 1)
          BY <3>1
        <5> HIDE DEF rank
        <5> QED BY <1>1, <3>2, <5>1, <5>2
      <4> HIDE DEF rank, I, D
      <4> QED BY <2>1, <4>1, <4>2
    <3> HIDE DEF D, rank
    <3>3. SameBelow(s, k, p, g, h)
      <4>1. ASSUME NEW r \in (p + 1)..(Len(s) + 1), NEW j \in Parts PROVE g[<<j, r>>] = h[<<j, r>>]
        <5>1. r \in 1..(n + 1) /\ r > p
          BY <1>1
        <5> QED BY <3>2, <5>1
      <4>2. k # "value" => g[<<"value", p>>] = h[<<"value", p>>]
        BY <3>2, PartsAre DEF PartNames
      <4> QED BY <4>1, <4>2 DEF SameBelow
    <3>4. MadeFrom(s, k, p, g) = MadeFrom(s, k, p, h)
      BY <1>4, <3>3, PartsAreSame
    <3>5. F[g][at] = MadeFrom(s, k, p, g) /\ F[h][at] = MadeFrom(s, k, p, h)
      BY <3>1
    <3> QED BY <3>4, <3>5
  <2> HIDE DEF F, D, rank, I
  <2> QED BY <2>1 DEF Causal
<1>7. PICK g \in D : \A at \in I : g[at] = F[g][at]
  <2>0. 2 * n + 1 \in Nat
    BY <1>1
  <2> HIDE DEF F, D, rank, I, n
  <2>1. Solved(I, D, F)
    BY <2>0, <1>2, <1>3, <1>5, <1>6, Recursion
  <2> QED BY <2>1 DEF Solved
<1>8. g = [at \in I |-> MadeFrom(s, at[1], at[2], g)]
  <2>1. \A at \in I : g[at] = MadeFrom(s, at[1], at[2], g)
    <3> HIDE DEF I, D
    <3> QED BY <1>7
  <2> HIDE DEF I
  <2> QED BY <2>1
<1> DEFINE e == Parse(s)
<1>9. e = [at \in I |-> MadeFrom(s, at[1], at[2], e)]
  <2> HIDE DEF D
  <2> QED BY <1>8 DEF Parse, MadeFrom
<1> HIDE DEF e
<1>10. ASSUME NEW p \in 1..(n + 1), NEW k \in Parts PROVE e[<<k, p>>] = MadeFrom(s, k, p, e)
  <2> DEFINE at == <<k, p>>
  <2>1. at \in I /\ at[1] = k /\ at[2] = p
    BY <1>1
  <2> HIDE DEF at, I
  <2>2. e[at] = MadeFrom(s, k, p, e)
    BY <1>9, <2>1
  <2> QED BY <2>2 DEF at
<1> DEFINE S == {p \in 1..(n + 1) : \A k \in Parts : IsMade(T, s, p, e[<<k, p>>])}
<1>11. ASSUME NEW p \in 1..(n + 1), \A r \in (p + 1)..(n + 1) : r \in S PROVE p \in S
  <2>1. \A r \in (p + 1)..(n + 1), j \in Parts : IsMade(T, s, r, e[<<j, r>>])
    BY <1>11
  <2>2. IsMade(T, s, p, e[<<"value", p>>])
    <3>1. PartsMade(T, s, "value", p, e)
      BY <2>1 DEF PartsMade
    <3> QED BY <1>10, <3>1, PartsAreMade, PartsAre DEF PartNames
  <2>3. ASSUME NEW k \in Parts PROVE IsMade(T, s, p, e[<<k, p>>])
    <3>1. PartsMade(T, s, k, p, e)
      BY <2>1, <2>2 DEF PartsMade
    <3> QED BY <1>10, <3>1, PartsAreMade
  <2> QED BY <2>3
<1>12. \A p \in 1..(n + 1) : p \in S
  <2> HIDE DEF S
  <2>1. n + 1 \in Nat
    BY <1>1
  <2> QED BY <1>11, <2>1, FromTheEnd
<1> QED BY <1>1, <1>10, <1>12 DEF AreParsed, e

\* What a value may be followed by.
Parted(x, e) == e > Len(x) \/ x[e] \in {Comma} \cup Brackets

LEMMA ItemStays ==
  ASSUME NEW T, NEW r \in Seq(T), NEW x \in Seq(T), NEW k \in Brackets, NEW p \in Places(r),
         ItemValue(r, k, p) # 0, Agree(x, r, p, ItemValue(r, k, p) - 1)
  PROVE  ItemValue(x, k, p) = ItemValue(r, k, p)
<1> DEFINE q == StringEnd(r, p + 1)
<1>1. Len(r) \in Nat /\ Len(x) \in Nat /\ p \in 1..(Len(r) + 1)
  BY LenProperties DEF Places
<1>2. CASE k = "]"
  BY <1>2 DEF ItemValue
<1>3. CASE k = CloseBrace /\ Has(r, p, Quote) /\ q # 0 /\ Has(r, q, ":") /\ ItemValue(r, k, p) = q + 1
  <2>1. p + 1 \in Places(r) /\ r[p] = Quote /\ p <= Len(r)
    BY <1>1, <1>3 DEF Has, Places
  <2>2. q \in (p + 2)..Len(r) /\ r[q] = ":"
    <3>1. q \in {0} \cup (p + 1 + 1)..(Len(r) + 1)
      BY <2>1, StringEndSteps DEF StringEndStep
    <3> QED BY <1>1, <1>3, <3>1 DEF Has
  <2>3. Agree(x, r, p, q)
    <3>1. q + 1 - 1 = q
      BY <1>1, <2>2
    <3>2. ItemValue(r, k, p) - 1 = q
      <4>1. ItemValue(r, k, p) = q + 1 /\ q \in Int
        BY <1>3, <2>2
      <4> HIDE DEF q
      <4> QED BY <4>1
    <3> QED BY <3>2
  <2>4. WholeString(x, r, p + 1)
    <3>1. Agree(x, r, p + 1, q - 1)
      BY <1>1, <2>2, <2>3 DEF Agree
    <3> QED BY <1>3, <2>1, <3>1, WholeStrings
  <2>5. StringEnd(x, p + 1) = q
    BY <2>4 DEF WholeString
  <2> HIDE DEF q
  <2>6. p \in p..q /\ q \in p..q
    BY <1>1, <2>2
  <2>7. Has(x, p, Quote) /\ Has(x, q, ":")
    BY <1>1, <2>1, <2>2, <2>3, <2>6 DEF Agree, Has
  <2>8. k # "]"
    BY <1>3, Distinct DEF OtherBytes
  <2> QED BY <1>3, <2>2, <2>5, <2>7, <2>8 DEF ItemValue
<1> QED BY <1>2, <1>3, ItemIs

\* A value ends in a text where it ends in another that has the same bytes
\* up to there, and so do items.
LEMMA EndsStay ==
  ASSUME NEW T, NEW r \in Seq(T), NEW x \in Seq(T), NEW k \in Parts, NEW p \in Places(r),
         EndAt(r, k, p) # 0, Agree(x, r, p, EndAt(r, k, p) - 1), k = "value" => Parted(x, EndAt(r, k, p))
  PROVE  EndAt(x, k, p) = EndAt(r, k, p)
<1> DEFINE n == Len(r)
           Stays1(j, q) == \A e : e # 0 /\ EndAt(r, j, q) = e /\ Agree(x, r, q, e - 1) /\ (j = "value" => Parted(x, e))
                             => EndAt(x, j, q) = e
           S == {q \in 1..(n + 1) : \A j \in Parts : Stays1(j, q)}
<1>1. n \in Nat /\ n + 1 \in Nat /\ Places(r) = 1..(n + 1) /\ Len(x) \in Nat /\ Places(x) = 1..(Len(x) + 1)
  BY LenProperties DEF Places
<1>2. ASSUME NEW q \in 1..(n + 1), \A i \in (q + 1)..(n + 1) : i \in S PROVE Stays1("value", q)
  <2> SUFFICES ASSUME NEW e, e # 0, EndAt(r, "value", q) = e, Agree(x, r, q, e - 1), Parted(x, e)
               PROVE  EndAt(x, "value", q) = e
    OBVIOUS
  <2>1. ValueIs(r, q, e) /\ e \in (q + 1)..(n + 1)
    BY <1>1, ValueEnds DEF IsEnd
  <2>2. q \in q..(e - 1)
    BY <1>1, <2>1
  <2>3. q <= Len(x) /\ x[q] = r[q] /\ q \in Places(x) /\ q + 1 \in Places(r) /\ q + 1 \in (q + 1)..(n + 1) /\ q <= n
    BY <1>1, <2>1, <2>2 DEF Agree
  <2> SUFFICES ValueIs(x, q, e)
    BY <2>3, ValueEnds
  <2>4. CASE r[q] = Quote /\ StringEnd(r, q + 1) = e
    <3>1. Agree(x, r, q + 1, e - 1)
      BY <1>1, <2>1 DEF Agree
    <3>2. WholeString(x, r, q + 1)
      BY <2>3, <2>4, <3>1, WholeStrings
    <3> QED BY <2>3, <2>4, <3>2 DEF WholeString, ValueIs
  <2>5. CASE r[q] \in Openers /\ Has(r, q + 1, Closing(r[q])) /\ e = q + 2
    <3>1. q + 1 \in q..(e - 1)
      BY <1>1, <2>5
    <3>2. Has(x, q + 1, Closing(x[q]))
      BY <2>3, <2>5, <3>1 DEF Agree, Has
    <3> QED BY <2>3, <2>5, <3>2 DEF ValueIs
  <2>6. CASE r[q] \in Openers /\ ~Has(r, q + 1, Closing(r[q])) /\ EndAt(r, Closing(r[q]), q + 1) = e
    <3> DEFINE j == Closing(r[q])
    <3>1. j \in Brackets /\ j \in Parts /\ j # "value"
      BY PartsAre DEF PartNames
    <3>2. e \in (q + 2)..(n + 1)
      <4>1. IsEnd(r, q + 1, EndAt(r, j, q + 1))
        BY <2>3, <3>1, ItemsEnds
      <4> QED BY <1>1, <2>1, <2>6, <4>1 DEF IsEnd
    <3>3. Agree(x, r, q + 1, e - 1) /\ q + 1 \in q..(e - 1)
      BY <1>1, <3>2 DEF Agree
    <3>4. EndAt(x, j, q + 1) = e
      BY <1>2, <2>3, <2>6, <3>1, <3>3
    <3>5. ~Has(x, q + 1, j)
      BY <1>1, <2>6, <3>2, <3>3 DEF Agree, Has
    <3> QED BY <2>3, <2>6, <3>4, <3>5 DEF ValueIs
  <2>7. CASE r[q] = "null" /\ e = q + 1
    BY <2>3, <2>7 DEF ValueIs
  <2>8. CASE r[q] = "t" /\ Has(r, q + 1, "e") /\ e = q + 2
    <3>1. q + 1 \in q..(e - 1)
      BY <1>1, <2>8
    <3>2. Has(x, q + 1, "e")
      BY <2>8, <3>1 DEF Agree, Has
    <3> QED BY <2>3, <2>8, <3>2 DEF ValueIs
  <2>9. CASE r[q] \in Digits /\ RunEnd(r, q, Digits) = e /\ IsNumber(SubSeq(r, q, e - 1))
    <3>1. IsRunEnd(r, q, Digits, e)
      BY <1>1, <2>9, RunEndIs
    <3>2. IsRunEnd(x, q, Digits, e)
      <4>1. e - 1 \in q..(e - 1)
        BY <1>1, <2>1
      <4>2. e \in q..(Len(x) + 1)
        BY <1>1, <2>1, <4>1 DEF Agree
      <4>3. \A i \in q..(e - 1) : x[i] \in Digits
        BY <3>1 DEF IsRunEnd, Agree
      <4>4. e <= Len(x) => x[e] \notin Digits
        <5>1. \A a \in {Comma} \cup Brackets : a \notin Digits
          BY Distinct DEF Brackets, OtherBytes, Digits
        <5>2. e <= Len(x) => ~(e > Len(x))
          BY <1>1, <2>1
        <5> QED BY <5>1, <5>2 DEF Parted
      <4> QED BY <4>2, <4>3, <4>4 DEF IsRunEnd
    <3>3. RunEnd(x, q, Digits) = e
      BY <2>3, <3>2, RunEndIs
    <3>4. SubSeq(x, q, e - 1) = SubSeq(r, q, e - 1)
      <4>1. e - 1 \in q..(e - 1)
        BY <1>1, <2>1
      <4>2. q \in 1..(Len(x) + 1) /\ e - 1 \in (q - 1)..Len(x) /\ e - 1 <= Len(r)
        BY <1>1, <2>1, <2>3, <4>1 DEF Agree
      <4> QED BY <4>2, SameParts
    <3> QED BY <2>3, <2>9, <3>3, <3>4 DEF ValueIs
  <2> QED BY <2>1, <2>4, <2>5, <2>6, <2>7, <2>8, <2>9 DEF ValueIs
<1>3. ASSUME NEW q \in 1..(n + 1), \A i \in (q + 1)..(n + 1) : i \in S, NEW j \in Brackets PROVE Stays1(j, q)
  <2> SUFFICES ASSUME NEW e, e # 0, EndAt(r, j, q) = e, Agree(x, r, q, e - 1)
               PROVE  EndAt(x, j, q) = e
    OBVIOUS
  <2> DEFINE f == ItemValue(r, j, q)
             v == ValueOfItem(r, j, q)
  <2>0. j \in Parts /\ j # "value"
    BY PartsAre DEF PartNames
  <2>1. ItemsAre(r, j, q, e) /\ e \in (q + 1)..(n + 1)
    BY <1>1, ItemsEnds DEF IsEnd
  <2>2. f \in q..(n + 1) /\ f # 0 /\ v \in (f + 1)..n /\ v # 0 /\ v = EndAt(r, "value", f)
    BY <1>1, <2>1 DEF ItemsAre, ValueOfItem
  <2>3. v < e
    <3>1. CASE r[v] = Comma /\ EndAt(r, j, v + 1) = e
      <4>1. v + 1 \in Places(r)
        BY <1>1, <2>2
      <4> HIDE DEF v
      <4>2. IsEnd(r, v + 1, EndAt(r, j, v + 1))
        BY <4>1, ItemsEnds
      <4> QED BY <1>1, <2>1, <2>2, <3>1, <4>2 DEF IsEnd
    <3>2. CASE e = v + 1
      BY <1>1, <2>2, <3>2
    <3> QED BY <2>1, <3>1, <3>2 DEF ItemsAre
  <2>4. Agree(x, r, q, f - 1) /\ Agree(x, r, f, v - 1) /\ Agree(x, r, v + 1, e - 1) /\ v \in q..(e - 1)
    <3>0. q \in Int /\ e \in Int /\ f >= q /\ f \in Int /\ v > f /\ v \in Int /\ v < e
      BY <1>1, <2>1, <2>2, <2>3
    <3> HIDE DEF f, v
    <3>1. q..(f - 1) \subseteq q..(e - 1) /\ f..(v - 1) \subseteq q..(e - 1) /\ (v + 1)..(e - 1) \subseteq q..(e - 1)
          /\ v \in q..(e - 1)
      BY <3>0
    <3> QED BY <3>1 DEF Agree
  <2>5. ItemValue(x, j, q) = f
    BY <1>1, <2>2, <2>4, ItemStays
  <2>6. v \in 1..Len(x) /\ x[v] = r[v] /\ v + 1 \in 1..(n + 1) /\ q \in Places(x)
    BY <1>1, <2>2, <2>4 DEF Agree
  <2>7. r[v] \in {Comma, j}
    BY <2>1 DEF ItemsAre
  <2>8. EndAt(x, "value", f) = v
    <3>1. Parted(x, v)
      BY <2>6, <2>7 DEF Parted
    <3>2. Stays1("value", f)
      <4>1. f = q \/ f \in (q + 1)..(n + 1)
        BY <1>1, <2>2
      <4> HIDE DEF f, v, Stays1
      <4>2. CASE f = q
        BY <1>2, <1>3, <4>2
      <4>3. CASE f \in (q + 1)..(n + 1)
        BY <1>3, <4>3, PartsAre DEF PartNames
      <4> QED BY <4>1, <4>2, <4>3
    <3> HIDE DEF f, v
    <3> QED BY <2>2, <2>4, <3>1, <3>2
  <2>9. ValueOfItem(x, j, q) = v
    BY <2>2, <2>5, <2>8 DEF ValueOfItem
  <2> HIDE DEF f, v
  <2>10. f \in q..(Len(x) + 1) /\ v \in (f + 1)..Len(x)
    BY <1>1, <2>2, <2>6
  <2>11. CASE r[v] = Comma /\ EndAt(r, j, v + 1) = e
    <3>1. v + 1 \in (q + 1)..(n + 1)
      BY <1>1, <2>2
    <3>2. EndAt(x, j, v + 1) = e
      BY <1>3, <2>0, <2>4, <2>11, <3>1
    <3>3. ItemsAre(x, j, q, e)
      BY <2>5, <2>6, <2>9, <2>10, <2>11, <3>2 DEF ItemsAre
    <3> QED BY <2>6, <3>3, ItemsEnds
  <2>12. CASE r[v] = j /\ e = v + 1
    <3>1. ItemsAre(x, j, q, e)
      BY <2>5, <2>6, <2>9, <2>10, <2>12 DEF ItemsAre
    <3> QED BY <2>6, <3>1, ItemsEnds
  <2> QED BY <2>1, <2>11, <2>12 DEF ItemsAre, f, v
<1>4. \A q \in 1..(n + 1) : q \in S
  <2>1. ASSUME NEW q \in 1..(n + 1), \A i \in (q + 1)..(n + 1) : i \in S PROVE q \in S
    <3> HIDE DEF Stays1
    <3>1. Stays1("value", q) /\ \A j \in Brackets : Stays1(j, q)
      BY <1>2, <1>3, <2>1
    <3> QED BY <3>1, PartsAre DEF PartNames
  <2> HIDE DEF S
  <2> QED BY <1>1, <2>1, FromTheEnd
<1> QED BY <1>1, <1>4

LEMMA ParseSteps ==
  ASSUME NEW T, Added \subseteq T, NEW s \in Seq(T), NEW p \in 1..(Len(s) + 1)
  PROVE  /\ \A k \in Parts : IsMade(T, s, p, ParseAt(s, k, p))
         /\ ValueMadeOf(s, p, Parse(s), ParseAt(s, "value", p))
         /\ \A k \in Brackets : ParseAt(s, k, p) = itemsFrom(s, k, p, Parse(s))
<1> DEFINE g == Parse(s)
<1>1. AreParsed(T, s, g)
  BY ParseExists
<1>2. p \in Places(s)
  BY DEF Places
<1> HIDE DEF g
<1>3. \A k \in Parts : IsMade(T, s, p, g[<<k, p>>]) /\ g[<<k, p>>] = MadeFrom(s, k, p, g)
  BY <1>1, <1>2 DEF AreParsed
<1>4. \A k : ParseAt(s, k, p) = g[<<k, p>>]
  BY DEF ParseAt, g
<1>5. ParseAt(s, "value", p) = valueFrom(s, p, g)
  BY <1>3, <1>4, PartsAre DEF PartNames, MadeFrom
<1>6. ASSUME NEW k \in Brackets PROVE ParseAt(s, k, p) = itemsFrom(s, k, p, g)
  <2>1. k \in Parts /\ k # "value"
    BY PartsAre DEF PartNames
  <2> QED BY <1>3, <1>4, <2>1 DEF MadeFrom
<1>7. ValueMadeOf(s, p, g, valueFrom(s, p, g))
  BY ValueMadeIs
<1> QED BY <1>3, <1>4, <1>5, <1>6, <1>7 DEF g

\* The text s has the bytes of r up to c, and there it is cut, or Repair
\* has changed what comes next.
Meets(s, r, c) ==
  /\ c \in 0..Len(s) /\ c < Len(r) /\ Agree(s, r, 1, c)
  /\ c < Len(s) => r[c + 1] = "\\" /\ s[c + 1] \notin Escapable

LEMMA MeetsAt ==
  ASSUME NEW T, NEW s \in Seq(T), NEW r \in Seq(T), NEW c, Meets(s, r, c)
  PROVE  /\ c \in Nat /\ Len(s) \in Nat /\ Len(r) \in Nat /\ c <= Len(s) /\ c < Len(r)
         /\ \A i \in 1..c : i <= Len(s) /\ i <= Len(r) /\ s[i] = r[i]
         /\ \A i \in 1..Len(r) : i <= Len(s) /\ i <= c + 1 /\ r[i] # "\\" => i <= c /\ s[i] = r[i]
<1>1. Len(s) \in Nat /\ Len(r) \in Nat
  BY LenProperties
<1>2. c \in Nat /\ c <= Len(s) /\ c < Len(r) /\ \A i \in 1..c : i <= Len(s) /\ i <= Len(r) /\ s[i] = r[i]
  BY <1>1 DEF Meets, Agree
<1>3. ASSUME NEW i \in 1..Len(r), i <= Len(s), i <= c + 1, r[i] # "\\" PROVE i <= c
  <2>1. CASE i = c + 1
    BY <1>1, <1>2, <1>3, <2>1 DEF Meets
  <2>2. CASE i # c + 1
    BY <1>1, <1>2, <1>3, <2>2
  <2> QED BY <2>1, <2>2
<1>4. ASSUME NEW i \in 1..Len(r), i <= Len(s), i <= c + 1, r[i] # "\\" PROVE i <= c /\ s[i] = r[i]
  BY <1>2, <1>3, <1>4
<1> QED BY <1>1, <1>2, <1>4

Frag(s, p) == \A i \in p..Len(s) : s[i] \in Fragments
Closes(u) == \A i \in 1..Len(u) : u[i] \in Closers

\* What ArgsFollowText says of the text s and of what is shown.
Follows(s, a) ==
  \E j \in 0..Len(s) :
    /\ j <= Len(a) /\ \A i \in 1..j : a[i] = s[i]
    /\ \A i \in (j + 1)..Len(a) : a[i] \in Closers
    /\ Frag(s, j + 1)

\* What begins with a ends with a.
EndsIn(T, a, k, p) ==
  \A x \in Seq(T) : Begins(a, x) /\ (k = "value" => Parted(x, Len(a) + 1)) => EndAt(x, k, p) = Len(a) + 1

LEMMA AgreeOn ==
  ASSUME NEW x, NEW s, NEW r, NEW c \in Int, NEW j \in Int, j <= c, NEW p \in Int, p >= 1,
         Agree(x, s, 1, j), Agree(s, r, 1, c)
  PROVE  Agree(x, r, p, j) /\ Agree(x, s, p, j)
<1>1. \A i \in p..j : i \in 1..j /\ i \in 1..c
  OBVIOUS
<1> QED BY <1>1 DEF Agree

\* A beginning of the text, closed.
LEMMA FollowsPut ==
  ASSUME NEW T, NEW s \in Seq(T), NEW j \in 0..Len(s), NEW u \in Seq(T), Closes(u), Frag(s, j + 1)
  PROVE  Follows(s, Put(s, j + 1, u))
<1> DEFINE a == Put(s, j + 1, u)
<1>1. Len(s) \in Nat /\ Len(u) \in Nat /\ j + 1 \in 1..(Len(s) + 1) /\ j + 1 - 1 = j
  BY LenProperties
<1>2. IsPut(T, s, j + 1, u, a)
  BY <1>1, PutIs
<1> HIDE DEF a
<1>3. Len(a) = j + Len(u) /\ \A i \in 1..j : a[i] = s[i]
  BY <1>1, <1>2 DEF IsPut
<1>4. ASSUME NEW i \in (j + 1)..Len(a) PROVE a[i] \in Closers
  <2> DEFINE l == i - j
  <2>1. l \in 1..Len(u) /\ j + 1 - 1 + l = i
    BY <1>1, <1>3
  <2> HIDE DEF l
  <2>2. a[j + 1 - 1 + l] = u[l]
    BY <1>2, <2>1 DEF IsPut
  <2> QED BY <2>1, <2>2 DEF Closes
<1>5. j <= Len(a)
  BY <1>1, <1>3
<1>6. Follows(s, a)
  BY <1>3, <1>4, <1>5 DEF Follows
<1> QED BY <1>6 DEF a

\* What a text has that begins with a beginning of s and u.
IsBegun(s, j, u, x) == Agree(x, s, 1, j) /\ \A i \in 1..Len(u) : Has(x, j + i, u[i])

LEMMA BeginsPut ==
  ASSUME NEW T, NEW s \in Seq(T), NEW j \in 0..Len(s), NEW u \in Seq(T), NEW x \in Seq(T), Begins(Put(s, j + 1, u), x)
  PROVE  IsBegun(s, j, u, x)
<1> DEFINE a == Put(s, j + 1, u)
<1>1. Len(s) \in Nat /\ Len(u) \in Nat /\ Len(x) \in Nat /\ j + 1 \in 1..(Len(s) + 1) /\ j + 1 - 1 = j
  BY LenProperties
<1>2. IsPut(T, s, j + 1, u, a)
  BY <1>1, PutIs
<1>3. Begins(a, x)
  OBVIOUS
<1> HIDE DEF a
<1>4. Len(a) = j + Len(u) /\ \A i \in 1..j : a[i] = s[i]
  BY <1>1, <1>2 DEF IsPut
<1>5. \A i \in 1..Len(a) : i \in 1..Len(x) /\ x[i] = a[i]
  BY <1>3 DEF Begins, Agree
<1>6. Agree(x, s, 1, j)
  <2>1. \A i \in 1..j : i \in 1..Len(a) /\ i \in 1..Len(s)
    BY <1>1, <1>4
  <2> QED BY <1>4, <1>5, <2>1 DEF Agree
<1>7. ASSUME NEW i \in 1..Len(u) PROVE Has(x, j + i, u[i])
  <2>1. a[j + 1 - 1 + i] = u[i]
    BY <1>2 DEF IsPut
  <2>2. j + i \in 1..Len(a) /\ j + 1 - 1 + i = j + i
    BY <1>1, <1>4
  <2>3. x[j + i] = u[i] /\ j + i \in 1..Len(x)
    BY <1>5, <2>1, <2>2
  <2> QED BY <1>1, <2>3 DEF Has
<1> QED BY <1>6, <1>7 DEF IsBegun

LEMMA PutLen ==
  ASSUME NEW T, NEW s \in Seq(T), NEW j \in 0..Len(s), NEW u \in Seq(T)
  PROVE  Put(s, j + 1, u) \in Seq(T) /\ Len(Put(s, j + 1, u)) = j + Len(u)
<1>1. Len(s) \in Nat /\ Len(u) \in Nat /\ j + 1 \in 1..(Len(s) + 1) /\ j + 1 - 1 = j
  BY LenProperties
<1>2. IsPut(T, s, j + 1, u, Put(s, j + 1, u))
  BY <1>1, PutIs
<1> QED BY <1>1, <1>2 DEF IsPut

\* And with more behind it.
LEMMA FollowsThen ==
  ASSUME NEW T, NEW s \in Seq(T), NEW a \in Seq(T), NEW u \in Seq(T), Closes(u), Follows(s, a)
  PROVE  Follows(s, a \o u)
<1>1. Len(s) \in Nat /\ Len(a) \in Nat /\ Len(u) \in Nat
  BY LenProperties
<1> DEFINE y == a \o u
<1>2. IsJoined(T, a, u, y)
  BY JoinedIs
<1> HIDE DEF y
<1>3. PICK j \in 0..Len(s) : /\ j <= Len(a) /\ \A i \in 1..j : a[i] = s[i]
                             /\ \A i \in (j + 1)..Len(a) : a[i] \in Closers
                             /\ Frag(s, j + 1)
  BY DEF Follows
<1>4. Len(y) = Len(a) + Len(u) /\ \A i \in 1..Len(a) : y[i] = a[i]
  BY <1>2 DEF IsJoined
<1>5. j <= Len(y) /\ \A i \in 1..j : y[i] = s[i]
  <2>1. \A i \in 1..j : i \in 1..Len(a)
    BY <1>1, <1>3
  <2> QED BY <1>1, <1>3, <1>4, <2>1
<1>6. ASSUME NEW i \in (j + 1)..Len(y) PROVE y[i] \in Closers
  <2>1. CASE i <= Len(a)
    <3>1. i \in (j + 1)..Len(a) /\ i \in 1..Len(a)
      BY <1>1, <1>3, <2>1
    <3> QED BY <1>3, <1>4, <3>1
  <2>2. CASE i > Len(a)
    <3> DEFINE l == i - Len(a)
    <3>1. l \in 1..Len(u) /\ Len(a) + l = i
      BY <1>1, <1>3, <1>4, <2>2
    <3> HIDE DEF l
    <3>2. y[Len(a) + l] = u[l]
      BY <1>2, <3>1 DEF IsJoined
    <3> QED BY <3>1, <3>2 DEF Closes
  <2> QED BY <1>1, <1>3, <2>1, <2>2
<1>7. Follows(s, y)
  BY <1>3, <1>5, <1>6 DEF Follows
<1> QED BY <1>7 DEF y

BegunWith(a, u, x) == Begins(a, x) /\ \A i \in 1..Len(u) : Has(x, Len(a) + i, u[i])

LEMMA BeginsThen ==
  ASSUME NEW T, NEW a \in Seq(T), NEW u \in Seq(T), NEW x \in Seq(T), Begins(a \o u, x)
  PROVE  BegunWith(a, u, x)
<1>1. Len(x) \in Nat /\ Len(a) \in Nat /\ Len(u) \in Nat
  BY LenProperties
<1> DEFINE y == a \o u
<1>2. IsJoined(T, a, u, y) /\ Begins(y, x)
  BY JoinedIs
<1> HIDE DEF y
<1>3. \A i \in 1..Len(y) : i \in 1..Len(x) /\ y[i] = x[i]
  BY <1>2 DEF Begins, Agree
<1>4. Len(y) = Len(a) + Len(u) /\ \A i \in 1..Len(a) : y[i] = a[i]
  BY <1>2 DEF IsJoined
<1>5. Begins(a, x)
  <2>1. \A i \in 1..Len(a) : i \in 1..Len(y)
    BY <1>1, <1>4
  <2> QED BY <1>3, <1>4, <2>1 DEF Begins, Agree
<1>6. ASSUME NEW i \in 1..Len(u) PROVE Has(x, Len(a) + i, u[i])
  <2>1. y[Len(a) + i] = u[i] /\ Len(a) + i \in 1..Len(y)
    BY <1>1, <1>2, <1>4 DEF IsJoined
  <2>2. x[Len(a) + i] = u[i] /\ Len(a) + i \in 1..Len(x)
    BY <1>3, <2>1
  <2> QED BY <1>1, <2>2 DEF Has
<1> QED BY <1>5, <1>6 DEF BegunWith

LEMMA AgreeThen ==
  ASSUME NEW T, NEW s \in Seq(T), NEW a \in Seq(T), NEW u \in Seq(T), NEW c, Agree(a, s, 1, c)
  PROVE  Agree(a \o u, s, 1, c)
<1>1. Len(s) \in Nat /\ Len(a) \in Nat /\ Len(u) \in Nat
  BY LenProperties
<1> DEFINE y == a \o u
<1>2. IsJoined(T, a, u, y)
  BY JoinedIs
<1> HIDE DEF y
<1>3. Len(y) = Len(a) + Len(u) /\ \A i \in 1..Len(a) : y[i] = a[i] /\ i \in 1..Len(y)
  BY <1>1, <1>2 DEF IsJoined
<1>4. Agree(y, s, 1, c)
  BY <1>3 DEF Agree
<1> QED BY <1>4 DEF y

\* What the parser makes of a part that ends at e in r: all of it, nothing,
\* what there is of it, closed, or something that goes on past c.
ReadWhole(s, p, e, m) == m.out = SubSeq(s, p, e - 1) /\ m.pos = e
ReadNone(s, c, p, none, m) == c = Len(s) /\ m.out = none /\ m.pos = c + 1 /\ Frag(s, p)
ReadCut(T, s, c, k, p, m) ==
  /\ c = Len(s) /\ m.pos = c + 1
  /\ Follows(s, Put(s, p, m.out)) /\ EndsIn(T, Put(s, p, m.out), k, p)
ReadPast(s, c, p, m) == c < Len(s) /\ Agree(Put(s, p, m.out), s, 1, c + 1)

Read(T, s, c, k, p, e, m) ==
  \/ e <= c + 1 /\ ReadWhole(s, p, e, m)
  \/ e > c + 1 /\ ReadNone(s, c, p, IF k = "value" THEN <<>> ELSE <<k>>, m)
  \/ e > c + 1 /\ ReadCut(T, s, c, k, p, m)
  \/ e > c + 1 /\ ReadPast(s, c, p, m)

LEMMA PartThen ==
  ASSUME NEW T, NEW s \in Seq(T), NEW p \in 1..Len(s), NEW q \in p..Len(s)
  PROVE  SubSeq(s, p, q - 1) \o <<s[q]>> = SubSeq(s, p, q)
<1> DEFINE x == SubSeq(s, p, q - 1)
           w == <<s[q]>>
           y == SubSeq(s, p, q)
           z == x \o w
<1>1. Len(s) \in Nat /\ p \in 1..(Len(s) + 1) /\ q - 1 \in (p - 1)..Len(s) /\ q \in (p - 1)..Len(s) /\ q \in 1..Len(s)
  BY LenProperties
<1>2. IsPart(T, s, p, q - 1, x) /\ IsPart(T, s, p, q, y)
  BY <1>1, PartIs
<1>3. s[q] \in T
  BY <1>1, ElementOfSeq
<1>4. w \in Seq(T) /\ Len(w) = 1 /\ w[1] = s[q]
  BY <1>3
<1> HIDE DEF x, y, w
<1>5. IsJoined(T, x, w, z)
  BY <1>2, <1>4, JoinedIs DEF IsPart
<1> HIDE DEF z
<1>6. Len(x) = q - p /\ Len(y) = q + 1 - p /\ Len(z) = q + 1 - p
  BY <1>1, <1>2, <1>4, <1>5 DEF IsPart, IsJoined
<1>7. ASSUME NEW i \in 1..(q + 1 - p) PROVE z[i] = y[i]
  <2>1. y[i] = s[p + i - 1]
    BY <1>2 DEF IsPart
  <2>2. CASE i = q + 1 - p
    <3>1. i = Len(x) + 1 /\ 1 \in 1..Len(w) /\ p + i - 1 = q
      BY <1>1, <1>4, <1>6, <2>2
    <3>2. z[Len(x) + 1] = w[1]
      BY <1>5, <3>1 DEF IsJoined
    <3> QED BY <1>4, <2>1, <3>1, <3>2
  <2>3. CASE i # q + 1 - p
    <3>1. i \in 1..Len(x) /\ i \in 1..(q - 1 + 1 - p)
      BY <1>1, <1>6, <2>3
    <3>2. z[i] = x[i]
      BY <1>5, <3>1 DEF IsJoined
    <3>3. x[i] = s[p + i - 1]
      BY <1>2, <3>1 DEF IsPart
    <3> QED BY <2>1, <3>2, <3>3
  <2> QED BY <2>2, <2>3
<1>8. z = y
  <2>1. z \in Seq(T) /\ y \in Seq(T)
    BY <1>2, <1>5 DEF IsPart, IsJoined
  <2> QED BY <1>6, <1>7, <2>1, SeqEqual
<1> QED BY <1>8 DEF x, y, z, w

\* A string, of a value or of a key.
StringIsRead(T, s, c, p, e, m) ==
  \/ e <= c + 1 /\ ReadWhole(s, p, e, m)
  \/ /\ e > c + 1 /\ c = Len(s) /\ m.pos = c + 1
     /\ \E j \in p..c : /\ m.out = SubSeq(s, p, j) \o <<Quote>> /\ Frag(s, j + 1)
                        /\ \A x \in Seq(T) : Agree(x, s, 1, j) /\ Has(x, j + 1, Quote) => StringEnd(x, p + 1) = j + 2
  \/ /\ e > c + 1 /\ c < Len(s)
     /\ \E j \in (c + 1)..Len(s) : m.out = SubSeq(s, p, j) \o <<Quote>>

LEMMA StringsAreRead ==
  ASSUME NEW T, NEW s \in Seq(T), NEW r \in Seq(T), NEW c, Meets(s, r, c), NEW p \in 1..c, r[p] = Quote,
         NEW e, e # 0, StringEnd(r, p + 1) = e
  PROVE  StringIsRead(T, s, c, p, e, str(s, p))
<1> DEFINE q == strStop(s, p + 1)
           w == SubSeq(s, p, q - 1) \o <<Quote>>
           m == str(s, p)
<1>1. /\ c \in Nat /\ Len(s) \in Nat /\ Len(r) \in Nat /\ c <= Len(s) /\ c < Len(r) /\ p \in 1..Len(s)
      /\ p + 1 \in Places(s) /\ p + 1 \in Places(r) /\ p + 1 \in 1..(c + 1)
  BY MeetsAt DEF Places
<1>2. Agree(s, r, 1, c)
  BY DEF Meets
<1>3. e \in (p + 2)..(Len(r) + 1)
  <2>1. StringEnd(r, p + 1) \in {0} \cup (p + 1 + 1)..(Len(r) + 1)
    BY <1>1, StringEndSteps DEF StringEndStep
  <2> QED BY <1>1, <2>1
<1>4. m = Made(w, IF Has(s, q, Quote) THEN q + 1 ELSE Len(s) + 1)
  BY DEF str
<1> HIDE DEF m
<1>5. m.out = w /\ m.pos = IF Has(s, q, Quote) THEN q + 1 ELSE Len(s) + 1
  <2> HIDE DEF q, w
  <2> QED BY <1>4 DEF Made
<1>6. q \in (p + 1)..(Len(s) + 1)
  BY <1>1, StopSteps DEF StopStep
<1>7. CASE e <= c + 1
  <2>1. Agree(s, r, p + 1, e - 1)
    BY <1>1, <1>2, <1>3, <1>7 DEF Agree
  <2>2. WholeString(s, r, p + 1)
    BY <1>1, <2>1, WholeStrings
  <2>3. q = e - 1 /\ r[e - 1] = Quote
    BY <2>2 DEF WholeString
  <2> HIDE DEF q
  <2>4. s[q] = Quote /\ q \in 1..Len(s) /\ q \in p..Len(s)
    <3>1. q \in 1..c
      BY <1>1, <1>3, <1>7, <2>3
    <3> QED BY <1>1, <1>2, <1>6, <2>3, <3>1 DEF Agree
  <2>5. w = SubSeq(s, p, q)
    BY <1>1, <2>4, PartThen
  <2>6. m.pos = e
    <3>1. Has(s, q, Quote) /\ q + 1 = e
      BY <1>1, <1>3, <2>3, <2>4 DEF Has
    <3> QED BY <1>5, <3>1
  <2>7. ReadWhole(s, p, e, m)
    BY <1>5, <2>3, <2>5, <2>6 DEF ReadWhole
  <2> QED BY <1>7, <2>7 DEF StringIsRead, m
<1>8. CASE e > c + 1 /\ c = Len(s)
  <2>1. Agree(s, r, p + 1, Len(s))
    BY <1>1, <1>2, <1>8 DEF Agree
  <2>2. CutString(T, s, p + 1)
    BY <1>1, <1>8, <2>1, CutStrings
  <2>3. /\ ~Has(s, q, Quote) /\ \A i \in q..Len(s) : s[i] \in {"\\", "u"}
        /\ \A x \in Seq(T) : Agree(x, s, p + 1, q - 1) /\ Has(x, q, Quote) => StringEnd(x, p + 1) = q + 1
    BY <2>2 DEF CutString
  <2> HIDE DEF q
  <2>4. PICK j \in p..c : j = q - 1
    BY <1>1, <1>6, <1>8
  <2>5. j + 1 = q /\ j + 2 = q + 1 /\ j \in Int
    BY <1>1, <1>6, <2>4
  <2>6. Frag(s, j + 1)
    BY <2>3, <2>5 DEF Frag, Fragments
  <2>7. ASSUME NEW x \in Seq(T), Agree(x, s, 1, j), Has(x, j + 1, Quote) PROVE StringEnd(x, p + 1) = j + 2
    <3>1. Agree(x, s, p + 1, q - 1)
      BY <1>1, <2>4, <2>5, <2>7 DEF Agree
    <3> QED BY <2>3, <2>5, <2>7, <3>1
  <2>8. m.out = SubSeq(s, p, j) \o <<Quote>> /\ m.pos = c + 1
    BY <1>5, <1>8, <2>3, <2>4
  <2> QED BY <1>8, <2>6, <2>7, <2>8 DEF StringIsRead, m
<1>9. CASE e > c + 1 /\ c < Len(s)
  <2>1. Diverts(s, r, c)
    BY <1>1, <1>9 DEF Meets, Diverts
  <2>2. Agree(s, r, p + 1, c)
    BY <1>1, <1>2 DEF Agree
  <2>3. q > c + 1
    BY <1>1, <1>9, <2>1, <2>2, DivertedStrings
  <2> HIDE DEF q
  <2>4. PICK j \in (c + 1)..Len(s) : j = q - 1
    BY <1>1, <1>6, <2>3
  <2>5. m.out = SubSeq(s, p, j) \o <<Quote>>
    BY <1>5, <2>4
  <2> QED BY <1>9, <2>5 DEF StringIsRead, m
<1> QED BY <1>1, <1>3, <1>7, <1>8, <1>9

\* Two bytes, one behind the other.
LEMMA PairIs == ASSUME NEW a, NEW b PROVE <<a>> \o <<b>> = <<a, b>>
<1> DEFINE T == {a, b}
           x == <<a>>
           y == <<b>>
           z == <<a, b>>
           w == x \o y
<1>1. x \in Seq(T) /\ Len(x) = 1 /\ x[1] = a /\ y \in Seq(T) /\ Len(y) = 1 /\ y[1] = b
  OBVIOUS
<1>2. z \in Seq(T) /\ Len(z) = 2 /\ z[1] = a /\ z[2] = b
  OBVIOUS
<1> HIDE DEF x, y, z, T
<1>3. IsJoined(T, x, y, w)
  BY <1>1, JoinedIs
<1> HIDE DEF w
<1>4. Len(w) = 2 /\ w[1] = a /\ w \in Seq(T)
  BY <1>1, <1>3 DEF IsJoined
<1>5. w[2] = b
  <2>1. 1 \in 1..Len(y) /\ Len(x) + 1 = 2
    BY <1>1
  <2>2. w[Len(x) + 1] = y[1]
    BY <1>3, <2>1 DEF IsJoined
  <2> QED BY <1>1, <2>1, <2>2
<1>6. \A i \in 1..Len(w) : w[i] = z[i]
  <2>1. \A i \in 1..2 : i = 1 \/ i = 2
    OBVIOUS
  <2> QED BY <1>2, <1>4, <1>5, <2>1
<1>7. w = z
  BY <1>2, <1>4, <1>6, SeqEqual
<1> QED BY <1>7 DEF x, y, z, w

\* A value that is what is there up to j, and u, which closes it.
LEMMA ReadClosed ==
  ASSUME NEW T, NEW s \in Seq(T), NEW k, NEW p \in 1..(Len(s) + 1), NEW j \in (p - 1)..Len(s), NEW u \in Seq(T), NEW m,
         m.out = SubSeq(s, p, j) \o u, m.pos = Len(s) + 1, Closes(u), Frag(s, j + 1),
         \A x \in Seq(T) : IsBegun(s, j, u, x) /\ (k = "value" => Parted(x, j + Len(u) + 1)) => EndAt(x, k, p) = j + Len(u) + 1
  PROVE  ReadCut(T, s, Len(s), k, p, m)
<1> DEFINE a == Put(s, p, m.out)
           b == Put(s, j + 1, u)
<1>1. Len(s) \in Nat /\ j \in 0..Len(s)
  BY LenProperties
<1>2. a = b
  BY PutMore
<1>3. Follows(s, b)
  BY <1>1, FollowsPut
<1>4. b \in Seq(T) /\ Len(b) = j + Len(u)
  BY <1>1, PutLen
<1>5. ASSUME NEW x \in Seq(T), Begins(b, x), k = "value" => Parted(x, Len(b) + 1) PROVE EndAt(x, k, p) = Len(b) + 1
  <2>1. IsBegun(s, j, u, x)
    BY <1>1, <1>5, BeginsPut
  <2> HIDE DEF b
  <2> QED BY <1>4, <1>5, <2>1
<1> HIDE DEF a, b
<1>6. Follows(s, a) /\ EndsIn(T, a, k, p)
  BY <1>2, <1>3, <1>5 DEF EndsIn
<1> QED BY <1>6 DEF ReadCut, a

\* What goes on past c in the text itself.
LEMMA ReadBeyond ==
  ASSUME NEW T, NEW s \in Seq(T), NEW c \in Nat, NEW p \in 1..(Len(s) + 1), NEW j \in (p - 1)..Len(s), j > c, NEW u \in Seq(T), NEW m,
         m.out = SubSeq(s, p, j) \o u
  PROVE  ReadPast(s, c, p, m)
<1> DEFINE a == Put(s, p, m.out)
           b == Put(s, j + 1, u)
<1>1. Len(s) \in Nat /\ Len(u) \in Nat /\ j \in 0..Len(s) /\ j + 1 \in 1..(Len(s) + 1) /\ j + 1 - 1 = j
  BY LenProperties
<1>2. a = b
  BY PutMore
<1>3. IsPut(T, s, j + 1, u, b)
  BY <1>1, PutIs
<1> HIDE DEF a, b
<1>4. Len(b) = j + Len(u) /\ \A i \in 1..j : b[i] = s[i]
  BY <1>1, <1>3 DEF IsPut
<1>5. \A i \in 1..(c + 1) : i \in 1..j /\ i \in 1..Len(b) /\ i \in 1..Len(s)
  BY <1>1, <1>4
<1>6. c < Len(s)
  BY <1>1
<1>7. Agree(a, s, 1, c + 1)
  BY <1>2, <1>4, <1>5 DEF Agree
<1> QED BY <1>6, <1>7 DEF ReadPast, a

LEMMA StringValue ==
  ASSUME NEW T, Added \subseteq T, NEW s \in Seq(T), NEW r \in Seq(T), NEW c, Meets(s, r, c), NEW p \in 1..c, r[p] = Quote,
         NEW e, e # 0, StringEnd(r, p + 1) = e
  PROVE  Read(T, s, c, "value", p, e, str(s, p))
<1> DEFINE m == str(s, p)
           u == <<Quote>>
<1>1. /\ c \in Nat /\ Len(s) \in Nat /\ c <= Len(s) /\ p \in 1..Len(s) /\ s[p] = Quote /\ p \in 1..(Len(s) + 1)
  BY MeetsAt
<1>2. StringIsRead(T, s, c, p, e, m)
  BY StringsAreRead
<1>3. u \in Seq(T) /\ Len(u) = 1 /\ u[1] = Quote /\ Closes(u)
  BY DEF Added, Closes, Closers
<1> HIDE DEF m, u
<1>4. CASE e <= c + 1 /\ ReadWhole(s, p, e, m)
  BY <1>4 DEF Read, m
<1>5. CASE /\ e > c + 1 /\ c = Len(s) /\ m.pos = c + 1
           /\ \E j \in p..c : /\ m.out = SubSeq(s, p, j) \o u /\ Frag(s, j + 1)
                              /\ \A x \in Seq(T) : Agree(x, s, 1, j) /\ Has(x, j + 1, Quote) => StringEnd(x, p + 1) = j + 2
  <2>1. PICK j \in p..c : /\ m.out = SubSeq(s, p, j) \o u /\ Frag(s, j + 1)
                          /\ \A x \in Seq(T) : Agree(x, s, 1, j) /\ Has(x, j + 1, Quote) => StringEnd(x, p + 1) = j + 2
    BY <1>5
  <2>2. j \in (p - 1)..Len(s) /\ j + Len(u) + 1 = j + 2 /\ 1 \in 1..Len(u) /\ j \in Nat
    BY <1>1, <1>3, <1>5
  <2>3. ASSUME NEW x \in Seq(T), IsBegun(s, j, u, x) PROVE EndAt(x, "value", p) = j + Len(u) + 1
    <3>1. Agree(x, s, 1, j) /\ Has(x, j + 1, Quote)
      BY <1>3, <2>2, <2>3 DEF IsBegun
    <3>2. StringEnd(x, p + 1) = j + 2
      BY <2>1, <3>1
    <3>3. p \in 1..j
      BY <1>1, <2>2
    <3>4. p \in Places(x) /\ p <= Len(x) /\ x[p] = Quote
      <4>1. Len(x) \in Nat
        BY LenProperties
      <4> QED BY <1>1, <3>1, <3>3, <4>1 DEF Agree, Places
    <3>5. ValueIs(x, p, j + 2)
      BY <3>2, <3>4 DEF ValueIs
    <3>6. j + 2 # 0
      BY <2>2
    <3>7. EndAt(x, "value", p) = j + 2
      BY <3>4, <3>5, <3>6, ValueEnds
    <3> QED BY <2>2, <3>7
  <2>4. m.pos = Len(s) + 1
    BY <1>5
  <2>5. ReadCut(T, s, Len(s), "value", p, m)
    BY <1>1, <1>3, <2>1, <2>2, <2>3, <2>4, ReadClosed
  <2> QED BY <1>5, <2>5 DEF Read, m
<1>6. CASE e > c + 1 /\ c < Len(s) /\ \E j \in (c + 1)..Len(s) : m.out = SubSeq(s, p, j) \o u
  <2>1. PICK j \in (c + 1)..Len(s) : m.out = SubSeq(s, p, j) \o u
    BY <1>6
  <2>2. j \in (p - 1)..Len(s) /\ j > c
    BY <1>1, <2>1
  <2>3. ReadPast(s, c, p, m)
    BY <1>1, <1>3, <2>1, <2>2, ReadBeyond
  <2> QED BY <1>6, <2>3 DEF Read, m
<1> QED BY <1>2, <1>4, <1>5, <1>6 DEF StringIsRead, u

\* A run that is parted in r, and ends by c, ends there in s.
LEMMA RunMeets ==
  ASSUME NEW T, NEW s \in Seq(T), NEW r \in Seq(T), NEW c, Meets(s, r, c), NEW p \in 1..c, NEW B,
         \A a \in {Comma} \cup Brackets : a \notin B,
         NEW e \in (p + 1)..(c + 1), Parted(r, e), \A i \in p..(e - 1) : r[i] \in B
  PROVE  RunEnd(s, p, B) = e
<1>1. /\ c \in Nat /\ Len(s) \in Nat /\ Len(r) \in Nat /\ c <= Len(s) /\ c < Len(r)
      /\ \A i \in 1..c : i <= Len(s) /\ i <= Len(r) /\ s[i] = r[i]
      /\ \A i \in 1..Len(r) : i <= Len(s) /\ i <= c + 1 /\ r[i] # "\\" => i <= c /\ s[i] = r[i]
  BY MeetsAt
<1>2. e \in p..(Len(s) + 1) /\ p \in Places(s)
  BY <1>1 DEF Places
<1>3. \A i \in p..(e - 1) : s[i] \in B
  <2>1. \A i \in p..(e - 1) : i \in 1..c
    BY <1>1
  <2> QED BY <1>1, <2>1
<1>4. e <= Len(s) => s[e] \notin B
  <2> SUFFICES ASSUME e <= Len(s) PROVE s[e] \notin B
    OBVIOUS
  <2>1. e \in 1..Len(r) /\ e <= c + 1 /\ ~(e > Len(r))
    BY <1>1
  <2>2. r[e] \in {Comma} \cup Brackets
    BY <2>1 DEF Parted
  <2>3. r[e] # "\\"
    BY <2>2, Distinct DEF Brackets, OtherBytes
  <2>4. s[e] = r[e]
    BY <1>1, <2>1, <2>3
  <2> QED BY <2>2, <2>4
<1>5. IsRunEnd(s, p, B, e)
  BY <1>2, <1>3, <1>4 DEF IsRunEnd
<1> QED BY <1>2, <1>5, RunEndIs

LEMMA LiteralValue ==
  ASSUME NEW T, Added \subseteq T, NEW s \in Seq(T), NEW r \in Seq(T), NEW c, Meets(s, r, c), NEW p \in 1..c,
         r[p] = "t", Has(r, p + 1, "e"), Parted(r, p + 2)
  PROVE  Read(T, s, c, "value", p, p + 2, literal(s, p))
<1> DEFINE m == literal(s, p)
           q == RunEnd(s, p, Letters)
<1>1. /\ c \in Nat /\ Len(s) \in Nat /\ Len(r) \in Nat /\ c <= Len(s) /\ c < Len(r)
      /\ \A i \in 1..c : i <= Len(s) /\ i <= Len(r) /\ s[i] = r[i]
      /\ \A i \in 1..Len(r) : i <= Len(s) /\ i <= c + 1 /\ r[i] # "\\" => i <= c /\ s[i] = r[i]
  BY MeetsAt
<1>2. p \in 1..Len(s) /\ p \in 1..(Len(s) + 1) /\ s[p] = "t" /\ r[p + 1] = "e" /\ p + 1 \in 1..Len(r) /\ p \in Places(s)
  BY <1>1 DEF Has, Places
<1>3. /\ m.pos = q
      /\ SubSeq(s, p, q - 1) \in {<<"t">>, <<"t", "e">>} => m.out = <<"t", "e">>
  BY DEF literal, Made
<1> HIDE DEF m
<1>4. SubSeq(s, p, p) = <<"t">>
  <2>1. p \in p..Len(s) /\ p \in 1..(Len(s) + 1) /\ p - 1 \in (p - 1)..Len(s) /\ p - 1 < p
    BY <1>1, <1>2
  <2>2. SubSeq(s, p, p - 1) = <<>>
    BY <1>2, SubSeqEmpty
  <2>3. SubSeq(s, p, p) = <<>> \o <<s[p]>>
    BY <1>2, <2>1, <2>2, PartThen
  <2> QED BY <1>2, <2>3
<1>5. CASE p + 1 <= c
  <2>1. s[p + 1] = "e" /\ p + 1 \in p..Len(s)
    BY <1>1, <1>2, <1>5
  <2>2. SubSeq(s, p, p + 1) = <<"t", "e">>
    <3>1. p + 1 - 1 = p
      BY <1>2
    <3>2. SubSeq(s, p, p + 1) = SubSeq(s, p, p) \o <<s[p + 1]>>
      BY <1>2, <2>1, <3>1, PartThen
    <3>3. SubSeq(s, p, p + 1) = <<"t">> \o <<"e">>
      BY <1>4, <2>1, <3>2
    <3> QED BY <3>3, PairIs
  <2>3. q = p + 2
    <3>1. \A a \in {Comma} \cup Brackets : a \notin Letters
      BY Distinct DEF Brackets, OtherBytes, Letters
    <3>2. \A i \in p..(p + 2 - 1) : i = p \/ i = p + 1
      BY <1>1
    <3>3. \A i \in p..(p + 2 - 1) : r[i] \in Letters
      BY <1>2, <3>2 DEF Letters
    <3>4. p + 2 \in (p + 1)..(c + 1)
      BY <1>1, <1>5
    <3> QED BY <3>1, <3>3, <3>4, RunMeets
  <2>4. p + 2 - 1 = p + 1 /\ p + 2 <= c + 1
    BY <1>1, <1>5
  <2> HIDE DEF q
  <2>5. ReadWhole(s, p, p + 2, m)
    <3>1. q - 1 = p + 1
      BY <1>1, <2>3
    <3>2. m.out = <<"t", "e">>
      BY <1>3, <2>2, <3>1
    <3>3. m.out = SubSeq(s, p, p + 2 - 1)
      BY <2>2, <2>4, <3>2
    <3>4. m.pos = p + 2
      BY <1>3, <2>3
    <3> QED BY <3>3, <3>4 DEF ReadWhole
  <2> QED BY <2>4, <2>5 DEF Read, m
<1>6. CASE ~(p + 1 <= c)
  <2>1. p = c /\ c = Len(s) /\ p + 2 > c + 1
    <3>1. p = c /\ p + 1 <= c + 1
      BY <1>1, <1>6
    <3>2. ~(p + 1 <= Len(s))
      BY <1>1, <1>2, <1>6, <3>1
    <3> QED BY <1>1, <1>2, <3>1, <3>2
  <2>2. q = p + 1
    <3>1. p + 1 \in p..(Len(s) + 1) /\ ~(p + 1 <= Len(s)) /\ \A i \in p..(p + 1 - 1) : i = p
      BY <1>1, <2>1
    <3>2. "t" \in Letters
      BY DEF Letters
    <3>3. IsRunEnd(s, p, Letters, p + 1)
      BY <1>2, <3>1, <3>2 DEF IsRunEnd
    <3> QED BY <1>2, <3>3, RunEndIs
  <2> HIDE DEF q
  <2>3. q - 1 = p
    BY <1>1, <2>2
  <2> DEFINE u == <<"e">>
  <2>4. m.out = SubSeq(s, p, p) \o u
    <3>1. SubSeq(s, p, q - 1) = <<"t">>
      BY <1>4, <2>3
    <3>2. m.out = <<"t", "e">>
      BY <1>3, <3>1
    <3> QED BY <1>4, <3>2
  <2>5. u \in Seq(T) /\ Len(u) = 1 /\ u[1] = "e" /\ Closes(u)
    BY DEF Added, Closes, Closers
  <2> HIDE DEF u
  <2>6. p \in (p - 1)..Len(s) /\ p + Len(u) + 1 = p + 2 /\ 1 \in 1..Len(u) /\ m.pos = Len(s) + 1
    BY <1>1, <1>2, <1>3, <2>1, <2>2, <2>5
  <2>7. Frag(s, p + 1)
    <3>1. p + 1 > Len(s)
      BY <1>1, <2>1
    <3> QED BY <1>1, <3>1 DEF Frag
  <2>8. ASSUME NEW x \in Seq(T), IsBegun(s, p, u, x) PROVE EndAt(x, "value", p) = p + Len(u) + 1
    <3>1. Agree(x, s, 1, p) /\ Has(x, p + 1, "e")
      BY <2>5, <2>6, <2>8 DEF IsBegun
    <3>2. p \in Places(x) /\ p <= Len(x) /\ x[p] = "t"
      <4>1. Len(x) \in Nat /\ p \in 1..p
        BY LenProperties
      <4> QED BY <1>2, <3>1, <4>1 DEF Agree, Places
    <3>3. ValueIs(x, p, p + 2)
      BY <3>1, <3>2 DEF ValueIs
    <3>4. p + 2 # 0
      BY <1>1
    <3>5. EndAt(x, "value", p) = p + 2
      BY <3>2, <3>3, <3>4, ValueEnds
    <3> QED BY <2>6, <3>5
  <2>9. ReadCut(T, s, Len(s), "value", p, m)
    BY <1>2, <2>4, <2>5, <2>6, <2>7, <2>8, ReadClosed
  <2> QED BY <2>1, <2>9 DEF Read, m
<1> QED BY <1>5, <1>6

\* A number begins with a digit or a sign.
LEMMA NumberBegins ==
  ASSUME NEW w, Len(w) \in Nat, IsNumber(w)
  PROVE  w[1] \in {"1", "-"}
<1>1. PICK a \in {0, 1}, b \in 1..Len(w) : (a = 1 => w[1] = "-") /\ a < b /\ \A i \in (a + 1)..b : w[i] = "1"
  BY DEF IsNumber
<1>2. CASE a = 0
  <2>1. 1 \in (a + 1)..b
    BY <1>1, <1>2
  <2> QED BY <1>1, <2>1
<1> QED BY <1>1, <1>2

\* A number that is there up to j, in a text that is parted there.
LEMMA NumberThere ==
  ASSUME NEW T, NEW s \in Seq(T), NEW p \in 1..Len(s), NEW j \in p..Len(s), \A i \in p..j : s[i] \in Digits,
         IsNumber(SubSeq(s, p, j)), NEW x \in Seq(T), Agree(x, s, 1, j), Parted(x, j + 1)
  PROVE  EndAt(x, "value", p) = j + 1
<1>1. Len(s) \in Nat /\ Len(x) \in Nat /\ j \in Nat /\ j + 1 # 0 /\ j + 1 - 1 = j
  BY LenProperties
<1>2. \A i \in p..j : i \in 1..j /\ i \in 1..Len(x) /\ x[i] = s[i]
  <2>1. \A i \in p..j : i \in 1..j
    OBVIOUS
  <2> QED BY <2>1 DEF Agree
<1>3. p \in p..j /\ j \in p..j
  BY <1>1
<1>4. p <= Len(x) /\ p \in Places(x) /\ j <= Len(x) /\ j + 1 \in p..(Len(x) + 1)
  BY <1>1, <1>2, <1>3 DEF Places
<1>5. RunEnd(x, p, Digits) = j + 1
  <2>1. j + 1 <= Len(x) => x[j + 1] \notin Digits
    <3>1. \A a \in {Comma} \cup Brackets : a \notin Digits
      BY Distinct DEF Brackets, OtherBytes, Digits
    <3>2. j + 1 <= Len(x) => ~(j + 1 > Len(x))
      BY <1>1
    <3> QED BY <3>1, <3>2 DEF Parted
  <2>2. IsRunEnd(x, p, Digits, j + 1)
    BY <1>1, <1>2, <1>4, <2>1 DEF IsRunEnd
  <2> QED BY <1>4, <2>2, RunEndIs
<1>6. SubSeq(x, p, j) = SubSeq(s, p, j)
  <2>1. p \in 1..(Len(x) + 1) /\ j \in (p - 1)..Len(x) /\ j <= Len(s) /\ Agree(x, s, p, j)
    BY <1>1, <1>2, <1>4 DEF Agree
  <2> QED BY <2>1, SameParts
<1>7. ValueIs(x, p, j + 1)
  <2>1. x[p] \in Digits
    BY <1>2, <1>3
  <2>2. IsNumber(SubSeq(x, p, j + 1 - 1))
    BY <1>1, <1>6
  <2> QED BY <1>4, <1>5, <2>1, <2>2 DEF ValueIs
<1> QED BY <1>1, <1>4, <1>7, ValueEnds

LEMMA NumberValue ==
  ASSUME NEW T, Added \subseteq T, NEW s \in Seq(T), NEW r \in Seq(T), NEW c, Meets(s, r, c), NEW p \in 1..c,
         r[p] \in Digits, NEW e, RunEnd(r, p, Digits) = e, IsNumber(SubSeq(r, p, e - 1)), Parted(r, e)
  PROVE  s[p] \in {"1", "-"} /\ Read(T, s, c, "value", p, e, number(s, p))
<1> DEFINE m == number(s, p)
           ends == NumberEnds(s, p)
           w == SubSeq(r, p, e - 1)
<1>1. /\ c \in Nat /\ Len(s) \in Nat /\ Len(r) \in Nat /\ c <= Len(s) /\ c < Len(r)
      /\ \A i \in 1..c : i <= Len(s) /\ i <= Len(r) /\ s[i] = r[i]
      /\ \A i \in 1..Len(r) : i <= Len(s) /\ i <= c + 1 /\ r[i] # "\\" => i <= c /\ s[i] = r[i]
  BY MeetsAt
<1>2. p \in 1..Len(s) /\ p \in 1..(Len(s) + 1) /\ s[p] = r[p] /\ p \in Places(r) /\ p \in Places(s) /\ p <= Len(r)
  BY <1>1 DEF Places
<1>3. IsRunEnd(r, p, Digits, e)
  BY <1>2, RunEndIs
<1>4. e \in (p + 1)..(Len(r) + 1) /\ \A i \in p..(e - 1) : r[i] \in Digits
  <2>1. e \in p..(Len(r) + 1) /\ e # p /\ \A i \in p..(e - 1) : r[i] \in Digits
    BY <1>2, <1>3 DEF IsRunEnd
  <2> QED BY <1>1, <2>1
<1>5. IsPart(T, r, p, e - 1, w)
  <2>1. p \in 1..(Len(r) + 1) /\ e - 1 \in (p - 1)..Len(r)
    BY <1>1, <1>4
  <2> QED BY <2>1, PartIs
<1>6. IsNumber(w)
  OBVIOUS
<1> HIDE DEF w
<1>7. s[p] \in {"1", "-"}
  <2>1. Len(w) \in Nat /\ 1 \in 1..(e - 1 + 1 - p) /\ p + 1 - 1 = p
    BY <1>1, <1>4, <1>5 DEF IsPart
  <2>2. w[1] = r[p + 1 - 1]
    BY <1>5, <2>1 DEF IsPart
  <2>3. w[1] \in {"1", "-"}
    BY <1>6, <2>1, NumberBegins
  <2> QED BY <1>2, <2>1, <2>2, <2>3
<1>8. IsMade(T, s, p, m) /\ m.pos = RunEnd(s, p, Digits) /\ (ends = {} => m.out = <<>>)
      /\ \A i \in ends : (\A f \in ends : f <= i) => m.out = SubSeq(s, p, i)
  BY <1>2, NumberIs
<1> HIDE DEF m
<1>9. ends = {i \in p..(RunEnd(s, p, Digits) - 1) : IsNumber(SubSeq(s, p, i))}
  BY DEF NumberEnds
<1> HIDE DEF ends
<1>10. CASE e <= c + 1
  <2>1. RunEnd(s, p, Digits) = e
    <3>1. \A a \in {Comma} \cup Brackets : a \notin Digits
      BY Distinct DEF Brackets, OtherBytes, Digits
    <3>2. e \in (p + 1)..(c + 1)
      BY <1>1, <1>4, <1>10
    <3> QED BY <1>4, <3>1, <3>2, RunMeets
  <2>2. SubSeq(s, p, e - 1) = w
    <3>1. e - 1 \in (p - 1)..Len(s) /\ e - 1 <= Len(r) /\ e - 1 <= c
      BY <1>1, <1>4, <1>10
    <3>2. Agree(s, r, p, e - 1)
      <4>1. \A i \in p..(e - 1) : i \in 1..c
        BY <1>1, <3>1
      <4> QED BY <4>1 DEF Agree, Meets
    <3> QED BY <1>2, <3>1, <3>2, SameParts DEF w
  <2>3. e - 1 \in ends /\ \A f \in ends : f <= e - 1
    <3>1. e - 1 \in p..(e - 1)
      BY <1>1, <1>4
    <3>2. e - 1 \in p..(RunEnd(s, p, Digits) - 1)
      BY <2>1, <3>1
    <3>3. IsNumber(SubSeq(s, p, e - 1))
      BY <1>6, <2>2
    <3>4. e - 1 \in ends
      BY <1>9, <3>2, <3>3
    <3>5. ASSUME NEW f \in ends PROVE f <= e - 1
      <4>1. f \in p..(e - 1)
        BY <1>9, <2>1
      <4> QED BY <1>1, <1>4, <4>1
    <3> QED BY <3>4, <3>5
  <2>4. ReadWhole(s, p, e, m)
    BY <1>8, <2>1, <2>3 DEF ReadWhole
  <2> QED BY <1>7, <1>10, <2>4 DEF Read, m
<1>11. CASE e > c + 1
  <2>1. c = Len(s)
    <3>1. c + 1 \in p..(e - 1) /\ c + 1 \in 1..Len(r)
      BY <1>1, <1>4, <1>11
    <3>2. r[c + 1] # "\\"
      <4>1. "\\" \notin Digits
        BY DEF Digits
      <4> QED BY <1>4, <3>1, <4>1
    <3>3. ~(c + 1 <= Len(s))
      BY <1>1, <3>1, <3>2
    <3> QED BY <1>1, <3>3
  <2>2. \A i \in p..c : s[i] = r[i] /\ s[i] \in Digits
    <3>1. \A i \in p..c : i \in 1..c /\ i \in p..(e - 1)
      BY <1>1, <1>4, <1>11
    <3> QED BY <1>1, <1>4, <3>1
  <2>3. RunEnd(s, p, Digits) = c + 1 /\ m.pos = Len(s) + 1
    <3>1. c + 1 \in p..(Len(s) + 1) /\ ~(c + 1 <= Len(s)) /\ c + 1 - 1 = c
      BY <1>1, <2>1
    <3>2. IsRunEnd(s, p, Digits, c + 1)
      <4>1. PICK q : q = c + 1
        OBVIOUS
      <4>2. q \in p..(Len(s) + 1) /\ ~(q <= Len(s)) /\ q - 1 = c
        BY <1>1, <3>1, <4>1
      <4>3. \A i \in p..(q - 1) : s[i] \in Digits
        BY <2>2, <4>2
      <4>4. IsRunEnd(s, p, Digits, q)
        BY <4>2, <4>3 DEF IsRunEnd
      <4> QED BY <4>1, <4>4
    <3> QED BY <1>2, <1>8, <2>1, <3>2, RunEndIs
  <2>4. ends = {i \in p..c : IsNumber(SubSeq(s, p, i))}
    <3>1. RunEnd(s, p, Digits) - 1 = c
      BY <1>1, <2>3
    <3> QED BY <1>9, <3>1
  <2>5. ASSUME NEW j \in p..c, IsNumber(SubSeq(s, p, j)), \A f \in ends : f <= j, Frag(s, j + 1)
        PROVE  Read(T, s, c, "value", p, e, m)
    <3>1. m.out = SubSeq(s, p, j)
      BY <1>8, <2>4, <2>5
    <3>2. j \in p..Len(s) /\ j \in (p - 1)..Len(s) /\ j \in Nat
      BY <1>1, <1>2, <2>5
    <3> DEFINE u == <<>>
    <3>3. u \in Seq(T) /\ Len(u) = 0 /\ Closes(u)
      BY EmptySeq DEF Closes
    <3>4. m.out = SubSeq(s, p, j) \o u
      <4>1. SubSeq(s, p, j) \in Seq(T)
        BY <1>2, <3>2, PartIs DEF IsPart
      <4> QED BY <3>1, <4>1, ConcatEmptySeq
    <3> HIDE DEF u
    <3>5. j + Len(u) + 1 = j + 1
      BY <3>2, <3>3
    <3>6. ASSUME NEW x \in Seq(T), IsBegun(s, j, u, x), Parted(x, j + Len(u) + 1) PROVE EndAt(x, "value", p) = j + Len(u) + 1
      <4>1. Agree(x, s, 1, j) /\ Parted(x, j + 1)
        BY <3>5, <3>6 DEF IsBegun
      <4>2. \A i \in p..j : s[i] \in Digits
        <5>1. \A i \in p..j : i \in p..c
          BY <1>1
        <5> QED BY <2>2, <5>1
      <4>3. EndAt(x, "value", p) = j + 1
        BY <1>2, <2>5, <3>2, <4>1, <4>2, NumberThere
      <4> QED BY <3>5, <4>3
    <3>7. ReadCut(T, s, Len(s), "value", p, m)
      BY <1>2, <2>3, <2>5, <3>2, <3>3, <3>4, <3>6, ReadClosed
    <3> QED BY <1>11, <2>1, <3>7 DEF Read
  <2> DEFINE t == SubSeq(s, p, c)
             v == SubSeq(s, p, c - 1)
  <2>6. IsPart(T, s, p, c, t) /\ IsPart(T, s, p, c - 1, v)
    <3>1. c \in (p - 1)..Len(s) /\ c - 1 \in (p - 1)..Len(s)
      BY <1>1, <1>2
    <3> QED BY <1>2, <3>1, PartIs
  <2> HIDE DEF t, v
  <2>7. /\ t \in Seq(T) /\ Len(t) = c + 1 - p /\ Len(t) > 0 /\ v \in Seq(T) /\ Len(v) = c - p /\ w \in Seq(T) /\ Len(w) = e - p
        /\ \A i \in 1..(c + 1 - p) : t[i] = s[p + i - 1] /\ w[i] = r[p + i - 1]
        /\ \A i \in 1..(c - p) : v[i] = s[p + i - 1]
    <3>1. c - 1 + 1 - p = c - p /\ e - 1 + 1 - p = e - p /\ c + 1 - p > 0 /\ \A i \in 1..(c + 1 - p) : i \in 1..(e - p)
      BY <1>1, <1>4, <1>11
    <3> QED BY <1>5, <2>6, <3>1 DEF IsPart
  <2>8. Begins(t, w)
    <3>1. \A i \in 1..(c + 1 - p) : i \in 1..Len(t) /\ i \in 1..Len(w) /\ p + i - 1 \in p..c
      BY <1>1, <1>4, <1>11, <2>7
    <3>2. \A i \in 1..(c + 1 - p) : t[i] = w[i]
      BY <2>2, <2>7, <3>1
    <3> QED BY <2>7, <3>1, <3>2 DEF Begins, Agree
  <2>9. Begins(v, t)
    <3>1. \A i \in 1..(c - p) : i \in 1..Len(t) /\ i \in 1..Len(v) /\ i \in 1..(c + 1 - p)
      BY <1>1, <2>7
    <3>2. \A i \in 1..(c - p) : v[i] = t[i]
      BY <2>7, <3>1
    <3> QED BY <2>7, <3>1, <3>2 DEF Begins, Agree
  <2>10. Len(v) = Len(t) - 1 /\ t[Len(t)] = s[c]
    <3>1. Len(t) \in 1..(c + 1 - p) /\ p + Len(t) - 1 = c /\ Len(v) = Len(t) - 1
      BY <1>1, <2>7
    <3> QED BY <2>7, <3>1
  <2>11. IsNumber(t) \/ (s[c] \in {"-", "."} /\ (Len(t) = 1 \/ IsNumber(v)))
    BY <1>6, <2>7, <2>8, <2>9, <2>10, NumberCut
  <2>12. CASE IsNumber(t)
    <3>1. c \in p..c /\ \A f \in ends : f <= c
      BY <1>1, <2>4
    <3>2. Frag(s, c + 1)
      <4>1. c + 1 > Len(s)
        BY <1>1, <2>1
      <4> QED BY <1>1, <4>1 DEF Frag
    <3> QED BY <1>7, <2>5, <2>12, <3>1, <3>2 DEF t, m
  <2>13. CASE ~IsNumber(t) /\ s[c] \in {"-", "."} /\ p < c /\ IsNumber(v)
    <3>1. c - 1 \in p..c /\ c - 1 + 1 = c
      BY <1>1, <2>13
    <3>2. \A f \in ends : f <= c - 1
      <4>1. ASSUME NEW f \in ends PROVE f <= c - 1
        <5>1. f \in p..c /\ IsNumber(SubSeq(s, p, f))
          BY <2>4, <4>1
        <5>2. f # c
          BY <2>13, <5>1 DEF t
        <5> QED BY <1>1, <5>1, <5>2
      <4> QED BY <4>1
    <3>3. Frag(s, c - 1 + 1)
      <4>1. \A i \in (c - 1 + 1)..Len(s) : i = c
        BY <1>1, <2>1
      <4> QED BY <2>13, <4>1 DEF Frag, Fragments
    <3> QED BY <1>7, <2>5, <2>13, <3>1, <3>2, <3>3 DEF v, m
  <2>14. CASE ~IsNumber(t) /\ s[c] \in {"-", "."} /\ p = c
    <3>1. ends = {}
      <4>1. \A i \in p..c : i = c
        BY <1>1, <2>14
      <4> QED BY <2>4, <2>14, <4>1 DEF t
    <3>2. Frag(s, p)
      <4>1. \A i \in p..Len(s) : i = c
        BY <1>1, <2>1, <2>14
      <4> QED BY <2>14, <4>1 DEF Frag, Fragments
    <3>3. m.out = <<>>
      BY <1>8, <3>1
    <3>4. m.pos = c + 1
      BY <1>8, <2>3
    <3>5. ReadNone(s, c, p, <<>>, m)
      BY <2>1, <3>2, <3>3, <3>4 DEF ReadNone
    <3>6. Read(T, s, c, "value", p, e, m)
      BY <1>11, <3>5 DEF Read
    <3> QED BY <1>7, <3>6 DEF m
  <2>15. p = c \/ p < c
    BY <1>1
  <2>16. Len(t) = 1 => p = c
    <3>1. Len(t) = c + 1 - p
      BY <2>7
    <3>2. c \in Nat
      BY <1>1
    <3>3. c + 1 - p = 1 => p = c
      BY <3>2
    <3> HIDE DEF t
    <3> QED BY <3>1, <3>3
  <2> QED BY <2>11, <2>12, <2>13, <2>14, <2>15, <2>16
<1> QED BY <1>1, <1>4, <1>10, <1>11

\* What the parser makes of a value, by the byte it begins with.
ValueParsed(s, p, m) ==
  /\ p > Len(s) => m = Made(<<>>, p)
  /\ p <= Len(s) /\ s[p] = Quote => m = str(s, p)
  /\ p <= Len(s) /\ s[p] \in Openers => /\ m.out = <<s[p]>> \o ParseAt(s, Closing(s[p]), p + 1).out
                                        /\ m.pos = ParseAt(s, Closing(s[p]), p + 1).pos
  /\ p <= Len(s) /\ s[p] = "t" => m = literal(s, p)
  /\ p <= Len(s) /\ s[p] \in {"1", "-"} => m = number(s, p)

LEMMA ValueParsedIs ==
  ASSUME NEW T, Added \subseteq T, NEW s \in Seq(T), NEW p \in 1..(Len(s) + 1)
  PROVE  ValueParsed(s, p, ParseAt(s, "value", p))
<1> DEFINE m == ParseAt(s, "value", p)
<1>1. ValueMadeOf(s, p, Parse(s), m)
  BY ParseSteps
<1> HIDE DEF m
<1>2. Len(s) \in Nat
  BY LenProperties
<1>3. /\ Quote \notin Openers /\ Quote # "t" /\ Quote \notin {"1", "-"}
      /\ "t" \notin Openers /\ "t" \notin {"1", "-"}
      /\ \A a \in {"1", "-"} : a \notin Openers
  BY Distinct DEF Openers, OtherBytes
<1>4. ASSUME p > Len(s) PROVE ValueParsed(s, p, m)
  <2>1. ~(p <= Len(s))
    BY <1>2, <1>4
  <2>2. m = Made(<<>>, p)
    BY <1>1, <2>1 DEF ValueMadeOf
  <2> QED BY <2>1, <2>2 DEF ValueParsed
<1>5. ASSUME p <= Len(s) PROVE ValueParsed(s, p, m)
  <2>1. ~(p > Len(s))
    BY <1>2, <1>5
  <2> DEFINE n == ParseAt(s, Closing(s[p]), p + 1)
  <2>2. n = Parse(s)[<<Closing(s[p]), p + 1>>]
    BY DEF ParseAt
  <2> HIDE DEF n
  <2>3. \/ s[p] = Quote /\ m = str(s, p)
        \/ s[p] \in Openers /\ m = Made(<<s[p]>> \o n.out, n.pos)
        \/ s[p] = "t" /\ m = literal(s, p)
        \/ s[p] \in {"1", "-"} /\ m = number(s, p)
        \/ s[p] \notin {Quote, "t", "1", "-"} \cup Openers
    BY <1>1, <2>1, <2>2 DEF ValueMadeOf
  <2>4. s[p] = Quote => m = str(s, p)
    BY <1>3, <2>3
  <2>5. s[p] \in Openers => m.out = <<s[p]>> \o n.out /\ m.pos = n.pos
    BY <1>3, <2>3 DEF Made
  <2>6. s[p] = "t" => m = literal(s, p)
    BY <1>3, <2>3
  <2>7. s[p] \in {"1", "-"} => m = number(s, p)
    BY <1>3, <2>3
  <2>8. s[p] \in Openers => /\ m.out = <<s[p]>> \o ParseAt(s, Closing(s[p]), p + 1).out
                            /\ m.pos = ParseAt(s, Closing(s[p]), p + 1).pos
    BY <2>5 DEF n
  <2> QED BY <2>1, <2>4, <2>6, <2>7, <2>8 DEF ValueParsed
<1> QED BY <1>2, <1>4, <1>5 DEF m

\* The value of the item at p, and what is made of what comes after it.
ValueAt(s, k, p) ==
  IF HasValue(s, k, p) THEN ParseAt(s, "value", FromPlace(s, k, p)) ELSE Made(<<>>, keyAt(s, k, p).pos)

RestIs(s, k, v, rest) ==
  /\ v.out # <<>> /\ Has(s, v.pos, Comma) => rest = ParseAt(s, k, v.pos + 1)
  /\ v.out # <<>> /\ ~Has(s, v.pos, Comma) /\ Has(s, v.pos, k) => rest = Made(<<k>>, v.pos + 1)
  /\ v.out = <<>> \/ ~(Has(s, v.pos, Comma) \/ Has(s, v.pos, k)) => rest = Made(<<k>>, v.pos)

ItemsParsed(s, k, p, m) ==
  /\ Has(s, p, k) => m = Made(<<k>>, p + 1)
  /\ ~Has(s, p, k) => \E rest : /\ RestIs(s, k, ValueAt(s, k, p), rest)
                                /\ m = Made(ItemsOut(s, k, p, ValueAt(s, k, p), rest), rest.pos)

LEMMA ItemsParsedIs ==
  ASSUME NEW T, Added \subseteq T, NEW s \in Seq(T), NEW k \in Brackets, NEW p \in 1..(Len(s) + 1)
  PROVE  ItemsParsed(s, k, p, ParseAt(s, k, p))
<1> DEFINE g == Parse(s)
           m == ParseAt(s, k, p)
           v == valueOf(s, k, p, g)
           rest == restAfter(s, k, v, g)
<1>1. m = itemsFrom(s, k, p, g)
  BY ParseSteps
<1>2. v = ValueAt(s, k, p)
  <2> HIDE DEF g
  <2>1. /\ HasValue(s, k, p) => v = g[<<"value", FromPlace(s, k, p)>>]
        /\ ~HasValue(s, k, p) => v = Made(<<>>, keyAt(s, k, p).pos)
    BY ValueFrom
  <2> QED BY <2>1 DEF ValueAt, ParseAt, g
<1>3. m = IF Has(s, p, k) THEN Made(<<k>>, p + 1) ELSE Made(ItemsOut(s, k, p, v, rest), rest.pos)
  BY <1>1 DEF itemsFrom, ItemsOut
<1>4. RestIs(s, k, v, rest)
  BY DEF RestIs, restAfter, ParseAt
<1> HIDE DEF m, v, rest
<1>5. ItemsParsed(s, k, p, m)
  BY <1>2, <1>3, <1>4 DEF ItemsParsed
<1> QED BY <1>5 DEF m

LEMMA OnePart ==
  ASSUME NEW T, NEW s \in Seq(T), NEW p \in 1..Len(s)
  PROVE  SubSeq(s, p, p) = <<s[p]>>
<1>1. Len(s) \in Nat
  BY LenProperties
<1>2. p \in p..Len(s) /\ p \in 1..(Len(s) + 1) /\ p - 1 \in (p - 1)..Len(s) /\ p - 1 < p
  BY <1>1
<1>3. SubSeq(s, p, p - 1) = <<>>
  BY <1>2, SubSeqEmpty
<1>4. SubSeq(s, p, p) = <<>> \o <<s[p]>>
  BY <1>2, <1>3, PartThen
<1>5. s[p] \in T
  BY ElementOfSeq
<1> QED BY <1>4, <1>5

\* At the end of the text there is an empty item, and the bracket is made up.
LEMMA ItemsNothing ==
  ASSUME NEW T, Added \subseteq T, NEW s \in Seq(T), NEW k \in Brackets, NEW p, p = Len(s) + 1
  PROVE  ParseAt(s, k, p) = Made(<<k>>, p)
<1>1. Len(s) \in Nat /\ p \in 1..(Len(s) + 1) /\ ~(p <= Len(s)) /\ p > Len(s)
  BY LenProperties
<1>2. \A b : ~Has(s, p, b)
  BY <1>1 DEF Has
<1>3. keyAt(s, k, p) = Made(<<>>, p)
  BY <1>2 DEF keyAt
<1>4. ValueAt(s, k, p) = Made(<<>>, p)
  <2>1. CASE k = "]"
    <3>1. HasValue(s, k, p) /\ FromPlace(s, k, p) = p
      BY <2>1 DEF HasValue, FromPlace
    <3>2. ParseAt(s, "value", p) = Made(<<>>, p)
      BY <1>1, ValueParsedIs DEF ValueParsed
    <3> QED BY <3>1, <3>2 DEF ValueAt
  <2>2. CASE k # "]"
    <3>1. ~HasValue(s, k, p)
      BY <1>3, <2>2 DEF HasValue, Made
    <3> QED BY <1>3, <3>1 DEF ValueAt, Made
  <2> QED BY <2>1, <2>2
<1> DEFINE v == Made(<<>>, p)
<1>5. v.out = <<>> /\ v.pos = p
  BY DEF Made
<1>6. PICK rest : RestIs(s, k, v, rest) /\ ParseAt(s, k, p) = Made(ItemsOut(s, k, p, v, rest), rest.pos)
  <2>1. ItemsParsed(s, k, p, ParseAt(s, k, p))
    BY <1>1, ItemsParsedIs
  <2> QED BY <1>2, <1>4, <2>1 DEF ItemsParsed
<1>7. rest = Made(<<k>>, p)
  BY <1>2, <1>5, <1>6 DEF RestIs
<1>8. k \in T
  BY DEF Brackets, Added
<1>9. <<>> \o <<>> \o <<k>> = <<k>>
  BY <1>8
<1>10. ItemsOut(s, k, p, v, rest) = <<>> \o <<>> \o <<k>>
  BY <1>3, <1>5, <1>7 DEF ItemsOut, item, Made
<1> QED BY <1>6, <1>7, <1>9, <1>10 DEF Made

\* What the parts of a text, read up to c, are read as.
IsRead(T, s, r, c, k, p) ==
  \A e : e # 0 /\ EndAt(r, k, p) = e /\ (k = "value" => Parted(r, e)) => Read(T, s, c, k, p, e, ParseAt(s, k, p))

LEMMA HeadThen ==
  ASSUME NEW T, NEW s \in Seq(T), NEW p \in 1..Len(s), NEW q \in p..Len(s)
  PROVE  <<s[p]>> \o SubSeq(s, p + 1, q) = SubSeq(s, p, q)
<1>1. p \in 1..(Len(s) + 1) /\ p \in (p - 1)..Len(s)
  BY LenProperties
<1>2. SubSeq(s, p, p) \o SubSeq(s, p + 1, q) = SubSeq(s, p, q)
  BY <1>1, ConcatAdjacentSubSeq
<1> QED BY <1>2, OnePart

\* The items of what is not closed at once begin with one.
LEMMA ItemsBegin ==
  ASSUME NEW T, NEW s \in Seq(T), NEW k \in Brackets, NEW p \in Places(s), NEW e, e # 0, EndAt(s, k, p) = e
  PROVE  ItemsAre(s, k, p, e) /\ ~Has(s, p, k) /\ s[p] # "\\" /\ e \in (p + 2)..(Len(s) + 1)
<1> DEFINE f == ItemValue(s, k, p)
           v == ValueOfItem(s, k, p)
<1>1. Len(s) \in Nat /\ p \in 1..(Len(s) + 1)
  BY LenProperties DEF Places
<1>2. ItemsAre(s, k, p, e)
  BY ItemsEnds
<1>3. /\ f \in p..(Len(s) + 1) /\ v \in (f + 1)..Len(s)
      /\ \/ s[v] = Comma /\ EndAt(s, k, v + 1) = e
         \/ s[v] = k /\ e = v + 1
  BY <1>2 DEF ItemsAre
<1>4. f # 0 /\ v # 0 /\ v = EndAt(s, "value", f) /\ f \in Places(s)
  BY <1>1, <1>3 DEF ValueOfItem, Places
<1>5. f = p => s[p] \in {Quote} \cup Openers \cup {"null", "t"} \cup Digits
  <2>1. ValueIs(s, f, v)
    BY <1>4, ValueEnds
  <2> QED BY <2>1 DEF ValueIs
<1>6. \A b \in {k, "\\"} : b \notin {Quote} \cup Openers \cup {"null", "t"} \cup Digits
  BY Distinct DEF Brackets, Openers, Digits, OtherBytes
<1>7. ~Has(s, p, k) /\ s[p] # "\\"
  <2>1. CASE f = p
    BY <1>5, <1>6, <2>1 DEF Has
  <2>2. CASE f # p
    <3>1. Has(s, p, Quote)
      BY <1>4, <2>2, ItemIs
    <3> QED BY <1>6, <3>1 DEF Has
  <2> QED BY <2>1, <2>2
<1> HIDE DEF f, v
<1>8. e \in (p + 2)..(Len(s) + 1)
  <2>1. CASE s[v] = Comma /\ EndAt(s, k, v + 1) = e
    <3>1. v + 1 \in Places(s)
      BY <1>1, <1>3 DEF Places
    <3>2. IsEnd(s, v + 1, e)
      BY <2>1, <3>1, ItemsEnds
    <3>3. e \in (v + 1 + 1)..(Len(s) + 1)
      BY <3>2 DEF IsEnd
    <3> QED BY <1>1, <1>3, <3>3
  <2>2. CASE e = v + 1
    BY <1>1, <1>3, <2>2
  <2> QED BY <1>3, <2>1, <2>2
<1> QED BY <1>2, <1>7, <1>8

\* A place that a text agrees on with another is one of it.
LEMMA Reached ==
  ASSUME NEW T, NEW x \in Seq(T), NEW s, NEW q, NEW p \in 1..q, Agree(x, s, 1, q)
  PROVE  p <= Len(x) /\ x[p] = s[p] /\ p \in Places(x) /\ p + 1 \in Places(x)
<1>1. p \in 1..Len(x) /\ x[p] = s[p]
  BY DEF Agree
<1>2. Len(x) \in Nat
  BY LenProperties
<1> QED BY <1>1, <1>2 DEF Places

\* The bracket that closes at once.
LEMMA OneCloser ==
  ASSUME NEW T, NEW k \in Brackets, k \in T
  PROVE  <<k>> \in Seq(T) /\ Len(<<k>>) = 1 /\ <<k>>[1] = k /\ Closes(<<k>>)
<1> DEFINE u == <<k>>
<1>1. u \in Seq(T) /\ Len(u) = 1 /\ u[1] = k
  OBVIOUS
<1>2. k \in Closers
  BY DEF Brackets, Closers
<1> HIDE DEF u
<1>3. \A i \in 1..Len(u) : u[i] = k
  BY <1>1
<1>4. Closes(u)
  BY <1>2, <1>3 DEF Closes
<1> QED BY <1>1, <1>4 DEF u

\* An opening bracket, and the closing one behind it.
LEMMA EmptyValue ==
  ASSUME NEW T, Added \subseteq T, NEW s \in Seq(T), NEW r \in Seq(T), NEW c, Meets(s, r, c), NEW p \in 1..c,
         r[p] \in Openers, NEW k \in Brackets, k = Closing(r[p]), Has(r, p + 1, k),
         NEW n, n = ParseAt(s, k, p + 1), NEW m, m.out = <<s[p]>> \o n.out, m.pos = n.pos
  PROVE  Read(T, s, c, "value", p, p + 2, m)
<1>1. /\ c \in Nat /\ Len(s) \in Nat /\ Len(r) \in Nat /\ c <= Len(s) /\ c < Len(r)
      /\ \A i \in 1..c : i <= Len(s) /\ i <= Len(r) /\ s[i] = r[i]
      /\ \A i \in 1..Len(r) : i <= Len(s) /\ i <= c + 1 /\ r[i] # "\\" => i <= c /\ s[i] = r[i]
  BY MeetsAt
<1>2. p \in 1..Len(s) /\ p + 1 \in 1..Len(r) /\ r[p + 1] = k /\ s[p] = r[p] /\ SubSeq(s, p, p) = <<s[p]>>
  BY <1>1, OnePart DEF Has
<1>3. k # "\\" /\ k \in T
  BY Distinct DEF Brackets, OtherBytes, Added
<1>4. CASE p + 1 <= c
  <2>1. s[p + 1] = k /\ p + 1 \in p..Len(s) /\ Has(s, p + 1, k) /\ p + 1 \in 1..(Len(s) + 1) /\ p + 1 - 1 = p /\ p + 2 - 1 = p + 1
    BY <1>1, <1>2, <1>4 DEF Has
  <2>2. n = Made(<<k>>, p + 1 + 1)
    BY <2>1, ItemsParsedIs DEF ItemsParsed
  <2>3. PICK q \in p..Len(s) : q = p + 1 /\ q - 1 = p
    BY <2>1
  <2>4. PICK e : e = p + 2 /\ e - 1 = q /\ q + 1 = e
    BY <1>1, <2>3
  <2>5. SubSeq(s, p, q - 1) \o <<s[q]>> = SubSeq(s, p, q)
    BY <1>2, PartThen
  <2>6. n.out = <<k>> /\ n.pos = e
    BY <2>2, <2>3, <2>4 DEF Made
  <2>7. m.out = SubSeq(s, p, e - 1) /\ m.pos = e
    BY <1>2, <2>1, <2>3, <2>4, <2>5, <2>6
  <2>8. ReadWhole(s, p, e, m) /\ e <= c + 1
    <3>1. e <= c + 1
      BY <1>1, <1>4, <2>4
    <3> QED BY <2>7, <3>1 DEF ReadWhole
  <2> QED BY <2>4, <2>8 DEF Read
<1>5. CASE p + 1 > c
  <2>1. p + 1 = c + 1 /\ c = Len(s) /\ p + 1 = Len(s) + 1
    <3>1. p = c
      BY <1>1, <1>5
    <3>2. ~(p + 1 <= Len(s))
      BY <1>1, <1>2, <1>3, <3>1
    <3> QED BY <1>1, <3>1, <3>2
  <2>2. n = Made(<<k>>, p + 1)
    BY <2>1, ItemsNothing
  <2> DEFINE u == <<k>>
  <2>3. u \in Seq(T) /\ Len(u) = 1 /\ u[1] = k /\ Closes(u)
    BY <1>3, OneCloser
  <2>4. m.out = SubSeq(s, p, p) \o u /\ m.pos = Len(s) + 1
    <3>1. n.out = u /\ n.pos = Len(s) + 1
      BY <2>1, <2>2 DEF Made
    <3> HIDE DEF u
    <3> QED BY <1>2, <3>1
  <2> HIDE DEF u
  <2>5. Frag(s, p + 1) /\ p \in 1..(Len(s) + 1) /\ p \in (p - 1)..Len(s)
    <3>1. \A i \in (p + 1)..Len(s) : FALSE
      BY <1>1, <2>1
    <3> QED BY <1>1, <1>2, <3>1 DEF Frag
  <2>6. ASSUME NEW x \in Seq(T), IsBegun(s, p, u, x) PROVE EndAt(x, "value", p) = p + Len(u) + 1
    <3>1. Agree(x, s, 1, p) /\ Has(x, p + 1, k)
      BY <2>3, <2>6 DEF IsBegun
    <3>2. p \in 1..p /\ p + 2 # 0
      OBVIOUS
    <3>3. p <= Len(x) /\ x[p] = s[p] /\ p \in Places(x) /\ p + 1 \in Places(x)
      BY <3>1, <3>2, Reached
    <3>4. ValueIs(x, p, p + 2)
      BY <1>2, <3>1, <3>3 DEF ValueIs
    <3>5. EndAt(x, "value", p) = p + 2
      BY <3>2, <3>3, <3>4, ValueEnds
    <3>6. p + Len(u) + 1 = p + 2
      BY <1>1, <2>3
    <3> QED BY <3>5, <3>6
  <2>7. ReadCut(T, s, Len(s), "value", p, m)
    BY <2>3, <2>4, <2>5, <2>6, ReadClosed
  <2>8. p + 2 > c + 1
    BY <1>1, <1>5
  <2> QED BY <2>1, <2>7, <2>8 DEF Read
<1> QED BY <1>1, <1>4, <1>5

LEMMA HeadPut ==
  ASSUME NEW T, NEW s \in Seq(T), NEW p \in 1..Len(s), NEW w \in Seq(T)
  PROVE  Put(s, p, <<s[p]>> \o w) = Put(s, p + 1, w)
<1>1. p \in 1..(Len(s) + 1) /\ p \in (p - 1)..Len(s)
  BY LenProperties
<1>2. SubSeq(s, p, p) = <<s[p]>>
  BY OnePart
<1>3. Put(s, p, SubSeq(s, p, p) \o w) = Put(s, p + 1, w)
  BY <1>1, PutMore
<1> QED BY <1>2, <1>3

\* An opening bracket, and the items behind it.
LEMMA FullValue ==
  ASSUME NEW T, Added \subseteq T, NEW s \in Seq(T), NEW r \in Seq(T), NEW c, Meets(s, r, c), NEW p \in 1..c,
         r[p] \in Openers, NEW k \in Brackets, k = Closing(r[p]), NEW n, n \in [out: Seq(T), pos: Nat],
         NEW e, Read(T, s, c, k, p + 1, e, n), e \in (p + 2)..(Len(r) + 1),
         NEW m, m.out = <<s[p]>> \o n.out, m.pos = n.pos
  PROVE  Read(T, s, c, "value", p, e, m)
<1>1. /\ c \in Nat /\ Len(s) \in Nat /\ Len(r) \in Nat /\ c <= Len(s) /\ c < Len(r)
      /\ \A i \in 1..c : i <= Len(s) /\ i <= Len(r) /\ s[i] = r[i]
  BY MeetsAt
<1>2. /\ p \in 1..Len(s) /\ s[p] = r[p] /\ SubSeq(s, p, p) = <<s[p]>>
      /\ p \in 1..(Len(s) + 1) /\ p \in (p - 1)..Len(s) /\ p \in 0..Len(s)
  BY <1>1, OnePart
<1>3. k \in T /\ k # "value"
  BY Distinct DEF Brackets, Added, OtherBytes
<1>4. Put(s, p, m.out) = Put(s, p + 1, n.out)
  <2>1. n.out \in Seq(T)
    OBVIOUS
  <2>2. Put(s, p, <<s[p]>> \o n.out) = Put(s, p + 1, n.out)
    BY <1>2, <2>1, HeadPut
  <2> QED BY <2>2
<1>5. CASE e <= c + 1 /\ ReadWhole(s, p + 1, e, n)
  <2>1. PICK q : q = e - 1
    OBVIOUS
  <2>2. q \in p..Len(s)
    BY <1>1, <1>5, <2>1
  <2>3. <<s[p]>> \o SubSeq(s, p + 1, q) = SubSeq(s, p, q)
    BY <1>2, <2>2, HeadThen
  <2>4. ReadWhole(s, p, e, m)
    BY <1>5, <2>1, <2>3 DEF ReadWhole
  <2> QED BY <1>5, <2>4 DEF Read
<1>6. CASE e > c + 1 /\ ReadNone(s, c, p + 1, <<k>>, n)
  <2> DEFINE u == <<k>>
  <2>1. u \in Seq(T) /\ Len(u) = 1 /\ u[1] = k /\ Closes(u)
    BY <1>3, OneCloser
  <2>2. m.out = SubSeq(s, p, p) \o u /\ m.pos = Len(s) + 1 /\ Frag(s, p + 1) /\ c = Len(s)
    <3>1. n.out = u /\ n.pos = Len(s) + 1 /\ Frag(s, p + 1) /\ c = Len(s)
      BY <1>6 DEF ReadNone
    <3> HIDE DEF u
    <3> QED BY <1>2, <3>1
  <2> HIDE DEF u
  <2>3. ASSUME NEW x \in Seq(T), IsBegun(s, p, u, x) PROVE EndAt(x, "value", p) = p + Len(u) + 1
    <3>1. Agree(x, s, 1, p) /\ Has(x, p + 1, k)
      BY <2>1, <2>3 DEF IsBegun
    <3>2. p \in 1..p /\ p + 2 # 0
      OBVIOUS
    <3>3. p <= Len(x) /\ x[p] = s[p] /\ p \in Places(x) /\ p + 1 \in Places(x)
      BY <3>1, <3>2, Reached
    <3>4. ValueIs(x, p, p + 2)
      BY <1>2, <3>1, <3>3 DEF ValueIs
    <3>5. EndAt(x, "value", p) = p + 2
      BY <3>2, <3>3, <3>4, ValueEnds
    <3>6. p + Len(u) + 1 = p + 2
      BY <1>1, <2>1
    <3> QED BY <3>5, <3>6
  <2>4. ReadCut(T, s, Len(s), "value", p, m)
    BY <1>2, <2>1, <2>2, <2>3, ReadClosed
  <2> QED BY <1>6, <2>2, <2>4 DEF Read
<1>7. CASE e > c + 1 /\ ReadCut(T, s, c, k, p + 1, n)
  <2> DEFINE a == Put(s, p + 1, n.out)
  <2>1. c = Len(s) /\ n.pos = c + 1 /\ Follows(s, a) /\ EndsIn(T, a, k, p + 1)
    BY <1>7 DEF ReadCut
  <2>2. ASSUME NEW x \in Seq(T), Begins(a, x), Parted(x, Len(a) + 1) PROVE EndAt(x, "value", p) = Len(a) + 1
    <3>1. EndAt(x, k, p + 1) = Len(a) + 1
      BY <1>3, <2>1, <2>2 DEF EndsIn
    <3>2. Agree(x, s, 1, p)
      <4>1. n.out \in Seq(T)
        OBVIOUS
      <4>2. IsBegun(s, p, n.out, x)
        BY <1>2, <2>2, <4>1, BeginsPut
      <4> QED BY <4>2 DEF IsBegun
    <3>3. a \in Seq(T)
      BY <1>2, PutLen
    <3> HIDE DEF a
    <3>4. p \in 1..p /\ Len(a) + 1 # 0
      <4>1. Len(a) \in Nat
        BY <3>3, LenProperties
      <4> QED BY <1>1, <4>1
    <3>5. p <= Len(x) /\ x[p] = s[p] /\ p \in Places(x) /\ p + 1 \in Places(x)
      BY <3>2, <3>4, Reached
    <3>6. ~Has(x, p + 1, k)
      BY <3>1, <3>4, <3>5, ItemsBegin
    <3>7. ValueIs(x, p, Len(a) + 1)
      BY <1>2, <3>1, <3>5, <3>6 DEF ValueIs
    <3> QED BY <3>4, <3>5, <3>7, ValueEnds
  <2>3. EndsIn(T, a, "value", p)
    BY <2>2 DEF EndsIn
  <2> HIDE DEF a
  <2>4. ReadCut(T, s, c, "value", p, m)
    BY <1>4, <2>1, <2>3 DEF ReadCut, a
  <2> QED BY <1>7, <2>4 DEF Read
<1>8. CASE e > c + 1 /\ ReadPast(s, c, p + 1, n)
  <2>1. ReadPast(s, c, p, m)
    BY <1>4, <1>8 DEF ReadPast
  <2> QED BY <1>8, <2>1 DEF Read
<1> QED BY <1>3, <1>5, <1>6, <1>7, <1>8 DEF Read

\* A value is read when the items that may be in it are.
LEMMA ValueIsRead ==
  ASSUME NEW T, Added \subseteq T, NEW s \in Seq(T), NEW r \in Seq(T), NEW c, Meets(s, r, c),
         \A i \in 1..Len(r) : r[i] # "null", NEW p \in 1..(c + 1),
         p <= c => \A k \in Brackets : IsRead(T, s, r, c, k, p + 1)
  PROVE  IsRead(T, s, r, c, "value", p)
<1> SUFFICES ASSUME NEW e, e # 0, EndAt(r, "value", p) = e, Parted(r, e)
             PROVE  Read(T, s, c, "value", p, e, ParseAt(s, "value", p))
  BY DEF IsRead
<1> DEFINE m == ParseAt(s, "value", p)
<1>1. /\ c \in Nat /\ Len(s) \in Nat /\ Len(r) \in Nat /\ c <= Len(s) /\ c < Len(r)
      /\ \A i \in 1..c : i <= Len(s) /\ i <= Len(r) /\ s[i] = r[i]
  BY MeetsAt
<1>2. p \in 1..(Len(s) + 1) /\ p \in Places(r) /\ p \in 1..Len(r)
  BY <1>1 DEF Places
<1>3. ValueIs(r, p, e) /\ e \in (p + 1)..(Len(r) + 1)
  BY <1>2, ValueEnds DEF IsEnd
<1>4. ValueParsed(s, p, m)
  BY <1>2, ValueParsedIs
<1> HIDE DEF m
<1>5. CASE p > c
  <2>1. p = c + 1
    BY <1>1, <1>5
  <2>2. c = Len(s)
    <3>1. r[p] # "\\"
      <4>1. "\\" \notin {Quote} \cup Openers \cup {"null", "t"} \cup Digits
        BY Distinct DEF Openers, Digits, OtherBytes
      <4>2. r[p] \in {Quote} \cup Openers \cup {"null", "t"} \cup Digits
        BY <1>3 DEF ValueIs
      <4> QED BY <4>1, <4>2
    <3>2. ~(c < Len(s))
      BY <2>1, <3>1 DEF Meets
    <3> QED BY <1>1, <3>2
  <2>3. p > Len(s) /\ e > c + 1
    BY <1>1, <1>3, <2>1, <2>2
  <2>4. m.out = <<>> /\ m.pos = c + 1
    BY <1>4, <2>1, <2>3 DEF ValueParsed, Made
  <2>5. Frag(s, p)
    <3>1. \A i \in p..Len(s) : FALSE
      BY <1>1, <2>3
    <3> QED BY <3>1 DEF Frag
  <2>6. ReadNone(s, c, p, <<>>, m)
    BY <2>2, <2>4, <2>5 DEF ReadNone
  <2> QED BY <2>3, <2>6 DEF Read, m
<1>6. CASE p <= c
  <2>1. p \in 1..c /\ s[p] = r[p] /\ p <= Len(s) /\ e # 0
    BY <1>1, <1>3, <1>6
  <2>2. CASE r[p] = Quote /\ StringEnd(r, p + 1) = e
    <3>1. m = str(s, p)
      BY <1>4, <2>1, <2>2 DEF ValueParsed
    <3> QED BY <2>1, <2>2, <3>1, StringValue DEF m
  <2>3. CASE r[p] \in Openers
    <3> DEFINE k == Closing(r[p])
               n == ParseAt(s, k, p + 1)
    <3>1. k \in Brackets /\ p + 1 \in 1..(Len(s) + 1) /\ p + 1 \in Places(r)
      BY <1>1, <2>1, PartsAre DEF PartNames, Places
    <3>2. m.out = <<s[p]>> \o n.out /\ m.pos = n.pos
      BY <1>4, <2>1, <2>3 DEF ValueParsed
    <3>3. n \in [out: Seq(T), pos: Nat]
      BY <3>1, ParseSteps, PartsAre DEF IsMade, PartNames
    <3>4. IsRead(T, s, r, c, k, p + 1)
      BY <1>6, <3>1
    <3> HIDE DEF k
    <3>5. CASE Has(r, p + 1, k) /\ e = p + 2
      BY <2>1, <2>3, <3>1, <3>2, <3>5, EmptyValue DEF k, m
    <3>6. CASE EndAt(r, k, p + 1) = e
      <4>1. e \in (p + 1 + 2)..(Len(r) + 1)
        BY <2>1, <3>1, <3>6, ItemsBegin
      <4>2. e \in (p + 2)..(Len(r) + 1)
        BY <1>1, <2>1, <4>1
      <4>3. k # "value"
        BY <3>1, PartsAre DEF PartNames
      <4>4. Read(T, s, c, k, p + 1, e, n)
        BY <2>1, <3>4, <3>6, <4>3 DEF IsRead
      <4> HIDE DEF n
      <4> QED BY <2>1, <2>3, <3>1, <3>2, <3>3, <4>2, <4>4, FullValue DEF k, m
    <3>7. Quote \notin Openers /\ "null" \notin Openers /\ "t" \notin Openers /\ \A a \in Digits : a \notin Openers
      BY Distinct DEF Openers, Digits, OtherBytes
    <3> QED BY <1>3, <2>3, <3>5, <3>6, <3>7 DEF ValueIs, k
  <2>4. CASE r[p] = "t" /\ Has(r, p + 1, "e") /\ e = p + 2
    <3>1. m = literal(s, p)
      BY <1>4, <2>1, <2>4 DEF ValueParsed
    <3> QED BY <2>1, <2>4, <3>1, LiteralValue DEF m
  <2>5. CASE r[p] \in Digits /\ RunEnd(r, p, Digits) = e /\ IsNumber(SubSeq(r, p, e - 1))
    <3>1. s[p] \in {"1", "-"} /\ Read(T, s, c, "value", p, e, number(s, p))
      BY <2>1, <2>5, NumberValue
    <3>2. m = number(s, p)
      BY <1>4, <2>1, <3>1 DEF ValueParsed
    <3> QED BY <3>1, <3>2 DEF m
  <2>6. r[p] # "null"
    BY <1>2
  <2> QED BY <1>3, <2>2, <2>3, <2>4, <2>5, <2>6 DEF ValueIs
<1> QED BY <1>1, <1>5, <1>6

\* Where items end, by where the value of the first one does and what is there.
LEMMA ItemEnds ==
  ASSUME NEW T, NEW x \in Seq(T), NEW k \in Brackets, NEW p \in Places(x), NEW f, f # 0, ItemValue(x, k, p) = f,
         NEW z, z # 0, EndAt(x, "value", f) = z
  PROVE  /\ Has(x, z, k) => EndAt(x, k, p) = z + 1
         /\ \A y : y # 0 /\ Has(x, z, Comma) /\ EndAt(x, k, z + 1) = y => EndAt(x, k, p) = y
<1>1. Len(x) \in Nat /\ p \in 1..(Len(x) + 1)
  BY LenProperties DEF Places
<1>2. f \in p..(Len(x) + 1) /\ f \in Places(x)
  <2>1. k \in Parts
    BY PartsAre DEF PartNames
  <2>2. f \in p..(Len(x) + 1)
    BY <2>1, ItemValueIs
  <2> QED BY <1>1, <2>2 DEF Places
<1>3. z \in (f + 1)..(Len(x) + 1)
  BY <1>2, ValueEnds DEF IsEnd
<1>4. ValueOfItem(x, k, p) = z
  BY DEF ValueOfItem
<1>5. ASSUME Has(x, z, k) PROVE EndAt(x, k, p) = z + 1
  <2>1. z \in (f + 1)..Len(x) /\ x[z] = k /\ z + 1 # 0
    BY <1>1, <1>2, <1>3, <1>5 DEF Has
  <2>2. ItemsAre(x, k, p, z + 1)
    BY <1>2, <1>4, <2>1 DEF ItemsAre
  <2> QED BY <2>1, <2>2, ItemsEnds
<1>6. ASSUME NEW y, y # 0, Has(x, z, Comma), EndAt(x, k, z + 1) = y PROVE EndAt(x, k, p) = y
  <2>1. z \in (f + 1)..Len(x) /\ x[z] = Comma
    BY <1>1, <1>2, <1>3, <1>6 DEF Has
  <2>2. ItemsAre(x, k, p, y)
    BY <1>2, <1>4, <1>6, <2>1 DEF ItemsAre
  <2> QED BY <1>6, <2>2, ItemsEnds
<1> QED BY <1>5, <1>6

\* An item whose value is null, and the bracket.
LEMMA NullItem ==
  ASSUME NEW T, NEW x \in Seq(T), NEW k \in Brackets, NEW p \in Places(x), NEW f, f # 0, ItemValue(x, k, p) = f,
         Has(x, f, "null"), Has(x, f + 1, k)
  PROVE  EndAt(x, k, p) = f + 2
<1>1. Len(x) \in Nat /\ f \in Places(x) /\ f <= Len(x) /\ x[f] = "null" /\ f + 1 # 0 /\ f + 1 + 1 = f + 2
  <2>1. k \in Parts
    BY PartsAre DEF PartNames
  <2>2. f \in p..(Len(x) + 1)
    BY <2>1, ItemValueIs
  <2> QED BY <2>2, LenProperties DEF Places, Has
<1>2. ValueIs(x, f, f + 1)
  BY <1>1 DEF ValueIs
<1>3. EndAt(x, "value", f) = f + 1
  BY <1>1, <1>2, ValueEnds
<1>4. EndAt(x, k, p) = f + 1 + 1
  BY <1>1, <1>3, ItemEnds
<1> QED BY <1>1, <1>4

\* A text that agrees with another on the first item.
LEMMA ItemAgrees ==
  ASSUME NEW T, NEW r \in Seq(T), NEW x \in Seq(T), NEW k \in Brackets, NEW p \in Places(r), NEW f, f # 0, ItemValue(r, k, p) = f,
         NEW v, v # 0, EndAt(r, "value", f) = v, Agree(x, r, p, v - 1), Has(x, v, Comma) \/ Has(x, v, k)
  PROVE  ItemValue(x, k, p) = f /\ EndAt(x, "value", f) = v /\ p \in Places(x)
<1>1. Len(x) \in Nat /\ Len(r) \in Nat /\ p \in 1..(Len(r) + 1)
  BY LenProperties DEF Places
<1>2. f \in p..(Len(r) + 1) /\ f \in Places(r)
  <2>1. k \in Parts
    BY PartsAre DEF PartNames
  <2>2. f \in p..(Len(r) + 1)
    BY <2>1, ItemValueIs
  <2> QED BY <1>1, <2>2 DEF Places
<1>3. v \in (f + 1)..(Len(r) + 1)
  BY <1>2, ValueEnds DEF IsEnd
<1>4. Agree(x, r, p, f - 1) /\ Agree(x, r, f, v - 1)
  <2>1. \A i \in p..(f - 1) : i \in p..(v - 1)
    BY <1>1, <1>2, <1>3
  <2>2. \A i \in f..(v - 1) : i \in p..(v - 1)
    BY <1>1, <1>2, <1>3
  <2> QED BY <2>1, <2>2 DEF Agree
<1>5. ItemValue(x, k, p) = f
  BY <1>4, ItemStays
<1>6. Parted(x, v)
  BY DEF Parted, Has
<1>7. EndAt(x, "value", f) = v
  BY <1>2, <1>4, <1>6, EndsStay, PartsAre DEF PartNames
<1>8. p \in Places(x)
  <2>1. v <= Len(x) /\ p <= v
    BY <1>1, <1>2, <1>3 DEF Has
  <2> QED BY <1>1, <1>2, <1>3, <2>1 DEF Places
<1> QED BY <1>5, <1>7, <1>8

\* The shape of what is made of an item and what comes after it.
OutIs(T, i, k, w, out) ==
  /\ w = <<k>> => out = i \o <<k>>
  /\ w # <<k>> => out = (i \o <<Comma>>) \o w
  /\ \E u \in Seq(T) : out = i \o u

LEMMA OutIsSo ==
  ASSUME NEW T, Added \subseteq T, NEW i \in Seq(T), NEW k \in Brackets, NEW w \in Seq(T)
  PROVE  OutIs(T, i, k, w, i \o (IF w = <<k>> THEN <<>> ELSE <<Comma>>) \o w)
<1> DEFINE out == i \o (IF w = <<k>> THEN <<>> ELSE <<Comma>>) \o w
<1>1. Comma \in T
  BY DEF Added
<1>2. CASE w = <<k>>
  <2>1. i \o <<>> = i
    BY ConcatEmptySeq
  <2>2. out = i \o w
    BY <1>2, <2>1
  <2> HIDE DEF out
  <2>3. OutIs(T, i, k, w, out)
    BY <1>2, <2>2 DEF OutIs
  <2> QED BY <2>3 DEF out
<1>3. CASE w # <<k>>
  <2> DEFINE d == <<Comma>>
  <2>1. d \in Seq(T)
    BY <1>1
  <2>2. out = (i \o d) \o w
    BY <1>3
  <2> HIDE DEF d, out
  <2>3. (i \o d) \o w = i \o (d \o w) /\ d \o w \in Seq(T)
    BY <2>1, ConcatAssociative, ConcatProperties
  <2>4. \E u \in Seq(T) : out = i \o u
    BY <2>2, <2>3
  <2>5. OutIs(T, i, k, w, out)
    BY <1>3, <2>2, <2>4 DEF OutIs, d
  <2> QED BY <2>5 DEF out
<1> QED BY <1>2, <1>3

\* What is made of the first item at p.
ItemOut(s, k, p) == item(keyAt(s, k, p).out, ValueAt(s, k, p).out)

LEMMA ValueAtMade ==
  ASSUME NEW T, Added \subseteq T, NEW s \in Seq(T), NEW k \in Brackets, NEW p \in 1..(Len(s) + 1)
  PROVE  IsMade(T, s, p, ValueAt(s, k, p)) /\ ItemOut(s, k, p) \in Seq(T)
<1>1. IsMade(T, s, p, keyAt(s, k, p)) /\ Len(s) \in Nat
  BY KeyMade, LenProperties
<1>2. IsMade(T, s, p, ValueAt(s, k, p))
  <2>1. CASE HasValue(s, k, p)
    <3> DEFINE f == FromPlace(s, k, p)
               m == ParseAt(s, "value", f)
    <3>1. f \in p..(Len(s) + 1)
      BY <2>1, ValueFrom
    <3> HIDE DEF f
    <3>2. f \in 1..(Len(s) + 1)
      BY <1>1, <3>1
    <3>3. IsMade(T, s, f, m)
      BY <3>2, ParseSteps, PartsAre DEF PartNames
    <3> HIDE DEF m
    <3>4. m.pos \in p..(Len(s) + 1)
      BY <1>1, <3>1, <3>3 DEF IsMade
    <3>5. IsMade(T, s, p, m)
      BY <3>3, <3>4 DEF IsMade
    <3> QED BY <2>1, <3>5 DEF ValueAt, m, f
  <2>2. CASE ~HasValue(s, k, p)
    <3> DEFINE q == keyAt(s, k, p).pos
    <3>1. q \in p..(Len(s) + 1) /\ <<>> \in Seq(T)
      BY <1>1, EmptySeq DEF IsMade
    <3> HIDE DEF q
    <3>2. IsMade(T, s, p, Made(<<>>, q))
      BY <1>1, <3>1, MadeIs
    <3> QED BY <2>2, <3>2 DEF ValueAt, q
  <2> QED BY <2>1, <2>2
<1>3. ItemOut(s, k, p) \in Seq(T)
  <2>1. keyAt(s, k, p).out \in Seq(T) /\ ValueAt(s, k, p).out \in Seq(T)
    BY <1>1, <1>2 DEF IsMade
  <2> QED BY <2>1, ItemBytes DEF ItemOut
<1> QED BY <1>2, <1>3

\* What is made of items, by what is made of the first and what comes after it.
ItemsShape(T, s, k, p, m, rest) ==
  /\ RestIs(s, k, ValueAt(s, k, p), rest) /\ rest \in [out: Seq(T), pos: Nat]
  /\ m.pos = rest.pos /\ OutIs(T, ItemOut(s, k, p), k, rest.out, m.out)

LEMMA ItemsShapeIs ==
  ASSUME NEW T, Added \subseteq T, NEW s \in Seq(T), NEW k \in Brackets, NEW p \in 1..(Len(s) + 1), ~Has(s, p, k)
  PROVE  \E rest : ItemsShape(T, s, k, p, ParseAt(s, k, p), rest)
<1> DEFINE v == ValueAt(s, k, p)
           m == ParseAt(s, k, p)
<1>1. PICK rest : RestIs(s, k, v, rest) /\ m = Made(ItemsOut(s, k, p, v, rest), rest.pos)
  <2>1. ItemsParsed(s, k, p, m)
    BY ItemsParsedIs
  <2> QED BY <2>1 DEF ItemsParsed
<1>2. IsMade(T, s, p, v) /\ Len(s) \in Nat
  BY ValueAtMade, LenProperties
<1> HIDE DEF v, m
<1>3. rest \in [out: Seq(T), pos: Nat]
  <2>1. CASE v.out # <<>> /\ Has(s, v.pos, Comma)
    <3>1. v.pos + 1 \in 1..(Len(s) + 1)
      BY <1>2, <2>1 DEF IsMade, Has
    <3>2. IsMade(T, s, v.pos + 1, ParseAt(s, k, v.pos + 1))
      BY <3>1, ParseSteps, PartsAre DEF PartNames
    <3>3. rest = ParseAt(s, k, v.pos + 1)
      BY <1>1, <2>1 DEF RestIs
    <3> QED BY <3>2, <3>3 DEF IsMade
  <2>2. CASE ~(v.out # <<>> /\ Has(s, v.pos, Comma))
    <3>1. rest = Made(<<k>>, v.pos + 1) \/ rest = Made(<<k>>, v.pos)
      BY <1>1, <2>2 DEF RestIs
    <3>2. k \in T
      BY DEF Brackets, Added
    <3>3. PICK w \in Seq(T) : w = <<k>>
      <4>1. <<k>> \in Seq(T)
        BY <3>2
      <4> QED BY <4>1
    <3>4. v.pos \in Nat /\ v.pos + 1 \in Nat
      BY <1>2 DEF IsMade
    <3>5. Made(w, v.pos) \in [out: Seq(T), pos: Nat] /\ Made(w, v.pos + 1) \in [out: Seq(T), pos: Nat]
      BY <3>4 DEF Made
    <3> QED BY <3>1, <3>3, <3>5
  <2> QED BY <2>1, <2>2
<1>4. ItemOut(s, k, p) \in Seq(T) /\ rest.out \in Seq(T)
  BY <1>3, ValueAtMade
<1>5. m.pos = rest.pos /\ m.out = ItemOut(s, k, p) \o (IF rest.out = <<k>> THEN <<>> ELSE <<Comma>>) \o rest.out
  BY <1>1 DEF Made, ItemsOut, ItemOut, v
<1>6. OutIs(T, ItemOut(s, k, p), k, rest.out, m.out)
  <2> DEFINE i == ItemOut(s, k, p)
             w == rest.out
  <2>1. i \in Seq(T) /\ w \in Seq(T)
    BY <1>4
  <2> HIDE DEF i, w
  <2>2. OutIs(T, i, k, w, i \o (IF w = <<k>> THEN <<>> ELSE <<Comma>>) \o w)
    BY <2>1, OutIsSo
  <2> QED BY <1>5, <2>2 DEF i, w
<1> QED BY <1>1, <1>3, <1>5, <1>6 DEF ItemsShape, v, m

\* The key of the item at p, as it is read: it is there with its colon, or it
\* is cut, or goes on past c.
KeyRead(T, s, c, k, p, f, key) ==
  \/ f <= c + 1 /\ HasValue(s, k, p) /\ FromPlace(s, k, p) = f /\ key.out # <<>> /\ key.out \o <<":">> = SubSeq(s, p, f - 1)
  \/ /\ f > c + 1 /\ c = Len(s) /\ key.pos = c + 1 /\ ~HasValue(s, k, p)
     /\ \E j \in p..c, u \in Seq(T) :
          /\ key.out = SubSeq(s, p, j) \o u /\ Closes(u) /\ Frag(s, j + 1)
          /\ \A x \in Seq(T) : IsBegun(s, j, u, x) /\ Has(x, j + Len(u) + 1, ":") => ItemValue(x, k, p) = j + Len(u) + 2
  \/ /\ f > c + 1 /\ c < Len(s)
     /\ \E j \in (c + 1)..Len(s) : key.out = SubSeq(s, p, j) \o <<Quote>>

LEMMA KeyIsRead ==
  ASSUME NEW T, Added \subseteq T, NEW s \in Seq(T), NEW r \in Seq(T), NEW c, Meets(s, r, c), NEW p \in 1..c,
         NEW k \in Brackets, k = CloseBrace, NEW f, f # 0, ItemValue(r, k, p) = f
  PROVE  KeyRead(T, s, c, k, p, f, keyAt(s, k, p))
<1> DEFINE q == StringEnd(r, p + 1)
           key == keyAt(s, k, p)
<1>1. /\ c \in Nat /\ Len(s) \in Nat /\ Len(r) \in Nat /\ c <= Len(s) /\ c < Len(r)
      /\ \A i \in 1..c : i <= Len(s) /\ i <= Len(r) /\ s[i] = r[i]
      /\ \A i \in 1..Len(r) : i <= Len(s) /\ i <= c + 1 /\ r[i] # "\\" => i <= c /\ s[i] = r[i]
  BY MeetsAt
<1>2. k # "]"
  BY Distinct DEF OtherBytes
<1>3. Has(r, p, Quote) /\ q # 0 /\ Has(r, q, ":") /\ f = q + 1
  BY <1>2, ItemIs
<1>4. p \in 1..Len(s) /\ p \in 1..(Len(s) + 1) /\ r[p] = Quote /\ s[p] = Quote /\ Has(s, p, Quote) /\ p + 1 \in Places(r) /\ p \in Places(r)
  BY <1>1, <1>3 DEF Has, Places
<1>5. key = str(s, p)
  BY <1>4 DEF keyAt
<1>6. StringIsRead(T, s, c, p, q, key)
  BY <1>3, <1>4, <1>5, StringsAreRead
<1>7. q \in (p + 2)..Len(r) /\ r[q] = ":" /\ q \in 1..Len(r)
  <2>1. q \in (p + 1 + 1)..(Len(r) + 1)
    BY <1>3, <1>4, StringEndSteps DEF StringEndStep
  <2> QED BY <1>1, <1>3, <2>1 DEF Has
<1> HIDE DEF q, key
<1>8. CASE q <= c
  <2>1. q <= c + 1 /\ s[q] = ":" /\ q \in p..Len(s) /\ q - 1 \in (p - 1)..Len(s) /\ f <= c + 1 /\ f - 1 = q
    BY <1>1, <1>3, <1>7, <1>8
  <2>2. ReadWhole(s, p, q, key)
    BY <1>1, <1>6, <2>1 DEF StringIsRead
  <2>3. key.out = SubSeq(s, p, q - 1) /\ key.pos = q
    BY <2>2 DEF ReadWhole
  <2>4. key.out # <<>>
    <3>1. IsPart(T, s, p, q - 1, key.out)
      BY <1>4, <2>1, <2>3, PartIs
    <3>2. Len(key.out) > 0
      BY <1>1, <1>7, <3>1 DEF IsPart
    <3> QED BY <3>2, EmptySeq
  <2>5. HasValue(s, k, p)
    <3>1. Has(s, q, ":")
      BY <2>1 DEF Has
    <3> QED BY <2>3, <2>4, <3>1 DEF HasValue, key
  <2>6. FromPlace(s, k, p) = f
    BY <1>2, <1>3, <2>3 DEF FromPlace, key
  <2>7. key.out \o <<":">> = SubSeq(s, p, f - 1)
    <3>1. SubSeq(s, p, q - 1) \o <<s[q]>> = SubSeq(s, p, q)
      BY <1>4, <2>1, PartThen
    <3> QED BY <2>1, <2>3, <3>1
  <2> QED BY <2>1, <2>4, <2>5, <2>6, <2>7 DEF KeyRead, key
<1>9. CASE q = c + 1
  <2>1. c = Len(s) /\ f > c + 1 /\ q - 1 = c /\ q <= c + 1 /\ f - 1 = q /\ c \in (p - 1)..Len(s) /\ c \in p..c
    <3>1. ~(q <= Len(s))
      BY <1>1, <1>7, <1>9
    <3> QED BY <1>1, <1>3, <1>9, <3>1
  <2>2. ReadWhole(s, p, q, key)
    <3>1. ~(q > c + 1)
      BY <1>1, <1>9
    <3> QED BY <1>6, <3>1 DEF StringIsRead
  <2>3. key.out = SubSeq(s, p, c) /\ key.pos = c + 1
    BY <1>9, <2>1, <2>2 DEF ReadWhole
  <2>4. ~HasValue(s, k, p)
    <3>1. ~Has(s, c + 1, ":")
      BY <1>1, <2>1 DEF Has
    <3> QED BY <1>2, <2>3, <3>1 DEF HasValue, key
  <2> DEFINE u == <<>>
  <2>5. u \in Seq(T) /\ Len(u) = 0 /\ Closes(u)
    BY EmptySeq DEF Closes
  <2>6. key.out = SubSeq(s, p, c) \o u
    <3>1. SubSeq(s, p, c) \in Seq(T)
      BY <1>4, <2>1, PartIs DEF IsPart
    <3> QED BY <2>3, <3>1, ConcatEmptySeq
  <2> HIDE DEF u
  <2>7. Frag(s, c + 1)
    <3>1. \A i \in (c + 1)..Len(s) : FALSE
      BY <1>1, <2>1
    <3> QED BY <3>1 DEF Frag
  <2>8. ASSUME NEW x \in Seq(T), IsBegun(s, c, u, x), Has(x, c + Len(u) + 1, ":") PROVE ItemValue(x, k, p) = c + Len(u) + 2
    <3>1. c + Len(u) + 1 = q /\ c + Len(u) + 2 = f
      BY <1>1, <1>3, <1>9, <2>5
    <3>2. Agree(x, s, 1, c) /\ q <= Len(x) /\ x[q] = r[q]
      BY <1>7, <2>8, <3>1 DEF IsBegun, Has
    <3>3. Agree(x, r, p, f - 1)
      <4>1. ASSUME NEW i \in p..(f - 1) PROVE i <= Len(x) /\ i <= Len(r) /\ x[i] = r[i]
        <5>1. CASE i = q
          BY <1>7, <3>2, <5>1
        <5>2. CASE i # q
          <6>1. i \in 1..c
            BY <1>1, <1>9, <2>1, <4>1, <5>2
          <6> QED BY <1>1, <3>2, <6>1 DEF Agree
        <5> QED BY <5>1, <5>2
      <4> QED BY <4>1 DEF Agree
    <3>4. ItemValue(x, k, p) = f
      BY <1>4, <3>3, ItemStays
    <3> QED BY <3>1, <3>4
  <2> QED BY <2>1, <2>3, <2>4, <2>5, <2>6, <2>7, <2>8 DEF KeyRead, key
<1>10. CASE q > c + 1
  <2>1. f > c + 1 /\ ~(q <= c + 1)
    BY <1>1, <1>3, <1>7, <1>10
  <2>2. CASE /\ c = Len(s) /\ key.pos = c + 1
             /\ \E j \in p..c : /\ key.out = SubSeq(s, p, j) \o <<Quote>> /\ Frag(s, j + 1)
                                /\ \A x \in Seq(T) : Agree(x, s, 1, j) /\ Has(x, j + 1, Quote) => StringEnd(x, p + 1) = j + 2
    <3>1. PICK j \in p..c : /\ key.out = SubSeq(s, p, j) \o <<Quote>> /\ Frag(s, j + 1)
                            /\ \A x \in Seq(T) : Agree(x, s, 1, j) /\ Has(x, j + 1, Quote) => StringEnd(x, p + 1) = j + 2
      BY <2>2
    <3>2. ~HasValue(s, k, p)
      <4>1. ~Has(s, c + 1, ":")
        BY <1>1, <2>2 DEF Has
      <4> QED BY <1>2, <2>2, <4>1 DEF HasValue, key
    <3> DEFINE u == <<Quote>>
    <3>3. u \in Seq(T) /\ Len(u) = 1 /\ u[1] = Quote /\ Closes(u) /\ key.out = SubSeq(s, p, j) \o u
      BY <3>1 DEF Added, Closes, Closers
    <3> HIDE DEF u
    <3>4. ASSUME NEW x \in Seq(T), IsBegun(s, j, u, x), Has(x, j + Len(u) + 1, ":") PROVE ItemValue(x, k, p) = j + Len(u) + 2
      <4>1. j + Len(u) + 1 = j + 2 /\ j + Len(u) + 2 = j + 2 + 1 /\ j + 2 # 0 /\ p \in 1..j
        BY <1>1, <3>3
      <4>2. Agree(x, s, 1, j) /\ Has(x, j + 1, Quote)
        BY <3>3, <3>4 DEF IsBegun
      <4>3. StringEnd(x, p + 1) = j + 2
        BY <3>1, <4>2
      <4>4. Has(x, p, Quote)
        BY <1>4, <4>1, <4>2 DEF Agree, Has
      <4> QED BY <1>2, <3>4, <4>1, <4>3, <4>4 DEF ItemValue
    <3> QED BY <2>1, <2>2, <3>1, <3>2, <3>3, <3>4 DEF KeyRead, key
  <2>3. CASE c < Len(s) /\ \E j \in (c + 1)..Len(s) : key.out = SubSeq(s, p, j) \o <<Quote>>
    BY <2>1, <2>3 DEF KeyRead, key
  <2> QED BY <1>6, <2>1, <2>2, <2>3 DEF StringIsRead
<1> QED BY <1>1, <1>7, <1>8, <1>9, <1>10

\* Three bytes behind a text, one by one.
ThreeBehind(T, x, a, b, d) ==
  \E t \in Seq(T) : /\ Len(t) = 3 /\ t[1] = a /\ t[2] = b /\ t[3] = d
                    /\ ((x \o <<a>>) \o <<b>>) \o <<d>> = x \o t

LEMMA Behind3 ==
  ASSUME NEW T, NEW x \in Seq(T), NEW a \in T, NEW b \in T, NEW d \in T
  PROVE  ThreeBehind(T, x, a, b, d)
<1> DEFINE y == <<a>>
           z == <<b>>
           w == <<d>>
           t == <<a, b, d>>
           yz == y \o z
           u == yz \o w
<1>1. y \in Seq(T) /\ z \in Seq(T) /\ w \in Seq(T) /\ t \in Seq(T) /\ Len(y) = 1 /\ Len(z) = 1 /\ Len(w) = 1 /\ Len(t) = 3
      /\ y[1] = a /\ z[1] = b /\ w[1] = d /\ t[1] = a /\ t[2] = b /\ t[3] = d
  OBVIOUS
<1> HIDE DEF y, z, w, t
<1>2. IsJoined(T, y, z, yz)
  BY <1>1, JoinedIs
<1>3. ((x \o y) \o z) \o w = x \o u
  <2>1. (x \o y) \o z = x \o yz
    <3>1. Assoc(x, y, z)
      BY <1>1, AssocIs
    <3> QED BY <3>1 DEF Assoc
  <2>2. yz \in Seq(T)
    BY <1>2 DEF IsJoined
  <2> HIDE DEF yz
  <2>3. (x \o yz) \o w = x \o (yz \o w)
    <3>1. Assoc(x, yz, w)
      BY <1>1, <2>2, AssocIs
    <3> QED BY <3>1 DEF Assoc
  <2> QED BY <2>1, <2>3
<1> HIDE DEF yz
<1>4. IsJoined(T, yz, w, u)
  <2>1. yz \in Seq(T)
    BY <1>2 DEF IsJoined
  <2> QED BY <1>1, <2>1, JoinedIs
<1>5. Len(yz) = 2 /\ yz[1] = a /\ yz[2] = b
  <2>1. 1 \in 1..Len(y) /\ 1 \in 1..Len(z) /\ Len(y) + 1 = 2
    BY <1>1
  <2> QED BY <1>1, <1>2, <2>1 DEF IsJoined
<1>6. u \in Seq(T) /\ Len(u) = 3 /\ u[1] = a /\ u[2] = b /\ u[3] = d
  <2>1. 1 \in 1..Len(yz) /\ 2 \in 1..Len(yz) /\ 1 \in 1..Len(w) /\ Len(yz) + 1 = 3
    BY <1>1, <1>5
  <2> QED BY <1>1, <1>4, <1>5, <2>1 DEF IsJoined
<1> HIDE DEF u
<1> QED BY <1>3, <1>6 DEF ThreeBehind, y, z, w

TwoBehind(T, x, a, b) ==
  \E t \in Seq(T) : Len(t) = 2 /\ t[1] = a /\ t[2] = b /\ (x \o <<a>>) \o <<b>> = x \o t

LEMMA Behind2 ==
  ASSUME NEW T, NEW x \in Seq(T), NEW a \in T, NEW b \in T
  PROVE  TwoBehind(T, x, a, b)
<1> DEFINE y == <<a>>
           z == <<b>>
           u == y \o z
<1>1. y \in Seq(T) /\ z \in Seq(T) /\ Len(y) = 1 /\ Len(z) = 1 /\ y[1] = a /\ z[1] = b
  OBVIOUS
<1> HIDE DEF y, z
<1>2. (x \o y) \o z = x \o u
  BY <1>1, ConcatAssociative
<1>3. IsJoined(T, y, z, u)
  BY <1>1, JoinedIs
<1> HIDE DEF u
<1>4. u \in Seq(T) /\ Len(u) = 2 /\ u[1] = a /\ u[2] = b
  <2>1. 1 \in 1..Len(y) /\ 1 \in 1..Len(z) /\ Len(y) + 1 = 2
    BY <1>1
  <2> QED BY <1>1, <1>3, <2>1 DEF IsJoined
<1> QED BY <1>2, <1>4 DEF TwoBehind, y, z

\* What there is of a key that is cut.
KeyCut(T, s, k, p, j, u) ==
  /\ keyAt(s, k, p).out = SubSeq(s, p, j) \o u /\ keyAt(s, k, p).pos = Len(s) + 1 /\ ~HasValue(s, k, p)
  /\ Closes(u) /\ Frag(s, j + 1)
  /\ \A x \in Seq(T) : IsBegun(s, j, u, x) /\ Has(x, j + Len(u) + 1, ":") => ItemValue(x, k, p) = j + Len(u) + 2

\* It is closed, and has null.
LEMMA CutKeyRead ==
  ASSUME NEW T, Added \subseteq T, NEW s \in Seq(T), NEW k \in Brackets, NEW p \in 1..Len(s),
         NEW m, NEW rest, ItemsShape(T, s, k, p, m, rest), NEW j \in p..Len(s), NEW u \in Seq(T),
         KeyCut(T, s, k, p, j, u)
  PROVE  ReadCut(T, s, Len(s), k, p, m)
<1> DEFINE key == keyAt(s, k, p).out
           g == SubSeq(s, p, j)
<1>1. Len(s) \in Nat /\ Len(u) \in Nat /\ p \in 1..(Len(s) + 1) /\ j \in (p - 1)..Len(s) /\ j \in Nat
  BY LenProperties
<1>2. IsPart(T, s, p, j, g)
  BY <1>1, PartIs
<1>3. ValueAt(s, k, p) = Made(<<>>, Len(s) + 1)
  BY DEF ValueAt, KeyCut
<1>4. rest = Made(<<k>>, Len(s) + 1)
  <2> DEFINE v == Made(<<>>, Len(s) + 1)
  <2>1. v.out = <<>> /\ v.pos = Len(s) + 1
    BY DEF Made
  <2>2. RestIs(s, k, v, rest)
    BY <1>3 DEF ItemsShape
  <2> HIDE DEF v
  <2> QED BY <2>1, <2>2 DEF RestIs
<1>5. key \in Seq(T) /\ key # <<>>
  <2>1. key = g \o u
    BY DEF KeyCut
  <2> HIDE DEF key, g
  <2>2. IsJoined(T, g, u, key)
    BY <1>2, <2>1, JoinedIs DEF IsPart
  <2>3. key \in Seq(T) /\ Len(key) > 0
    BY <1>1, <1>2, <2>2 DEF IsPart, IsJoined
  <2> QED BY <2>3, EmptySeq
<1>6. ItemOut(s, k, p) = (key \o <<":">>) \o <<"null">>
  <2>1. ValueAt(s, k, p).out = <<>>
    BY <1>3 DEF Made
  <2>2. item(key, <<>>) = (key \o <<":">>) \o <<"null">>
    BY <1>5 DEF item
  <2> QED BY <2>1, <2>2 DEF ItemOut
<1>7. m.out = ((key \o <<":">>) \o <<"null">>) \o <<k>> /\ m.pos = Len(s) + 1
  <2>1. rest.out = <<k>> /\ rest.pos = Len(s) + 1
    BY <1>4 DEF Made
  <2> QED BY <1>6, <2>1 DEF ItemsShape, OutIs
<1>8. ":" \in T /\ "null" \in T /\ k \in T /\ k # "value"
  BY Distinct DEF Added, Brackets, OtherBytes
<1>9. key = g \o u
  BY DEF KeyCut
<1> HIDE DEF key, g
<1>10. PICK t \in Seq(T) : /\ Len(t) = 3 /\ t[1] = ":" /\ t[2] = "null" /\ t[3] = k
                           /\ ((key \o <<":">>) \o <<"null">>) \o <<k>> = key \o t
  <2>1. ThreeBehind(T, key, ":", "null", k)
    BY <1>5, <1>8, Behind3
  <2> QED BY <2>1 DEF ThreeBehind
<1> DEFINE y == u \o t
<1>11. m.out = g \o y
  <2>1. (g \o u) \o t = g \o (u \o t)
    <3>1. g \in Seq(T)
      BY <1>2 DEF IsPart
    <3>2. Assoc(g, u, t)
      BY <3>1, AssocIs
    <3> QED BY <3>2 DEF Assoc
  <2> QED BY <1>7, <1>9, <1>10, <2>1
<1>12. IsJoined(T, u, t, y)
  BY JoinedIs
<1> HIDE DEF y
<1>13. /\ y \in Seq(T) /\ Len(y) = Len(u) + 3 /\ \A i \in 1..Len(u) : y[i] = u[i]
       /\ y[Len(u) + 1] = ":" /\ y[Len(u) + 2] = "null" /\ y[Len(u) + 3] = k
  <2>1. 1 \in 1..Len(t) /\ 2 \in 1..Len(t) /\ 3 \in 1..Len(t)
    BY <1>10
  <2> QED BY <1>10, <1>12, <2>1 DEF IsJoined
<1>14. Closes(y)
  <2>1. ASSUME NEW i \in 1..Len(y) PROVE y[i] \in Closers
    <3>1. ":" \in Closers /\ "null" \in Closers /\ k \in Closers
      BY DEF Closers, Brackets
    <3>2. i \in 1..Len(u) \/ i = Len(u) + 1 \/ i = Len(u) + 2 \/ i = Len(u) + 3
      <4>1. Len(y) = Len(u) + 3
        BY <1>13
      <4> QED BY <1>1, <4>1
    <3>3. CASE i \in 1..Len(u)
      BY <1>13, <3>3 DEF Closes, KeyCut
    <3> QED BY <1>13, <3>1, <3>2, <3>3
  <2> QED BY <2>1 DEF Closes
<1>15. ASSUME NEW x \in Seq(T), IsBegun(s, j, y, x) PROVE EndAt(x, k, p) = j + Len(y) + 1
  <2>1. Agree(x, s, 1, j) /\ \A i \in 1..Len(y) : Has(x, j + i, y[i])
    BY <1>15 DEF IsBegun
  <2>2. IsBegun(s, j, u, x)
    <3>1. \A i \in 1..Len(u) : i \in 1..Len(y)
      <4>1. Len(y) = Len(u) + 3
        BY <1>13
      <4> QED BY <1>1, <4>1
    <3> QED BY <1>13, <2>1, <3>1 DEF IsBegun
  <2>3. PICK f : f = j + Len(u) + 2
    OBVIOUS
  <2>4. Has(x, j + (Len(u) + 1), ":") /\ Has(x, j + (Len(u) + 2), "null") /\ Has(x, j + (Len(u) + 3), k)
    <3>1. Len(u) + 1 \in 1..Len(y) /\ Len(u) + 2 \in 1..Len(y) /\ Len(u) + 3 \in 1..Len(y)
      BY <1>1, <1>13
    <3> QED BY <1>13, <2>1, <3>1
  <2>5. j + (Len(u) + 1) = j + Len(u) + 1 /\ j + (Len(u) + 2) = f /\ j + (Len(u) + 3) = f + 1 /\ j + Len(y) + 1 = f + 2 /\ f # 0 /\ p <= f
    BY <1>1, <1>13, <2>3
  <2>6. Has(x, j + Len(u) + 1, ":") /\ Has(x, f, "null") /\ Has(x, f + 1, k)
    BY <2>4, <2>5
  <2>7. ItemValue(x, k, p) = f
    BY <2>2, <2>3, <2>6 DEF KeyCut
  <2>8. p \in Places(x)
    <3>1. f <= Len(x)
      BY <2>6 DEF Has
    <3> QED BY <1>1, <2>3, <2>5, <3>1, LenProperties DEF Places
  <2> QED BY <2>5, <2>6, <2>7, <2>8, NullItem
<1>16. m.out = SubSeq(s, p, j) \o y
  BY <1>11 DEF g
<1>17. Frag(s, j + 1)
  BY DEF KeyCut
<1> QED BY <1>1, <1>7, <1>8, <1>13, <1>14, <1>15, <1>16, <1>17, ReadClosed

\* What is made of a later part of the text, and something behind it.
Ahead(s, p, f, w, u) == Put(s, p, (SubSeq(s, p, f - 1) \o w) \o u) = Put(s, f, w) \o u

PutsBoth(s, p, w, u) == Put(s, p, w \o u) = Put(s, p, w) \o u

LEMMA PutBoth ==
  ASSUME NEW T, NEW s \in Seq(T), NEW p \in 1..(Len(s) + 1), NEW w \in Seq(T), NEW u \in Seq(T)
  PROVE  PutsBoth(s, p, w, u)
  BY PutThen DEF PutsBoth

LEMMA AheadIs ==
  ASSUME NEW T, NEW s \in Seq(T), NEW p \in 1..(Len(s) + 1), NEW f \in p..(Len(s) + 1), NEW w \in Seq(T), NEW u \in Seq(T)
  PROVE  Ahead(s, p, f, w, u)
<1> DEFINE h == SubSeq(s, p, f - 1) \o w
<1>1. PICK j \in (p - 1)..Len(s) : j = f - 1 /\ j + 1 = f
  BY LenProperties
<1>2. h \in Seq(T) /\ Put(s, p, h) = Put(s, f, w)
  <2>1. SubSeq(s, p, j) \o w \in Seq(T) /\ Put(s, p, SubSeq(s, p, j) \o w) = Put(s, j + 1, w)
    BY PutMore
  <2> QED BY <1>1, <2>1
<1> HIDE DEF h
<1>3. PutsBoth(s, p, h, u)
  BY <1>2, PutBoth
<1> QED BY <1>2, <1>3 DEF Ahead, PutsBoth, h

\* The item at p has its value at f, in the text and in what begins with it.
HeadIs(T, s, k, p, f) ==
  /\ HasValue(s, k, p) /\ FromPlace(s, k, p) = f /\ f \in p..(Len(s) + 1)
  /\ \/ k = "]" /\ f = p
     \/ k = CloseBrace /\ keyAt(s, k, p).out # <<>> /\ keyAt(s, k, p).out \o <<":">> = SubSeq(s, p, f - 1)
  /\ \A x \in Seq(T) : Agree(x, s, 1, f - 1) => ItemValue(x, k, p) = f

\* What is made of such an item, by what is made of its value.
ItemOutIs(s, k, p, f, i, w) ==
  /\ w # <<>> => i = SubSeq(s, p, f - 1) \o w
  /\ w = <<>> /\ k = "]" => i = <<>>
  /\ w = <<>> /\ k # "]" => i = SubSeq(s, p, f - 1) \o <<"null">>

LEMMA ItemOutIsSo ==
  ASSUME NEW T, Added \subseteq T, NEW s \in Seq(T), NEW k \in Brackets, NEW p \in 1..Len(s), NEW f, HeadIs(T, s, k, p, f)
  PROVE  ItemOutIs(s, k, p, f, ItemOut(s, k, p), ValueAt(s, k, p).out)
<1> DEFINE key == keyAt(s, k, p).out
           w == ValueAt(s, k, p).out
           g == SubSeq(s, p, f - 1)
<1>1. ItemOut(s, k, p) = item(key, w) /\ w \in Seq(T)
  <2>1. p \in 1..(Len(s) + 1)
    BY LenProperties
  <2> QED BY <2>1, ValueAtMade DEF ItemOut, IsMade
<1>2. CloseBrace # "]"
  BY Distinct DEF OtherBytes
<1>3. CASE k = "]" /\ f = p
  <2>1. key = <<>>
    BY <1>2, <1>3 DEF keyAt, Made
  <2>2. g = <<>>
    <3>1. p \in Int /\ f - 1 \in Int /\ f - 1 < p
      BY <1>3
    <3> QED BY <3>1, SubSeqEmpty
  <2> HIDE DEF key, w, g
  <2>3. item(key, w) = w
    BY <2>1 DEF item
  <2>4. g \o w = w
    BY <1>1, <2>2, ConcatEmptySeq
  <2> QED BY <1>1, <1>3, <2>3, <2>4 DEF ItemOutIs, w, g
<1>4. CASE k = CloseBrace /\ key # <<>> /\ key \o <<":">> = g
  <2> HIDE DEF key, w, g
  <2>1. item(key, w) = g \o (IF w = <<>> THEN <<"null">> ELSE w)
    BY <1>4 DEF item
  <2>2. ItemOutIs(s, k, p, f, item(key, w), w)
    BY <1>2, <1>4, <2>1 DEF ItemOutIs, g
  <2> QED BY <1>1, <2>2 DEF w
<1> QED BY <1>3, <1>4 DEF HeadIs

\* An item whose value is not there yet has null, and one of an array is nothing.
LEMMA NoValueRead ==
  ASSUME NEW T, Added \subseteq T, NEW s \in Seq(T), NEW k \in Brackets, NEW p \in 1..Len(s),
         NEW m, NEW rest, ItemsShape(T, s, k, p, m, rest), NEW f, HeadIs(T, s, k, p, f), Frag(s, f),
         ValueAt(s, k, p).out = <<>>, ValueAt(s, k, p).pos = Len(s) + 1
  PROVE  ReadNone(s, Len(s), p, <<k>>, m) \/ ReadCut(T, s, Len(s), k, p, m)
<1> DEFINE g == SubSeq(s, p, f - 1)
<1>1. Len(s) \in Nat /\ p \in 1..(Len(s) + 1) /\ f \in p..(Len(s) + 1)
  BY LenProperties DEF HeadIs
<1>2. ItemOutIs(s, k, p, f, ItemOut(s, k, p), <<>>)
  BY ItemOutIsSo
<1>3. rest = Made(<<k>>, Len(s) + 1)
  BY DEF ItemsShape, RestIs
<1>4. m.out = ItemOut(s, k, p) \o <<k>> /\ m.pos = Len(s) + 1
  <2>1. rest.out = <<k>> /\ rest.pos = Len(s) + 1
    BY <1>3 DEF Made
  <2> QED BY <2>1 DEF ItemsShape, OutIs
<1>5. "null" \in T /\ k \in T /\ k # "value"
  BY Distinct DEF Added, Brackets, OtherBytes
<1>6. CASE k = "]"
  <2>1. ItemOut(s, k, p) = <<>>
    BY <1>2, <1>6 DEF ItemOutIs
  <2>2. m.out = <<k>>
    <3>1. <<k>> \in Seq(T)
      BY <1>5
    <3> QED BY <1>4, <2>1, <3>1, ConcatEmptySeq
  <2>3. f = p
    BY <1>6, Distinct DEF HeadIs, OtherBytes
  <2> QED BY <1>4, <2>2, <2>3 DEF ReadNone
<1>7. CASE k # "]"
  <2>1. ItemOut(s, k, p) = g \o <<"null">>
    BY <1>2, <1>7 DEF ItemOutIs
  <2>2. PICK j : j = f - 1
    OBVIOUS
  <2>3. j \in (p - 1)..Len(s) /\ j + 1 = f /\ j + 2 = f + 1
    BY <1>1, <2>2
  <2>4. g \in Seq(T)
    BY <1>1, <2>2, <2>3, PartIs DEF IsPart
  <2> HIDE DEF g
  <2>5. TwoBehind(T, g, "null", k)
    BY <1>5, <2>4, Behind2
  <2>6. PICK t \in Seq(T) : Len(t) = 2 /\ t[1] = "null" /\ t[2] = k /\ (g \o <<"null">>) \o <<k>> = g \o t
    BY <2>5 DEF TwoBehind
  <2>7. m.out = SubSeq(s, p, j) \o t
    BY <1>4, <2>1, <2>2, <2>6 DEF g
  <2>8. Closes(t)
    <3>1. \A i \in 1..Len(t) : i = 1 \/ i = 2
      BY <2>6
    <3>2. "null" \in Closers /\ k \in Closers
      BY DEF Closers, Brackets
    <3> QED BY <2>6, <3>1, <3>2 DEF Closes
  <2>9. ASSUME NEW x \in Seq(T), IsBegun(s, j, t, x) PROVE EndAt(x, k, p) = j + Len(t) + 1
    <3>1. 1 \in 1..Len(t) /\ 2 \in 1..Len(t) /\ j + Len(t) + 1 = f + 2 /\ f # 0 /\ p <= f
      BY <1>1, <2>3, <2>6
    <3>2. Agree(x, s, 1, f - 1) /\ Has(x, f, "null") /\ Has(x, f + 1, k)
      BY <2>2, <2>3, <2>6, <2>9, <3>1 DEF IsBegun
    <3>3. ItemValue(x, k, p) = f
      BY <3>2 DEF HeadIs
    <3>4. p \in Places(x)
      <4>1. f <= Len(x)
        BY <3>2 DEF Has
      <4> QED BY <1>1, <4>1, <3>1, LenProperties DEF Places
    <3> QED BY <3>1, <3>2, <3>3, <3>4, NullItem
  <2>10. Frag(s, j + 1)
    BY <2>3
  <2> QED BY <1>1, <1>4, <1>5, <2>3, <2>7, <2>8, <2>9, <2>10, ReadClosed
<1> QED BY <1>6, <1>7

\* An item whose value is cut is closed behind it.
LEMMA CutValueRead ==
  ASSUME NEW T, Added \subseteq T, NEW s \in Seq(T), NEW k \in Brackets, NEW p \in 1..Len(s),
         NEW m, NEW rest, ItemsShape(T, s, k, p, m, rest), NEW f, HeadIs(T, s, k, p, f),
         ReadCut(T, s, Len(s), "value", f, ValueAt(s, k, p))
  PROVE  ReadCut(T, s, Len(s), k, p, m)
<1> DEFINE g == SubSeq(s, p, f - 1)
           v == ValueAt(s, k, p)
           a == Put(s, f, v.out)
           y == a \o <<k>>
<1>1. Len(s) \in Nat /\ p \in 1..(Len(s) + 1) /\ f \in p..(Len(s) + 1) /\ f \in 1..(Len(s) + 1) /\ f - 1 \in (p - 1)..Len(s) /\ f - 1 \in 0..Len(s)
  BY LenProperties DEF HeadIs
<1>2. v.pos = Len(s) + 1 /\ Follows(s, a) /\ EndsIn(T, a, "value", f)
  BY DEF ReadCut
<1>3. ItemOutIs(s, k, p, f, ItemOut(s, k, p), v.out) /\ v.out \in Seq(T)
  BY <1>1, ItemOutIsSo, ValueAtMade DEF IsMade
<1>4. RestIs(s, k, v, rest) /\ m.pos = rest.pos /\ OutIs(T, ItemOut(s, k, p), k, rest.out, m.out)
  BY DEF ItemsShape
<1> HIDE DEF v
<1>5. a \in Seq(T) /\ Len(a) = f - 1 + Len(v.out) /\ Len(v.out) \in Nat /\ Len(a) \in Nat
  <2>1. IsPut(T, s, f, v.out, a)
    BY <1>1, <1>3, PutIs
  <2> QED BY <1>3, <2>1, LenProperties DEF IsPut
<1>6. rest = Made(<<k>>, Len(s) + 1)
  <2>1. \A b : ~Has(s, Len(s) + 1, b)
    BY <1>1 DEF Has
  <2> QED BY <1>2, <1>4, <2>1 DEF RestIs
<1>7. m.out = ItemOut(s, k, p) \o <<k>> /\ m.pos = Len(s) + 1
  <2>1. rest.out = <<k>> /\ rest.pos = Len(s) + 1
    BY <1>6 DEF Made
  <2> QED BY <1>4, <2>1 DEF OutIs
<1>8. k \in T /\ k # "value"
  BY Distinct DEF Added, Brackets, OtherBytes
<1>9. PICK u \in Seq(T) : u = <<k>> /\ Len(u) = 1 /\ u[1] = k
  <2>1. <<k>> \in Seq(T)
    BY <1>8
  <2> QED BY <2>1
<1> HIDE DEF a
<1>10. ASSUME NEW x \in Seq(T), Begins(a, x), Parted(x, Len(a) + 1)
       PROVE  EndAt(x, "value", f) = Len(a) + 1 /\ ItemValue(x, k, p) = f /\ f <= Len(a)
  <2>1. EndAt(x, "value", f) = Len(a) + 1
    BY <1>2, <1>10 DEF EndsIn
  <2>2. Agree(x, s, 1, f - 1)
    <3>1. PICK j \in 0..Len(s) : j = f - 1 /\ j + 1 = f
      BY <1>1
    <3>2. IsBegun(s, j, v.out, x)
      BY <1>3, <1>10, <3>1, BeginsPut DEF a
    <3> QED BY <3>1, <3>2 DEF IsBegun
  <2>3. ItemValue(x, k, p) = f
    BY <2>2 DEF HeadIs
  <2>4. f <= Len(a)
    <3>1. f \in Places(x)
      <4>1. Len(a) <= Len(x)
        <5>1. Len(a) \in 1..Len(a) \/ Len(a) = 0
          BY <1>5
        <5> QED BY <1>10, <5>1, LenProperties DEF Begins, Agree
      <4> QED BY <1>1, <1>5, <4>1, LenProperties DEF Places
    <3>2. IsEnd(x, f, Len(a) + 1) /\ Len(a) + 1 # 0
      BY <1>5, <2>1, <3>1, ValueEnds
    <3> QED BY <1>1, <1>5, <3>2 DEF IsEnd
  <2> QED BY <2>1, <2>3, <2>4
<1>11. v.out # <<>>
  <2>1. Begins(a, a) /\ Parted(a, Len(a) + 1)
    BY <1>5 DEF Begins, Agree, Parted
  <2>2. f <= Len(a)
    BY <1>5, <1>10, <2>1
  <2>3. Len(v.out) # 0
    BY <1>1, <1>5, <2>2
  <2> QED BY <2>3, EmptySeq
<1>12. Put(s, p, m.out) = a \o u
  <2>1. ItemOut(s, k, p) = g \o v.out
    BY <1>3, <1>11 DEF ItemOutIs
  <2>2. m.out = (g \o v.out) \o u
    BY <1>7, <1>9, <2>1
  <2>3. Ahead(s, p, f, v.out, u)
    BY <1>1, <1>3, AheadIs
  <2> QED BY <2>2, <2>3 DEF Ahead, a
<1>13. Closes(u)
  <2>1. k \in Closers
    BY DEF Closers, Brackets
  <2> QED BY <1>9, <2>1 DEF Closes
<1>14. Follows(s, a \o u)
  BY <1>2, <1>5, <1>13, FollowsThen
<1>15. EndsIn(T, a \o u, k, p)
  <2>1. Len(a \o u) = Len(a) + 1
    BY <1>5, <1>9, JoinedIs DEF IsJoined
  <2>2. ASSUME NEW x \in Seq(T), Begins(a \o u, x) PROVE EndAt(x, k, p) = Len(a) + 1 + 1
    <3>1. Begins(a, x) /\ \A i \in 1..Len(u) : Has(x, Len(a) + i, u[i])
      BY <1>5, <2>2, BeginsThen DEF BegunWith
    <3>2. Has(x, Len(a) + 1, k)
      BY <1>9, <3>1
    <3>3. Parted(x, Len(a) + 1)
      BY <3>2 DEF Parted, Has
    <3>4. EndAt(x, "value", f) = Len(a) + 1 /\ ItemValue(x, k, p) = f /\ f <= Len(a)
      BY <1>10, <3>1, <3>3
    <3>5. p \in Places(x) /\ f # 0 /\ Len(a) + 1 # 0
      <4>1. Len(a) + 1 <= Len(x)
        BY <3>2 DEF Has
      <4> QED BY <1>1, <1>5, <3>4, <4>1, LenProperties DEF Places
    <3> QED BY <3>2, <3>4, <3>5, ItemEnds
  <2> QED BY <1>8, <2>1, <2>2 DEF EndsIn
<1> QED BY <1>7, <1>12, <1>14, <1>15 DEF ReadCut

\* An item whose value goes on past c does so too.
LEMMA PastValueRead ==
  ASSUME NEW T, Added \subseteq T, NEW s \in Seq(T), NEW k \in Brackets, NEW p \in 1..Len(s), NEW c \in Nat,
         NEW m, NEW rest, ItemsShape(T, s, k, p, m, rest), NEW f, HeadIs(T, s, k, p, f), f <= c + 1,
         ReadPast(s, c, f, ValueAt(s, k, p))
  PROVE  ReadPast(s, c, p, m)
<1> DEFINE g == SubSeq(s, p, f - 1)
           v == ValueAt(s, k, p)
           a == Put(s, f, v.out)
<1>1. Len(s) \in Nat /\ p \in 1..(Len(s) + 1) /\ f \in p..(Len(s) + 1) /\ f \in 1..(Len(s) + 1) /\ f - 1 \in (p - 1)..Len(s)
  BY LenProperties DEF HeadIs
<1>2. c < Len(s) /\ Agree(a, s, 1, c + 1)
  BY DEF ReadPast
<1>3. ItemOutIs(s, k, p, f, ItemOut(s, k, p), v.out) /\ v.out \in Seq(T)
  BY <1>1, ItemOutIsSo, ValueAtMade DEF IsMade
<1>4. OutIs(T, ItemOut(s, k, p), k, rest.out, m.out)
  BY DEF ItemsShape
<1> HIDE DEF v
<1>5. a \in Seq(T) /\ Len(a) = f - 1 + Len(v.out) /\ Len(v.out) \in Nat /\ Len(a) \in Nat
  <2>1. IsPut(T, s, f, v.out, a)
    BY <1>1, <1>3, PutIs
  <2> QED BY <1>3, <2>1, LenProperties DEF IsPut
<1> HIDE DEF a
<1>6. v.out # <<>>
  <2>1. c + 1 <= Len(a)
    <3>1. c + 1 \in 1..(c + 1)
      OBVIOUS
    <3> QED BY <1>2, <3>1 DEF Agree
  <2>2. Len(v.out) # 0
    BY <1>1, <1>5, <2>1
  <2> QED BY <2>2, EmptySeq
<1>7. PICK u \in Seq(T) : m.out = ItemOut(s, k, p) \o u
  BY <1>4 DEF OutIs
<1>8. Put(s, p, m.out) = a \o u
  <2>1. ItemOut(s, k, p) = g \o v.out
    BY <1>3, <1>6 DEF ItemOutIs
  <2>2. m.out = (g \o v.out) \o u
    BY <1>7, <2>1
  <2>3. Ahead(s, p, f, v.out, u)
    BY <1>1, <1>3, AheadIs
  <2> QED BY <2>2, <2>3 DEF Ahead, a
<1>9. Agree(a \o u, s, 1, c + 1)
  BY <1>2, <1>5, AgreeThen
<1> QED BY <1>2, <1>8, <1>9 DEF ReadPast

\* An item that ends at v in s and in what begins with it.
Continues(T, s, k, p, v) ==
  \A x \in Seq(T) : Agree(x, s, 1, v - 1) =>
    /\ Has(x, v, k) => EndAt(x, k, p) = v + 1
    /\ \A y : y # 0 /\ Has(x, v, Comma) /\ EndAt(x, k, v + 1) = y => EndAt(x, k, p) = y

\* The bracket is made up behind it.
LEMMA ClosedItems ==
  ASSUME NEW T, Added \subseteq T, NEW s \in Seq(T), NEW k \in Brackets, NEW p \in 1..Len(s), NEW v \in (p + 1)..(Len(s) + 1),
         NEW m, m.out = SubSeq(s, p, v - 1) \o <<k>>, m.pos = Len(s) + 1, Frag(s, v), Continues(T, s, k, p, v)
  PROVE  ReadCut(T, s, Len(s), k, p, m)
<1>1. PICK j : j = v - 1
  OBVIOUS
<1>2. p \in 1..(Len(s) + 1) /\ j \in (p - 1)..Len(s) /\ j + 1 = v
  BY <1>1, LenProperties
<1> DEFINE u == <<k>>
<1>3. k \in T /\ k # "value" /\ k \in Closers
  BY Distinct DEF Added, Brackets, OtherBytes, Closers
<1>4. u \in Seq(T) /\ Len(u) = 1 /\ u[1] = k /\ Closes(u)
  BY <1>3 DEF Closes
<1>5. m.out = SubSeq(s, p, j) \o u
  BY <1>1
<1> HIDE DEF u
<1>6. ASSUME NEW x \in Seq(T), IsBegun(s, j, u, x) PROVE EndAt(x, k, p) = j + Len(u) + 1
  <2>1. 1 \in 1..Len(u) /\ j + Len(u) + 1 = v + 1
    BY <1>2, <1>4
  <2>2. Agree(x, s, 1, v - 1) /\ Has(x, v, k)
    BY <1>1, <1>2, <1>4, <1>6, <2>1 DEF IsBegun
  <2> QED BY <2>1, <2>2 DEF Continues
<1>7. Frag(s, j + 1)
  BY <1>2
<1> QED BY <1>2, <1>3, <1>4, <1>5, <1>6, <1>7, ReadClosed

\* More items, behind the comma at v.
OutPast(s, p, v, w, out) == out = SubSeq(s, p, v) \o w /\ Put(s, p, out) = Put(s, v + 1, w)

LEMMA OutPastIs ==
  ASSUME NEW T, NEW s \in Seq(T), NEW p \in 1..Len(s), NEW v \in (p + 1)..Len(s), s[v] = Comma, NEW k, NEW w \in Seq(T), w # <<k>>,
         NEW out, OutIs(T, SubSeq(s, p, v - 1), k, w, out)
  PROVE  OutPast(s, p, v, w, out)
<1>1. v \in p..Len(s) /\ v \in (p - 1)..Len(s) /\ p \in 1..(Len(s) + 1)
  BY LenProperties
<1>2. SubSeq(s, p, v - 1) \o <<s[v]>> = SubSeq(s, p, v)
  BY <1>1, PartThen
<1>3. out = (SubSeq(s, p, v - 1) \o <<Comma>>) \o w
  BY DEF OutIs
<1>4. out = SubSeq(s, p, v) \o w
  BY <1>2, <1>3
<1>5. Put(s, p, SubSeq(s, p, v) \o w) = Put(s, v + 1, w)
  BY <1>1, PutMore
<1> QED BY <1>4, <1>5 DEF OutPast

LEMMA CutItems ==
  ASSUME NEW T, Added \subseteq T, NEW s \in Seq(T), NEW k \in Brackets, NEW p \in 1..Len(s), NEW v \in (p + 1)..Len(s), s[v] = Comma,
         NEW rest \in [out: Seq(T), pos: Nat], NEW m, m.pos = rest.pos, OutIs(T, SubSeq(s, p, v - 1), k, rest.out, m.out),
         Continues(T, s, k, p, v), ReadCut(T, s, Len(s), k, v + 1, rest)
  PROVE  ReadCut(T, s, Len(s), k, p, m)
<1> DEFINE w == rest.out
           a == Put(s, v + 1, w)
<1>1. Len(s) \in Nat /\ v \in 0..Len(s) /\ v + 1 \in 1..(Len(s) + 1) /\ v \in Nat /\ v + 1 - 1 = v
  BY LenProperties
<1>2. w \in Seq(T) /\ Len(w) \in Nat
  BY LenProperties
<1>3. rest.pos = Len(s) + 1 /\ Follows(s, a) /\ EndsIn(T, a, k, v + 1)
  BY DEF ReadCut
<1>4. OutIs(T, SubSeq(s, p, v - 1), k, w, m.out)
  OBVIOUS
<1> HIDE DEF w
<1>5. a \in Seq(T) /\ Len(a) = v + Len(w) /\ Len(a) \in Nat
  BY <1>1, <1>2, PutLen
<1>6. k # "value" /\ k \in T
  BY Distinct DEF Brackets, OtherBytes, Added
<1>7. ASSUME NEW x \in Seq(T), Begins(a, x) PROVE EndAt(x, k, v + 1) = Len(a) + 1 /\ IsBegun(s, v, w, x)
  BY <1>1, <1>2, <1>3, <1>6, <1>7, BeginsPut DEF EndsIn
<1> HIDE DEF a
<1>8. w # <<k>>
  <2>1. Begins(a, a)
    BY <1>5 DEF Begins, Agree
  <2>2. EndAt(a, k, v + 1) = Len(a) + 1
    BY <1>5, <1>7, <2>1
  <2>3. CASE w = <<k>>
    <3>1. Len(w) = 1
      BY <2>3
    <3>2. Len(a) = v + 1
      BY <1>5, <3>1
    <3>3. v + 1 \in Places(a) /\ Len(a) + 1 # 0
      BY <1>1, <3>2 DEF Places
    <3>4. Len(a) + 1 \in (v + 1 + 2)..(Len(a) + 1)
      BY <1>5, <1>6, <2>2, <3>3, ItemsBegin
    <3> QED BY <1>1, <3>2, <3>4
  <2> QED BY <2>3
<1>9. OutPast(s, p, v, w, m.out)
  BY <1>2, <1>4, <1>8, OutPastIs
<1>10. Put(s, p, m.out) = a
  BY <1>9 DEF OutPast, a
<1>11. EndsIn(T, a, k, p)
  <2>1. ASSUME NEW x \in Seq(T), Begins(a, x) PROVE EndAt(x, k, p) = Len(a) + 1
    <3>1. EndAt(x, k, v + 1) = Len(a) + 1 /\ Agree(x, s, 1, v)
      BY <1>7, <2>1 DEF IsBegun
    <3>2. Agree(x, s, 1, v - 1) /\ Has(x, v, Comma)
      <4>1. v \in 1..v /\ \A i \in 1..(v - 1) : i \in 1..v
        BY <1>1
      <4>2. Agree(x, s, 1, v - 1)
        BY <3>1, <4>1 DEF Agree
      <4>3. v <= Len(x) /\ x[v] = s[v] /\ v \in Places(x) /\ v + 1 \in Places(x)
        BY <3>1, <4>1, Reached
      <4> QED BY <4>2, <4>3 DEF Has
    <3>3. Len(a) + 1 # 0
      BY <1>5
    <3> QED BY <3>1, <3>2, <3>3 DEF Continues
  <2> QED BY <2>1 DEF EndsIn
<1> QED BY <1>3, <1>10, <1>11 DEF ReadCut

LEMMA PastItems ==
  ASSUME NEW T, NEW s \in Seq(T), NEW k, NEW p \in 1..Len(s), NEW v \in (p + 1)..Len(s), s[v] = Comma,
         NEW rest \in [out: Seq(T), pos: Nat], NEW m, OutIs(T, SubSeq(s, p, v - 1), k, rest.out, m.out),
         NEW c \in Nat, v < c, ReadPast(s, c, v + 1, rest)
  PROVE  ReadPast(s, c, p, m)
<1> DEFINE w == rest.out
           a == Put(s, v + 1, w)
<1>1. Len(s) \in Nat /\ v \in 0..Len(s) /\ v + 1 \in 1..(Len(s) + 1) /\ v \in Nat
  BY LenProperties
<1>2. w \in Seq(T) /\ OutIs(T, SubSeq(s, p, v - 1), k, w, m.out)
  OBVIOUS
<1>3. c < Len(s) /\ Agree(a, s, 1, c + 1)
  BY DEF ReadPast
<1> HIDE DEF w
<1>4. Len(a) = v + Len(w)
  BY <1>1, <1>2, PutLen
<1> HIDE DEF a
<1>5. w # <<k>>
  <2>1. c + 1 <= Len(a)
    <3>1. c + 1 \in 1..(c + 1)
      OBVIOUS
    <3> QED BY <1>3, <3>1 DEF Agree
  <2>2. ASSUME Len(w) = 1 PROVE FALSE
    <3>1. Len(a) = v + 1
      BY <1>4, <2>2
    <3> QED BY <1>1, <2>1, <3>1
  <2> QED BY <2>2
<1>6. OutPast(s, p, v, w, m.out)
  BY <1>2, <1>5, OutPastIs
<1>7. Put(s, p, m.out) = a
  BY <1>6 DEF OutPast, a
<1> QED BY <1>3, <1>7 DEF ReadPast

LEMMA WholeItems ==
  ASSUME NEW T, NEW s \in Seq(T), NEW k, NEW p \in 1..Len(s), NEW v \in (p + 1)..Len(s), s[v] = Comma,
         NEW rest \in [out: Seq(T), pos: Nat], NEW m, m.pos = rest.pos, OutIs(T, SubSeq(s, p, v - 1), k, rest.out, m.out),
         NEW e \in (v + 3)..(Len(s) + 1), ReadWhole(s, v + 1, e, rest)
  PROVE  ReadWhole(s, p, e, m)
<1> DEFINE w == rest.out
<1>1. PICK q : q = e - 1
  OBVIOUS
<1>2. Len(s) \in Nat /\ v + 1 \in 1..(Len(s) + 1) /\ q \in (v + 1 - 1)..Len(s) /\ q \in v..Len(s) /\ p \in 1..(Len(s) + 1) /\ v \in (p - 1)..Len(s)
  BY <1>1, LenProperties
<1>3. w = SubSeq(s, v + 1, q) /\ m.pos = e /\ w \in Seq(T) /\ OutIs(T, SubSeq(s, p, v - 1), k, w, m.out)
  BY <1>1 DEF ReadWhole
<1> HIDE DEF w
<1>4. w # <<k>>
  <2>1. Len(w) = q + 1 - (v + 1)
    BY <1>2, <1>3, PartIs DEF IsPart
  <2>2. Len(w) # 1
    BY <1>1, <1>2, <2>1
  <2> QED BY <2>2
<1>5. OutPast(s, p, v, w, m.out)
  BY <1>3, <1>4, OutPastIs
<1>6. SubSeq(s, p, v) \o SubSeq(s, v + 1, q) = SubSeq(s, p, q)
  BY <1>2, ConcatAdjacentSubSeq
<1>7. m.out = SubSeq(s, p, q)
  BY <1>3, <1>5, <1>6 DEF OutPast
<1> QED BY <1>1, <1>3, <1>7 DEF ReadWhole

\* Items whose first value ends at v by c + 1.
LEMMA WholeValueRead ==
  ASSUME NEW T, Added \subseteq T, NEW s \in Seq(T), NEW r \in Seq(T), NEW c, Meets(s, r, c), NEW k \in Brackets, NEW p \in 1..c,
         NEW m, NEW rest, ItemsShape(T, s, k, p, m, rest), NEW f, HeadIs(T, s, k, p, f), ItemValue(r, k, p) = f,
         NEW v \in (f + 1)..Len(r), v <= c + 1, EndAt(r, "value", f) = v, ReadWhole(s, f, v, ValueAt(s, k, p)),
         NEW e, e # 0, (r[v] = Comma /\ EndAt(r, k, v + 1) = e) \/ (r[v] = k /\ e = v + 1),
         v <= c => IsRead(T, s, r, c, k, v + 1)
  PROVE  Read(T, s, c, k, p, e, m)
<1> DEFINE i == ItemOut(s, k, p)
           w == ValueAt(s, k, p).out
<1>1. /\ c \in Nat /\ Len(s) \in Nat /\ Len(r) \in Nat /\ c <= Len(s) /\ c < Len(r)
      /\ \A j \in 1..c : j <= Len(s) /\ j <= Len(r) /\ s[j] = r[j]
      /\ \A j \in 1..Len(r) : j <= Len(s) /\ j <= c + 1 /\ r[j] # "\\" => j <= c /\ s[j] = r[j]
  BY MeetsAt
<1>2. /\ p \in 1..Len(s) /\ p \in 1..(Len(s) + 1) /\ p \in Places(r) /\ f \in p..(Len(s) + 1) /\ f \in Nat /\ f # 0
      /\ v \in (p + 1)..(Len(s) + 1) /\ v \in (p + 1)..(c + 1) /\ v # 0 /\ v \in 1..Len(r)
  BY <1>1 DEF HeadIs, Places
<1>3. /\ k # "value" /\ k # Comma /\ k # "\\" /\ Comma # "\\"
  BY Distinct DEF Brackets, OtherBytes
<1>4. RestIs(s, k, ValueAt(s, k, p), rest) /\ rest \in [out: Seq(T), pos: Nat] /\ m.pos = rest.pos /\ OutIs(T, i, k, rest.out, m.out)
  BY DEF ItemsShape
<1>5. w = SubSeq(s, f, v - 1) /\ ValueAt(s, k, p).pos = v
  BY DEF ReadWhole
<1>6. w # <<>> /\ i = SubSeq(s, p, v - 1)
  <2>1. PICK a, b : a = f - 1 /\ b = v - 1
    OBVIOUS
  <2>2. a + 1 = f /\ a \in (p - 1)..Len(s) /\ b \in a..Len(s) /\ b \in (f - 1)..Len(s) /\ f \in 1..(Len(s) + 1)
    BY <1>1, <1>2, <2>1
  <2>3. Len(SubSeq(s, f, b)) = b + 1 - f
    BY <2>2, PartIs DEF IsPart
  <2>4. w # <<>>
    <3>1. b + 1 - f > 0
      BY <1>1, <1>2, <2>1
    <3>2. w = SubSeq(s, f, b)
      BY <1>5, <2>1
    <3> HIDE DEF w
    <3>3. Len(w) = b + 1 - f
      BY <2>3, <3>2
    <3>4. Len(w) # 0
      BY <3>1, <3>3
    <3> QED BY <3>4, EmptySeq
  <2>5. SubSeq(s, p, a) \o SubSeq(s, a + 1, b) = SubSeq(s, p, b)
    BY <1>2, <2>2, ConcatAdjacentSubSeq
  <2>6. ItemOutIs(s, k, p, f, i, w)
    BY <1>2, ItemOutIsSo
  <2>7. i = SubSeq(s, p, f - 1) \o w
    BY <2>4, <2>6 DEF ItemOutIs
  <2> HIDE DEF i, w
  <2> QED BY <1>5, <2>1, <2>2, <2>4, <2>5, <2>7
<1>7. Continues(T, s, k, p, v)
  <2>1. ASSUME NEW x \in Seq(T), Agree(x, s, 1, v - 1), Has(x, v, Comma) \/ Has(x, v, k)
        PROVE  ItemValue(x, k, p) = f /\ EndAt(x, "value", f) = v /\ p \in Places(x)
    <3>1. Agree(x, r, p, v - 1)
      <4>1. PICK a : a = v - 1
        OBVIOUS
      <4>2. a \in Int /\ a <= c /\ p \in Int /\ p >= 1 /\ c \in Int
        BY <1>1, <1>2, <4>1
      <4>3. Agree(x, s, 1, a) /\ Agree(s, r, 1, c)
        BY <2>1, <4>1 DEF Meets
      <4> QED BY <4>1, <4>2, <4>3, AgreeOn
    <3> QED BY <1>2, <2>1, <3>1, ItemAgrees
  <2>0. f # 0 /\ v # 0
    BY <1>2
  <2>2. ASSUME NEW x \in Seq(T), Agree(x, s, 1, v - 1), Has(x, v, k) PROVE EndAt(x, k, p) = v + 1
    BY <2>0, <2>1, <2>2, ItemEnds
  <2>3. ASSUME NEW x \in Seq(T), Agree(x, s, 1, v - 1), NEW y, y # 0, Has(x, v, Comma), EndAt(x, k, v + 1) = y
        PROVE  EndAt(x, k, p) = y
    BY <2>0, <2>1, <2>3, ItemEnds
  <2> QED BY <2>2, <2>3 DEF Continues
<1>8. OutIs(T, SubSeq(s, p, v - 1), k, rest.out, m.out)
  BY <1>4, <1>6
<1> DEFINE va == ValueAt(s, k, p)
<1>9. RestIs(s, k, va, rest) /\ va.out # <<>> /\ va.pos = v
  BY <1>4, <1>5, <1>6
<1> HIDE DEF i, va
<1>10. CASE v = c + 1
  <2>1. c = Len(s) /\ v = Len(s) + 1 /\ v - 1 = c
    <3>1. r[v] # "\\"
      BY <1>3
    <3>2. ~(v <= Len(s))
      BY <1>1, <1>2, <1>10, <3>1
    <3>3. c = Len(s)
      BY <1>1, <1>10, <3>2
    <3> QED BY <1>10, <3>3, <1>1
  <2>2. rest = Made(<<k>>, v)
    <3>1. \A b : ~Has(s, v, b)
      BY <1>1, <2>1 DEF Has
    <3> QED BY <1>9, <3>1 DEF RestIs
  <2>3. rest.out = <<k>> /\ rest.pos = v
    BY <2>2 DEF Made
  <2>4. m.out = SubSeq(s, p, v - 1) \o <<k>> /\ m.pos = Len(s) + 1
    <3>1. m.out = SubSeq(s, p, v - 1) \o <<k>>
      BY <1>8, <2>3 DEF OutIs
    <3> QED BY <1>4, <2>1, <2>3, <3>1
  <2>5. Frag(s, v)
    <3>1. \A j \in v..Len(s) : FALSE
      BY <1>1, <2>1
    <3> QED BY <3>1 DEF Frag
  <2>6. ReadCut(T, s, Len(s), k, p, m)
    BY <1>2, <1>7, <2>4, <2>5, ClosedItems
  <2>7. e > c + 1
    <3>1. CASE r[v] = k /\ e = v + 1
      BY <1>1, <1>10, <3>1
    <3>2. CASE EndAt(r, k, v + 1) = e
      <4>1. v + 1 \in Places(r)
        BY <1>1, <1>2 DEF Places
      <4>2. e \in (v + 1 + 2)..(Len(r) + 1)
        BY <3>2, <4>1, ItemsBegin
      <4> QED BY <1>1, <1>10, <4>2
    <3> QED BY <3>1, <3>2
  <2> QED BY <2>1, <2>6, <2>7 DEF Read
<1>11. CASE v <= c /\ r[v] = k /\ e = v + 1
  <2>1. Has(s, v, k) /\ ~Has(s, v, Comma) /\ s[v] = k /\ v \in p..Len(s) /\ e <= c + 1
    BY <1>1, <1>2, <1>3, <1>11 DEF Has
  <2>2. rest = Made(<<k>>, v + 1)
    BY <1>9, <2>1 DEF RestIs
  <2>3. rest.out = <<k>> /\ rest.pos = e
    BY <1>11, <2>2 DEF Made
  <2>4. m.out = SubSeq(s, p, v - 1) \o <<k>>
    BY <1>8, <2>3 DEF OutIs
  <2>5. SubSeq(s, p, v - 1) \o <<s[v]>> = SubSeq(s, p, v)
    BY <1>2, <2>1, PartThen
  <2>6. m.out = SubSeq(s, p, v) /\ m.pos = e
    BY <1>4, <2>1, <2>3, <2>4, <2>5
  <2>7. e - 1 = v
    BY <1>2, <1>11
  <2>8. ReadWhole(s, p, e, m)
    BY <2>6, <2>7 DEF ReadWhole
  <2> QED BY <2>1, <2>8 DEF Read
<1>12. CASE v <= c /\ r[v] = Comma /\ EndAt(r, k, v + 1) = e
  <2>1. Has(s, v, Comma) /\ s[v] = Comma /\ v \in (p + 1)..Len(s) /\ v + 1 \in Places(r)
    BY <1>1, <1>2, <1>12 DEF Has, Places
  <2>2. rest = ParseAt(s, k, v + 1)
    BY <1>9, <2>1 DEF RestIs
  <2>3. e \in (v + 1 + 2)..(Len(r) + 1) /\ r[v + 1] # "\\"
    BY <1>12, <2>1, ItemsBegin
  <2>4. Read(T, s, c, k, v + 1, e, rest)
    BY <1>3, <1>12, <2>2 DEF IsRead
  <2>5. CASE e <= c + 1 /\ ReadWhole(s, v + 1, e, rest)
    <3>1. e \in (v + 3)..(Len(s) + 1)
      BY <1>1, <1>2, <2>3, <2>5
    <3>2. ReadWhole(s, p, e, m)
      BY <1>2, <1>4, <1>8, <2>1, <2>5, <3>1, WholeItems
    <3> QED BY <2>5, <3>2 DEF Read
  <2>6. CASE e > c + 1 /\ ReadNone(s, c, v + 1, <<k>>, rest)
    <3>1. c = Len(s) /\ rest.out = <<k>> /\ rest.pos = c + 1 /\ Frag(s, v + 1)
      BY <2>6 DEF ReadNone
    <3>2. m.out = SubSeq(s, p, v - 1) \o <<k>> /\ m.pos = Len(s) + 1
      <4>1. m.out = SubSeq(s, p, v - 1) \o <<k>>
        BY <1>8, <3>1 DEF OutIs
      <4> QED BY <1>4, <3>1, <4>1
    <3>3. Frag(s, v)
      <4>1. ASSUME NEW j \in v..Len(s) PROVE s[j] \in Fragments
        <5>1. j = v \/ j \in (v + 1)..Len(s)
          BY <1>2
        <5> QED BY <2>1, <3>1, <5>1 DEF Frag, Fragments
      <4> QED BY <4>1 DEF Frag
    <3>4. ReadCut(T, s, Len(s), k, p, m)
      BY <1>2, <1>7, <3>2, <3>3, ClosedItems
    <3> QED BY <2>6, <3>1, <3>4 DEF Read
  <2>7. CASE e > c + 1 /\ ReadCut(T, s, c, k, v + 1, rest)
    <3>1. c = Len(s)
      BY <2>7 DEF ReadCut
    <3>2. ReadCut(T, s, Len(s), k, p, m)
      BY <1>2, <1>4, <1>7, <1>8, <2>1, <2>7, <3>1, CutItems
    <3> QED BY <2>7, <3>1, <3>2 DEF Read
  <2>8. CASE e > c + 1 /\ ReadPast(s, c, v + 1, rest)
    <3>1. c < Len(s)
      BY <2>8 DEF ReadPast
    <3>2. v < c
      <4>1. r[c + 1] = "\\"
        BY <3>1 DEF Meets
      <4>2. v # c
        BY <2>3, <4>1
      <4> QED BY <1>1, <1>2, <1>12, <4>2
    <3>3. ReadPast(s, c, p, m)
      BY <1>1, <1>2, <1>4, <1>8, <2>1, <2>8, <3>2, PastItems
    <3> QED BY <2>8, <3>3 DEF Read
  <2> QED BY <1>3, <2>4, <2>5, <2>6, <2>7, <2>8 DEF Read
<1>13. v = c + 1 \/ v <= c
  BY <1>1, <1>2
<1> QED BY <1>10, <1>11, <1>12, <1>13

Starts(T, g, x) == \E y \in Seq(T) : x = g \o y

LEMMA StartsMore ==
  ASSUME NEW T, NEW g \in Seq(T), NEW x, Starts(T, g, x), NEW u \in Seq(T)
  PROVE  Starts(T, g, x \o u)
<1>1. PICK y \in Seq(T) : x = g \o y
  BY DEF Starts
<1>2. Assoc(g, y, u)
  BY AssocIs
<1> DEFINE z == y \o u
<1>3. x \o u = g \o z
  BY <1>1, <1>2 DEF Assoc
<1>4. z \in Seq(T)
  OBVIOUS
<1> HIDE DEF z
<1> QED BY <1>3, <1>4 DEF Starts

LEMMA PastKeyRead ==
  ASSUME NEW T, Added \subseteq T, NEW s \in Seq(T), NEW k \in Brackets, NEW p \in 1..Len(s),
         NEW m, NEW rest, ItemsShape(T, s, k, p, m, rest), NEW c \in Nat, NEW j \in p..Len(s), c < j,
         keyAt(s, k, p).out = SubSeq(s, p, j) \o <<Quote>>
  PROVE  ReadPast(s, c, p, m)
<1> DEFINE key == keyAt(s, k, p).out
           g == SubSeq(s, p, j)
           w == ValueAt(s, k, p).out
           n == IF w = <<>> THEN <<"null">> ELSE w
           colon == <<":">>
           end == <<Quote>>
<1>1. Len(s) \in Nat /\ p \in 1..(Len(s) + 1) /\ j \in (p - 1)..Len(s)
  BY LenProperties
<1>2. IsPart(T, s, p, j, g)
  BY <1>1, PartIs
<1>3. ":" \in T /\ "null" \in T /\ Quote \in T
  BY DEF Added
<1>4. w \in Seq(T)
  BY <1>1, ValueAtMade DEF IsMade
<1>5. PICK u \in Seq(T) : m.out = ItemOut(s, k, p) \o u
  BY DEF ItemsShape, OutIs
<1>6. colon \in Seq(T) /\ end \in Seq(T) /\ g \in Seq(T) /\ n \in Seq(T) /\ Len(end) = 1
  <2>1. <<"null">> \in Seq(T)
    BY <1>3
  <2> HIDE DEF w, g
  <2> QED BY <1>2, <1>3, <1>4, <2>1 DEF IsPart
<1>7. key = g \o end
  OBVIOUS
<1>8. ItemOut(s, k, p) = item(key, w)
  BY DEF ItemOut
<1> HIDE DEF key, w, g, end
<1>9. key # <<>>
  <2>1. IsJoined(T, g, end, key)
    BY <1>6, <1>7, JoinedIs
  <2>2. Len(g) \in Nat
    BY <1>6, LenProperties
  <2>3. Len(key) # 0
    BY <1>6, <2>1, <2>2 DEF IsJoined
  <2> QED BY <2>3, EmptySeq
<1>10. item(key, w) = (key \o colon) \o n
  BY <1>9 DEF item
<1> HIDE DEF n, colon
<1>11. Starts(T, g, key)
  BY <1>6, <1>7 DEF Starts
<1>12. Starts(T, g, key \o colon)
  BY <1>6, <1>11, StartsMore
<1>13. Starts(T, g, (key \o colon) \o n)
  BY <1>6, <1>12, StartsMore
<1>14. Starts(T, g, ((key \o colon) \o n) \o u)
  BY <1>6, <1>13, StartsMore
<1>15. PICK y \in Seq(T) : m.out = SubSeq(s, p, j) \o y
  BY <1>5, <1>8, <1>10, <1>14 DEF Starts, g
<1> QED BY <1>1, <1>15, ReadBeyond

LEMMA HeadIsSo ==
  ASSUME NEW T, Added \subseteq T, NEW s \in Seq(T), NEW r \in Seq(T), NEW c, Meets(s, r, c), NEW k \in Brackets, NEW p \in 1..c,
         NEW f, f # 0, ItemValue(r, k, p) = f, f <= c + 1
  PROVE  HeadIs(T, s, k, p, f)
<1>1. c \in Nat /\ Len(s) \in Nat /\ Len(r) \in Nat /\ c <= Len(s) /\ c < Len(r)
  BY MeetsAt
<1>2. p \in Places(r) /\ p \in 1..Len(s) /\ f \in p..(Len(s) + 1) /\ f \in p..(c + 1)
  <2>1. p \in Places(r) /\ p \in 1..Len(s) /\ p \in Int
    BY <1>1 DEF Places
  <2>2. f \in p..(Len(r) + 1)
    BY <2>1, ItemValueIs, PartsAre DEF PartNames
  <2> QED BY <1>1, <2>1, <2>2
<1>3. ASSUME NEW x \in Seq(T), Agree(x, s, 1, f - 1) PROVE ItemValue(x, k, p) = f
  <2>1. PICK a : a = f - 1
    OBVIOUS
  <2>2. a \in Int /\ a <= c /\ c \in Int /\ p \in Int /\ p >= 1
    BY <1>1, <1>2, <2>1
  <2>3. Agree(x, s, 1, a) /\ Agree(s, r, 1, c)
    BY <1>3, <2>1 DEF Meets
  <2>4. Agree(x, r, p, f - 1)
    BY <2>1, <2>2, <2>3, AgreeOn
  <2> QED BY <1>2, <2>4, ItemStays
<1>4. CASE k = "]"
  <2>1. f = p
    BY <1>4 DEF ItemValue
  <2>2. HasValue(s, k, p) /\ FromPlace(s, k, p) = p
    BY <1>4 DEF HasValue, FromPlace
  <2> QED BY <1>2, <1>3, <1>4, <2>1, <2>2 DEF HeadIs
<1>5. CASE k # "]"
  <2>1. k = CloseBrace
    BY <1>5 DEF Brackets
  <2>2. KeyRead(T, s, c, k, p, f, keyAt(s, k, p))
    BY <2>1, KeyIsRead
  <2>3. ~(f > c + 1)
    BY <1>1, <1>2
  <2>4. /\ HasValue(s, k, p) /\ FromPlace(s, k, p) = f /\ keyAt(s, k, p).out # <<>>
        /\ keyAt(s, k, p).out \o <<":">> = SubSeq(s, p, f - 1)
    BY <2>2, <2>3 DEF KeyRead
  <2> QED BY <1>2, <1>3, <2>1, <2>4 DEF HeadIs
<1> QED BY <1>4, <1>5

\* Items are read when the values in them and the later ones are.
LEMMA ItemsAreRead ==
  ASSUME NEW T, Added \subseteq T, NEW s \in Seq(T), NEW r \in Seq(T), NEW c, Meets(s, r, c), NEW k \in Brackets, NEW p \in 1..(c + 1),
         \A q \in p..(c + 1) : IsRead(T, s, r, c, "value", q), \A q \in (p + 1)..(c + 1) : IsRead(T, s, r, c, k, q)
  PROVE  IsRead(T, s, r, c, k, p)
<1> SUFFICES ASSUME NEW e, e # 0, EndAt(r, k, p) = e PROVE Read(T, s, c, k, p, e, ParseAt(s, k, p))
  BY DEF IsRead
<1> DEFINE m == ParseAt(s, k, p)
           f == ItemValue(r, k, p)
           v == ValueOfItem(r, k, p)
<1>1. /\ c \in Nat /\ Len(s) \in Nat /\ Len(r) \in Nat /\ c <= Len(s) /\ c < Len(r)
      /\ \A i \in 1..c : i <= Len(s) /\ i <= Len(r) /\ s[i] = r[i]
  BY MeetsAt
<1>2. p \in 1..(Len(s) + 1) /\ p \in Places(r) /\ k # "value"
  BY <1>1, PartsAre DEF Places, PartNames
<1>3. ItemsAre(r, k, p, e) /\ ~Has(r, p, k) /\ r[p] # "\\" /\ e \in (p + 2)..(Len(r) + 1)
  BY <1>2, ItemsBegin
<1>4. CASE p > c
  <2>1. p = c + 1 /\ e > c + 1
    BY <1>1, <1>3, <1>4
  <2>2. c = Len(s)
    <3>1. ~(c < Len(s))
      BY <1>3, <2>1 DEF Meets
    <3> QED BY <1>1, <3>1
  <2>3. m = Made(<<k>>, p)
    BY <2>1, <2>2, ItemsNothing
  <2>4. Frag(s, p)
    <3>1. \A i \in p..Len(s) : FALSE
      BY <1>1, <2>1, <2>2
    <3> QED BY <3>1 DEF Frag
  <2> HIDE DEF m
  <2>5. m.out = <<k>> /\ m.pos = c + 1
    BY <2>1, <2>3 DEF Made
  <2>6. ReadNone(s, c, p, <<k>>, m)
    BY <2>2, <2>4, <2>5 DEF ReadNone
  <2> QED BY <1>2, <2>1, <2>6 DEF Read, m
<1>5. CASE p <= c
  <2>1. p \in 1..c /\ p \in 1..Len(s) /\ ~Has(s, p, k)
    <3>1. p <= Len(r) /\ s[p] = r[p] /\ p \in 1..c
      BY <1>1, <1>5
    <3> QED BY <1>1, <1>3, <3>1 DEF Has
  <2>2. PICK rest : ItemsShape(T, s, k, p, m, rest)
    BY <1>2, <2>1, ItemsShapeIs
  <2>3. /\ f \in p..(Len(r) + 1) /\ v \in (f + 1)..Len(r)
        /\ \/ r[v] = Comma /\ EndAt(r, k, v + 1) = e
           \/ r[v] = k /\ e = v + 1
    BY <1>3 DEF ItemsAre
  <2>4. f # 0 /\ v # 0 /\ v = EndAt(r, "value", f) /\ v <= Len(r) /\ v \in Int /\ f \in Int
    BY <1>1, <2>1, <2>3 DEF ValueOfItem
  <2> HIDE DEF m, v
  <2>5. ItemValue(r, k, p) = f
    OBVIOUS
  <2> HIDE DEF f
  <2>6. e > v
    <3>1. CASE EndAt(r, k, v + 1) = e
      <4>1. v + 1 \in Places(r)
        BY <1>1, <2>1, <2>3 DEF Places
      <4>2. e \in (v + 1 + 2)..(Len(r) + 1)
        BY <3>1, <4>1, ItemsBegin
      <4> QED BY <2>4, <4>2
    <3>2. CASE e = v + 1
      BY <2>4, <3>2
    <3> QED BY <2>3, <3>1, <3>2
  <2>7. CASE f <= c + 1
    <3>1. HeadIs(T, s, k, p, f)
      BY <2>1, <2>4, <2>5, <2>7, HeadIsSo
    <3>2. ValueAt(s, k, p) = ParseAt(s, "value", f)
      BY <3>1 DEF HeadIs, ValueAt
    <3>3. Parted(r, v)
      BY <2>3 DEF Parted
    <3>4. IsRead(T, s, r, c, "value", f)
      <4>1. f \in p..(c + 1)
        BY <1>1, <2>1, <2>3, <2>7
      <4> QED BY <4>1
    <3>5. Read(T, s, c, "value", f, v, ValueAt(s, k, p))
      BY <2>4, <3>2, <3>3, <3>4 DEF IsRead
    <3>6. CASE v <= c + 1 /\ ReadWhole(s, f, v, ValueAt(s, k, p))
      <4>1. v <= c => IsRead(T, s, r, c, k, v + 1)
        <5>1. v <= c => v + 1 \in (p + 1)..(c + 1)
          BY <1>1, <2>1, <2>3, <2>4
        <5> QED BY <5>1
      <4>2. Read(T, s, c, k, p, e, m)
        BY <2>1, <2>2, <2>3, <2>4, <2>5, <3>1, <3>6, <4>1, WholeValueRead
      <4> QED BY <4>2 DEF m
    <3>7. v > c + 1 => e > c + 1
      BY <1>1, <1>3, <2>4, <2>6
    <3>8. CASE v > c + 1 /\ ReadNone(s, c, f, <<>>, ValueAt(s, k, p))
      <4>1. c = Len(s) /\ ValueAt(s, k, p).out = <<>> /\ ValueAt(s, k, p).pos = Len(s) + 1 /\ Frag(s, f)
        BY <3>8 DEF ReadNone
      <4>2. ReadNone(s, Len(s), p, <<k>>, m) \/ ReadCut(T, s, Len(s), k, p, m)
        BY <2>1, <2>2, <3>1, <4>1, NoValueRead
      <4> QED BY <1>2, <3>7, <3>8, <4>1, <4>2 DEF Read, m
    <3>9. CASE v > c + 1 /\ ReadCut(T, s, c, "value", f, ValueAt(s, k, p))
      <4>1. c = Len(s)
        BY <3>9 DEF ReadCut
      <4>2. ReadCut(T, s, Len(s), k, p, m)
        BY <2>1, <2>2, <3>1, <3>9, <4>1, CutValueRead
      <4> QED BY <3>7, <3>9, <4>1, <4>2 DEF Read, m
    <3>10. CASE v > c + 1 /\ ReadPast(s, c, f, ValueAt(s, k, p))
      <4>1. ReadPast(s, c, p, m)
        BY <1>1, <2>1, <2>2, <2>7, <3>1, <3>10, PastValueRead
      <4> QED BY <3>7, <3>10, <4>1 DEF Read, m
    <3> QED BY <3>5, <3>6, <3>8, <3>9, <3>10 DEF Read
  <2>8. CASE f > c + 1
    <3>1. k = CloseBrace
      <4>1. k = "]" => f = p
        BY DEF f, ItemValue
      <4>2. f # p
        BY <1>1, <1>5, <2>8
      <4> QED BY <4>1, <4>2 DEF Brackets
    <3>2. KeyRead(T, s, c, k, p, f, keyAt(s, k, p))
      BY <2>1, <2>4, <2>5, <3>1, KeyIsRead
    <3>3. ~(f <= c + 1) /\ e > c + 1
      BY <1>1, <1>3, <2>3, <2>4, <2>6, <2>8
    <3>4. CASE /\ c = Len(s) /\ keyAt(s, k, p).pos = c + 1 /\ ~HasValue(s, k, p)
               /\ \E j \in p..c, u \in Seq(T) :
                    /\ keyAt(s, k, p).out = SubSeq(s, p, j) \o u /\ Closes(u) /\ Frag(s, j + 1)
                    /\ \A x \in Seq(T) : IsBegun(s, j, u, x) /\ Has(x, j + Len(u) + 1, ":") => ItemValue(x, k, p) = j + Len(u) + 2
      <4>1. PICK j \in p..c, u \in Seq(T) :
                    /\ keyAt(s, k, p).out = SubSeq(s, p, j) \o u /\ Closes(u) /\ Frag(s, j + 1)
                    /\ \A x \in Seq(T) : IsBegun(s, j, u, x) /\ Has(x, j + Len(u) + 1, ":") => ItemValue(x, k, p) = j + Len(u) + 2
        BY <3>4
      <4>2. KeyCut(T, s, k, p, j, u)
        BY <3>4, <4>1 DEF KeyCut
      <4>3. j \in p..Len(s)
        BY <3>4
      <4>4. ReadCut(T, s, Len(s), k, p, m)
        BY <2>1, <2>2, <4>2, <4>3, CutKeyRead
      <4> QED BY <3>3, <3>4, <4>4 DEF Read, m
    <3>5. CASE c < Len(s) /\ \E j \in (c + 1)..Len(s) : keyAt(s, k, p).out = SubSeq(s, p, j) \o <<Quote>>
      <4>1. PICK j \in (c + 1)..Len(s) : keyAt(s, k, p).out = SubSeq(s, p, j) \o <<Quote>>
        BY <3>5
      <4>2. j \in p..Len(s) /\ c < j
        BY <1>1, <2>1
      <4>3. ReadPast(s, c, p, m)
        BY <1>1, <2>1, <2>2, <4>1, <4>2, PastKeyRead
      <4> QED BY <3>3, <4>3 DEF Read, m
    <3> QED BY <3>2, <3>3, <3>4, <3>5 DEF KeyRead
  <2> QED BY <1>1, <2>4, <2>7, <2>8
<1> QED BY <1>1, <1>4, <1>5

\* All parts of a text are read.
LEMMA AllAreRead ==
  ASSUME NEW T, Added \subseteq T, NEW s \in Seq(T), NEW r \in Seq(T), NEW c, Meets(s, r, c),
         \A i \in 1..Len(r) : r[i] # "null"
  PROVE  \A p \in 1..(c + 1) : IsRead(T, s, r, c, "value", p)
<1> DEFINE AreRead(q) == \A j \in Parts : IsRead(T, s, r, c, j, q)
           S == {q \in 1..(c + 1) : AreRead(q)}
<1>1. c \in Nat /\ c + 1 \in Nat
  BY MeetsAt
<1>2. ASSUME NEW p \in 1..(c + 1), \A q \in (p + 1)..(c + 1) : q \in S PROVE p \in S
  <2>1. \A q \in (p + 1)..(c + 1) : AreRead(q)
    BY <1>2
  <2>2. p <= c => \A k \in Brackets : IsRead(T, s, r, c, k, p + 1)
    <3>1. p <= c => p + 1 \in (p + 1)..(c + 1)
      BY <1>1
    <3> QED BY <2>1, <3>1, PartsAre DEF PartNames
  <2>3. IsRead(T, s, r, c, "value", p)
    BY <2>2, ValueIsRead
  <2>4. \A q \in p..(c + 1) : IsRead(T, s, r, c, "value", q)
    <3>1. \A q \in p..(c + 1) : q = p \/ q \in (p + 1)..(c + 1)
      BY <1>1
    <3> QED BY <2>1, <2>3, <3>1, PartsAre DEF PartNames
  <2>5. ASSUME NEW k \in Brackets PROVE IsRead(T, s, r, c, k, p)
    <3>1. \A q \in (p + 1)..(c + 1) : IsRead(T, s, r, c, k, q)
      BY <2>1, PartsAre DEF PartNames
    <3> QED BY <2>4, <3>1, ItemsAreRead
  <2>6. AreRead(p)
    BY <2>3, <2>5, PartsAre DEF PartNames
  <2> HIDE DEF AreRead
  <2> QED BY <2>6
<1> HIDE DEF S
<1>3. \A p \in 1..(c + 1) : p \in S
  BY <1>1, <1>2, FromTheEnd
<1>4. \A p \in 1..(c + 1) : AreRead(p)
  BY <1>3 DEF S
<1> QED BY <1>4, PartsAre DEF PartNames

\* What is made of a text that the valid r goes on from c.
Completed(T, s, c) ==
  /\ complete(s) \in Seq(T)
  /\ c = Len(s) => Frag(s, 1) \/ (Follows(s, complete(s)) /\ Valid(complete(s)))
  /\ c < Len(s) => Agree(complete(s), s, 1, c + 1)

LEMMA WholeIsRead ==
  ASSUME NEW T, Added \subseteq T, NEW s \in Seq(T), NEW r \in Seq(T), NEW c, Meets(s, r, c),
         \A i \in 1..Len(r) : r[i] # "null", Valid(r)
  PROVE  Completed(T, s, c)
<1> DEFINE m == ParseAt(s, "value", 1)
           e == Len(r) + 1
<1>1. c \in Nat /\ Len(s) \in Nat /\ Len(r) \in Nat /\ c <= Len(s) /\ c < Len(r)
  BY MeetsAt
<1>2. e > c + 1 /\ 1 \in 1..(c + 1) /\ e # 0 /\ ~(e <= c + 1)
  BY <1>1
<1>3. EndAt(r, "value", 1) = e
  BY ValidIs
<1>4. Parted(r, e)
  BY <1>1 DEF Parted
<1> HIDE DEF e
<1>5. Read(T, s, c, "value", 1, e, m)
  <2>1. IsRead(T, s, r, c, "value", 1)
    BY <1>2, AllAreRead
  <2> QED BY <1>2, <1>3, <1>4, <2>1 DEF IsRead
<1>6. m.out = complete(s) /\ m.out \in Seq(T)
  <2>1. 1 \in 1..(Len(s) + 1)
    BY <1>1
  <2>2. IsMade(T, s, 1, m)
    BY <2>1, ParseSteps, PartsAre DEF PartNames
  <2> QED BY <2>2, CompleteIs DEF IsMade
<1> HIDE DEF m
<1> DEFINE a == m.out
<1>7. Put(s, 1, a) = a /\ a \in Seq(T) /\ a = complete(s)
  BY <1>6, PutFirst
<1>8. \/ c = Len(s) /\ Frag(s, 1)
      \/ c = Len(s) /\ Follows(s, a) /\ EndsIn(T, a, "value", 1)
      \/ c < Len(s) /\ Agree(a, s, 1, c + 1)
  <2>1. ReadNone(s, c, 1, <<>>, m) => c = Len(s) /\ Frag(s, 1)
    BY DEF ReadNone
  <2>2. ReadCut(T, s, c, "value", 1, m) => c = Len(s) /\ Follows(s, a) /\ EndsIn(T, a, "value", 1)
    BY <1>7 DEF ReadCut
  <2>3. ReadPast(s, c, 1, m) => c < Len(s) /\ Agree(a, s, 1, c + 1)
    BY <1>7 DEF ReadPast
  <2> QED BY <1>2, <1>5, <2>1, <2>2, <2>3 DEF Read
<1> HIDE DEF a
<1>9. EndsIn(T, a, "value", 1) => Valid(a)
  <2>1. Len(a) \in Nat
    BY <1>7, LenProperties
  <2>2. Begins(a, a) /\ Parted(a, Len(a) + 1)
    BY <2>1 DEF Begins, Agree, Parted
  <2>3. EndsIn(T, a, "value", 1) => EndAt(a, "value", 1) = Len(a) + 1
    BY <1>7, <2>2 DEF EndsIn
  <2> QED BY <2>3, ValidIs
<1>10. c = Len(s) => ~(c < Len(s))
  BY <1>1
<1> QED BY <1>7, <1>8, <1>9, <1>10 DEF Completed

\* A text whose completion is valid, though the document is to be mended, has
\* nothing to mend yet.
LEMMA ValidCompletionIsPlain ==
  ASSUME NEW T, Added \subseteq T, NEW s \in Seq(T), NEW d \in Seq(T), Begins(s, d),
         Valid(Repair(d)), \A i \in 1..Len(Repair(d)) : Repair(d)[i] # "null", Valid(complete(s))
  PROVE  Repair(s) = s
<1> DEFINE r == Repair(d)
           x == complete(s)
           b == FALSE
<1>1. {"\\", "n"} \subseteq T
  BY DEF Added
<1>2. 1 \in Places(s) /\ 1 \in Places(d) /\ Len(s) \in Nat /\ Len(d) \in Nat /\ b \in BOOLEAN
  BY LenProperties DEF Places
<1>3. r = Mended(d, 1, b) /\ r \in Seq(T) /\ Repair(s) = Mended(s, 1, b)
  BY <1>1, <1>2, MendSteps, RepairIs
<1>4. Intact(s, 1, b) => Repair(s) = s
  BY <1>1, IntactIsSame
<1>5. \A y : Repair(y) = Mended(y, 1, b)
  BY RepairIs
<1>7. Valid(r) /\ \A i \in 1..Len(r) : r[i] # "null"
  OBVIOUS
<1>8. Valid(x)
  OBVIOUS
<1>9. Repair(s) = Mended(s, 1, b)
  BY RepairIs
<1>10. Intact(s, 1, b) \/ \E c : Changes(T, s, 1, b, c)
  BY <1>1, <1>2, FirstChange
<1> HIDE DEF b
<1>6. ASSUME NEW c, Changes(T, s, 1, b, c) PROVE FALSE
  <2> DEFINE m == Mended(s, 1, b)
             y == Mended(x, 1, b)
  <2>1. c \in Nat /\ c < Len(s) /\ s[c + 1] \notin Escapable /\ c + 1 - 1 = c /\ c + 2 - 1 = c + 1
    BY <1>2, <1>6 DEF Changes
  <2>2. c + 1 \in 1..Len(s) /\ Agree(s, s, 1, c + 1)
    BY <1>2, <2>1 DEF Agree
  <2>3. m \in Seq(T) /\ Len(m) \in Nat
    BY <1>1, <1>2, MendSteps, LenProperties
  <2>4. c + 1 <= Len(m) /\ m[c + 1] = "\\"
    BY <1>6, <2>1, <2>2 DEF Changes
  <2>5. \A i \in 1..c : m[i] = s[i]
    <3>1. \A i \in 1..c : m[i + 1 - 1] = s[i]
      BY <1>6 DEF Changes, KeepsTo
    <3> HIDE DEF m
    <3> QED BY <2>1, <3>1
  <2>6. Begins(m, r)
    BY <1>1, <1>3, RepairGrows
  <2> HIDE DEF m, r
  <2>7. \A i \in 1..(c + 1) : i \in 1..Len(r) /\ r[i] = m[i]
    BY <2>1, <2>3, <2>4, <2>6 DEF Begins, Agree
  <2>8. Len(r) \in Nat
    BY <1>3, LenProperties
  <2>9. c + 1 \in 1..Len(r) /\ r[c + 1] = "\\"
    BY <2>1, <2>4, <2>7
  <2>10. Agree(s, r, 1, c)
    BY <1>2, <2>1, <2>5, <2>7 DEF Agree
  <2>11. Meets(s, r, c)
    BY <1>2, <2>1, <2>8, <2>9, <2>10 DEF Meets
  <2>12. Completed(T, s, c)
    BY <2>11, <1>3, <1>7, WholeIsRead
  <2>13. x \in Seq(T) /\ Agree(x, s, 1, c + 1)
    BY <2>1, <2>12 DEF Completed
  <2> HIDE DEF x
  <2>14. y[c + 1] = "\\"
    <3>1. Agree(s, x, 1, c + 1) /\ Agree(x, s, 1, c + 1)
      BY <2>13 DEF Agree
    <3> QED BY <1>6, <2>1, <2>13, <3>1 DEF Changes
  <2>15. y = x
    <3>1. Repair(x) = x
      BY <1>1, <1>8, <2>13, ValidIsKept
    <3> QED BY <1>5, <3>1
  <2>16. x[c + 1] = s[c + 1]
    BY <2>1, <2>13 DEF Agree
  <2>17. "\\" \in Escapable
    BY DEF Escapable
  <2> QED BY <2>1, <2>14, <2>15, <2>16, <2>17
<1> QED BY <1>4, <1>6, <1>10

\* The forms that ParsePartial tries, and the one it takes.
Forms(s) == <<s, Repair(s), complete(s), complete(Repair(s)), emptyObject>>

LEMMA FormTaken ==
  ASSUME NEW s, NEW k \in 1..4, Valid(Forms(s)[k])
  PROVE  \E i \in 1..k : Valid(Forms(s)[i]) /\ ParsePartial(s) = Forms(s)[i]
<1> DEFINE forms == Forms(s)
           valid == {i \in DOMAIN forms : \E form \in {forms[i]} : Valid(form)}
           i == CHOOSE i \in valid : \A j \in valid : i <= j
<1>1. ParsePartial(s) = forms[i]
  BY DEF ParsePartial, Forms
<1>2. DOMAIN forms = 1..5
  BY DEF Forms
<1>3. \A j : j \in valid <=> j \in 1..5 /\ Valid(forms[j])
  BY <1>2
<1> HIDE DEF valid, forms
<1>4. k \in valid
  BY <1>3 DEF forms
<1>5. \E j \in valid : \A n \in valid : j <= n
  <2>1. valid \subseteq 1..5
    BY <1>3
  <2>2. CASE 1 \in valid
    BY <2>1, <2>2
  <2>3. CASE 1 \notin valid /\ 2 \in valid
    BY <2>1, <2>3
  <2>4. CASE 1 \notin valid /\ 2 \notin valid /\ 3 \in valid
    BY <2>1, <2>4
  <2>5. CASE 1 \notin valid /\ 2 \notin valid /\ 3 \notin valid /\ 4 \in valid
    BY <2>1, <2>5
  <2>6. k = 1 \/ k = 2 \/ k = 3 \/ k = 4
    OBVIOUS
  <2> QED BY <1>4, <2>2, <2>3, <2>4, <2>5, <2>6
<1>6. i \in valid /\ i <= k
  BY <1>4, <1>5
<1> HIDE DEF i
<1>7. i \in 1..k /\ Valid(forms[i])
  BY <1>3, <1>6
<1> QED BY <1>1, <1>7 DEF forms

\* What ArgsFollowText says, byte by byte.
Shown(T, sent, args, whole) ==
  args \in Seq(T) /\ Follows(sent, args) /\ (whole => args = sent)

LEMMA ShownSame ==
  ASSUME NEW T, NEW sent \in Seq(T), NEW whole
  PROVE  Shown(T, sent, sent, whole)
<1>1. Len(sent) \in Nat
  BY LenProperties
<1> QED BY <1>1 DEF Shown, Follows, Frag

\* A document that is sent, and what is made of it.
LEMMA DocIs ==
  ASSUME NEW d \in Docs
  PROVE  /\ d \in Seq(JsonBytes \cup Added) /\ Len(d) >= 1 /\ d[1] = OpenBrace
         /\ Repair(d) \in Seq(JsonBytes \cup Added) /\ Valid(Repair(d))
         /\ \A i \in 1..Len(Repair(d)) : Repair(d)[i] # "null"
<1> DEFINE T == JsonBytes \cup Added
           r == Repair(d)
<1>1. d \in Seq(JsonBytes) /\ Has(d, 1, OpenBrace) /\ Valid(r)
  BY DocsAssumption
<1>2. {"\\", "n"} \subseteq JsonBytes
  BY DEF JsonBytes, Letters
<1>3. Len(d) \in Nat /\ 1 \in Places(d)
  BY <1>1, LenProperties DEF Places
<1> DEFINE b == FALSE
<1>4. b \in BOOLEAN
  OBVIOUS
<1>5. r = Mended(d, 1, b)
  BY RepairIs
<1> HIDE DEF b, r
<1>6. r \in Seq(JsonBytes)
  BY <1>1, <1>2, <1>3, <1>4, <1>5, MendSteps
<1>7. \A i \in 1..Len(r) : r[i] \in JsonBytes
  BY <1>6, ElementOfSeq
<1>8. "null" \notin JsonBytes
  <2>1. "null" \notin {Quote, Comma, OpenBrace, CloseBrace}
    BY Distinct DEF OtherBytes
  <2> QED BY <2>1 DEF JsonBytes, Digits, Letters
<1>9. Seq(JsonBytes) \subseteq Seq(T)
  OBVIOUS
<1> QED BY <1>1, <1>3, <1>6, <1>7, <1>8, <1>9 DEF Has, r

\* Wherever it is cut.
LEMMA CutIsShown ==
  ASSUME NEW d \in Docs, NEW g \in 1..Len(d)
  PROVE  LET text == SubSeq(d, 1, g)
         IN  Repair(text) \in Seq(JsonBytes \cup Added) /\ Shown(JsonBytes \cup Added, Repair(text), ParsePartial(text), g = Len(d))
<1> DEFINE T == JsonBytes \cup Added
           text == SubSeq(d, 1, g)
           sent == Repair(text)
           r == Repair(d)
           args == ParsePartial(text)
           whole == (g = Len(d))
           b == FALSE
<1>1. /\ d \in Seq(T) /\ Len(d) >= 1 /\ d[1] = OpenBrace
      /\ r \in Seq(T) /\ Valid(r) /\ \A i \in 1..Len(r) : r[i] # "null"
  BY DocIs
<1>2. {"\\", "n"} \subseteq T /\ Added \subseteq T
  BY DEF Added
<1> HIDE DEF T
<1>3. Len(d) \in Nat /\ Len(r) \in Nat
  BY <1>1, LenProperties
<1>4. text \in Seq(T) /\ Len(text) = g /\ \A i \in 1..g : text[i] = d[i]
  BY <1>1, <1>3, SubSeqProperties
<1>5. 1 \in Places(text) /\ text[1] = OpenBrace /\ ~(1 > Len(text))
  BY <1>1, <1>3, <1>4 DEF Places
<1>6. b \in BOOLEAN /\ ~b
  OBVIOUS
<1>7. sent = Mended(text, 1, b)
  BY RepairIs
<1>8. whole => text = d
  BY <1>1, <1>3, <1>4, SeqEqual
<1> HIDE DEF text, sent, r, b
<1>9. MendStep(text, 1, b) /\ sent \in Seq(T)
  BY <1>2, <1>4, <1>5, <1>6, <1>7, MendSteps
<1>10. Begins(sent, r)
  <2>1. Begins(text, d)
    BY <1>3, <1>4 DEF Begins, Agree
  <2> QED BY <1>1, <1>2, <1>4, <2>1, RepairGrows DEF sent, r
<1>11. Len(sent) \in Nat
  BY <1>9, LenProperties
<1>12. ~Frag(sent, 1)
  <2> DEFINE u == Mended(text, 1 + 1, b)
  <2>1. text[1] # Quote
    BY <1>5, Distinct
  <2>2. sent = <<text[1]>> \o u
    BY <1>5, <1>6, <1>7, <1>9, <2>1 DEF MendStep
  <2>3. 1 + 1 \in Places(text)
    BY <1>3, <1>4 DEF Places
  <2>4. u \in Seq(T)
    BY <1>2, <1>4, <1>6, <2>3, MendSteps
  <2> HIDE DEF u
  <2>5. Len(sent) >= 1 /\ sent[1] = OpenBrace
    BY <1>5, <2>2, <2>4
  <2>6. OpenBrace \notin Fragments
    BY Distinct DEF Fragments, OtherBytes
  <2> QED BY <1>11, <2>5, <2>6 DEF Frag
<1>13. Valid(text) => sent = text
  BY <1>2, <1>4, ValidIsKept DEF sent
<1>14. ASSUME Len(sent) = Len(r) PROVE Shown(T, sent, args, whole)
  <2>1. sent = r
    <3>1. \A i \in 1..Len(sent) : sent[i] = r[i]
      BY <1>10 DEF Begins, Agree
    <3> QED BY <1>1, <1>9, <1>14, <3>1, SeqEqual
  <2>2. Forms(text)[2] = sent /\ Forms(text)[1] = text
    BY DEF Forms, sent
  <2>3. PICK i \in 1..2 : Valid(Forms(text)[i]) /\ args = Forms(text)[i]
    BY <1>1, <2>1, <2>2, FormTaken
  <2>4. i = 1 \/ i = 2
    OBVIOUS
  <2>5. args = sent
    BY <1>13, <2>2, <2>3, <2>4
  <2> QED BY <1>9, <2>5, ShownSame
<1>15. ASSUME Len(sent) # Len(r) PROVE Shown(T, sent, args, whole)
  <2> DEFINE c == Len(sent)
             a == complete(sent)
  <2>1. c < Len(r) /\ c \in 0..Len(sent) /\ ~(c < Len(sent))
    <3>1. c > 0 => c <= Len(r)
      BY <1>10, <1>11 DEF Begins, Agree
    <3> QED BY <1>3, <1>11, <1>15, <3>1
  <2>2. Meets(sent, r, c)
    BY <1>10, <2>1 DEF Meets, Begins
  <2>3. Completed(T, sent, c)
    BY <1>1, <1>2, <1>9, <2>2, WholeIsRead
  <2>4. a \in Seq(T) /\ Follows(sent, a) /\ Valid(a)
    BY <1>12, <2>3 DEF Completed
  <2>5. ~whole
    BY <1>8, <1>15 DEF sent, r
  <2>6. Shown(T, sent, a, whole) /\ Shown(T, sent, sent, whole)
    BY <1>9, <2>4, <2>5, ShownSame DEF Shown
  <2>7. /\ Forms(text)[1] = text /\ Forms(text)[2] = sent
        /\ Forms(text)[3] = complete(text) /\ Forms(text)[4] = a
    BY DEF Forms, sent
  <2>8. Valid(complete(text)) => sent = text
    <3>1. Begins(text, d)
      BY <1>3, <1>4 DEF Begins, Agree
    <3> QED BY <1>1, <1>2, <1>4, <3>1, ValidCompletionIsPlain DEF sent, r
  <2> HIDE DEF a, whole
  <2>9. PICK i \in 1..4 : Valid(Forms(text)[i]) /\ args = Forms(text)[i]
    BY <2>4, <2>7, FormTaken
  <2>10. i = 1 \/ i = 2 \/ i = 3 \/ i = 4
    OBVIOUS
  <2>11. i = 3 => args = a
    BY <2>7, <2>8, <2>9 DEF a
  <2>12. args = sent \/ args = a
    BY <1>13, <2>7, <2>9, <2>10, <2>11
  <2> QED BY <2>6, <2>12
<1> QED BY <1>9, <1>14, <1>15 DEF T, text, sent

\* What is shown of a text, as ArgsFollowText says it.
AreFollowing(sent, args, whole) ==
  /\ \E k \in 0..Len(sent) :
       /\ k <= Len(args) /\ SubSeq(args, 1, k) = SubSeq(sent, 1, k)
       /\ \A i \in (k + 1)..Len(args) : args[i] \in Closers
       /\ \A i \in (k + 1)..Len(sent) : sent[i] \in Fragments
  /\ whole => args = sent

LEMMA ShownFollows ==
  ASSUME NEW T, NEW sent \in Seq(T), NEW args, NEW whole, Shown(T, sent, args, whole)
  PROVE  AreFollowing(sent, args, whole)
<1>1. args \in Seq(T) /\ (whole => args = sent)
  BY DEF Shown
<1>2. Len(sent) \in Nat /\ Len(args) \in Nat
  BY <1>1, LenProperties
<1>3. PICK k \in 0..Len(sent) :
        /\ k <= Len(args) /\ \A i \in 1..k : args[i] = sent[i]
        /\ \A i \in (k + 1)..Len(args) : args[i] \in Closers
        /\ Frag(sent, k + 1)
  BY DEF Shown, Follows
<1>4. SubSeq(args, 1, k) = SubSeq(sent, 1, k)
  <2>1. Agree(args, sent, 1, k)
    BY <1>2, <1>3 DEF Agree
  <2>2. 1 \in 1..(Len(args) + 1) /\ k \in (1 - 1)..Len(args) /\ k <= Len(sent)
    BY <1>2, <1>3
  <2> QED BY <1>1, <2>1, <2>2, SameParts
<1>5. \A i \in (k + 1)..Len(sent) : sent[i] \in Fragments
  BY <1>3 DEF Frag
<1> QED BY <1>1, <1>3, <1>4, <1>5 DEF AreFollowing

\* The arguments of a call that streams are, wherever they are cut, what has
\* arrived of them, closed with nothing made up but null, and at the end
\* exactly what was sent (ParsePartial, deltaBlock).
THEOREM ArgumentsFollowText == ArgsInit /\ [][ArgsNext]_argsVars => []ArgsFollowText
<1> DEFINE I == doc \in Docs /\ got \in 0..Len(doc)
<1>1. ArgsInit => I
  <2> SUFFICES ASSUME ArgsInit PROVE I
    OBVIOUS
  <2>1. doc \in Docs /\ got = 0
    BY DEF ArgsInit
  <2>2. Len(doc) \in Nat
    BY <2>1, DocIs, LenProperties
  <2> QED BY <2>1, <2>2
<1>2. I /\ [ArgsNext]_argsVars => I'
  <2> SUFFICES ASSUME I, [ArgsNext]_argsVars PROVE I'
    OBVIOUS
  <2>1. Len(doc) \in Nat
    BY DocIs, LenProperties
  <2>2. CASE Piece
    BY <2>1, <2>2 DEF Piece
  <2>3. CASE UNCHANGED argsVars
    BY <2>3 DEF argsVars
  <2> QED BY <2>2, <2>3 DEF ArgsNext
<1>3. I => ArgsFollowText
  <2> SUFFICES ASSUME I, got > 0 PROVE ArgsFollowText
    BY DEF ArgsFollowText
  <2> DEFINE text == SubSeq(doc, 1, got)
             T == JsonBytes \cup Added
  <2>1. Len(doc) \in Nat
    BY DocIs, LenProperties
  <2>2. doc \in Docs /\ got \in 1..Len(doc)
    BY <2>1
  <2>3. Repair(text) \in Seq(T) /\ Shown(T, Repair(text), ParsePartial(text), got = Len(doc))
    BY <2>2, CutIsShown
  <2> HIDE DEF text, T
  <2>4. AreFollowing(Repair(text), ParsePartial(text), got = Len(doc))
    BY <2>3, ShownFollows
  <2> QED BY <2>4 DEF ArgsFollowText, AreFollowing, text
<1> QED BY <1>1, <1>2, <1>3, PTL
=============================================================================
