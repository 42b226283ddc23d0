----------------------------- MODULE PartialJSON -----------------------------
(***************************************************************************)
(* The arguments of a tool call while they stream                          *)
(* (src/internal/ai/partialjson, with block_tracker.go): whatever has      *)
(* arrived of them is parsed, cut anywhere, and malformed as models do it. *)
(*                                                                         *)
(* A text is a sequence of bytes, of which there are: the structural ones; *)
(* "1", "-" and "." of numbers; "t" and "e", the literal true; and in      *)
(* strings the backslash, "n" and "u" that it may escape, the hex digit    *)
(* "h" (one of them makes a \u), "c" that it may not, and a raw control    *)
(* byte.  "null" is the one literal the parser makes up; white space is    *)
(* left out.                                                               *)
(***************************************************************************)
EXTENDS Integers, Sequences, FiniteSets

CONSTANT Docs   \* the arguments that may be sent, whole

VARIABLES doc,  \* the arguments of this call
          got   \* block.jsonBuf: how much of them has arrived

argsVars == <<doc, got>>

Quote == "\""
Comma == ","
OpenBrace == "{"
CloseBrace == "}"
Escapable == {Quote, "\\", "n", "u"}
Digits == {"1", "-", "."}
Letters == {"t", "e", "n", "u", "c", "h"}
JsonBytes == {Quote, Comma, OpenBrace, CloseBrace, "[", "]", ":", "\\", "ctl"} \cup Digits \cup Letters
emptyObject == <<OpenBrace, CloseBrace>>

Has(s, p, b) == p <= Len(s) /\ s[p] = b

\* The end of the run of bytes of B that begins at p.
RunEnd(s, p, B) == CHOOSE q \in p..(Len(s) + 1) :
                     /\ \A i \in p..(q - 1) : s[i] \in B
                     /\ q <= Len(s) => s[q] \notin B
----------------------------------------------------------------------------
\* A number of json: a sign or none, digits, and a point with digits or none.
IsNumber(s) ==
  \E a \in {0, 1}, b \in 1..Len(s) :
    /\ a = 1 => s[1] = "-"
    /\ a < b /\ \A i \in (a + 1)..b : s[i] = "1"
    /\ b = Len(s) \/ (s[b + 1] = "." /\ b + 1 < Len(s) /\ \A i \in (b + 2)..Len(s) : s[i] = "1")

\* json.Valid, by the ends of values: 0 where there is none.
Places(s) == 1..(Len(s) + 1)

\* The end of the string that goes on at q, given those from later places.
StringEndFrom(s, q, end) ==
  IF q > Len(s) \/ s[q] = "ctl" THEN 0
  ELSE IF s[q] = Quote THEN q + 1
  ELSE IF s[q] # "\\" THEN end[q + 1]
  ELSE IF Has(s, q + 1, "u") THEN IF Has(s, q + 2, "h") THEN end[q + 3] ELSE 0
  ELSE IF q < Len(s) /\ s[q + 1] \in Escapable THEN end[q + 2] ELSE 0

StringEnd(s, p) == LET end[q \in Places(s)] == StringEndFrom(s, q, end) IN end[p]

\* What is parsed: a value, or the items before a closing bracket.
Parts == {"value", "]", CloseBrace}
Closing(open) == IF open = OpenBrace THEN CloseBrace ELSE "]"

\* Where the value of the item at p is: in an object, behind a key.
ItemValue(s, k, p) ==
  LET q == IF Has(s, p, Quote) THEN StringEnd(s, p + 1) ELSE 0
  IN  IF k = "]" THEN p ELSE IF q # 0 /\ Has(s, q, ":") THEN q + 1 ELSE 0

ItemsEndFrom(s, k, p, end) ==
  LET from == ItemValue(s, k, p)
      q == IF from = 0 THEN 0 ELSE end[<<"value", from>>]
  IN  IF q = 0 THEN 0
      ELSE IF Has(s, q, Comma) THEN end[<<k, q + 1>>]
      ELSE IF Has(s, q, k) THEN q + 1 ELSE 0

ValueEndFrom(s, p, end) ==
  IF p > Len(s) THEN 0
  ELSE CASE s[p] = Quote -> StringEnd(s, p + 1)
         [] s[p] \in {OpenBrace, "["} -> IF Has(s, p + 1, Closing(s[p])) THEN p + 2
                                  ELSE end[<<Closing(s[p]), p + 1>>]
         [] s[p] = "null" -> p + 1
         [] s[p] = "t" -> IF Has(s, p + 1, "e") THEN p + 2 ELSE 0
         [] s[p] \in Digits -> LET q == RunEnd(s, p, Digits)
                               IN  IF IsNumber(SubSeq(s, p, q - 1)) THEN q ELSE 0
         [] OTHER -> 0

ValueEnd(s) ==
  LET end[at \in Parts \X Places(s)] ==
        IF at[1] = "value" THEN ValueEndFrom(s, at[2], end) ELSE ItemsEndFrom(s, at[1], at[2], end)
  IN  end[<<"value", 1>>]

Valid(s) == ValueEnd(s) = Len(s) + 1
----------------------------------------------------------------------------
\* Repair: inside strings, a control byte is escaped, and a backslash that
\* escapes nothing is a literal one, unless it is the last byte there is.
RepairFrom(s, p, inString, from) ==
  IF p > Len(s) THEN <<>>
  ELSE IF s[p] = Quote THEN <<Quote>> \o from[<<p + 1, ~inString>>]
  ELSE IF inString /\ s[p] = "ctl" THEN <<"\\", "n">> \o from[<<p + 1, TRUE>>]
  ELSE IF ~inString \/ s[p] # "\\" \/ p = Len(s) THEN <<s[p]>> \o from[<<p + 1, inString>>]
  ELSE IF s[p + 1] \in Escapable THEN <<"\\", s[p + 1]>> \o from[<<p + 2, TRUE>>]
  ELSE <<"\\", "\\">> \o from[<<p + 1, TRUE>>]

Repair(s) ==
  LET from[at \in Places(s) \X BOOLEAN] == RepairFrom(s, at[1], at[2], from)
  IN  from[<<1, FALSE>>]

\* Whether the end of the text cuts the escape at q.
Dangling(s, q) == q = Len(s) \/ (Has(s, q + 1, "u") /\ q + 2 > Len(s))

\* str: where the string that goes on at q is over: its closing quote, an
\* escape that is cut, or the end of the text.
strStopFrom(s, q, stop) ==
  IF q > Len(s) \/ s[q] = Quote THEN q
  ELSE IF s[q] # "\\" THEN stop[q + 1]
  ELSE IF Dangling(s, q) THEN q
  ELSE stop[IF s[q + 1] = "u" THEN q + 3 ELSE q + 2]

strStop(s, p) == LET stop[q \in Places(s)] == strStopFrom(s, q, stop) IN stop[p]

\* What a part of the parser makes, empty when it makes nothing, and where
\* it stops.
Made(out, pos) == [out |-> out, pos |-> pos]

str(s, p) == LET q == strStop(s, p + 1)
             IN  Made(SubSeq(s, p, q - 1) \o <<Quote>>, IF Has(s, q, Quote) THEN q + 1 ELSE Len(s) + 1)

literal(s, p) == LET q == RunEnd(s, p, Letters)
                     tok == SubSeq(s, p, q - 1)
                 IN  Made(IF tok \in {<<"t">>, <<"t", "e">>} THEN <<"t", "e">> ELSE <<>>, q)

\* Mutant: a number is taken as far as it goes.
number_Untrimmed(s, p) == LET q == RunEnd(s, p, Digits) IN Made(SubSeq(s, p, q - 1), q)

\* A number loses bytes at its end until it is one.
number(s, p) == LET q == RunEnd(s, p, Digits)
                    ends == {e \in p..(q - 1) : IsNumber(SubSeq(s, p, e))}
                IN  Made(IF ends = {} THEN <<>>
                         ELSE SubSeq(s, p, CHOOSE e \in ends : \A f \in ends : f <= e), q)

\* The key of the item at p, in an object, and its value.
keyAt(s, k, p) == IF k = CloseBrace /\ Has(s, p, Quote) THEN str(s, p) ELSE Made(<<>>, p)

valueOf(s, k, p, parse) ==
  LET key == keyAt(s, k, p)
  IN  IF k = "]" THEN parse[<<"value", p>>]
      ELSE IF key.out # <<>> /\ Has(s, key.pos, ":") THEN parse[<<"value", key.pos + 1>>]
      ELSE Made(<<>>, key.pos)

\* A key whose value is missing has null.
item(key, v) ==
  IF key = <<>> THEN v ELSE key \o <<":">> \o (IF v = <<>> THEN <<"null">> ELSE v)

\* What comes after an item: more of them if its value is whole and a comma
\* follows, or the closing bracket, made up when it is not there.
restAfter(s, k, v, parse) ==
  IF v.out # <<>> /\ Has(s, v.pos, Comma) THEN parse[<<k, v.pos + 1>>]
  ELSE Made(<<k>>, IF v.out # <<>> /\ Has(s, v.pos, k) THEN v.pos + 1 ELSE v.pos)

\* The loop that object and array share: items, until one is cut or
\* malformed, with a comma before those that follow one.
itemsFrom(s, k, p, parse) ==
  LET v == valueOf(s, k, p, parse)
      rest == restAfter(s, k, v, parse)
  IN  IF Has(s, p, k) THEN Made(<<k>>, p + 1)
      ELSE Made(item(keyAt(s, k, p).out, v.out) \o (IF rest.out = <<k>> THEN <<>> ELSE <<Comma>>) \o rest.out,
                rest.pos)

valueFrom(s, p, parse) ==
  IF p > Len(s) THEN Made(<<>>, p)
  ELSE CASE s[p] = Quote -> str(s, p)
         [] s[p] \in {OpenBrace, "["} -> LET m == parse[<<Closing(s[p]), p + 1>>] IN Made(<<s[p]>> \o m.out, m.pos)
         [] s[p] = "t" -> literal(s, p)
         [] s[p] \in Digits \ {"."} -> number(s, p)
         [] OTHER -> Made(<<>>, p)

complete(s) ==
  LET parse[at \in Parts \X Places(s)] ==
        IF at[1] = "value" THEN valueFrom(s, at[2], parse) ELSE itemsFrom(s, at[1], at[2], parse)
  IN  parse[<<"value", 1>>].out

\* As it is, repaired, completed, or repaired and completed, the first that
\* is valid.
ParsePartial(s) ==
  LET forms == <<s, Repair(s), complete(s), complete(Repair(s)), emptyObject>>
      valid == {i \in DOMAIN forms : \E form \in {forms[i]} : Valid(form)}
  IN  forms[CHOOSE i \in valid : \A j \in valid : i <= j]
----------------------------------------------------------------------------
\* What a model sends is an object, malformed in its strings at most, as the
\* ones that Repair is made for (repair.go:3).
ASSUME DocsAssumption ==
  \A d \in Docs : d \in Seq(JsonBytes) /\ Has(d, 1, OpenBrace) /\ Valid(Repair(d))

ArgsInit == doc \in Docs /\ got = 0

\* An input_json_delta, of any length: one byte stands for all of them.
Piece == /\ got < Len(doc)
         /\ got' = got + 1
         /\ UNCHANGED doc

ArgsNext == Piece
----------------------------------------------------------------------------
\* Bytes that may be missing at a cut, since they begin something that has
\* no value yet, and those that finish what is begun.
Fragments == {Comma, "-", ".", "\\", "u"}
Closers == {Quote, ":", "null", "e", CloseBrace, "]"}

\* Wherever a stream is cut, and though it has escapes and control bytes
\* that are to be repaired, the arguments that are shown, and run when the
\* answer ends there, are what has arrived, closed: nothing of it is given
\* up for an empty object (partial_json.go:14), nothing is made up but
\* null, and the whole of it is exactly what was sent.
ArgsFollowText ==
  LET text == SubSeq(doc, 1, got)
      sent == Repair(text)
  IN  got > 0 => \A args \in {ParsePartial(text)} :
        /\ \E k \in 0..Len(sent) :
             /\ k <= Len(args) /\ SubSeq(args, 1, k) = SubSeq(sent, 1, k)
             /\ \A i \in (k + 1)..Len(args) : args[i] \in Closers
             /\ \A i \in (k + 1)..Len(sent) : sent[i] \in Fragments
        /\ got = Len(doc) => args = sent
=============================================================================
