------------------------------ MODULE EditText ------------------------------
(***************************************************************************)
(* What the edit tool does to the text of a file (src/internal/tools,      *)
(* edit.go, editmatch.go): its edits are located, exactly or after both    *)
(* sides are normalized, and applied together.                             *)
(*                                                                         *)
(* A text is a sequence of characters: "'" and the typographic "smart"     *)
(* that is normalized to it, "sp", a space, "cr" and "nl", which end lines *)
(* together or "nl" alone; others stand for the text that an edit puts in. *)
(* A byte order mark, which is put back as it was, is left out.            *)
(***************************************************************************)
EXTENDS Integers, Sequences, SequencesExt

CONSTANTS Files,    \* texts of a file
          EditLists \* the edits of a call, each an oldText, not empty, and a newText

ASSUME TextsAssumption ==
  /\ Files \subseteq Seq(STRING)
  /\ EditLists \subseteq Seq([old : Seq(STRING), new : Seq(STRING)])

VARIABLES file,    \* the file
          edits,   \* those of the call
          result   \* what is written, or how the call went otherwise

editVars == <<file, edits, result>>

Failed == [ok |-> FALSE, text |-> <<>>]

\* strings.ReplaceAll, of one character.
Replaced(s, c, d) == [i \in DOMAIN s |-> IF s[i] = c THEN d ELSE s[i]]

\* stripLineFormat takes the "cr" of a CR LF out, and restoreLineFormat puts
\* one before every "nl".
CRLFAt(s, i) == s[i] = "cr" /\ i < Len(s) /\ s[i + 1] = "nl"
hadCRLF(s) == \E i \in DOMAIN s : CRLFAt(s, i)
stripLineFormat(s) == FlattenSeq([i \in DOMAIN s |-> IF CRLFAt(s, i) THEN <<>> ELSE <<s[i]>>])
restoreLineFormat(s, crlf) ==
  IF crlf THEN FlattenSeq([i \in DOMAIN s |-> IF s[i] = "nl" THEN <<"cr", "nl">> ELSE <<s[i]>>])
  ELSE s

\* A space that ends a line, or is followed by such spaces only.
Trailing(s, i) == \E j \in i..Len(s) : /\ \A k \in i..j : s[k] = "sp"
                                       /\ j = Len(s) \/ s[j + 1] = "nl"

\* normalizeForMatch.
normalizeForMatch(s) ==
  LET t == Replaced(s, "smart", "'")
  IN  FlattenSeq([i \in DOMAIN t |-> IF Trailing(t, i) THEN <<>> ELSE <<t[i]>>])
----------------------------------------------------------------------------
\* Where t occurs in s.
Occurs(s, t) == {i \in 1..(Len(s) - Len(t) + 1) : SubSeq(s, i, i + Len(t) - 1) = t}

First(S) == CHOOSE i \in S : \A j \in S : i <= j

\* strings.Count, of occurrences that do not overlap: 0, 1, or 2 for more.
Count(s, t) == LET at == Occurs(s, t)
               IN  IF at = {} THEN 0
                   ELSE IF \A i \in at : i = First(at) \/ i < First(at) + Len(t) THEN 1 ELSE 2

Span(s, t) == [start |-> First(Occurs(s, t)), end |-> First(Occurs(s, t)) + Len(t)]

\* matchEdits: where the edits are in the text they are made to, which is
\* the normalized one when any of them needs it.
matchEdits(content, es) ==
  LET counts == {Count(content, es[i].old) : i \in DOMAIN es}
      base == IF 0 \in counts THEN normalizeForMatch(content) ELSE content
      needle(i) == IF 0 \in counts THEN normalizeForMatch(es[i].old) ELSE es[i].old
      ok == /\ 2 \notin counts
            /\ \A i \in DOMAIN es : Count(base, needle(i)) = 1
  IN  [ok |-> ok, base |-> base,
       spans |-> IF ok THEN [i \in DOMAIN es |-> Span(base, needle(i))] ELSE <<>>]

validateOverlaps(spans) ==
  \A i, j \in DOMAIN spans : i < j => ~(spans[i].start < spans[j].end /\ spans[j].start < spans[i].end)

\* Mutant: the edits are applied from the front.
Before_Ascending(spans, i, j) == spans[i].start < spans[j].start \/ (spans[i].start = spans[j].start /\ i < j)

\* Whether edit i is applied before edit j: the one further back is.
Before(spans, i, j) == spans[i].start > spans[j].start \/ (spans[i].start = spans[j].start /\ i < j)

applyEdits(base, es, spans) ==
  LET after[done \in SUBSET DOMAIN spans] ==
        IF done = {} THEN base
        ELSE LET i == CHOOSE i \in done : \A j \in done \ {i} : Before(spans, j, i)
                 text == after[done \ {i}]
             IN  SubSeq(text, 1, spans[i].start - 1) \o es[i].new \o SubSeq(text, spans[i].end, Len(text))
  IN  after[DOMAIN spans]

EditInit == file \in Files /\ edits = <<>> /\ result = Failed

\* editTool.Execute, on what it has read.
Edit == /\ edits = <<>>
        /\ edits' \in EditLists
        /\ LET m == matchEdits(stripLineFormat(file), edits')
           IN  result' = IF m.ok /\ validateOverlaps(m.spans)
                         THEN [ok |-> TRUE,
                               text |-> restoreLineFormat(applyEdits(m.base, edits', m.spans), hadCRLF(file))]
                         ELSE Failed
        /\ UNCHANGED file

EditNext == Edit
----------------------------------------------------------------------------
\* What the edits of the call name, in the file's text or, where an oldText is
\* not in it as it is, in the normalized one, which is then rewritten whole
\* (edit.go:21).
Exact(content, es) == \A e \in DOMAIN es : Occurs(content, es[e].old) # {}
BaseOf(content, es) == IF Exact(content, es) THEN content ELSE normalizeForMatch(content)
Named(content, es) == IF Exact(content, es) THEN es
                      ELSE [e \in DOMAIN es |-> [es[e] EXCEPT !.old = normalizeForMatch(@)]]

\* The text with each of the edits made at its place, at once.
editedAt(s, es, place) ==
  LET here(i) == {e \in DOMAIN es : place[e] = i}
      inside(i) == \E e \in DOMAIN es : place[e] <= i /\ i < place[e] + Len(es[e].old)
  IN  FlattenSeq([i \in DOMAIN s |-> IF here(i) # {} THEN es[First(here(i))].new
                                     ELSE IF inside(i) THEN <<>> ELSE <<s[i]>>])

\* A place of its own in s for each edit.
PlacesIn(s, es) ==
  {place \in [DOMAIN es -> 1..(Len(s) + 1)] :
     /\ \A e \in DOMAIN es : place[e] \in Occurs(s, es[e].old)
     /\ \A e, f \in DOMAIN es : e # f => (place[e] + Len(es[e].old) <= place[f] \/ place[f] + Len(es[f].old) <= place[e])}

\* CR LF ends all lines of a text, or none.
OneLineEnd(s) == hadCRLF(s) => \A i \in DOMAIN s : s[i] = "nl" => i > 1 /\ s[i - 1] = "cr"

\* A call that succeeds has put each newText where its oldText was, all at
\* once, and left every other character alone (editmatch.go:113), and the line
\* ends too if the file has one kind of them: to match without them and to put
\* them back loses no byte of the file (edit.go:90), and what is written has
\* them as well.  Left aside are an oldText of spaces only, which is nothing
\* once it is normalized, and a newText that brings its own CR LF into a file
\* that has them.
EditsInPlace ==
  LET content == stripLineFormat(file)
      es == Named(content, edits)
      crlf == hadCRLF(file)
  IN  /\ result.ok
      /\ OneLineEnd(file)
      /\ \A e \in DOMAIN es : es[e].old # <<>> /\ ~(crlf /\ hadCRLF(es[e].new))
      => /\ file = restoreLineFormat(content, crlf)
         /\ LET base == BaseOf(content, edits)
            IN  \E place \in PlacesIn(base, es) : result.text = restoreLineFormat(editedAt(base, es, place), crlf)
=============================================================================
