----------------------------- MODULE MCContext -----------------------------
\* What a turn works on, one part of it per behaviour: the history that a
\* request shows, what the agent has seen of a file, the arguments of a call
\* as they arrive, and the edits of a call.
EXTENDS Compaction, WorkingSet, PartialJSON, EditText

VARIABLE scene
allVars == <<scene, vars, setVars, argsVars, editVars>>

Str(x) == <<Quote>> \o x \o <<Quote>>
Pair(v) == Str(<<"n">>) \o <<":">> \o v
Objects(V) == {<<"{">> \o Pair(v) \o <<"}">> : v \in V}

\* Strings with escapes, good, bad and missing; numbers; arrays and objects.
Scalars == {Str(x) : x \in {<<>>, <<"c">>, <<"\\", "n">>, <<"\\", "u", "h">>, <<"\\", Quote>>,
                            <<"ctl">>, <<"\\", "c">>, <<"\\", "ctl">>, <<"{">>}}
           \cup {<<"1">>, <<"-", "1">>, <<"1", ".", "1">>, <<"t", "e">>}
Values == Scalars \cup {<<"[", "]">>, emptyObject} \cup Objects(Scalars)
          \cup {<<"[">> \o v \o <<"]">> : v \in Scalars}
          \cup {<<"[">> \o v \o <<",">> \o w \o <<"]">> : v, w \in Scalars}
MCDocs == {emptyObject} \cup Objects(Values)
          \cup {<<"{">> \o Pair(v) \o <<",">> \o Pair(w) \o <<"}">> : v \in Values, w \in Scalars}

\* Files with LF, with CR LF, and with both; newTexts that bring CR LF too.
TextsOf(A, m, n) == UNION {[1..k -> A] : k \in m..n}
LFTexts == TextsOf({"'", "smart", "sp", "nl"}, 0, 3)
Mixed == {<<"cr", "nl", "'", "nl">>, <<"smart", "nl", "sp", "cr", "nl">>, <<"'", "cr", "cr", "nl">>, <<"cr", "sp", "'">>}
MCFiles == LFTexts \cup {restoreLineFormat(s, TRUE) : s \in LFTexts} \cup Mixed
Olds == TextsOf({"'", "smart", "sp", "nl"}, 1, 2)
Replace(old, new) == [old |-> old, new |-> new]
MCEdits == {<<Replace(o, n)>> : o \in Olds, n \in {<<>>, <<"A", "nl">>, <<"A", "cr", "nl">>}}
           \cup {<<Replace(o, <<"A", "nl">>), Replace(p, <<>>)>> : o, p \in Olds}

MCInit == /\ scene \in {"history", "seen", "args", "edit"}
          /\ Init /\ SetInit
          /\ IF scene = "args" THEN ArgsInit ELSE doc = emptyObject /\ got = 0
          /\ IF scene = "edit" THEN EditInit ELSE file = <<>> /\ edits = <<>> /\ result = Failed
          /\ scene # "seen" => onDisk.text = 0

MCNext == \/ scene = "history" /\ Next /\ UNCHANGED <<scene, setVars, argsVars, editVars>>
          \/ scene = "seen" /\ SetNext /\ UNCHANGED <<scene, vars, argsVars, editVars>>
          \/ scene = "args" /\ ArgsNext /\ UNCHANGED <<scene, vars, setVars, editVars>>
          \/ scene = "edit" /\ EditNext /\ UNCHANGED <<scene, vars, setVars, argsVars>>

MCSpec == MCInit /\ [][MCNext]_allVars
=============================================================================
