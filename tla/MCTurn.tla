------------------------------- MODULE MCTurn -------------------------------
\* The parts of a turn that share no state, one of them per behaviour: the
\* model's answer streams, files are mutated in parallel, a shell command runs
\* (a batch with bash in it runs one call at a time, toolexec.go:26), or
\* goroutines write to the session's tree, which its mutex shares among them.
EXTENDS FileMutation, Jobs, ModelStream, SessionTree

CONSTANTS g1, g2
MCGoroutines == {g1, g2}

VARIABLE scene
allVars == <<scene, mutVars, jobVars, streamVars, vars>>

MCDisks == {[p \in Paths |-> IF p = "new" THEN Missing ELSE File(<<>>)]}

MCInit == /\ scene \in {"stream", "files", "shell", "tree"}
          /\ MutInit /\ JobInit /\ StreamInit /\ Init
          /\ scene # "shell" => cmd.kind = "foreground"

MCNext == \/ scene = "stream" /\ StreamNext /\ UNCHANGED <<scene, mutVars, jobVars, vars>>
          \/ scene = "files" /\ MutNext /\ UNCHANGED <<scene, jobVars, streamVars, vars>>
          \/ scene = "shell" /\ JobNext /\ UNCHANGED <<scene, mutVars, streamVars, vars>>
          \/ scene = "tree" /\ Next /\ UNCHANGED <<scene, mutVars, jobVars, streamVars>>

InStream(A) == scene = "stream" /\ A /\ UNCHANGED <<scene, mutVars, jobVars, vars>>
InShell(A) == scene = "shell" /\ A /\ UNCHANGED <<scene, mutVars, streamVars, vars>>

\* Go's goroutines, timers and pipes go on, and a request whose context has
\* ended fails; the server may be silent, a command need not end, nor a
\* process that left its group.
MCSpec == /\ MCInit /\ [][MCNext]_allVars
          /\ WF_allVars(InStream(Goroutine)) /\ WF_allVars(InStream(Loop))
          /\ WF_allVars(InStream(cancelled /\ HTTPFails))
          /\ WF_allVars(InShell(KillFires)) /\ WF_allVars(InShell(Write))
          /\ WF_allVars(InShell(Exits)) /\ WF_allVars(InShell(Result))
          /\ \A c \in Callers : WF_allVars(InShell(Killed(c)))
=============================================================================
