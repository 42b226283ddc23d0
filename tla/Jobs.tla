-------------------------------- MODULE Jobs --------------------------------
(***************************************************************************)
(* A shell command of the bash tool (src/internal/tools, bash.go), in the  *)
(* foreground or as a background job with bash_output and kill_bash        *)
(* (job_table.go, bash_bg.go): its process group, its output in the        *)
(* accumulator's rolling tail and spill file (accumulator.go), and its end *)
(* by itself, by a kill, a timeout or an abort (procgroup_unix.go).        *)
(*                                                                         *)
(* Output is numbered pieces.  "group" stands for the shell and every      *)
(* process of its group; a descendant that left the group (setsid) keeps   *)
(* the pipes open and gets no signal.                                      *)
(***************************************************************************)
EXTENDS Integers, Sequences

CONSTANTS JobCalls,  \* calls of bash_output and kill_bash
          MaxShown,  \* MaxBytes: what one result shows
          MaxOut     \* bound: pieces of output

ASSUME JobAssumption == JobCalls \subseteq Nat \ {0} /\ MaxShown \in Nat \ {0}

VARIABLES cmd,     \* the command: foreground or background, its processes, its timeout
          printed, \* pieces written to the pipes
          acc,     \* the accumulator
          done,    \* Job.done, or exitCh of the foreground
          job,     \* the entry in the job table and its cursor
          jcall,   \* the calls, and KillAll
          shown    \* what bash_output returned, in the order of the reads; 0 is the truncation notice

jobVars == <<cmd, printed, acc, done, job, jcall, shown>>

MaxRolling == 2 * MaxShown
Shutdown == 0
Callers == JobCalls \cup {Shutdown}

JobInit == /\ cmd \in {[kind |-> k, group |-> "alive", away |-> "none", kill |-> "no", st |-> "runs"] :
                       k \in {"foreground", "background"}}
           /\ printed = 0
           /\ acc = [buf |-> <<>>, start |-> 0, total |-> 0, file |-> "none", disk |-> <<>>, err |-> FALSE]
           /\ done = FALSE
           /\ job = [st |-> "new", cursor |-> 0]
           /\ jcall = [c \in Callers |-> "none"]
           /\ shown = <<>>
----------------------------------------------------------------------------
\* The command prints, starts a process that leaves the group, and ends.
Writes == /\ cmd.group = "alive" \/ cmd.away = "alive"
          /\ printed < MaxOut
          /\ printed' = printed + 1
          /\ UNCHANGED <<cmd, acc, done, job, jcall, shown>>

Leave == /\ cmd.group = "alive" /\ cmd.away = "none"
         /\ cmd' = [cmd EXCEPT !.away = "alive"]
         /\ UNCHANGED <<printed, acc, done, job, jcall, shown>>

AwayEnds == /\ cmd.away = "alive"
            /\ cmd' = [cmd EXCEPT !.away = "gone"]
            /\ UNCHANGED <<printed, acc, done, job, jcall, shown>>

GroupEnds == /\ cmd.group = "alive"
             /\ cmd' = [cmd EXCEPT !.group = "dead"]
             /\ UNCHANGED <<printed, acc, done, job, jcall, shown>>

\* Mutant: SIGTERM only.
Terminated_TermOnly(c) == [c EXCEPT !.kill = IF @ = "no" THEN "fired" ELSE @]

\* terminateGroup: SIGTERM, which may be ignored, and SIGKILL in 2 s.
Terminated(c) == [c EXCEPT !.kill = IF @ = "no" THEN "armed" ELSE @]

\* The grace period is over.
KillFires == /\ cmd.kill = "armed"
             /\ cmd' = [cmd EXCEPT !.kill = "fired", !.group = IF done THEN @ ELSE "dead"]
             /\ UNCHANGED <<printed, acc, done, job, jcall, shown>>
----------------------------------------------------------------------------
\* What is left in memory of a buffer that outgrew its limit.
Rolled(buf) == IF Len(buf) > MaxRolling THEN SubSeq(buf, Len(buf) - MaxRolling + 1, Len(buf)) ELSE buf

\* Mutant: the file is seeded with what is left in memory.
Seed_AfterDrop(buf) == Rolled(buf)

\* What spillLocked writes to a new file: everything buffered.
Seed(buf) == buf

\* accumulator.Write: to memory, to the file there is, and at the limit
\* into a new file; each file operation may fail, once and for all.
Write == /\ acc.total < printed
         /\ LET n == acc.total + 1
                grown == Append(acc.buf, n)
                rest == [acc EXCEPT !.total = n, !.buf = Rolled(grown),
                                    !.start = @ + Len(grown) - Len(Rolled(grown))]
                spills == Len(grown) > MaxRolling /\ acc.file = "none" /\ ~acc.err
            IN  \/ /\ acc.file = "open" /\ ~acc.err
                   /\ acc' = [rest EXCEPT !.disk = Append(@, n)]
                \/ /\ acc.file # "none" /\ ~acc.err
                   /\ acc' = [rest EXCEPT !.err = TRUE]
                \/ /\ spills
                   /\ acc' = [rest EXCEPT !.file = "open", !.disk = Seed(grown)]
                \/ /\ spills
                   /\ acc' = [rest EXCEPT !.err = TRUE]
                \/ /\ ~spills /\ (acc.file = "none" \/ acc.err)
                   /\ acc' = rest
         /\ UNCHANGED <<cmd, printed, done, job, jcall, shown>>

\* close: the handle only; the file stays.
Closed(a) == [a EXCEPT !.file = IF @ = "open" THEN "closed" ELSE @]

\* Both pipes are at their end, and Wait returns.
Exits == /\ cmd.group = "dead" /\ cmd.away # "alive" /\ acc.total = printed
         /\ ~done
         /\ done' = TRUE
         /\ UNCHANGED <<cmd, printed, acc, job, jcall, shown>>
----------------------------------------------------------------------------
\* runForeground: the timeout or an abort, once, and then the exit, however
\* long it takes; bashResult closes the accumulator.
Timeout == /\ cmd.kind = "foreground" /\ cmd.st = "runs"
           /\ cmd' = [Terminated(cmd) EXCEPT !.st = "late"]
           /\ UNCHANGED <<printed, acc, done, job, jcall, shown>>

Result == /\ cmd.kind = "foreground" /\ cmd.st # "over" /\ done
          /\ cmd' = [cmd EXCEPT !.st = "over"]
          /\ acc' = Closed(acc)
          /\ UNCHANGED <<printed, done, job, jcall, shown>>

\* JobTable.add, after the command was started.
AddJob == /\ cmd.kind = "background" /\ job.st = "new"
          /\ job' = [job EXCEPT !.st = "live"]
          /\ UNCHANGED <<cmd, printed, acc, done, jcall, shown>>

\* bash_output and kill_bash look the job up; both may run in parallel.
GetJob(c, how) == /\ c \in JobCalls /\ jcall[c] = "none" /\ job.st # "new"
                  /\ jcall' = [jcall EXCEPT ![c] = IF job.st = "live" THEN how ELSE "over"]
                  /\ UNCHANGED <<cmd, printed, acc, done, job, shown>>

\* readFrom: the file if there is one, else what memory still holds.
Fails == acc.total > job.cursor /\ acc.file # "none" /\ (acc.file = "closed" \/ Len(acc.disk) < acc.total)
Delta == IF job.cursor >= acc.total THEN <<>>
         ELSE IF acc.file # "none" THEN SubSeq(acc.disk, job.cursor + 1, acc.total)
         ELSE SubSeq(acc.buf, IF job.cursor < acc.start THEN 1 ELSE job.cursor - acc.start + 1, Len(acc.buf))

\* tailTruncate: the end of what is too long, behind a notice.
tailTruncate(s) == IF Len(s) > MaxShown THEN <<0>> \o SubSeq(s, Len(s) - MaxShown + 1, Len(s)) ELSE s

\* bash_output: after its wait, one read under the table's lock.
Output(c) == /\ jcall[c] = "output"
             /\ IF Fails THEN UNCHANGED <<job, shown>>
                ELSE /\ shown' = shown \o tailTruncate(Delta)
                     /\ job' = [job EXCEPT !.cursor = acc.total]
             /\ jcall' = [jcall EXCEPT ![c] = "over"]
             /\ UNCHANGED <<cmd, printed, acc, done>>

\* kill_bash: a job that still runs is terminated and waited for ...
Kill(c) == /\ jcall[c] = "kill"
           /\ cmd' = IF done THEN cmd ELSE Terminated(cmd)
           /\ jcall' = [jcall EXCEPT ![c] = "waits"]
           /\ UNCHANGED <<printed, acc, done, job, shown>>

\* KillAll, at shutdown: the table is emptied first.
KillAll == /\ jcall[Shutdown] = "none"
           /\ job' = IF job.st = "live" THEN [job EXCEPT !.st = "gone"] ELSE job
           /\ cmd' = IF job.st = "live" THEN Terminated(cmd) ELSE cmd
           /\ jcall' = [jcall EXCEPT ![Shutdown] = IF job.st = "live" THEN "waits" ELSE "over"]
           /\ UNCHANGED <<printed, acc, done, shown>>

\* ... and then removed, unless that was done.
Killed(c) == /\ jcall[c] = "waits" /\ done
             /\ acc' = IF job.st = "live" \/ c = Shutdown THEN Closed(acc) ELSE acc
             /\ job' = [job EXCEPT !.st = "gone"]
             /\ jcall' = [jcall EXCEPT ![c] = "over"]
             /\ UNCHANGED <<cmd, printed, done, shown>>

Goes == \/ KillFires \/ Write \/ Exits \/ Timeout \/ Result \/ AddJob
        \/ \E c \in Callers : Output(c) \/ Kill(c) \/ Killed(c)

JobNext == \/ Writes \/ Leave \/ AwayEnds \/ GroupEnds \/ KillAll \/ Goes
           \/ \E c \in JobCalls, how \in {"output", "kill"} : GetJob(c, how)
----------------------------------------------------------------------------
\* bash_output shows every piece once and in order: what it passes over it
\* says it does, in the result that passes over it, whatever was spilled,
\* dropped, or failed to be written; and a read fails only when the file was
\* not written or is closed (bash_bg.go:48, accumulator.go:84).
OutputOnce ==
  /\ \A i \in DOMAIN shown : shown[i] # 0 =>
       IF i = 1 THEN shown[i] = 1
       ELSE IF shown[i - 1] # 0 THEN shown[i] = shown[i - 1] + 1
       ELSE \A j \in 1..(i - 1) : shown[j] < shown[i]
  /\ shown # <<>> => shown[Len(shown)] = job.cursor
  /\ Fails => acc.err \/ acc.file = "closed"

\* A timeout, an abort, kill_bash and KillAll end (bash.go:107, bash_bg.go:119,
\* job_table.go:104), whatever the group does with SIGTERM, unless a process
\* that left the group holds the pipes.
KillsEnd ==
  /\ cmd.st = "late" ~> (cmd.st = "over" \/ cmd.away = "alive")
  /\ \A c \in Callers : jcall[c] = "waits" ~> (jcall[c] = "over" \/ cmd.away = "alive")
=============================================================================
