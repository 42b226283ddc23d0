----------------------------- MODULE WorkingSet -----------------------------
(***************************************************************************)
(* What the agent has seen of a file, and whether that is stale            *)
(* (src/internal/workset, workset.go): tools observe what they read and    *)
(* write, each request is told what changed since (builder.go), the set is *)
(* saved with the session after a turn and restored from there.            *)
(*                                                                         *)
(* Files are tracked each by itself: this is one of them.  A text stands   *)
(* for its hash and size too; every change of the file gives it another    *)
(* modification time.  Tools run in parallel, requests are built between   *)
(* their batches, and the user changes the file at any time.               *)
(***************************************************************************)
EXTENDS Integers

CONSTANTS Tools,      \* the calls of a batch that touch the file
          MaxBatches, \* bound: batches
          MaxChanges  \* bound: changes by the user, and restarts

ASSUME ToolsAssumption == Tools \subseteq Nat

VARIABLES onDisk,    \* the file: its text, 0 when there is none, and its modification time
          stamp,     \* FileStamp of the file
          dirty,     \* WorkingSet.dirty
          saved,     \* the last snapshot in the session
          tool,      \* the calls of this batch
          pass,      \* Stale: how far it is
          batches, changes,
          seen,      \* ghost: texts the agent has read or written
          slipped    \* ghost: a change fell between a tool's access and its stat

setVars == <<onDisk, stamp, dirty, saved, tool, pass, batches, changes, seen, slipped>>

Texts == 1..2              \* the user's; tools write others
Untracked == [tracked |-> FALSE, time |-> 0, hash |-> 0]
Idle == [st |-> "none", writes |-> FALSE, data |-> 0, time |-> 0]
NoPass == [st |-> "none", of |-> Untracked, time |-> 0]

SetInit == /\ onDisk \in [text : {0, 1}, time : {0}]
           /\ stamp = Untracked /\ saved = Untracked /\ dirty = FALSE
           /\ tool = [c \in Tools |-> Idle]
           /\ pass = NoPass
           /\ batches = 0 /\ changes = 0
           /\ seen = {} /\ slipped = FALSE

Written(c) == 10 + 10 * batches + c
Quiet == \A c \in Tools : tool[c].st \in {"none", "done"}

\* The tools of a turn begin.
Batch == /\ Quiet /\ pass.st = "none"
         /\ batches < MaxBatches
         /\ batches' = batches + 1
         /\ tool' = [c \in Tools |-> [Idle EXCEPT !.st = "called"]]
         /\ UNCHANGED <<onDisk, stamp, dirty, saved, pass, changes, seen, slipped>>

\* A read has the text of the file ...
ReadFile(c) == /\ tool[c].st = "called"
               /\ onDisk.text # 0
               /\ tool' = [tool EXCEPT ![c] = [@ EXCEPT !.st = "taken", !.data = onDisk.text]]
               /\ seen' = seen \cup {onDisk.text}
               /\ UNCHANGED <<onDisk, stamp, dirty, saved, pass, batches, changes, slipped>>

\* ... a write or an edit gives it another, under the lock of the file,
\* which it keeps until that is observed ...
WriteFile(c) == /\ tool[c].st = "called"
                /\ \A d \in Tools : tool[d].writes => tool[d].st = "done"
                /\ onDisk' = [text |-> Written(c), time |-> onDisk.time + 1]
                /\ tool' = [tool EXCEPT ![c] = [@ EXCEPT !.st = "taken", !.writes = TRUE, !.data = Written(c)]]
                /\ seen' = seen \cup {Written(c)}
                /\ UNCHANGED <<stamp, dirty, saved, pass, batches, changes, slipped>>

\* ... or the call does nothing.
Refused(c) == /\ tool[c].st = "called"
              /\ tool' = [tool EXCEPT ![c].st = "done"]
              /\ UNCHANGED <<onDisk, stamp, dirty, saved, pass, batches, changes, seen, slipped>>

\* observe stats the file first: nothing is recorded of one that is gone.
Stat(c) == /\ tool[c].st = "taken"
           /\ tool' = [tool EXCEPT ![c] = [@ EXCEPT !.st = IF onDisk.text = 0 THEN "done" ELSE "stat",
                                                    !.time = onDisk.time]]
           /\ UNCHANGED <<onDisk, stamp, dirty, saved, pass, batches, changes, seen, slipped>>

\* observe, under WorkingSet.mu.
Observe(c) == /\ tool[c].st = "stat"
              /\ stamp' = [tracked |-> TRUE, time |-> tool[c].time, hash |-> tool[c].data]
              /\ dirty' = TRUE
              /\ tool' = [tool EXCEPT ![c].st = "done"]
              /\ UNCHANGED <<onDisk, saved, pass, batches, changes, seen, slipped>>
----------------------------------------------------------------------------
\* Stale: the stamps are copied ...
StaleBegins == /\ Quiet /\ pass.st = "none"
               /\ pass' = [NoPass EXCEPT !.st = "stat", !.of = stamp]
               /\ UNCHANGED <<onDisk, stamp, dirty, saved, tool, batches, changes, seen, slipped>>

Verdict(v) == pass' = [pass EXCEPT !.st = v]

\* ... a file that is gone is stale, one with the time it had is not ...
StaleStats ==
  /\ pass.st = "stat"
  /\ IF ~pass.of.tracked THEN Verdict("fresh")
     ELSE IF onDisk.text = 0 THEN Verdict("stale")
     ELSE IF onDisk.time = pass.of.time THEN Verdict("fresh")
     ELSE pass' = [pass EXCEPT !.st = "hash", !.time = onDisk.time]
  /\ UNCHANGED <<onDisk, stamp, dirty, saved, tool, batches, changes, seen, slipped>>

\* Mutant: a file that is there is taken for what it was.
Same_Touched(s) == onDisk.text # 0

\* Whether the content is what the stamp says.
Same(s) == onDisk.text = s.hash

\* ... else its content decides, and a stamp that holds gets the new time.
StaleHashes ==
  /\ pass.st = "hash"
  /\ IF Same(pass.of)
     THEN /\ Verdict("fresh")
          /\ stamp' = IF stamp.tracked /\ stamp.hash = pass.of.hash THEN [stamp EXCEPT !.time = pass.time] ELSE stamp
     ELSE Verdict("stale") /\ UNCHANGED stamp
  /\ UNCHANGED <<onDisk, dirty, saved, tool, batches, changes, seen, slipped>>

\* The request is sent with its notice.
Sent == /\ pass.st \in {"fresh", "stale"}
        /\ pass' = NoPass
        /\ UNCHANGED <<onDisk, stamp, dirty, saved, tool, batches, changes, seen, slipped>>

\* AfterTurn: Snapshot, when anything changed, and an append that may fail.
Snapshot == /\ Quiet /\ pass.st = "none" /\ dirty
            /\ dirty' = FALSE
            /\ saved' \in {saved, stamp}
            /\ UNCHANGED <<onDisk, stamp, tool, pass, batches, changes, seen, slipped>>
----------------------------------------------------------------------------
\* The user changes the file, or touches it, or removes it.
UserChanges == /\ changes < MaxChanges
               /\ changes' = changes + 1
               /\ \E t \in Texts \cup {0, onDisk.text} : onDisk' = [text |-> t, time |-> onDisk.time + 1]
               /\ slipped' = (slipped \/ \E c \in Tools : tool[c].st = "taken")
               /\ UNCHANGED <<stamp, dirty, saved, tool, pass, batches, seen>>

\* The program is killed, and the session resumed: Restore.
Resume == /\ changes < MaxChanges
          /\ changes' = changes + 1
          /\ stamp' = saved /\ dirty' = FALSE
          /\ tool' = [c \in Tools |-> Idle]
          /\ pass' = NoPass
          /\ UNCHANGED <<onDisk, saved, batches, seen, slipped>>

SetNext == \/ Batch \/ StaleBegins \/ StaleStats \/ StaleHashes \/ Sent \/ Snapshot
           \/ UserChanges \/ Resume
           \/ \E c \in Tools : ReadFile(c) \/ WriteFile(c) \/ Refused(c) \/ Stat(c) \/ Observe(c)
----------------------------------------------------------------------------
\* A tracked file that a request does not call stale has, when that is
\* found, a text the agent has seen ("so a touch(1) alone does not flag a
\* file", workset.go:84, but nothing else escapes): whichever tools
\* observed it in parallel, whatever was touched and refreshed while its
\* hash was taken, and from whatever snapshot it was restored.
ChangesNoticed ==
  pass.st = "stat" /\ pass.of.tracked /\ onDisk.time = pass.of.time /\ ~slipped => onDisk.text \in seen
=============================================================================
