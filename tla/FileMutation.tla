---------------------------- MODULE FileMutation ----------------------------
(***************************************************************************)
(* Mutations of files by the write and edit tools (src/internal/tools,     *)
(* write.go, edit.go) under the per-file locks of mutqueue.go: keys are    *)
(* real paths, entries are counted and removed when nobody uses them.      *)
(*                                                                         *)
(* The text of a file is the sequence of the mutations it shows; a write   *)
(* replaces it, an edit adds to what it read.  A path is missing, a file,  *)
(* or a link to another path; directories exist.  The agent runs the calls *)
(* of a batch in parallel (both tools are ExecParallel).                   *)
(***************************************************************************)
EXTENDS Integers, Sequences

CONSTANTS Ops,      \* tool calls, called in the order of their numbers
          Paths,    \* paths of the files
          Disks     \* bounds: the file systems a behaviour may start from

ASSUME OpsAssumption == Ops \subseteq Nat \ {0}

VARIABLES disk,     \* what each path is
          op,       \* the tool calls
          locks,    \* mutQueue.locks: the entry of each key, or 0
          refs,     \* mutEntry.refs
          holder    \* mutEntry.mu: the call that holds it, or 0

mutVars == <<disk, op, locks, refs, holder>>

Missing == [kind |-> "missing"]
File(text) == [kind |-> "file", text |-> text]
Link(to) == [kind |-> "link", to |-> to]
Called == [st |-> "none", how |-> "edit", path |-> "", key |-> "", entry |-> 0, base |-> <<>>]

MutInit == /\ disk \in Disks
           /\ op = [c \in Ops |-> Called]
           /\ locks = [p \in Paths |-> 0]
           /\ refs = [e \in Ops |-> 0]
           /\ holder = [e \in Ops |-> 0]

\* The path that opening p ends at.
Real(p) == IF disk[p].kind = "link" THEN disk[p].to ELSE p

\* mutKey: the real path, or the path itself while there is no such file.
mutKey(p) == IF disk[Real(p)].kind = "missing" THEN p ELSE Real(p)

\* A write or an edit is called, and computes its key outside any lock.
Call(c, how, p) ==
  /\ op[c].st = "none"
  /\ \A d \in Ops : d < c => op[d].st # "none"
  /\ op' = [op EXCEPT ![c] = [Called EXCEPT !.st = "keyed", !.how = how, !.path = p, !.key = mutKey(p)]]
  /\ UNCHANGED <<disk, locks, refs, holder>>

\* lock, under mutQueue.mu: the entry of the key is found, or made: the one
\* that c makes is known by c.
Register(c) ==
  /\ op[c].st = "keyed"
  /\ LET k == op[c].key
         e == IF locks[k] # 0 THEN locks[k] ELSE c
     IN  /\ locks' = [locks EXCEPT ![k] = e]
         /\ refs' = [refs EXCEPT ![e] = @ + 1]
         /\ op' = [op EXCEPT ![c].st = "waiting", ![c].entry = e]
  /\ UNCHANGED <<disk, holder>>

\* lock, at the entry's mutex.
Acquire(c) ==
  /\ op[c].st = "waiting"
  /\ holder[op[c].entry] = 0
  /\ holder' = [holder EXCEPT ![op[c].entry] = c]
  /\ op' = [op EXCEPT ![c].st = "locked"]
  /\ UNCHANGED <<disk, locks, refs>>

\* editTool.Execute reads the file; a missing one, or text that does not
\* match, is the end of it.  A write reads nothing.
Read(c) ==
  /\ op[c].st = "locked"
  /\ \/ /\ op[c].how = "edit" /\ disk[Real(op[c].path)].kind = "file"
        /\ op' = [op EXCEPT ![c].st = "read", ![c].base = disk[Real(op[c].path)].text]
     \/ /\ op[c].how = "edit"
        /\ op' = [op EXCEPT ![c].st = "ends"]
     \/ /\ op[c].how = "write"
        /\ op' = [op EXCEPT ![c].st = "read"]
  /\ UNCHANGED <<disk, locks, refs, holder>>

\* atomicWrite: the new text is renamed over the path itself, link or not.
AtomicWrite(c) ==
  /\ op[c].st = "read"
  /\ disk' = [disk EXCEPT ![op[c].path] = File(Append(op[c].base, c))]
  /\ op' = [op EXCEPT ![c].st = "ends", ![c].base = <<>>]
  /\ UNCHANGED <<locks, refs, holder>>

\* atomicWrite fails and leaves the path alone.
AtomicWriteFails(c) ==
  /\ op[c].st = "read"
  /\ op' = [op EXCEPT ![c].st = "ends", ![c].base = <<>>]
  /\ UNCHANGED <<disk, locks, refs, holder>>

\* release: the entry's mutex first ...
Unlock(c) ==
  /\ op[c].st = "ends"
  /\ holder' = [holder EXCEPT ![op[c].entry] = 0]
  /\ op' = [op EXCEPT ![c].st = "unlocked"]
  /\ UNCHANGED <<disk, locks, refs>>

\* Mutant: whoever is done with an entry takes it out.
Unused_Always(e) == TRUE

\* An entry is removed when its last user is done.
Unused(e) == refs[e] = 1

\* ... then, under mutQueue.mu, the count.
Release(c) ==
  /\ op[c].st = "unlocked"
  /\ LET e == op[c].entry
     IN  /\ refs' = [refs EXCEPT ![e] = @ - 1]
         /\ locks' = IF Unused(e) THEN [locks EXCEPT ![op[c].key] = 0] ELSE locks
  /\ op' = [op EXCEPT ![c].st = "done", ![c].entry = 0]
  /\ UNCHANGED <<disk, holder>>

Progress(c) == \/ Register(c) \/ Acquire(c) \/ Read(c) \/ AtomicWrite(c) \/ AtomicWriteFails(c)
               \/ Unlock(c) \/ Release(c)

MutNext == \E c \in Ops : \/ Progress(c)
                          \/ \E how \in {"write", "edit"}, p \in Paths : Call(c, how, p)

MutSpec == MutInit /\ [][MutNext]_mutVars
----------------------------------------------------------------------------
\* "mutQueue serializes mutations to the same file" (mutqueue.go:8): what an
\* edit has read is what its path shows until it has written, so no
\* mutation that succeeded is lost under an edit that began before it.
NoLostEdit ==
  \A c \in Ops : op[c].st = "read" /\ op[c].how = "edit" => disk[Real(op[c].path)] = File(op[c].base)

\* The locks a call waits for or holds are those of the table: an entry that
\* is taken out and made anew never splits the users of one key.
OneLockPerKey ==
  \A c, d \in Ops : op[c].entry # 0 /\ op[d].entry # 0 /\ op[c].key = op[d].key => op[c].entry = op[d].entry
=============================================================================
