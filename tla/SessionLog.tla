----------------------------- MODULE SessionLog -----------------------------
(***************************************************************************)
(* What a session promises to those who append to it and reopen it: a log  *)
(* that grows at its end, whose entries hang together, and that never      *)
(* loses an entry it owes.  README.md:247 calls it "crash-safe"; storage.go *)
(* and the comments of store.go say which appends that covers.             *)
(***************************************************************************)
EXTENDS SessionIndex

VARIABLES log,       \* the entries a reader of the session finds
          promised,  \* the identities it keeps when a process dies
          kept       \* the identities it keeps when the machine stops

Init == log = <<>> /\ promised = {} /\ kept = {}

\* New entries reach the end of the log, each chained to earlier ones.
Extend == /\ \E k \in 0 .. Len(log') : log = SubSeq(log', 1, k)
          /\ Chained(log')
          /\ promised \subseteq promised'
          /\ promised' \subseteq Ids(log')
          /\ UNCHANGED kept

\* A sync promises more of the log.
Sync == /\ promised \subseteq promised'
        /\ promised' \subseteq Ids(log)
        /\ kept \subseteq kept'
        /\ kept' \subseteq promised'
        /\ UNCHANGED log

\* The machine stops: entries that no sync covered leave the end of the log.
Lose == /\ \E k \in 0 .. Len(log) : log' = SubSeq(log, 1, k)
        /\ kept \subseteq Ids(log')
        /\ promised' = kept
        /\ UNCHANGED kept

Next == Extend \/ Sync \/ Lose

Spec == Init /\ [][Next]_<<log, promised, kept>>
=============================================================================
