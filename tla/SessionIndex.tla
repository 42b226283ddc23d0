---------------------------- MODULE SessionIndex ----------------------------
(***************************************************************************)
(* The entries of a session and what src/internal/session/tree.go computes *)
(* from them.  A log is the sequence of entries in file order.             *)
(*                                                                         *)
(* An entry is abstracted to its identity, its parent, its kind and, for a *)
(* leaf entry, its target.  Kinds the tree treats alike share one name:    *)
(* "twig" is LabelEntry and SessionInfoEntry, "chain" is every on-chain    *)
(* entry other than MessageEntry.  The empty ID "" is Root.                *)
(***************************************************************************)
EXTENDS Integers, Sequences

Root == 0
EntryKinds == {"message", "chain", "twig", "leaf"}
OffChain == {"twig", "leaf"}
Ids(log) == {log[i].id : i \in DOMAIN log}
ChainIds(log) == {log[i].id : i \in {j \in DOMAIN log : log[j].kind \notin OffChain}}

\* The position a log stands at when it is replayed from its first entry,
\* as load does: the last entry that is not a twig decides it.
LeafOf(log) ==
  LET moves == {i \in DOMAIN log : log[i].kind # "twig"}
  IN  IF moves = {} THEN Root
      ELSE LET last == CHOOSE i \in moves : \A j \in moves : j <= i
           IN  IF log[last].kind = "leaf" THEN log[last].target ELSE log[last].id

\* index.byID: the last entry added under an identity.
Lookup(log, id) ==
  log[CHOOSE i \in DOMAIN log : log[i].id = id /\ \A j \in DOMAIN log : log[j].id = id => j <= i]

\* index.pathToRoot: the parent chain of id, root first.  The walk from id
\* takes at most one step for each entry of a log without parent cycles.
PathToRoot(log, id) ==
  LET walk[n \in 0 .. Len(log)] ==
        IF n = 0 THEN <<id>>
        ELSE LET path == walk[n - 1]
             IN  IF Head(path) \notin Ids(log) THEN path
                 ELSE <<Lookup(log, Head(path)).parent>> \o path
      full == walk[Len(log)]
  IN  IF Head(full) \in Ids(log) THEN full ELSE Tail(full)

\* Mutant: the first shared entry instead of the last.
CommonAncestor_First(log, old, new) ==
  LET newPath == PathToRoot(log, new)
      oldPath == PathToRoot(log, old)
  IN  IF newPath # <<>> /\ oldPath # <<>> /\ newPath[1] = oldPath[1] THEN newPath[1] ELSE Root

\* CommonAncestor: the deepest entry of the path to new that is also on the
\* path to old, Root when the two share none.
CommonAncestor(log, old, new) ==
  LET oldPath == PathToRoot(log, old)
      newPath == PathToRoot(log, new)
      shared == {i \in DOMAIN newPath : \E j \in DOMAIN oldPath : oldPath[j] = newPath[i]}
  IN  IF shared = {} THEN Root
      ELSE newPath[CHOOSE i \in shared : \A j \in shared : j <= i]

\* Mutant: any known entry passes.
ValidTarget_AnyEntry(log, id) == id \in Ids(log)

\* index.validateLeafTarget
ValidTarget(log, id) == id \in ChainIds(log)

\* Mutant: the copy stops before the fork point.
ForkPrefix_Exclusive(log, id) ==
  SubSeq(log, 1, (CHOOSE i \in DOMAIN log : log[i].id = id) - 1)

\* Manager.Fork's copy: the lines up to and including the fork point.
ForkPrefix(log, id) ==
  SubSeq(log, 1, CHOOSE i \in DOMAIN log : log[i].id = id /\ \A j \in 1 .. (i - 1) : log[j].id # id)

\* Every entry hangs from Root or from an earlier on-chain entry, and every
\* leaf entry names an earlier on-chain entry: what a walk to the root and a
\* replay of the log (tree.go pathToRoot, loader.go load) rely on.
ChainedAt(log, i) ==
  /\ log[i].parent = Root \/ \E j \in 1 .. (i - 1) :
         log[j].id = log[i].parent /\ log[j].kind \notin OffChain
  /\ log[i].kind = "leaf" => \E j \in 1 .. (i - 1) :
         log[j].id = log[i].target /\ log[j].kind \notin OffChain
Chained(log) == \A i \in DOMAIN log : ChainedAt(log, i)
=============================================================================
