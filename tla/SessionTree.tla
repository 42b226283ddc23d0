---------------------------- MODULE SessionTree ----------------------------
(***************************************************************************)
(* The in-memory tree of a session as its callers drive it: index.add of   *)
(* src/internal/session/tree.go under the mutex of memstore.go, the two    *)
(* halves of SetLeaf, and the result of Manager.Fork.                      *)
(***************************************************************************)
EXTENDS SessionIndex

CONSTANTS Goroutines,   \* callers that share one store
          MaxEntries    \* bound: entries appended in a behaviour

ASSUME MaxEntriesAssumption == MaxEntries \in Nat

VARIABLES ordered,      \* index.ordered: entries in append order
          leafID,       \* index.leafID
          validated,    \* per caller of SetLeaf: the target it has validated
          closed        \* memStore.closed

vars == <<ordered, leafID, validated, closed>>

EntryIDs == 1 .. MaxEntries
Entry == [id : EntryIDs, parent : EntryIDs \cup {Root},
          kind : EntryKinds, target : EntryIDs \cup {Root}]

\* Mutant: the identity is not checked against those taken.
Filled_Collides(log, leaf, kind, target) ==
  [id |-> IF Len(log) = 0 THEN 1 ELSE Len(log), parent |-> leaf, kind |-> kind, target |-> target]

\* index.fillBase: a fresh identity whose parent is the current position.
Filled(log, leaf, kind, target) ==
  [id |-> Len(log) + 1, parent |-> leaf, kind |-> kind, target |-> target]

\* Mutant: a label or a session name becomes the position.
Moved_TwigsMove(leaf, e) == IF e.kind = "leaf" THEN e.target ELSE e.id

\* index.add: the position after entry e is replayed on position leaf.
Moved(leaf, e) == CASE e.kind = "leaf" -> e.target
                    [] e.kind = "twig" -> leaf
                    [] OTHER -> e.id

\* Manager.Fork: the copy is reopened; when it does not stand at the fork
\* point, SetLeaf moves it there, and fails for an entry off the chain.
Forked(log, id) ==
  LET copy == ForkPrefix(log, id)
  IN  IF LeafOf(copy) = id \/ ~ValidTarget(copy, id) THEN copy
      ELSE Append(copy, Filled(copy, LeafOf(copy), "leaf", id))
ForkFails(log, id) ==
  LeafOf(ForkPrefix(log, id)) # id /\ ~ValidTarget(ForkPrefix(log, id), id)
----------------------------------------------------------------------------
Init == /\ ordered = <<>>
        /\ leafID = Root
        /\ validated = [g \in Goroutines |-> Root]
        /\ closed = FALSE

\* index.fillBase, then index.add, under the store's mutex.
Add(kind, target) ==
  LET e == Filled(ordered, leafID, kind, target)
  IN  /\ Len(ordered) < MaxEntries
      /\ ordered' = Append(ordered, e)
      /\ leafID' = Moved(leafID, e)

\* memStore.Append of an entry a caller built.
AppendEntry(kind) ==
  /\ ~closed
  /\ Add(kind, Root)
  /\ UNCHANGED <<validated, closed>>

\* memStore.SetLeaf up to the unlock: an unknown or off-chain target returns
\* an error and changes nothing.
SetLeafValidate(g, target) ==
  /\ validated[g] = Root
  /\ ValidTarget(ordered, target)
  /\ validated' = [validated EXCEPT ![g] = target]
  /\ UNCHANGED <<ordered, leafID, closed>>

\* memStore.SetLeaf after the unlock: other callers may have appended,
\* moved the leaf or closed the store in between.
SetLeafAppend(g) ==
  /\ validated[g] # Root
  /\ IF closed THEN UNCHANGED <<ordered, leafID>>
     ELSE Add("leaf", validated[g])
  /\ validated' = [validated EXCEPT ![g] = Root]
  /\ UNCHANGED closed

Close == closed' = TRUE /\ UNCHANGED <<ordered, leafID, validated>>

Next == \/ \E kind \in EntryKinds \ {"leaf"} : AppendEntry(kind)
        \/ \E g \in Goroutines, target \in EntryIDs : SetLeafValidate(g, target)
        \/ \E g \in Goroutines : SetLeafAppend(g)
        \/ Close

Spec == Init /\ [][Next]_vars
----------------------------------------------------------------------------
\* The types of the index and of the targets that SetLeaf has validated.
TypeOK ==
  /\ ordered \in Seq(Entry)
  /\ \A i \in DOMAIN ordered : ordered[i].id = i
  /\ leafID \in EntryIDs \cup {Root}
  /\ validated \in [Goroutines -> EntryIDs \cup {Root}]
  /\ closed \in BOOLEAN

\* No interleaving of appends with the two halves of SetLeaf leaves an entry
\* whose parent or target is missing, later, or off the chain.
TreeChained == Chained(ordered)

\* The position kept incrementally in memory (tree.go add) is the one a
\* reload of the same entries finds, and it is a place on the chain.
LeafIsReplay ==
  /\ leafID = LeafOf(ordered)
  /\ leafID = Root \/ ValidTarget(ordered, leafID)

\* CommonAncestor is the branch point: above it the two paths are one, and
\* below it they share nothing (tree.go CommonAncestor).
AncestorIsBranchPoint ==
  \A a, b \in ChainIds(ordered) :
    LET c == CommonAncestor(ordered, a, b)
        pa == PathToRoot(ordered, a)
        pb == PathToRoot(ordered, b)
        common == {pa[i] : i \in DOMAIN pa} \cap {pb[i] : i \in DOMAIN pb}
    IN  IF common = {} THEN c = Root
        ELSE LET pc == PathToRoot(ordered, c) IN common = {pc[i] : i \in DOMAIN pc}

\* A fork at an on-chain entry stands at that entry and shows the same
\* conversation as the source does there (manager.go Fork).
ForkKeepsConversation ==
  \A id \in ChainIds(ordered) :
    LET fork == Forked(ordered, id)
    IN  /\ ~ForkFails(ordered, id)
        /\ LeafOf(fork) = id
        /\ PathToRoot(fork, id) = PathToRoot(ordered, id)
        /\ Chained(fork)
=============================================================================
