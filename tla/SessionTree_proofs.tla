------------------------- MODULE SessionTree_proofs -------------------------
(***************************************************************************)
(* Proofs about SessionTree, for every number of callers and entries: the  *)
(* tree stays chained however appends and the two halves of SetLeaf        *)
(* interleave, the position kept in memory is the one a reload finds, two  *)
(* paths part where CommonAncestor says, and a fork keeps its conversation.*)
(***************************************************************************)
EXTENDS SessionTree, SequenceTheorems, FiniteSetTheorems, TLAPS

\* A set of naturals below a bound has a greatest element: the maximum is
\* the one whose interval up to the bound is the least of its kind.
LEMMA MaxExists ==
  ASSUME NEW n \in Nat, NEW S, S \subseteq 0 .. n, S # {}
  PROVE  \E i \in S : \A j \in S : j <= i
<1> DEFINE T == {i .. n : i \in S}
           R == StrictSubsetOrdering(0 .. n)
<1>1. IsFiniteSet(0 .. n)
  BY FS_Interval
<1>2. T \subseteq SUBSET (0 .. n) /\ T # {}
  <2>1. \A i \in S : i \in Nat /\ i .. n \subseteq 0 .. n
    OBVIOUS
  <2> QED BY <2>1
<1>3. IsWellFoundedOn(R, SUBSET (0 .. n))
  BY FS_StrictSubsetOrderingWellFounded, FS_FiniteSubsetsOfFinite, <1>1
<1>4. PICK t \in T : \A u \in T : ~(<<u, t>> \in R)
  <2> HIDE DEF T, R
  <2> QED BY <1>2, <1>3, WFMin
<1>5. PICK i \in S : t = i .. n
  OBVIOUS
<1>6. ASSUME NEW j \in S, ~(j <= i) PROVE FALSE
  <2>1. i \in Nat /\ j \in Nat /\ i < j /\ j <= n /\ i <= n
    BY <1>6
  <2>2. j .. n \in T
    OBVIOUS
  <2>3. j .. n \subseteq i .. n /\ i \notin j .. n /\ i \in i .. n
    BY <2>1
  <2>4. j .. n \in SUBSET (0 .. n) /\ i .. n \in SUBSET (0 .. n)
    BY <2>1
  <2>5. <<j .. n, t>> \in R
    BY <2>3, <2>4, <1>5 DEF StrictSubsetOrdering
  <2> QED BY <2>2, <2>5, <1>4
<1> QED
  BY <1>6

\* An appended entry is the last; the entries before it stay where they are.
LEMMA AppendedLast ==
  ASSUME NEW S, NEW log \in Seq(S), NEW e \in S
  PROVE  /\ Append(log, e) \in Seq(S)
         /\ Len(log) \in Nat
         /\ Len(Append(log, e)) = Len(log) + 1
         /\ DOMAIN log = 1 .. Len(log)
         /\ DOMAIN Append(log, e) = 1 .. (Len(log) + 1)
         /\ Append(log, e)[Len(log) + 1] = e
         /\ \A i \in 1 .. Len(log) : Append(log, e)[i] = log[i]
  BY AppendProperties, LenProperties

\* The replay of one more entry is index.add's move of the position
\* (tree.go add), wherever the log stood.
LEMMA LeafOfAppend ==
  ASSUME NEW S, NEW log \in Seq(S), NEW e \in S
  PROVE  LeafOf(Append(log, e)) = Moved(LeafOf(log), e)
<1> DEFINE new == Append(log, e)
           n == Len(log) + 1
           moves == {i \in DOMAIN log : log[i].kind # "twig"}
           newMoves == {i \in DOMAIN new : new[i].kind # "twig"}
           last == CHOOSE i \in moves : \A j \in moves : j <= i
           newLast == CHOOSE i \in newMoves : \A j \in newMoves : j <= i
<1>0. /\ Len(log) \in Nat
      /\ DOMAIN log = 1 .. Len(log) /\ DOMAIN new = 1 .. n
      /\ new[n] = e
      /\ \A i \in 1 .. Len(log) : new[i] = log[i]
  BY AppendedLast
<1> HIDE DEF new
<1>l. LeafOf(log) = IF moves = {} THEN Root
                    ELSE IF log[last].kind = "leaf" THEN log[last].target ELSE log[last].id
  BY DEF LeafOf
<1>r. LeafOf(new) = IF newMoves = {} THEN Root
                    ELSE IF new[newLast].kind = "leaf" THEN new[newLast].target ELSE new[newLast].id
  BY DEF LeafOf
<1>1. CASE e.kind = "twig"
  <2>1. newMoves = moves
    <3>1. \A i \in newMoves : i \in 1 .. Len(log)
      BY <1>0, <1>1
    <3>2. \A i \in moves : i \in 1 .. n
      BY <1>0
    <3> QED BY <1>0, <3>1, <3>2
  <2>2. newLast = last
    BY <2>1
  <2>3. moves # {} => last \in moves
    <3>1. moves \subseteq 0 .. Len(log)
      BY <1>0
    <3>2. moves # {} => \E i \in moves : \A j \in moves : j <= i
      BY <3>1, <1>0, MaxExists
    <3> QED BY <3>2
  <2>4. moves # {} => new[last] = log[last]
    BY <2>3, <1>0
  <2> QED BY <1>1, <1>l, <1>r, <2>1, <2>2, <2>4 DEF Moved, new
<1>2. CASE e.kind # "twig"
  <2>1. n \in newMoves /\ \A j \in newMoves : j <= n
    BY <1>0, <1>2
  <2>2. newLast \in newMoves /\ \A j \in newMoves : j <= newLast
    BY <2>1
  <2>3. newLast = n
    BY <2>1, <2>2, <1>0
  <2>4. newMoves # {}
    BY <2>1
  <2>5. LeafOf(new) = IF e.kind = "leaf" THEN e.target ELSE e.id
    BY <1>r, <2>3, <2>4, <1>0
  <2>6. Moved(LeafOf(log), e) = IF e.kind = "leaf" THEN e.target ELSE e.id
    BY <1>2 DEF Moved
  <2> QED BY <2>5, <2>6 DEF new
<1> QED
  BY <1>1, <1>2
----------------------------------------------------------------------------
\* What SetLeaf has validated stays a chain position until it is appended.
ValidatedOK == \A g \in Goroutines : validated[g] = Root \/ ValidTarget(ordered, validated[g])

IInv == TypeOK /\ TreeChained /\ LeafIsReplay /\ ValidatedOK

\* Nothing leaves the chain: an entry added at the end keeps every target
\* valid, and is one itself when it is on the chain.
LEMMA ChainGrows ==
  ASSUME NEW S, NEW log \in Seq(S), NEW e \in S, NEW id
  PROVE  /\ ValidTarget(log, id) => ValidTarget(Append(log, e), id)
         /\ e.kind \notin OffChain => ValidTarget(Append(log, e), e.id)
<1>1. /\ Len(log) \in Nat /\ DOMAIN log = 1 .. Len(log)
      /\ DOMAIN Append(log, e) = 1 .. (Len(log) + 1)
      /\ Append(log, e)[Len(log) + 1] = e
      /\ \A i \in 1 .. Len(log) : Append(log, e)[i] = log[i]
  BY AppendedLast
<1>2. ASSUME ValidTarget(log, id) PROVE ValidTarget(Append(log, e), id)
  <2>1. PICK i \in 1 .. Len(log) : log[i].kind \notin OffChain /\ log[i].id = id
    BY <1>1, <1>2 DEF ValidTarget, ChainIds
  <2>2. i \in DOMAIN Append(log, e) /\ Append(log, e)[i] = log[i]
    BY <1>1
  <2> QED BY <2>1, <2>2 DEF ValidTarget, ChainIds
<1>3. ASSUME e.kind \notin OffChain PROVE ValidTarget(Append(log, e), e.id)
  <2>1. Len(log) + 1 \in DOMAIN Append(log, e)
    BY <1>1
  <2> QED BY <1>1, <1>3, <2>1 DEF ValidTarget, ChainIds
<1> QED
  BY <1>2, <1>3

\* Add keeps the tree chained, when the target of a leaf entry is valid.
LEMMA AddKeepsTree ==
  ASSUME IInv, MaxEntries \in Nat,
         NEW kind \in EntryKinds, NEW target \in EntryIDs \cup {Root},
         kind = "leaf" => ValidTarget(ordered, target),
         Add(kind, target)
  PROVE  /\ ordered' \in Seq(Entry)
         /\ \A i \in DOMAIN ordered' : ordered'[i].id = i
         /\ leafID' \in EntryIDs \cup {Root}
         /\ TreeChained' /\ LeafIsReplay'
         /\ \A id : ValidTarget(ordered, id) => ValidTarget(ordered', id)
<1> DEFINE e == Filled(ordered, leafID, kind, target)
           n == Len(ordered) + 1
<1>1. /\ ordered \in Seq(Entry) /\ leafID \in EntryIDs \cup {Root}
      /\ \A i \in DOMAIN ordered : ordered[i].id = i
      /\ Len(ordered) \in Nat /\ Len(ordered) < MaxEntries
      /\ ordered' = Append(ordered, e) /\ leafID' = Moved(leafID, e)
  BY LenProperties DEF IInv, TypeOK, Add
<1>2. /\ e \in Entry /\ e.id = n /\ e.parent = leafID /\ e.kind = kind /\ e.target = target
      /\ n \in EntryIDs
  BY <1>1 DEF Filled, Entry, EntryIDs
<1>3. /\ ordered' \in Seq(Entry)
      /\ DOMAIN ordered = 1 .. Len(ordered) /\ DOMAIN ordered' = 1 .. n
      /\ ordered'[n] = e
      /\ \A i \in 1 .. Len(ordered) : ordered'[i] = ordered[i]
  BY <1>1, <1>2, AppendedLast
<1> HIDE DEF e
<1>4. \A i \in DOMAIN ordered' : ordered'[i].id = i
  BY <1>1, <1>2, <1>3
<1>5. leafID' \in EntryIDs \cup {Root}
  BY <1>1, <1>2 DEF Moved
<1>6. \A id : ValidTarget(ordered, id) => ValidTarget(ordered', id)
  BY <1>1, <1>2, ChainGrows
<1>7. TreeChained'
  <2>1. \A id : ValidTarget(ordered, id) =>
          \E j \in 1 .. Len(ordered) : ordered'[j].id = id /\ ordered'[j].kind \notin OffChain
    BY <1>3 DEF ValidTarget, ChainIds
  <2>2. ChainedAt(ordered', n)
    <3>1. leafID = Root \/ ValidTarget(ordered, leafID)
      BY DEF IInv, LeafIsReplay
    <3>2. n - 1 = Len(ordered)
      BY <1>1
    <3> QED BY <1>2, <1>3, <2>1, <3>1, <3>2 DEF ChainedAt
  <2>3. ASSUME NEW i \in 1 .. Len(ordered) PROVE ChainedAt(ordered', i)
    <3>1. ChainedAt(ordered, i)
      BY <1>3 DEF IInv, TreeChained, Chained
    <3>2. ordered'[i] = ordered[i] /\ \A j \in 1 .. (i - 1) : ordered'[j] = ordered[j]
      BY <1>1, <1>3
    <3> QED BY <3>1, <3>2 DEF ChainedAt
  <2> QED BY <1>1, <1>3, <2>2, <2>3 DEF TreeChained, Chained
<1>8. LeafIsReplay'
  <2>1. leafID' = LeafOf(ordered')
    BY <1>1, <1>2, LeafOfAppend DEF IInv, LeafIsReplay
  <2>2. leafID' = Root \/ ValidTarget(ordered', leafID')
    <3>1. CASE kind = "leaf"
      BY <1>1, <1>2, <1>6, <3>1 DEF Moved
    <3>2. CASE kind = "twig"
      BY <1>1, <1>2, <1>6, <3>2 DEF Moved, IInv, LeafIsReplay
    <3>3. CASE kind \notin {"leaf", "twig"}
      <4>1. ValidTarget(ordered', e.id)
        BY <1>1, <1>2, <3>3, ChainGrows DEF OffChain
      <4>2. leafID' = e.id
        BY <1>1, <1>2, <3>3 DEF Moved
      <4> QED BY <4>1, <4>2
    <3> QED BY <3>1, <3>2, <3>3
  <2> QED BY <2>1, <2>2 DEF LeafIsReplay
<1> QED
  BY <1>3, <1>4, <1>5, <1>6, <1>7, <1>8
----------------------------------------------------------------------------
\* The invariant holds initially and every step keeps it.
THEOREM TreeInvariant == Spec => []IInv
<1> USE MaxEntriesAssumption
<1>1. Init => IInv
  <2> SUFFICES ASSUME Init PROVE IInv
    OBVIOUS
  <2>1. ordered = <<>> /\ Len(ordered) = 0 /\ DOMAIN ordered = {}
    BY DEF Init
  <2>2. TypeOK
    <3>1. ordered \in Seq(Entry)
      BY <2>1, EmptySeq
    <3>2. \A i \in DOMAIN ordered : ordered[i].id = i
      BY <2>1
    <3>3. leafID \in EntryIDs \cup {Root} /\ closed \in BOOLEAN
      BY DEF Init
    <3>4. validated \in [Goroutines -> EntryIDs \cup {Root}]
      BY DEF Init
    <3> QED BY <3>1, <3>2, <3>3, <3>4 DEF TypeOK
  <2>3. TreeChained
    BY <2>1 DEF TreeChained, Chained
  <2>4. LeafIsReplay
    BY <2>1 DEF Init, LeafIsReplay, LeafOf
  <2>5. ValidatedOK
    BY DEF Init, ValidatedOK
  <2> QED BY <2>2, <2>3, <2>4, <2>5 DEF IInv
<1>2. IInv /\ [Next]_vars => IInv'
  <2> SUFFICES ASSUME IInv, [Next]_vars PROVE IInv'
    OBVIOUS
  <2>1. ASSUME NEW kind \in EntryKinds \ {"leaf"}, AppendEntry(kind) PROVE IInv'
    <3>1. Add(kind, Root) /\ UNCHANGED <<validated, closed>>
      BY <2>1 DEF AppendEntry
    <3>2. /\ ordered' \in Seq(Entry)
          /\ \A i \in DOMAIN ordered' : ordered'[i].id = i
          /\ leafID' \in EntryIDs \cup {Root}
          /\ TreeChained' /\ LeafIsReplay'
          /\ \A id : ValidTarget(ordered, id) => ValidTarget(ordered', id)
      BY <3>1, AddKeepsTree
    <3>3. ValidatedOK'
      BY <3>1, <3>2 DEF IInv, ValidatedOK
    <3> QED BY <3>1, <3>2, <3>3 DEF IInv, TypeOK
  <2>2. ASSUME NEW g \in Goroutines, NEW target \in EntryIDs, SetLeafValidate(g, target)
        PROVE  IInv'
    <3>1. TypeOK'
      BY <2>2 DEF IInv, TypeOK, SetLeafValidate
    <3>2. TreeChained' /\ LeafIsReplay'
      BY <2>2 DEF IInv, TreeChained, LeafIsReplay, SetLeafValidate
    <3>3. ValidatedOK'
      BY <2>2 DEF IInv, TypeOK, ValidatedOK, SetLeafValidate
    <3> QED BY <3>1, <3>2, <3>3 DEF IInv
  <2>3. ASSUME NEW g \in Goroutines, SetLeafAppend(g) PROVE IInv'
    <3>1. validated[g] \in EntryIDs \cup {Root} /\ ValidTarget(ordered, validated[g])
      BY <2>3 DEF IInv, TypeOK, ValidatedOK, SetLeafAppend
    <3>2. CASE closed
      <4>1. TypeOK'
        BY <2>3, <3>2 DEF IInv, TypeOK, SetLeafAppend
      <4>2. TreeChained' /\ LeafIsReplay'
        BY <2>3, <3>2 DEF IInv, TreeChained, LeafIsReplay, SetLeafAppend
      <4>3. ValidatedOK'
        BY <2>3, <3>2 DEF IInv, TypeOK, ValidatedOK, SetLeafAppend
      <4> QED BY <4>1, <4>2, <4>3 DEF IInv
    <3>3. CASE ~closed
      <4>1. Add("leaf", validated[g])
        BY <2>3, <3>3 DEF SetLeafAppend
      <4>2. /\ ordered' \in Seq(Entry)
            /\ \A i \in DOMAIN ordered' : ordered'[i].id = i
            /\ leafID' \in EntryIDs \cup {Root}
            /\ TreeChained' /\ LeafIsReplay'
            /\ \A id : ValidTarget(ordered, id) => ValidTarget(ordered', id)
        BY <3>1, <4>1, AddKeepsTree DEF EntryKinds
      <4>3. validated' = [validated EXCEPT ![g] = Root] /\ closed' = closed
        BY <2>3 DEF SetLeafAppend
      <4>4. ValidatedOK'
        BY <4>2, <4>3 DEF IInv, TypeOK, ValidatedOK
      <4> QED BY <4>2, <4>3, <4>4 DEF IInv, TypeOK
    <3> QED BY <3>2, <3>3
  <2>4. ASSUME Close PROVE IInv'
    BY <2>4 DEF IInv, TypeOK, TreeChained, LeafIsReplay, ValidatedOK, Close
  <2>5. CASE UNCHANGED vars
    BY <2>5 DEF IInv, TypeOK, TreeChained, LeafIsReplay, ValidatedOK, vars
  <2> QED BY <2>1, <2>2, <2>3, <2>4, <2>5 DEF Next
<1> QED
  BY <1>1, <1>2, PTL DEF Spec

\* Type correctness of the in-memory tree (tree.go index).
THEOREM TreeTypeCorrect == Spec => []TypeOK
<1>1. IInv => TypeOK
  BY DEF IInv
<1> QED BY <1>1, TreeInvariant, PTL

\* Whatever callers interleave, every entry hangs from Root or an earlier
\* on-chain entry and every leaf entry names one (tree.go, memstore.go).
THEOREM TreeStaysChained == Spec => []TreeChained
<1>1. IInv => TreeChained
  BY DEF IInv
<1> QED BY <1>1, TreeInvariant, PTL

\* The position kept in memory is the one a replay of the entries finds, and
\* it is a place on the chain (tree.go add against loader.go load).
THEOREM PositionIsReplay == Spec => []LeafIsReplay
<1>1. IInv => LeafIsReplay
  BY DEF IInv
<1> QED BY <1>1, TreeInvariant, PTL
----------------------------------------------------------------------------
(***************************************************************************)
(* Paths.  PathToRoot climbs one parent per step.  What it finds is the    *)
(* only sequence that ends at its argument, starts at a top entry and goes *)
(* from parent to child, so a part of a path that starts at the top is the *)
(* path of the entry it ends at.                                           *)
(***************************************************************************)
\* A log whose entries have the identities a session gives them, in order.
Tree(log) == log \in Seq(Entry) /\ Chained(log) /\ \A i \in DOMAIN log : log[i].id = i

\* One step of the walk, and how far the walk from id is after each step.
Grown(log, path) ==
  IF Head(path) \notin Ids(log) THEN path ELSE <<Lookup(log, Head(path)).parent>> \o path
IsWalk(log, id, n, f) == f = [i \in 0..n |-> IF i = 0 THEN <<id>> ELSE Grown(log, f[i - 1])]
Walk(log, id) == CHOOSE f : IsWalk(log, id, Len(log), f)

\* The path of id: from a top entry down to id, each entry under the last.
IsPath(log, id, p) ==
  /\ p \in Seq(1 .. Len(log))
  /\ Len(p) >= 1 /\ p[Len(p)] = id
  /\ log[p[1]].parent = Root
  /\ \A k \in 2 .. Len(p) : log[p[k]].parent = p[k - 1]

\* What the walk has after n steps: below the first place it is a path, and
\* the first place is the root or at least n entries before id.
Climbing(log, id, n, p) ==
  /\ p \in Seq(0 .. Len(log))
  /\ Len(p) >= 1 /\ p[Len(p)] = id
  /\ \A k \in 2 .. Len(p) : p[k] # 0 /\ log[p[k]].parent = p[k - 1]
  /\ p[1] = 0 \/ p[1] + n <= id

\* What holds at 0 and goes from each number to the next holds up to n.
LEMMA UpTo ==
  ASSUME NEW n \in Nat, NEW S, 0 \in S, \A i \in 0 .. n : i \in S /\ i < n => i + 1 \in S
  PROVE  \A i \in 0 .. n : i \in S
<1> DEFINE T == {i \in 0 .. n : \E j \in 0 .. n : j \notin S /\ i + j = n}
<1>1. CASE \E j \in 0 .. n : j \notin S
  <2>1. PICK j \in 0 .. n : j \notin S
    BY <1>1
  <2>2. n - j \in T
    BY <2>1
  <2>3. PICK i \in T : \A k \in T : k <= i
    <3>1. T \subseteq 0 .. n /\ T # {}
      BY <2>2
    <3> HIDE DEF T
    <3> QED BY <3>1, MaxExists
  <2>4. i \in 0 .. n /\ n - i \notin S
    OBVIOUS
  <2>5. n - i # 0 /\ (n - i) - 1 \in 0 .. n /\ (n - i) - 1 < n /\ ((n - i) - 1) + 1 = n - i
    BY <2>4
  <2>6. (n - i) - 1 \notin S
    BY <2>4, <2>5
  <2>7. i + 1 \in T
    BY <2>4, <2>5, <2>6
  <2> QED BY <2>3, <2>4, <2>7
<1> QED BY <1>1

\* The identities of a tree are its places, and a parent comes before.
LEMMA TreeParents ==
  ASSUME NEW log, Tree(log)
  PROVE  /\ Len(log) \in Nat /\ DOMAIN log = 1 .. Len(log)
         /\ Ids(log) = 1 .. Len(log)
         /\ \A i \in 1 .. Len(log) : Lookup(log, i) = log[i]
         /\ \A i \in 1 .. Len(log) : log[i].parent \in 0 .. (i - 1)
<1>1. Len(log) \in Nat /\ DOMAIN log = 1 .. Len(log) /\ \A i \in 1 .. Len(log) : log[i].id = i
  BY LenProperties DEF Tree
<1>2. Ids(log) = 1 .. Len(log)
  BY <1>1 DEF Ids
<1>3. ASSUME NEW i \in 1 .. Len(log) PROVE Lookup(log, i) = log[i]
  <2> DEFINE P(k) == log[k].id = i /\ \A j \in DOMAIN log : log[j].id = i => j <= k
  <2>1. P(i)
    BY <1>1
  <2>2. \A k \in DOMAIN log : P(k) => k = i
    BY <1>1
  <2>3. (CHOOSE k \in DOMAIN log : P(k)) = i
    <3> HIDE DEF P
    <3> QED BY <1>1, <2>1, <2>2
  <2> QED BY <2>3 DEF Lookup
<1>4. ASSUME NEW i \in 1 .. Len(log) PROVE log[i].parent \in 0 .. (i - 1)
  <2>1. ChainedAt(log, i)
    BY <1>1 DEF Tree, Chained
  <2>2. log[i].parent = 0 \/ \E j \in 1 .. (i - 1) : log[j].id = log[i].parent
    BY <2>1 DEF ChainedAt, Root
  <2>3. \A j \in 1 .. (i - 1) : j \in 1 .. Len(log)
    BY <1>1
  <2>4. \A j \in 1 .. (i - 1) : log[j].id = j
    BY <1>1, <2>3
  <2> QED BY <1>1, <2>2, <2>4
<1> QED BY <1>1, <1>2, <1>3, <1>4

\* The walk exists, up to any number of steps.
LEMMA WalkExists ==
  ASSUME NEW log, NEW id, NEW n \in Nat
  PROVE  \E f : IsWalk(log, id, n, f)
<1> DEFINE Iterates(m, f) == IsWalk(log, id, m, f)
           S == {m \in 0 .. n : \E f : Iterates(m, f)}
<1>1. 0 \in S
  <2> DEFINE f == [i \in 0..0 |-> <<id>>]
  <2>1. Iterates(0, f)
    BY DEF IsWalk
  <2>2. \E g : Iterates(0, g)
    BY <2>1
  <2> HIDE DEF Iterates
  <2> QED BY <2>2
<1>2. ASSUME NEW m \in 0 .. n, m \in S, m < n PROVE m + 1 \in S
  <2>1. PICK f : Iterates(m, f)
    BY <1>2
  <2> DEFINE g == [i \in 0..(m + 1) |-> IF i = m + 1 THEN Grown(log, f[m]) ELSE f[i]]
             h == [i \in 0..(m + 1) |-> IF i = 0 THEN <<id>> ELSE Grown(log, g[i - 1])]
  <2>2. m \in Nat
    OBVIOUS
  <2>3. \A i \in 0 .. m : f[i] = IF i = 0 THEN <<id>> ELSE Grown(log, f[i - 1])
    BY <2>1 DEF IsWalk
  <2>4. \A i \in 0 .. (m + 1) : g[i] = h[i]
    <3> SUFFICES ASSUME NEW i \in 0 .. (m + 1) PROVE g[i] = h[i]
      OBVIOUS
    <3>1. CASE i = 0
      BY <2>2, <2>3, <3>1
    <3>2. CASE i \in 1 .. m
      <4>1. g[i] = f[i] /\ g[i - 1] = f[i - 1]
        BY <2>2, <3>2
      <4> QED BY <2>2, <2>3, <3>2, <4>1
    <3>3. CASE i = m + 1
      <4>1. g[i] = Grown(log, f[m]) /\ g[i - 1] = f[m]
        BY <2>2, <3>3
      <4> QED BY <2>2, <3>3, <4>1
    <3> QED BY <2>2, <3>1, <3>2, <3>3
  <2>5. g = h
    BY <2>4
  <2>6. Iterates(m + 1, g)
    BY <2>5 DEF IsWalk
  <2>7. m + 1 \in 0 .. n
    BY <1>2, <2>2
  <2> QED BY <2>6, <2>7
<1>3. n \in S
  <2> HIDE DEF S
  <2> QED BY <1>1, <1>2, UpTo
<1> QED BY <1>3

\* The walk step by step, and what PathToRoot makes of its end.
LEMMA WalkSteps ==
  ASSUME NEW log, NEW id, Len(log) \in Nat
  PROVE  /\ Walk(log, id)[0] = <<id>>
         /\ \A n \in 1 .. Len(log) : Walk(log, id)[n] = Grown(log, Walk(log, id)[n - 1])
         /\ PathToRoot(log, id) = LET full == Walk(log, id)[Len(log)]
                                  IN  IF Head(full) \in Ids(log) THEN full ELSE Tail(full)
<1>1. Walk(log, id) = [i \in 0..Len(log) |-> IF i = 0 THEN <<id>> ELSE Grown(log, Walk(log, id)[i - 1])]
  <2>1. \E f : IsWalk(log, id, Len(log), f)
    BY WalkExists
  <2>2. IsWalk(log, id, Len(log), Walk(log, id))
    BY <2>1 DEF Walk
  <2> QED BY <2>2 DEF IsWalk
<1>2. \A i \in 0 .. Len(log) : Walk(log, id)[i] = IF i = 0 THEN <<id>> ELSE Grown(log, Walk(log, id)[i - 1])
  BY <1>1
<1>3. Walk(log, id)[0] = <<id>>
  BY <1>2
<1>4. ASSUME NEW n \in 1 .. Len(log) PROVE Walk(log, id)[n] = Grown(log, Walk(log, id)[n - 1])
  BY <1>2
<1>5. PathToRoot(log, id) = LET full == Walk(log, id)[Len(log)]
                            IN  IF Head(full) \in Ids(log) THEN full ELSE Tail(full)
  BY DEF PathToRoot, Walk, IsWalk, Grown
<1> QED BY <1>3, <1>4, <1>5

----------------------------------------------------------------------------

\* An element in front of a sequence.
LEMMA InFront ==
  ASSUME NEW S, NEW p \in Seq(S), NEW x \in S
  PROVE  /\ <<x>> \o p \in Seq(S)
         /\ Len(<<x>> \o p) = Len(p) + 1
         /\ (<<x>> \o p)[1] = x
         /\ \A k \in 1 .. Len(p) : (<<x>> \o p)[k + 1] = p[k]
<1>1. <<x>> \in Seq(S) /\ Len(<<x>>) = 1 /\ <<x>>[1] = x
  OBVIOUS
<1>2. /\ <<x>> \o p \in Seq(S)
      /\ Len(<<x>> \o p) = 1 + Len(p)
      /\ \A i \in 1 .. (1 + Len(p)) : (<<x>> \o p)[i] = IF i <= 1 THEN <<x>>[i] ELSE p[i - 1]
  BY <1>1, ConcatProperties
<1>3. Len(p) \in Nat
  BY LenProperties
<1>4. (<<x>> \o p)[1] = x
  BY <1>1, <1>2, <1>3
<1>5. ASSUME NEW k \in 1 .. Len(p) PROVE (<<x>> \o p)[k + 1] = p[k]
  <2>1. k + 1 \in 1 .. (1 + Len(p)) /\ ~(k + 1 <= 1) /\ (k + 1) - 1 = k
    BY <1>3
  <2> QED BY <1>2, <2>1
<1> QED BY <1>2, <1>3, <1>4, <1>5

\* One more step of the walk climbs one more place, or stays at the root.
LEMMA Climbs ==
  ASSUME NEW log, Tree(log), NEW id \in 1 .. Len(log), NEW n \in Nat, NEW p, Climbing(log, id, n, p)
  PROVE  Climbing(log, id, n + 1, Grown(log, p))
<1> DEFINE N == Len(log)
<1>1. /\ N \in Nat
      /\ Ids(log) = 1 .. N
      /\ \A i \in 1 .. N : Lookup(log, i) = log[i]
      /\ \A i \in 1 .. N : log[i].parent \in 0 .. (i - 1)
  BY TreeParents
<1>2. /\ p \in Seq(0 .. N) /\ Len(p) >= 1 /\ p[Len(p)] = id
      /\ \A k \in 2 .. Len(p) : p[k] # 0 /\ log[p[k]].parent = p[k - 1]
      /\ p[1] = 0 \/ p[1] + n <= id
  BY DEF Climbing
<1>3. Len(p) \in Nat /\ p[1] \in 0 .. N /\ Head(p) = p[1]
  BY <1>2, LenProperties, ElementOfSeq, HeadTailProperties
<1> HIDE DEF N
<1>4. CASE p[1] = 0
  <2>1. Grown(log, p) = p
    BY <1>1, <1>3, <1>4 DEF Grown
  <2> QED BY <1>2, <1>4, <2>1 DEF Climbing, N
<1>5. CASE p[1] # 0
  <2> DEFINE x == log[p[1]].parent
             q == <<x>> \o p
  <2>1. p[1] \in 1 .. N
    BY <1>1, <1>3, <1>5
  <2>2. Grown(log, p) = q
    BY <1>1, <1>3, <2>1 DEF Grown
  <2>3. x \in 0 .. (p[1] - 1)
    BY <1>1, <2>1
  <2>4. x \in 0 .. N
    BY <1>1, <2>1, <2>3
  <2> HIDE DEF x
  <2>5. /\ q \in Seq(0 .. N) /\ Len(q) = Len(p) + 1 /\ q[1] = x
        /\ \A k \in 1 .. Len(p) : q[k + 1] = p[k]
    BY <1>2, <2>4, InFront
  <2> HIDE DEF q
  <2>6. q[Len(q)] = id /\ Len(q) >= 1
    <3>1. Len(p) \in 1 .. Len(p)
      BY <1>2, <1>3
    <3> QED BY <1>2, <1>3, <2>5, <3>1
  <2>7. ASSUME NEW k \in 2 .. Len(q) PROVE q[k] # 0 /\ log[q[k]].parent = q[k - 1]
    <3>1. k - 1 \in 1 .. Len(p) /\ (k - 1) + 1 = k
      BY <1>3, <2>5
    <3>2. q[k] = p[k - 1]
      BY <2>5, <3>1
    <3>3. CASE k = 2
      BY <1>5, <2>5, <3>2, <3>3 DEF x
    <3>4. CASE k # 2
      <4>1. k - 1 \in 2 .. Len(p) /\ k - 2 \in 1 .. Len(p) /\ (k - 2) + 1 = k - 1 /\ (k - 1) - 1 = k - 2
        BY <1>3, <2>5, <3>1, <3>4
      <4>2. q[k - 1] = p[k - 2]
        BY <2>5, <4>1
      <4> QED BY <1>2, <3>2, <4>1, <4>2
    <3> QED BY <3>3, <3>4
  <2>8. q[1] = 0 \/ q[1] + (n + 1) <= id
    <3>1. p[1] + n <= id /\ p[1] \in Nat /\ id \in Nat
      BY <1>1, <1>2, <1>5, <2>1 DEF N
    <3>2. x \in Nat /\ x <= p[1] - 1
      BY <2>3, <3>1
    <3>3. x + (n + 1) <= id
      BY <3>1, <3>2
    <3> QED BY <2>5, <3>3
  <2> QED BY <2>2, <2>5, <2>6, <2>7, <2>8 DEF Climbing, N
<1> QED BY <1>4, <1>5

\* PathToRoot finds a path.
LEMMA PathIs ==
  ASSUME NEW log, Tree(log), NEW id \in 1 .. Len(log)
  PROVE  IsPath(log, id, PathToRoot(log, id))
<1> DEFINE N == Len(log)
           w == Walk(log, id)
           S == {n \in 0 .. N : Climbing(log, id, n, w[n])}
<1>1. /\ N \in Nat /\ Ids(log) = 1 .. N
      /\ \A i \in 1 .. N : log[i].parent \in 0 .. (i - 1)
  BY TreeParents
<1>2. /\ w[0] = <<id>>
      /\ \A n \in 1 .. N : w[n] = Grown(log, w[n - 1])
      /\ PathToRoot(log, id) = LET full == w[N] IN IF Head(full) \in Ids(log) THEN full ELSE Tail(full)
  BY <1>1, WalkSteps
<1> HIDE DEF w
<1>3. 0 \in S
  <2>1. id \in 0 .. N /\ 0 \in 0 .. N
    BY <1>1
  <2>2. <<id>> \in Seq(0 .. N) /\ Len(<<id>>) = 1 /\ <<id>>[1] = id
    BY <2>1
  <2>3. Climbing(log, id, 0, <<id>>)
    BY <1>1, <2>2 DEF Climbing
  <2> QED BY <1>2, <2>1, <2>3
<1>4. ASSUME NEW n \in 0 .. N, n \in S, n < N PROVE n + 1 \in S
  <2>1. n \in Nat /\ n + 1 \in 1 .. N /\ n + 1 \in 0 .. N /\ (n + 1) - 1 = n
    BY <1>1, <1>4
  <2>2. w[n + 1] = Grown(log, w[n])
    BY <1>2, <2>1
  <2>3. Climbing(log, id, n, w[n])
    BY <1>4
  <2>4. Climbing(log, id, n + 1, Grown(log, w[n]))
    BY <2>1, <2>3, Climbs
  <2> QED BY <2>1, <2>2, <2>4
<1>5. N \in S
  <2> HIDE DEF S, N
  <2>1. \A n \in 0 .. N : n \in S
    BY <1>1, <1>3, <1>4, UpTo
  <2> QED BY <1>1, <2>1
<1> DEFINE p == w[N]
           q == Tail(p)
<1>6. /\ p \in Seq(0 .. N) /\ Len(p) >= 1 /\ p[Len(p)] = id
      /\ \A k \in 2 .. Len(p) : p[k] # 0 /\ log[p[k]].parent = p[k - 1]
      /\ p[1] = 0 \/ p[1] + N <= id
  BY <1>5 DEF Climbing
<1> HIDE DEF p
<1>7. Len(p) \in Nat /\ Head(p) = p[1] /\ \A k \in 1 .. Len(p) : p[k] \in 0 .. N
  BY <1>6, LenProperties, ElementOfSeq, HeadTailProperties
<1>8. p[1] = 0
  <2>1. p[1] \in 0 .. N
    BY <1>6, <1>7
  <2> QED BY <1>1, <1>6, <2>1
<1>9. PathToRoot(log, id) = q
  BY <1>1, <1>2, <1>7, <1>8 DEF p
<1>10. Len(p) >= 2
  BY <1>1, <1>6, <1>7, <1>8
<1>11. q \in Seq(0 .. N) /\ Len(q) = Len(p) - 1 /\ \A k \in 1 .. Len(q) : q[k] = p[k + 1]
  BY <1>6, <1>7, HeadTailProperties
<1> HIDE DEF q
<1>12. ASSUME NEW k \in 1 .. Len(q) PROVE q[k] \in 1 .. N
  <2>1. k + 1 \in 2 .. Len(p) /\ k + 1 \in 1 .. Len(p)
    BY <1>7, <1>11
  <2>2. p[k + 1] # 0 /\ p[k + 1] \in 0 .. N
    BY <1>6, <1>7, <2>1
  <2> QED BY <1>1, <1>11, <2>2
<1>13. q \in Seq(1 .. N)
  BY <1>11, <1>12, LenProperties
<1>14. Len(q) >= 1 /\ q[Len(q)] = id
  <2>1. Len(q) \in 1 .. Len(q) /\ Len(q) + 1 = Len(p)
    BY <1>7, <1>10, <1>11
  <2> QED BY <1>6, <1>11, <2>1
<1>15. log[q[1]].parent = Root
  <2>1. 1 \in 1 .. Len(q) /\ 2 \in 2 .. Len(p)
    BY <1>7, <1>10, <1>11
  <2>2. q[1] = p[1 + 1]
    BY <1>11, <2>1
  <2>3. log[p[2]].parent = p[2 - 1]
    BY <1>6, <2>1
  <2> QED BY <1>8, <2>2, <2>3 DEF Root
<1>16. ASSUME NEW k \in 2 .. Len(q) PROVE log[q[k]].parent = q[k - 1]
  <2>1. k \in 1 .. Len(q) /\ k - 1 \in 1 .. Len(q) /\ k + 1 \in 2 .. Len(p) /\ (k + 1) - 1 = k /\ (k - 1) + 1 = k
    BY <1>7, <1>11
  <2>2. q[k] = p[k + 1] /\ q[k - 1] = p[(k - 1) + 1]
    BY <1>11, <2>1
  <2>3. log[p[k + 1]].parent = p[(k + 1) - 1]
    BY <1>6, <2>1
  <2> QED BY <2>1, <2>2, <2>3
<1> QED BY <1>9, <1>13, <1>14, <1>15, <1>16 DEF IsPath, N

\* The shorter of two paths of one entry is not shorter.
LEMMA NoShorterPath ==
  ASSUME NEW log, Tree(log), NEW id, NEW p, NEW q, IsPath(log, id, p), IsPath(log, id, q), Len(p) <= Len(q)
  PROVE  p = q
<1> DEFINE m == Len(p) - 1
           d == Len(q) - Len(p)
           S == {j \in 0 .. m : p[Len(p) - j] = q[Len(q) - j]}
<1>1. /\ p \in Seq(1 .. Len(log)) /\ Len(p) >= 1 /\ p[Len(p)] = id
      /\ log[p[1]].parent = Root
      /\ \A k \in 2 .. Len(p) : log[p[k]].parent = p[k - 1]
  BY DEF IsPath
<1>2. /\ q \in Seq(1 .. Len(log)) /\ Len(q) >= 1 /\ q[Len(q)] = id
      /\ \A k \in 2 .. Len(q) : log[q[k]].parent = q[k - 1]
  BY DEF IsPath
<1>3. /\ Len(p) \in Nat /\ Len(q) \in Nat
      /\ \A k \in 1 .. Len(q) : q[k] \in 1 .. Len(log)
  BY <1>1, <1>2, LenProperties, ElementOfSeq
<1>4. 0 \in S
  BY <1>1, <1>2, <1>3
<1>5. ASSUME NEW j \in 0 .. m, j \in S, j < m PROVE j + 1 \in S
  <2>1. /\ j + 1 \in 0 .. m
        /\ Len(p) - j \in 2 .. Len(p) /\ Len(q) - j \in 2 .. Len(q)
        /\ (Len(p) - j) - 1 = Len(p) - (j + 1) /\ (Len(q) - j) - 1 = Len(q) - (j + 1)
    BY <1>3, <1>5
  <2>2. log[p[Len(p) - j]].parent = p[(Len(p) - j) - 1]
    BY <1>1, <2>1
  <2>3. log[q[Len(q) - j]].parent = q[(Len(q) - j) - 1]
    BY <1>2, <2>1
  <2>4. p[Len(p) - j] = q[Len(q) - j]
    BY <1>5
  <2> QED BY <2>1, <2>2, <2>3, <2>4
<1>6. \A j \in 0 .. m : j \in S
  <2>1. m \in Nat
    BY <1>1, <1>3
  <2> HIDE DEF S, m
  <2> QED BY <1>4, <1>5, <2>1, UpTo
<1>7. ASSUME NEW k \in 1 .. Len(p) PROVE p[k] = q[k + d]
  <2>1. Len(p) - k \in 0 .. m /\ Len(p) - (Len(p) - k) = k /\ Len(q) - (Len(p) - k) = k + d
    BY <1>3
  <2>2. Len(p) - k \in S
    BY <1>6, <2>1
  <2>3. p[Len(p) - (Len(p) - k)] = q[Len(q) - (Len(p) - k)]
    BY <2>2
  <2> QED BY <2>1, <2>3
<1>8. d = 0
  <2>1. SUFFICES ASSUME d # 0 PROVE FALSE
    OBVIOUS
  <2>2. 1 \in 1 .. Len(p) /\ 1 + d \in 2 .. Len(q) /\ (1 + d) - 1 = d /\ d \in 1 .. Len(q)
    BY <1>1, <1>3, <2>1
  <2>3. p[1] = q[1 + d]
    BY <1>7, <2>2
  <2>4. log[q[1 + d]].parent = q[(1 + d) - 1]
    BY <1>2, <2>2
  <2>5. q[d] = Root
    BY <1>1, <2>2, <2>3, <2>4
  <2>6. q[d] \in 1 .. Len(log)
    BY <1>3, <2>2
  <2> QED BY <2>5, <2>6 DEF Root
<1>9. Len(p) = Len(q)
  BY <1>3, <1>8
<1>10. \A k \in 1 .. Len(p) : p[k] = q[k]
  <2>1. ASSUME NEW k \in 1 .. Len(p) PROVE p[k] = q[k]
    <3>1. k + d = k
      BY <1>3, <1>8
    <3> QED BY <1>7, <3>1
  <2> QED BY <2>1
<1> QED BY <1>1, <1>2, <1>9, <1>10, SeqEqual

\* An entry has one path.
LEMMA PathUnique ==
  ASSUME NEW log, Tree(log), NEW id, NEW p, NEW q, IsPath(log, id, p), IsPath(log, id, q)
  PROVE  p = q
<1>1. Len(p) \in Nat /\ Len(q) \in Nat
  BY LenProperties DEF IsPath
<1>2. Len(p) <= Len(q) \/ Len(q) <= Len(p)
  BY <1>1
<1> QED BY <1>2, NoShorterPath

\* The path of an entry on a path is the part of that path down to it.
LEMMA PathOfPart ==
  ASSUME NEW log, Tree(log), NEW id, NEW p, IsPath(log, id, p), NEW k \in 1 .. Len(p)
  PROVE  PathToRoot(log, p[k]) = SubSeq(p, 1, k)
<1> DEFINE q == SubSeq(p, 1, k)
<1>1. /\ p \in Seq(1 .. Len(log))
      /\ log[p[1]].parent = Root
      /\ \A i \in 2 .. Len(p) : log[p[i]].parent = p[i - 1]
  BY DEF IsPath
<1>2. Len(p) \in Nat /\ \A i \in 1 .. Len(p) : p[i] \in 1 .. Len(log)
  BY <1>1, LenProperties, ElementOfSeq
<1>3. q \in Seq(1 .. Len(log)) /\ Len(q) = k /\ \A i \in 1 .. k : q[i] = p[i]
  BY <1>1, <1>2, SubSeqProperties
<1> HIDE DEF q
<1>4. Len(q) >= 1 /\ q[Len(q)] = p[k] /\ log[q[1]].parent = Root
  BY <1>1, <1>2, <1>3
<1>5. ASSUME NEW i \in 2 .. Len(q) PROVE log[q[i]].parent = q[i - 1]
  <2>1. i \in 1 .. k /\ i - 1 \in 1 .. k /\ i \in 2 .. Len(p)
    BY <1>2, <1>3
  <2> QED BY <1>1, <1>3, <2>1
<1>6. IsPath(log, p[k], q)
  BY <1>3, <1>4, <1>5 DEF IsPath
<1>7. IsPath(log, p[k], PathToRoot(log, p[k]))
  BY <1>2, PathIs
<1> QED BY <1>6, <1>7, PathUnique DEF q

----------------------------------------------------------------------------
\* The paths of a and b are one down to their common ancestor.
BranchesAt(log, a, b) ==
  LET c == CommonAncestor(log, a, b)
      pa == PathToRoot(log, a)
      pb == PathToRoot(log, b)
      common == {pa[i] : i \in DOMAIN pa} \cap {pb[i] : i \in DOMAIN pb}
  IN  IF common = {} THEN c = Root
      ELSE LET pc == PathToRoot(log, c) IN common = {pc[i] : i \in DOMAIN pc}

\* Below the branch point two paths share nothing, above it they are one.
LEMMA BranchPoint ==
  ASSUME NEW log, Tree(log), NEW a \in 1 .. Len(log), NEW b \in 1 .. Len(log)
  PROVE  BranchesAt(log, a, b)
<1> DEFINE pa == PathToRoot(log, a)
           pb == PathToRoot(log, b)
           c == CommonAncestor(log, a, b)
           common == {pa[i] : i \in DOMAIN pa} \cap {pb[i] : i \in DOMAIN pb}
<1>0. SUFFICES IF common = {} THEN c = Root
               ELSE common = {PathToRoot(log, c)[i] : i \in DOMAIN PathToRoot(log, c)}
  BY DEF BranchesAt
<1> DEFINE shared == {i \in DOMAIN pb : \E j \in DOMAIN pa : pa[j] = pb[i]}
           k == CHOOSE i \in shared : \A j \in shared : j <= i
<1>1. IsPath(log, a, pa) /\ IsPath(log, b, pb)
  BY PathIs
<1>2. /\ DOMAIN pa = 1 .. Len(pa) /\ DOMAIN pb = 1 .. Len(pb)
      /\ Len(pa) \in Nat /\ Len(pb) \in Nat
  BY <1>1, LenProperties DEF IsPath
<1>3. c = IF shared = {} THEN Root ELSE pb[k]
  BY DEF CommonAncestor
<1> HIDE DEF pa, pb, c
<1>4. common = {} <=> shared = {}
  <2>1. ASSUME NEW x \in common PROVE shared # {}
    <3>1. PICK j \in DOMAIN pa : x = pa[j]
      OBVIOUS
    <3>2. PICK i \in DOMAIN pb : x = pb[i]
      OBVIOUS
    <3>3. i \in shared
      BY <3>1, <3>2
    <3> HIDE DEF shared
    <3> QED BY <3>3
  <2>2. ASSUME NEW i \in shared PROVE pb[i] \in common
    OBVIOUS
  <2> HIDE DEF shared
  <2> QED BY <2>1, <2>2
<1>5. CASE shared = {}
  BY <1>3, <1>4, <1>5
<1>6. CASE shared # {}
  <2>1. k \in shared /\ \A j \in shared : j <= k
    <3>1. shared \subseteq 0 .. Len(pb)
      BY <1>2
    <3> HIDE DEF shared
    <3>2. \E i \in shared : \A j \in shared : j <= i
      BY <1>2, <1>6, <3>1, MaxExists
    <3> QED BY <3>2
  <2>2. c = pb[k]
    BY <1>3, <1>6
  <2> HIDE DEF k
  <2>3. k \in 1 .. Len(pb)
    BY <1>2, <2>1
  <2>4. PICK j \in 1 .. Len(pa) : pa[j] = pb[k]
    BY <1>2, <2>1
  <2>5. PathToRoot(log, c) = SubSeq(pb, 1, k)
    BY <1>1, <2>2, <2>3, PathOfPart
  <2>6. PathToRoot(log, c) = SubSeq(pa, 1, j)
    BY <1>1, <2>2, <2>4, PathOfPart
  <2> DEFINE pc == PathToRoot(log, c)
  <2>7. Len(pc) = k /\ DOMAIN pc = 1 .. k /\ \A i \in 1 .. k : pc[i] = pb[i]
    BY <1>2, <2>3, <2>5
  <2>8. Len(pc) = j /\ \A i \in 1 .. j : pc[i] = pa[i]
    BY <1>2, <2>4, <2>6
  <2> HIDE DEF pc
  <2>9. ASSUME NEW i \in 1 .. k PROVE pc[i] \in common
    <3>1. i \in DOMAIN pa /\ i \in DOMAIN pb
      BY <1>2, <2>3, <2>4, <2>7, <2>8
    <3>2. pc[i] = pa[i] /\ pc[i] = pb[i]
      BY <2>7, <2>8
    <3> QED BY <3>1, <3>2
  <2>10. ASSUME NEW x \in common PROVE \E i \in 1 .. k : x = pc[i]
    <3>1. PICK i \in DOMAIN pb : x = pb[i]
      OBVIOUS
    <3>2. i \in shared
      BY <3>1
    <3>3. i \in 1 .. k
      BY <1>2, <2>1, <2>3, <3>2
    <3> QED BY <2>7, <3>1, <3>3
  <2>11. common = {pc[i] : i \in DOMAIN pc}
    BY <2>7, <2>9, <2>10
  <2> QED BY <1>4, <1>6, <2>11 DEF pc
<1> QED BY <1>5, <1>6

\* The first entries of a tree are a tree.
LEMMA PrefixIsTree ==
  ASSUME NEW log, Tree(log), NEW n \in 1 .. Len(log)
  PROVE  /\ Tree(SubSeq(log, 1, n))
         /\ Len(SubSeq(log, 1, n)) = n
         /\ \A i \in 1 .. n : SubSeq(log, 1, n)[i] = log[i]
<1> DEFINE cut == SubSeq(log, 1, n)
<1>1. /\ log \in Seq(Entry) /\ Len(log) \in Nat /\ DOMAIN log = 1 .. Len(log)
      /\ \A i \in 1 .. Len(log) : log[i] \in Entry /\ log[i].id = i
  BY LenProperties, ElementOfSeq DEF Tree
<1>2. \A i \in 1 .. n : i \in 1 .. Len(log) /\ log[i] \in Entry
  BY <1>1
<1>3. cut \in Seq(Entry) /\ Len(cut) = n /\ \A i \in 1 .. n : cut[i] = log[i]
  BY <1>1, <1>2, SubSeqProperties
<1> HIDE DEF cut
<1>4. DOMAIN cut = 1 .. n
  BY <1>3, LenProperties
<1>5. \A i \in DOMAIN cut : cut[i].id = i
  BY <1>1, <1>2, <1>3, <1>4
<1>6. ASSUME NEW i \in DOMAIN cut PROVE ChainedAt(cut, i)
  <2>1. ChainedAt(log, i)
    BY <1>1, <1>2, <1>4 DEF Tree, Chained
  <2>2. cut[i] = log[i]
    BY <1>3, <1>4
  <2>3. \A j \in 1 .. (i - 1) : cut[j] = log[j]
    BY <1>1, <1>3, <1>4
  <2> QED BY <2>1, <2>2, <2>3 DEF ChainedAt
<1>7. Tree(cut)
  BY <1>3, <1>5, <1>6 DEF Tree, Chained
<1> QED BY <1>3, <1>7 DEF cut

\* A log that ends on the chain stands at its end.
LEMMA LeafOfLast ==
  ASSUME NEW log, NEW n \in Nat \ {0}, DOMAIN log = 1 .. n, log[n].kind \notin OffChain
  PROVE  LeafOf(log) = log[n].id
<1> DEFINE moves == {i \in DOMAIN log : log[i].kind # "twig"}
           last == CHOOSE i \in moves : \A j \in moves : j <= i
<1>1. n \in moves /\ \A j \in moves : j <= n
  BY DEF OffChain
<1>2. last = n
  <2>1. last \in moves /\ \A j \in moves : j <= last
    BY <1>1
  <2>2. last \in 1 .. n /\ n <= last
    BY <1>1, <2>1
  <2> QED BY <2>2
<1>3. LeafOf(log) = IF log[last].kind = "leaf" THEN log[last].target ELSE log[last].id
  BY <1>1 DEF LeafOf
<1> QED BY <1>2, <1>3 DEF OffChain

\* A fork at an on-chain entry needs no SetLeaf, and its path is the source's.
LEMMA ForkKeeps ==
  ASSUME NEW log, Tree(log), NEW id \in ChainIds(log)
  PROVE  /\ ~ForkFails(log, id)
         /\ LeafOf(Forked(log, id)) = id
         /\ PathToRoot(Forked(log, id), id) = PathToRoot(log, id)
         /\ Chained(Forked(log, id))
<1>1. Len(log) \in Nat /\ DOMAIN log = 1 .. Len(log) /\ \A i \in 1 .. Len(log) : log[i].id = i
  BY LenProperties DEF Tree
<1>2. id \in 1 .. Len(log) /\ log[id].kind \notin OffChain
  BY <1>1 DEF ChainIds
<1> DEFINE cut == SubSeq(log, 1, id)
<1>3. ForkPrefix(log, id) = cut
  <2> DEFINE P(i) == log[i].id = id /\ \A j \in 1 .. (i - 1) : log[j].id # id
  <2>1. P(id)
    <3>1. \A j \in 1 .. (id - 1) : j \in 1 .. Len(log) /\ j # id
      BY <1>1, <1>2
    <3> QED BY <1>1, <1>2, <3>1
  <2>2. \A i \in DOMAIN log : P(i) => i = id
    BY <1>1
  <2>3. (CHOOSE i \in DOMAIN log : P(i)) = id
    <3> HIDE DEF P
    <3> QED BY <1>1, <1>2, <2>1, <2>2
  <2> QED BY <2>3 DEF ForkPrefix
<1>4. Tree(cut) /\ Len(cut) = id /\ \A i \in 1 .. id : cut[i] = log[i]
  BY <1>2, PrefixIsTree
<1> HIDE DEF cut
<1>5. cut \in Seq(Entry) /\ DOMAIN cut = 1 .. id /\ id \in Nat \ {0} /\ id \in 1 .. id
  BY <1>1, <1>2, <1>4, LenProperties DEF Tree
<1>6. LeafOf(cut) = id
  <2>1. cut[id] = log[id] /\ log[id].id = id
    BY <1>1, <1>2, <1>4, <1>5
  <2>2. LeafOf(cut) = cut[id].id
    BY <1>2, <1>5, <2>1, LeafOfLast
  <2> QED BY <2>1, <2>2
<1>7. Forked(log, id) = cut /\ ~ForkFails(log, id)
  BY <1>3, <1>6 DEF Forked, ForkFails
<1>8. PathToRoot(cut, id) = PathToRoot(log, id)
  <2> DEFINE q == PathToRoot(cut, id)
  <2>1. IsPath(cut, id, q)
    BY <1>4, <1>5, PathIs
  <2> HIDE DEF q
  <2>2. q \in Seq(1 .. id) /\ \A k \in 1 .. Len(q) : q[k] \in 1 .. id
    BY <1>4, <2>1, ElementOfSeq DEF IsPath
  <2>3. Len(q) \in Nat /\ q \in Seq(1 .. Len(log))
    <3>1. 1 .. id \subseteq 1 .. Len(log)
      BY <1>1, <1>2
    <3> QED BY <2>2, <3>1, SeqMonotonic, LenProperties
  <2>4. \A k \in 1 .. Len(q) : cut[q[k]] = log[q[k]]
    BY <1>4, <2>2
  <2>5. log[q[1]].parent = Root
    BY <2>1, <2>3, <2>4 DEF IsPath
  <2>6. ASSUME NEW k \in 2 .. Len(q) PROVE log[q[k]].parent = q[k - 1]
    BY <2>1, <2>3, <2>4 DEF IsPath
  <2>7. IsPath(log, id, q)
    BY <2>1, <2>3, <2>5, <2>6 DEF IsPath
  <2>8. IsPath(log, id, PathToRoot(log, id))
    BY <1>2, PathIs
  <2> QED BY <2>7, <2>8, PathUnique DEF q
<1>9. Chained(cut)
  BY <1>4 DEF Tree
<1> QED BY <1>6, <1>7, <1>8, <1>9

\* CommonAncestor finds the branch point of any two on-chain entries, in
\* every tree that callers can build (tree.go CommonAncestor).
THEOREM BranchPointFound == Spec => []AncestorIsBranchPoint
<1>1. IInv => AncestorIsBranchPoint
  <2> SUFFICES ASSUME IInv PROVE AncestorIsBranchPoint
    OBVIOUS
  <2>1. Tree(ordered)
    BY DEF IInv, TypeOK, TreeChained, Tree
  <2>2. ChainIds(ordered) \subseteq 1 .. Len(ordered)
    BY LenProperties DEF IInv, TypeOK, ChainIds
  <2>3. ASSUME NEW a \in ChainIds(ordered), NEW b \in ChainIds(ordered)
        PROVE  BranchesAt(ordered, a, b)
    <3>1. a \in 1 .. Len(ordered) /\ b \in 1 .. Len(ordered)
      BY <2>2
    <3> QED BY <2>1, <3>1, BranchPoint
  <2> QED BY <2>3 DEF AncestorIsBranchPoint, BranchesAt
<1> QED BY <1>1, TreeInvariant, PTL

\* A fork at any on-chain entry succeeds, stands at that entry and shows the
\* conversation the source shows there (manager.go Fork).
THEOREM ForksKeepConversation == Spec => []ForkKeepsConversation
<1>1. IInv => ForkKeepsConversation
  <2> SUFFICES ASSUME IInv PROVE ForkKeepsConversation
    OBVIOUS
  <2>1. Tree(ordered)
    BY DEF IInv, TypeOK, TreeChained, Tree
  <2> QED BY <2>1, ForkKeeps DEF ForkKeepsConversation
<1> QED BY <1>1, TreeInvariant, PTL
=============================================================================
