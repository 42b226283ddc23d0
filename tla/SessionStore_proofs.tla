------------------------- MODULE SessionStore_proofs -------------------------
(***************************************************************************)
(* The files of sessions, for any number of processes, files and entries.  *)
(* First, two processes never write one file at a time, which is about who *)
(* holds which lock in which phase and not about what is in the files.     *)
(* Then, from that and whatever fails, what is on disk hangs together.     *)
(* Last, where processes die and the machine stops but no write and no     *)
(* sync fails: memory and file agree, what is owed is found again, readers *)
(* without a lock see the past whatever happens between their reads, and   *)
(* the store implements SessionLog.                                        *)
(***************************************************************************)
EXTENDS SessionStore, SequenceTheorems, FiniteSetTheorems, TLAPS

\* The types of the part of the state that decides who may write.
LockTypes ==
  /\ path \in Files \cup {NoFile}
  /\ created \in 0 .. MaxFiles
  /\ owner \in [Files -> Procs \cup {NoProc}]
  /\ phase \in [Procs -> Phases]
  /\ fd \in [Procs -> Files \cup {NoFile}]

\* A process that is about to ask for a lock, or reads without one, has the
\* file open.
OpenBeforeLock == \A p \in Procs : phase[p] \in {"created", "opened", "reading"} => fd[p] \in Files

\* Inductive: a lock is taken on an open file, and is let go only in a step
\* that also leaves the phases that write.
LockInv == LockTypes /\ OpenBeforeLock /\ WritersHoldLock

\* The initial states satisfy it: no process has a file.
LEMMA LockInvInit == Init => LockInv
  BY CreatorAssumption, BoundsAssumption
  DEF Init, LockInv, LockTypes, OpenBeforeLock, WritersHoldLock, Locking, HasFile, Phases, Files, NoFile

\* A step of p that moves it between phases that need no lock, or within
\* those that need it, and touches neither files nor locks.
LEMMA PhaseMoves ==
  ASSUME LockInv, NEW p \in Procs, NEW ph \in Phases,
         phase' = [phase EXCEPT ![p] = ph],
         path' \in Files \cup {NoFile}, UNCHANGED <<created, owner, fd>>,
         ph \in Locking => phase[p] \in Locking,
         ph \in {"created", "opened", "reading"} => fd[p] \in Files
  PROVE  LockInv'
  BY DEF LockInv, LockTypes, OpenBeforeLock, WritersHoldLock

\* A step of p that takes the free lock of the file it has open.
LEMMA LockTaken ==
  ASSUME LockInv, NEW p \in Procs, NEW ph \in {"locked", "loading"},
         phase[p] \in {"created", "opened"}, owner[fd[p]] = NoProc,
         phase' = [phase EXCEPT ![p] = ph],
         owner' = [owner EXCEPT ![fd[p]] = p],
         UNCHANGED <<path, created, fd>>
  PROVE  LockInv'
<1>1. fd[p] \in Files
  BY DEF LockInv, OpenBeforeLock
<1>2. LockTypes'
  BY <1>1 DEF LockInv, LockTypes, Phases
<1>3. OpenBeforeLock'
  BY DEF LockInv, LockTypes, OpenBeforeLock
<1>4. WritersHoldLock'
  <2> SUFFICES ASSUME NEW q \in Procs, phase'[q] \in Locking
               PROVE  fd[q] \in Files /\ owner'[fd[q]] = q
    BY DEF WritersHoldLock
  <2>1. CASE q = p
    BY <1>1, <2>1 DEF LockInv, LockTypes
  <2>2. CASE q # p
    <3>1. fd[q] \in Files /\ owner[fd[q]] = q
      BY <2>2 DEF LockInv, LockTypes, WritersHoldLock
    <3>2. fd[q] # fd[p]
      BY <3>1, CreatorAssumption
    <3> QED BY <1>1, <3>1, <3>2 DEF LockInv, LockTypes
  <2> QED BY <2>1, <2>2
<1> QED BY <1>2, <1>3, <1>4 DEF LockInv

\* A step of p that gives up its file, its locks and the right to write.
LEMMA LockGone ==
  ASSUME LockInv, NEW p \in Procs, NEW ph \in {"none", "undo", "deferred"},
         phase' = [phase EXCEPT ![p] = ph],
         LetGo(p), UNCHANGED <<path, created>>
  PROVE  LockInv'
<1>1. LockTypes'
  BY DEF LockInv, LockTypes, LetGo, Phases, NoFile
<1>2. OpenBeforeLock'
  BY DEF LockInv, LockTypes, OpenBeforeLock, LetGo
<1>3. WritersHoldLock'
  <2> SUFFICES ASSUME NEW q \in Procs, phase'[q] \in Locking
               PROVE  fd'[q] \in Files /\ owner'[fd'[q]] = q
    BY DEF WritersHoldLock
  <2>1. q # p
    BY DEF LockInv, LockTypes, Locking, HasFile
  <2>2. fd[q] \in Files /\ owner[fd[q]] = q
    BY <2>1 DEF LockInv, LockTypes, WritersHoldLock
  <2> QED BY <2>1, <2>2 DEF LockInv, LockTypes, LetGo
<1> QED BY <1>1, <1>2, <1>3 DEF LockInv

\* A step of p that opens file f, which needs no lock.
LEMMA FileOpened ==
  ASSUME LockInv, NEW p \in Procs, NEW f \in Files, NEW ph \in {"created", "opened", "reading"},
         phase' = [phase EXCEPT ![p] = ph],
         fd' = [fd EXCEPT ![p] = f],
         path' \in Files \cup {NoFile}, created' \in 0 .. MaxFiles, UNCHANGED owner
  PROVE  LockInv'
  BY DEF LockInv, LockTypes, OpenBeforeLock, WritersHoldLock, Phases, Locking, HasFile

\* A process whose request for a lock was refused closes the file again.
LEMMA LockRefused ==
  ASSUME LockInv, NEW p \in Procs, NEW ph \in {"none", "deferred"},
         phase' = [phase EXCEPT ![p] = ph],
         fd' = [fd EXCEPT ![p] = NoFile],
         UNCHANGED <<path, created, owner>>
  PROVE  LockInv'
  BY DEF LockInv, LockTypes, OpenBeforeLock, WritersHoldLock, Phases, Locking, HasFile

\* Every action of a process keeps the invariant.
LEMMA StepKeepsLocks ==
  ASSUME LockInv, NEW p \in Procs, Step(p)
  PROVE  LockInv'
<1> USE DEF Enter
<1>1. CASE AppendDeferred(p)
  BY <1>1 DEF AppendDeferred, disk, LockInv, LockTypes, OpenBeforeLock, WritersHoldLock
<1>2. CASE CreateFile(p)
  <2>1. created + 1 \in Files /\ created + 1 \in 0 .. MaxFiles
    BY <1>2, BoundsAssumption DEF CreateFile, Files, LockInv, LockTypes
  <2> QED BY <1>2, <2>1, FileOpened DEF CreateFile
<1>3. CASE LockCreated(p)
  <2>1. CASE owner[fd[p]] = NoProc
    BY <1>3, <2>1, LockTaken DEF LockCreated, disk
  <2>2. CASE owner[fd[p]] # NoProc
    BY <1>3, <2>2, LockRefused DEF LockCreated, disk
  <2> QED BY <2>1, <2>2
<1>4. CASE FirstWrite(p)
  BY <1>4, PhaseMoves DEF FirstWrite, Phases, Locking, HasFile, LockInv, LockTypes
<1>5. CASE FirstWriteFails(p)
  BY <1>5, LockGone DEF FirstWriteFails
<1>6. CASE RemoveFile(p)
  BY <1>6, PhaseMoves DEF RemoveFile, Phases, Locking, HasFile
<1>7. CASE FirstSync(p)
  BY <1>7, PhaseMoves DEF FirstSync, Phases, Locking, HasFile, LockInv, LockTypes
<1>8. CASE FirstSyncFails(p)
  BY <1>8, PhaseMoves DEF FirstSyncFails, disk, Phases, Locking, HasFile, LockInv, LockTypes
<1>9. CASE AppendLine(p)
  <2>1. PICK ph \in {"ready", "syncing"} : phase' = [phase EXCEPT ![p] = ph]
    BY <1>9 DEF AppendLine, LockInv, LockTypes
  <2> QED BY <1>9, <2>1, PhaseMoves DEF AppendLine, Phases, Locking, HasFile, LockInv, LockTypes
<1>10. CASE AppendLineFails(p)
  BY <1>10 DEF AppendLineFails, LockInv, LockTypes, OpenBeforeLock, WritersHoldLock
<1>11. CASE SyncLine(p)
  BY <1>11, PhaseMoves DEF SyncLine, Phases, Locking, HasFile, LockInv, LockTypes
<1>12. CASE SyncLineFails(p)
  BY <1>12, PhaseMoves DEF SyncLineFails, disk, Phases, Locking, HasFile, LockInv, LockTypes
<1>13. CASE OpenFile(p)
  BY <1>13, FileOpened DEF OpenFile, disk, LockInv, LockTypes
<1>14. CASE LockOpened(p)
  <2>1. CASE owner[fd[p]] = NoProc
    BY <1>14, <2>1, LockTaken DEF LockOpened, disk
  <2>2. CASE owner[fd[p]] # NoProc
    BY <1>14, <2>2, LockRefused DEF LockOpened, disk
  <2> QED BY <2>1, <2>2
<1>15. CASE Load(p)
  BY <1>15, PhaseMoves DEF Load, Phases, Locking, HasFile, LockInv, LockTypes
<1>16. CASE LoadFails(p)
  BY <1>16, LockGone DEF LoadFails, disk
<1>17. CASE OpenReadOnly(p)
  BY <1>17, FileOpened DEF OpenReadOnly, disk, LockInv, LockTypes
<1>18. CASE ReadLine(p) \/ ReadPart(p) \/ ReadSplice(p)
  BY <1>18 DEF ReadLine, ReadPart, ReadSplice, disk, LockInv, LockTypes, OpenBeforeLock, WritersHoldLock
<1>19. CASE ReadEnd(p)
  BY <1>19, PhaseMoves DEF ReadEnd, disk, Phases, Locking, HasFile, LockInv, LockTypes
<1>20. CASE ReadFails(p)
  BY <1>20, LockGone DEF ReadFails, Forget, disk
<1>21. CASE Close(p)
  BY <1>21, LockGone DEF Close, Forget, disk
<1>22. CASE Kill(p)
  BY <1>22, LockGone DEF Kill, Forget, disk
<1>23. CASE KillInWrite(p)
  BY <1>23, LockGone DEF KillInWrite, Forget
<1> QED
  BY <1>1, <1>2, <1>3, <1>4, <1>5, <1>6, <1>7, <1>8, <1>9, <1>10, <1>11, <1>12,
     <1>13, <1>14, <1>15, <1>16, <1>17, <1>18, <1>19, <1>20, <1>21, <1>22, <1>23 DEF Step

\* After a power loss nobody holds a lock, and nobody writes.
LEMMA PowerLossKeepsLocks ==
  ASSUME LockInv, PowerLoss
  PROVE  LockInv'
  BY DEF PowerLoss, LockInv, LockTypes, OpenBeforeLock, WritersHoldLock, Phases, Locking, HasFile, NoFile

\* In every reachable state, whoever may write a file holds its lock.
THEOREM WritersAreLocked == Spec => []LockInv
<1>1. Init => LockInv
  BY LockInvInit
<1>2. LockInv /\ [Next]_vars => LockInv'
  <2> SUFFICES ASSUME LockInv, [Next]_vars PROVE LockInv'
    OBVIOUS
  <2>1. CASE UNCHANGED vars
    BY <2>1 DEF vars, disk, LockInv, LockTypes, OpenBeforeLock, WritersHoldLock
  <2>2. CASE PowerLoss
    BY <2>2, PowerLossKeepsLocks
  <2>3. ASSUME NEW p \in Procs, Step(p) PROVE LockInv'
    BY <2>3, StepKeepsLocks
  <2> QED BY <2>1, <2>2, <2>3 DEF Next
<1> QED BY <1>1, <1>2, PTL DEF Spec

\* Two processes never write one file at a time: an advisory lock is enough,
\* over creation, failed creation, open, close, kill and power loss.
THEOREM NoTwoWriters == Spec => []WritersExclude
<1>1. LockInv => WritersExclude
  BY DEF LockInv, LockTypes, WritersHoldLock, WritersExclude
<1> QED BY <1>1, WritersAreLocked, PTL
----------------------------------------------------------------------------
(* What is on disk hangs together.                                         *)

\* The entries a line may hold.
Lines == Entry \cup {Header}

\* The identities a later entry may hang from: on-chain entries of full chunks.
Standing(c) == {c[j].entry.id : j \in {k \in Whole(c) : c[k].entry.kind \notin OffChain}}
Earlier(c, i) == {c[j].entry.id : j \in {k \in Whole(c) : k < i /\ c[k].entry.kind \notin OffChain}}

\* Every chunk, a broken one too, hangs from full chunks before it: the one a
\* load completes or a power loss shortens is no exception.
HangsAt(c, i) ==
  /\ c[i].entry.parent = Root \/ c[i].entry.parent \in Earlier(c, i)
  /\ c[i].entry.kind = "leaf" => c[i].entry.target \in Earlier(c, i)
Hangs(c) == \A i \in DOMAIN c : HangsAt(c, i)

\* Everything the tree of log may give as a parent or a target is in T.
Supported(log, T) ==
  \A i \in DOMAIN log : /\ log[i].kind \notin OffChain => log[i].id \in T
                        /\ log[i].kind = "leaf" => log[i].target \in T

\* A set of naturals below a bound has a greatest element: the maximum is
\* the one whose interval up to the bound is the least of its kind.
LEMMA GreatestExists ==
  ASSUME NEW n \in Nat, NEW S, S \subseteq 0 .. n, S # {}
  PROVE  \E i \in S : \A j \in S : j <= i
<1> DEFINE T == {i .. n : i \in S}
           R == StrictSubsetOrdering(0 .. n)
<1>1. IsFiniteSet(0 .. n)
  BY FS_Interval
<1>2. T \subseteq SUBSET (0 .. n) /\ T # {}
  <2>1. \A i \in S : i \in Nat /\ i .. n \subseteq 0 .. n
    OBVIOUS
  <2> QED BY <2>1
<1>3. IsWellFoundedOn(R, SUBSET (0 .. n))
  BY FS_StrictSubsetOrderingWellFounded, FS_FiniteSubsetsOfFinite, <1>1
<1>4. PICK t \in T : \A u \in T : ~(<<u, t>> \in R)
  <2> HIDE DEF T, R
  <2> QED BY <1>2, <1>3, WFMin
<1>5. PICK i \in S : t = i .. n
  OBVIOUS
<1>6. ASSUME NEW j \in S, ~(j <= i) PROVE FALSE
  <2>1. i \in Nat /\ j \in Nat /\ i < j /\ j <= n /\ i <= n
    BY <1>6
  <2>2. j .. n \in T
    OBVIOUS
  <2>3. j .. n \subseteq i .. n /\ i \notin j .. n /\ i \in i .. n
    BY <2>1
  <2>4. j .. n \in SUBSET (0 .. n) /\ i .. n \in SUBSET (0 .. n)
    BY <2>1
  <2>5. <<j .. n, t>> \in R
    BY <2>3, <2>4, <1>5 DEF StrictSubsetOrdering
  <2> QED BY <2>2, <2>5, <1>4
<1> QED
  BY <1>6

\* The position a supported log stands at may be a parent.
LEMMA LeafSupported ==
  ASSUME NEW S, NEW log \in Seq(S), NEW T, Supported(log, T)
  PROVE  LeafOf(log) = Root \/ LeafOf(log) \in T
<1> DEFINE moves == {i \in DOMAIN log : log[i].kind # "twig"}
           last == CHOOSE i \in moves : \A j \in moves : j <= i
<1>1. Len(log) \in Nat /\ DOMAIN log = 1 .. Len(log)
  BY LenProperties
<1>2. LeafOf(log) = IF moves = {} THEN Root
                    ELSE IF log[last].kind = "leaf" THEN log[last].target ELSE log[last].id
  BY DEF LeafOf
<1>3. CASE moves = {}
  BY <1>2, <1>3
<1>4. CASE moves # {}
  <2>1. moves \subseteq 0 .. Len(log)
    BY <1>1
  <2>2. \E i \in moves : \A j \in moves : j <= i
    BY <2>1, <1>1, <1>4, GreatestExists
  <2>3. last \in moves
    BY <2>2
  <2> HIDE DEF last
  <2>4. last \in DOMAIN log /\ log[last].kind # "twig"
    BY <2>3
  <2> QED BY <1>2, <1>4, <2>4 DEF Supported, OffChain
<1> QED BY <1>3, <1>4

\* Chunks appended after others leave these where they are.
LEMMA Appended ==
  ASSUME NEW S, NEW c \in Seq(S), NEW k \in Seq(S)
  PROVE  /\ c \o k \in Seq(S)
         /\ Len(c) \in Nat /\ Len(k) \in Nat /\ Len(c \o k) = Len(c) + Len(k)
         /\ DOMAIN c = 1 .. Len(c) /\ DOMAIN k = 1 .. Len(k)
         /\ DOMAIN (c \o k) = 1 .. (Len(c) + Len(k))
         /\ \A i \in 1 .. Len(c) : (c \o k)[i] = c[i]
         /\ \A i \in 1 .. Len(k) : (c \o k)[Len(c) + i] = k[i]
<1>1. /\ c \o k \in Seq(S) /\ Len(c \o k) = Len(c) + Len(k)
      /\ \A i \in 1 .. Len(c) + Len(k) : (c \o k)[i] = IF i <= Len(c) THEN c[i] ELSE k[i - Len(c)]
  BY ConcatProperties
<1>2. Len(c) \in Nat /\ Len(k) \in Nat /\ DOMAIN c = 1 .. Len(c) /\ DOMAIN k = 1 .. Len(k)
  BY LenProperties
<1>3. DOMAIN (c \o k) = 1 .. (Len(c) + Len(k))
  BY <1>1, LenProperties
<1>4. \A i \in 1 .. Len(c) : (c \o k)[i] = c[i]
  BY <1>1, <1>2
<1>5. ASSUME NEW i \in 1 .. Len(k) PROVE (c \o k)[Len(c) + i] = k[i]
  <2>1. Len(c) + i \in 1 .. Len(c) + Len(k) /\ ~(Len(c) + i <= Len(c)) /\ Len(c) + i - Len(c) = i
    BY <1>2
  <2> QED BY <1>1, <2>1
<1> QED BY <1>1, <1>2, <1>3, <1>4, <1>5

\* What stood on disk stands there after any append to the file.
LEMMA StandingGrows ==
  ASSUME NEW S, NEW c \in Seq(S), NEW k \in Seq(S)
  PROVE  Standing(c) \subseteq Standing(c \o k)
<1> SUFFICES ASSUME NEW id \in Standing(c) PROVE id \in Standing(c \o k)
  OBVIOUS
<1>1. PICK j \in DOMAIN c : c[j].part = "full" /\ c[j].entry.kind \notin OffChain /\ c[j].entry.id = id
  BY DEF Standing, Whole
<1>2. j \in DOMAIN (c \o k) /\ (c \o k)[j] = c[j]
  BY <1>1, Appended
<1> QED BY <1>1, <1>2 DEF Standing, Whole

\* Two files' worth of chunks that hang together do so one after the other.
LEMMA HangsAfter ==
  ASSUME NEW S, NEW c \in Seq(S), NEW k \in Seq(S), Hangs(c), Hangs(k)
  PROVE  Hangs(c \o k) /\ Standing(k) \subseteq Standing(c \o k)
<1>0. /\ Len(c) \in Nat /\ Len(k) \in Nat /\ DOMAIN c = 1 .. Len(c) /\ DOMAIN k = 1 .. Len(k)
      /\ DOMAIN (c \o k) = 1 .. (Len(c) + Len(k))
      /\ \A i \in 1 .. Len(c) : (c \o k)[i] = c[i]
      /\ \A i \in 1 .. Len(k) : (c \o k)[Len(c) + i] = k[i]
  BY Appended
<1> DEFINE b == c \o k
<1>b. /\ DOMAIN b = 1 .. (Len(c) + Len(k))
      /\ \A i \in 1 .. Len(c) : b[i] = c[i]
      /\ \A i \in 1 .. Len(k) : b[Len(c) + i] = k[i]
  BY <1>0
<1> HIDE DEF b
<1>1. ASSUME NEW i \in 1 .. Len(c) PROVE HangsAt(b, i)
  <2>1. HangsAt(c, i) /\ b[i] = c[i]
    BY <1>0, <1>b DEF Hangs
  <2>2. Earlier(c, i) \subseteq Earlier(b, i)
    <3> SUFFICES ASSUME NEW id \in Earlier(c, i) PROVE id \in Earlier(b, i)
      OBVIOUS
    <3>1. PICK j \in DOMAIN c : /\ c[j].part = "full" /\ j < i
                                /\ c[j].entry.kind \notin OffChain /\ c[j].entry.id = id
      BY DEF Earlier, Whole
    <3>2. j \in DOMAIN b /\ b[j] = c[j]
      BY <1>0, <1>b
    <3> QED BY <3>1, <3>2 DEF Earlier, Whole
  <2> QED BY <2>1, <2>2 DEF HangsAt
<1>2. ASSUME NEW i \in 1 .. Len(k) PROVE HangsAt(b, Len(c) + i)
  <2>1. HangsAt(k, i) /\ b[Len(c) + i] = k[i]
    BY <1>0, <1>b DEF Hangs
  <2>2. Earlier(k, i) \subseteq Earlier(b, Len(c) + i)
    <3> SUFFICES ASSUME NEW id \in Earlier(k, i) PROVE id \in Earlier(b, Len(c) + i)
      OBVIOUS
    <3>1. PICK j \in DOMAIN k : /\ k[j].part = "full" /\ j < i
                                /\ k[j].entry.kind \notin OffChain /\ k[j].entry.id = id
      BY DEF Earlier, Whole
    <3>2. Len(c) + j \in DOMAIN b /\ b[Len(c) + j] = k[j] /\ Len(c) + j < Len(c) + i
      BY <1>0, <1>b, <3>1
    <3> QED BY <3>1, <3>2 DEF Earlier, Whole
  <2> QED BY <2>1, <2>2 DEF HangsAt
<1>3. ASSUME NEW i \in DOMAIN b PROVE HangsAt(b, i)
  <2>1. CASE i \in 1 .. Len(c)
    BY <1>1, <2>1
  <2>2. CASE i \notin 1 .. Len(c)
    <3>1. i - Len(c) \in 1 .. Len(k) /\ Len(c) + (i - Len(c)) = i
      BY <2>2, <1>b, <1>0
    <3>2. HangsAt(b, Len(c) + (i - Len(c)))
      BY <3>1, <1>2
    <3> QED BY <3>1, <3>2
  <2> QED BY <2>1, <2>2
<1>4. ASSUME NEW id \in Standing(k) PROVE id \in Standing(b)
  <2>1. PICK j \in DOMAIN k : k[j].part = "full" /\ k[j].entry.kind \notin OffChain /\ k[j].entry.id = id
    BY DEF Standing, Whole
  <2>2. Len(c) + j \in DOMAIN b /\ b[Len(c) + j] = k[j]
    BY <1>0, <1>b
  <2> QED BY <2>1, <2>2 DEF Standing, Whole
<1> QED BY <1>3, <1>4 DEF Hangs, b

\* The chunks of d are those of c up to a place, of which the last may be
\* damaged; nothing gets better.
Cut(d, c) ==
  /\ Len(d) <= Len(c)
  /\ \A i \in 1 .. Len(d) : /\ d[i].entry = c[i].entry
                            /\ i < Len(d) => d[i] = c[i]
                            /\ d[i].part # "torn" => c[i].part # "torn"

\* A file that is cut, or whose last line is damaged, still hangs together.
LEMMA CutHangs ==
  ASSUME NEW S, NEW c \in Seq(S), NEW d \in Seq(S), Cut(d, c), Hangs(c)
  PROVE  Hangs(d)
<1>0. Len(c) \in Nat /\ Len(d) \in Nat /\ DOMAIN c = 1 .. Len(c) /\ DOMAIN d = 1 .. Len(d)
  BY LenProperties
<1> SUFFICES ASSUME NEW i \in DOMAIN d PROVE HangsAt(d, i)
  BY DEF Hangs
<1>1. i \in DOMAIN c /\ d[i].entry = c[i].entry
  BY <1>0 DEF Cut
<1>2. Earlier(c, i) \subseteq Earlier(d, i)
  <2> SUFFICES ASSUME NEW id \in Earlier(c, i) PROVE id \in Earlier(d, i)
    OBVIOUS
  <2>1. PICK j \in DOMAIN c : /\ c[j].part = "full" /\ j < i
                              /\ c[j].entry.kind \notin OffChain /\ c[j].entry.id = id
    BY DEF Earlier, Whole
  <2>2. j \in 1 .. Len(d) /\ j < Len(d)
    BY <1>0, <2>1
  <2>3. d[j] = c[j]
    BY <2>2 DEF Cut
  <2> QED BY <1>0, <2>1, <2>2, <2>3 DEF Earlier, Whole
<1>3. HangsAt(c, i)
  BY <1>1 DEF Hangs
<1> QED BY <1>1, <1>2, <1>3 DEF HangsAt

\* A write cut short appends a cut of what it would have appended.
LEMMA CutAfter ==
  ASSUME NEW S, NEW c \in Seq(S), NEW k \in Seq(S), NEW l \in Seq(S), Cut(k, l)
  PROVE  Cut(c \o k, c \o l)
<1>0. /\ Len(c) \in Nat /\ Len(k) \in Nat /\ Len(l) \in Nat
      /\ Len(c \o k) = Len(c) + Len(k) /\ Len(c \o l) = Len(c) + Len(l)
      /\ \A i \in 1 .. Len(c) : (c \o k)[i] = c[i] /\ (c \o l)[i] = c[i]
      /\ \A i \in 1 .. Len(k) : (c \o k)[Len(c) + i] = k[i]
      /\ \A i \in 1 .. Len(l) : (c \o l)[Len(c) + i] = l[i]
  BY Appended
<1>1. Len(k) <= Len(l)
  BY DEF Cut
<1> DEFINE b == c \o k
           a == c \o l
<1>b. /\ Len(b) = Len(c) + Len(k) /\ Len(a) = Len(c) + Len(l)
      /\ \A i \in 1 .. Len(c) : b[i] = a[i]
      /\ \A i \in 1 .. Len(k) : b[Len(c) + i] = k[i]
      /\ \A i \in 1 .. Len(l) : a[Len(c) + i] = l[i]
  BY <1>0
<1> HIDE DEF a, b
<1>2. ASSUME NEW i \in 1 .. Len(b)
      PROVE  /\ b[i].entry = a[i].entry
             /\ i < Len(b) => b[i] = a[i]
             /\ b[i].part # "torn" => a[i].part # "torn"
  <2>1. CASE i \in 1 .. Len(c)
    BY <1>b, <2>1
  <2>2. CASE i \notin 1 .. Len(c)
    <3> DEFINE m == i - Len(c)
    <3>1. m \in 1 .. Len(k) /\ m \in 1 .. Len(l) /\ Len(c) + m = i /\ (i < Len(b) => m < Len(k))
      BY <2>2, <1>b, <1>0, <1>1
    <3> HIDE DEF m
    <3>2. b[i] = k[m] /\ a[i] = l[m]
      BY <3>1, <1>b
    <3>3. /\ k[m].entry = l[m].entry
          /\ m < Len(k) => k[m] = l[m]
          /\ k[m].part # "torn" => l[m].part # "torn"
      BY <3>1 DEF Cut
    <3> QED BY <3>1, <3>2, <3>3
  <2> QED BY <2>1, <2>2
<1>3. Len(b) <= Len(a)
  BY <1>0, <1>1, <1>b
<1>4. Cut(b, a)
  BY <1>2, <1>3 DEF Cut
<1> QED BY <1>4 DEF a, b

\* A beginning of lines, all of them or fewer, is a cut of them.
LEMMA PrefixCuts ==
  ASSUME NEW S, NEW l \in Seq(S), NEW n \in 0 .. Len(l)
  PROVE  /\ SubSeq(l, 1, n) \in Seq(S) /\ Len(SubSeq(l, 1, n)) = n
         /\ \A i \in 1 .. n : SubSeq(l, 1, n)[i] = l[i]
         /\ Cut(SubSeq(l, 1, n), l)
<1>0. Len(l) \in Nat /\ \A i \in 1 .. Len(l) : l[i] \in S
  BY LenProperties, ElementOfSeq
<1>1. \A i \in 1 .. n : l[i] \in S
  BY <1>0
<1>2. /\ SubSeq(l, 1, n) \in Seq(S)
      /\ Len(SubSeq(l, 1, n)) = IF 1 <= n THEN n - 1 + 1 ELSE 0
      /\ \A i \in 1 .. n - 1 + 1 : SubSeq(l, 1, n)[i] = l[1 + i - 1]
  BY <1>0, <1>1, SubSeqProperties
<1>3. Len(SubSeq(l, 1, n)) = n /\ \A i \in 1 .. n : SubSeq(l, 1, n)[i] = l[i]
  BY <1>0, <1>2
<1>4. Cut(SubSeq(l, 1, n), l)
  BY <1>0, <1>3 DEF Cut
<1> QED BY <1>2, <1>3, <1>4

\* The outcomes of a write that is cut short are cuts of what was written.
LEMMA CutShortCuts ==
  ASSUME NEW l \in Seq(Chunk), NEW k \in CutShort(l)
  PROVE  k \in Seq(Chunk) /\ Cut(k, l)
<1>0. Len(l) \in Nat /\ DOMAIN l = 1 .. Len(l) /\ \A i \in 1 .. Len(l) : l[i] \in Chunk
  BY LenProperties, ElementOfSeq
<1>1. ASSUME NEW n \in DOMAIN l, NEW part \in {"torn", "bare"},
             part = "bare" => l[n].part = "full"
      PROVE  LET d == Append(SubSeq(l, 1, n - 1), Piece(l[n].entry, part))
             IN  d \in Seq(Chunk) /\ Cut(d, l)
  <2> DEFINE b == SubSeq(l, 1, n - 1)
             x == Piece(l[n].entry, part)
             d == Append(b, x)
  <2>1. b \in Seq(Chunk) /\ Len(b) = n - 1 /\ \A i \in 1 .. n - 1 : b[i] = l[i]
    BY <1>0, PrefixCuts
  <2>2. x \in Chunk /\ x.entry = l[n].entry /\ (x.part # "torn" => l[n].part # "torn")
    <3>1. x = [entry |-> l[n].entry, part |-> part] /\ l[n] \in Chunk
      BY <1>0 DEF Piece
    <3>2. x.entry = l[n].entry /\ x.part = part /\ x \in Chunk
      BY <3>1 DEF Chunk
    <3> QED BY <3>2, <1>1
  <2> HIDE DEF b, x
  <2>3. /\ d \in Seq(Chunk) /\ Len(d) = Len(b) + 1
        /\ \A i \in 1 .. Len(b) : d[i] = b[i]
        /\ d[Len(b) + 1] = x
    BY <2>1, <2>2, AppendProperties
  <2> HIDE DEF d
  <2>4. Len(d) = n /\ d[n] = x /\ \A i \in 1 .. n - 1 : d[i] = l[i]
    BY <2>1, <2>3, <1>0
  <2>5. Cut(d, l)
    <3>1. Len(d) <= Len(l)
      BY <2>4, <1>0
    <3>2. ASSUME NEW i \in 1 .. Len(d)
          PROVE  /\ d[i].entry = l[i].entry
                 /\ i < Len(d) => d[i] = l[i]
                 /\ d[i].part # "torn" => l[i].part # "torn"
      <4>1. CASE i = n
        BY <4>1, <2>2, <2>4
      <4>2. CASE i # n
        BY <4>2, <2>4, <1>0
      <4> QED BY <4>1, <4>2
    <3> QED BY <3>1, <3>2 DEF Cut
  <2> QED BY <2>3, <2>5 DEF d, b, x
<1>2. ASSUME NEW n \in 0 .. (Len(l) - 1) PROVE SubSeq(l, 1, n) \in Seq(Chunk) /\ Cut(SubSeq(l, 1, n), l)
  <2>1. n \in 0 .. Len(l)
    BY <1>0
  <2> QED BY <2>1, PrefixCuts
<1>3. \/ \E n \in 0 .. (Len(l) - 1) : k = SubSeq(l, 1, n)
      \/ \E n \in DOMAIN l : k = Append(SubSeq(l, 1, n - 1), Piece(l[n].entry, "torn"))
      \/ \E n \in DOMAIN l : /\ l[n].part = "full"
                             /\ k = Append(SubSeq(l, 1, n - 1), Piece(l[n].entry, "bare"))
  BY DEF CutShort, Whole
<1> QED BY <1>1, <1>2, <1>3

\* Full lines of chained entries hang together, and all of them stand.
LEMMA FullHangs ==
  ASSUME NEW log \in Seq(Lines), Chained(log)
  PROVE  Full(log) \in Seq(Chunk) /\ Hangs(Full(log)) /\ ChainIds(log) \subseteq Standing(Full(log))
<1> DEFINE c == Full(log)
<1>0. Len(log) \in Nat /\ DOMAIN log = 1 .. Len(log) /\ \A i \in 1 .. Len(log) : log[i] \in Lines
  BY LenProperties, ElementOfSeq
<1>1. /\ c = [i \in 1 .. Len(log) |-> [entry |-> log[i], part |-> "full"]]
      /\ \A i \in 1 .. Len(log) : [entry |-> log[i], part |-> "full"] \in Chunk
  BY <1>0 DEF Full, Piece, Chunk, Lines
<1>2. c \in Seq(Chunk)
  BY <1>0, <1>1
<1>3. DOMAIN c = DOMAIN log /\ \A i \in DOMAIN log : c[i].entry = log[i] /\ c[i].part = "full"
  BY <1>0, <1>1
<1> HIDE DEF c
<1>4. Hangs(c)
  <2> SUFFICES ASSUME NEW i \in DOMAIN log PROVE HangsAt(c, i)
    BY <1>3 DEF Hangs
  <2>1. ChainedAt(log, i)
    BY DEF Chained
  <2>2. \A j \in 1 .. (i - 1) : log[j].kind \notin OffChain => log[j].id \in Earlier(c, i)
    <3> SUFFICES ASSUME NEW j \in 1 .. (i - 1), log[j].kind \notin OffChain PROVE log[j].id \in Earlier(c, i)
      OBVIOUS
    <3>1. j \in DOMAIN log /\ j < i
      BY <1>0
    <3> QED BY <3>1, <1>3 DEF Earlier, Whole
  <2> QED BY <2>1, <2>2, <1>3 DEF HangsAt, ChainedAt
<1>5. ChainIds(log) \subseteq Standing(c)
  BY <1>3 DEF ChainIds, Standing, Whole
<1> QED BY <1>2, <1>4, <1>5 DEF c

\* A chained log supports itself.
LEMMA ChainedSupports ==
  ASSUME NEW log, DOMAIN log \subseteq Nat, Chained(log), NEW n \in Nat, DOMAIN log = 1 .. n
  PROVE  Supported(log, ChainIds(log))
<1> SUFFICES ASSUME NEW i \in DOMAIN log
             PROVE  /\ log[i].kind \notin OffChain => log[i].id \in ChainIds(log)
                    /\ log[i].kind = "leaf" => log[i].target \in ChainIds(log)
  BY DEF Supported
<1>1. ChainedAt(log, i)
  BY DEF Chained
<1>2. \A j \in 1 .. (i - 1) : j \in DOMAIN log
  OBVIOUS
<1> QED BY <1>1, <1>2 DEF ChainedAt, ChainIds

\* One entry more, hanging from what is there.
LEMMA ChainedGrows ==
  ASSUME NEW S, NEW log \in Seq(S), NEW e \in S, Chained(log),
         e.parent = Root \/ e.parent \in ChainIds(log),
         e.kind = "leaf" => e.target \in ChainIds(log)
  PROVE  /\ Chained(Append(log, e))
         /\ ChainIds(log) \subseteq ChainIds(Append(log, e))
         /\ e.kind \notin OffChain => e.id \in ChainIds(Append(log, e))
<1> DEFINE new == Append(log, e)
           n == Len(log) + 1
<1>0. /\ Len(log) \in Nat /\ DOMAIN log = 1 .. Len(log)
      /\ new \in Seq(S) /\ Len(new) = n
      /\ new[n] = e /\ \A i \in 1 .. Len(log) : new[i] = log[i]
  BY AppendProperties, LenProperties
<1>1. DOMAIN new = 1 .. n
  BY <1>0, LenProperties
<1> HIDE DEF new
<1>2. ChainIds(log) \subseteq ChainIds(new)
  <2> SUFFICES ASSUME NEW id \in ChainIds(log) PROVE id \in ChainIds(new)
    OBVIOUS
  <2>1. PICK j \in DOMAIN log : log[j].kind \notin OffChain /\ log[j].id = id
    BY DEF ChainIds
  <2>2. j \in DOMAIN new /\ new[j] = log[j]
    BY <1>0, <1>1
  <2> QED BY <2>1, <2>2 DEF ChainIds
<1>3. \A id \in ChainIds(log) : \E j \in 1 .. (n - 1) : new[j].id = id /\ new[j].kind \notin OffChain
  <2> SUFFICES ASSUME NEW id \in ChainIds(log)
               PROVE  \E j \in 1 .. (n - 1) : new[j].id = id /\ new[j].kind \notin OffChain
    OBVIOUS
  <2>1. PICK j \in DOMAIN log : log[j].kind \notin OffChain /\ log[j].id = id
    BY DEF ChainIds
  <2>2. j \in 1 .. (n - 1) /\ new[j] = log[j]
    BY <1>0
  <2> QED BY <2>1, <2>2
<1>4. ChainedAt(new, n)
  BY <1>0, <1>3 DEF ChainedAt
<1>5. ASSUME NEW i \in 1 .. Len(log) PROVE ChainedAt(new, i)
  <2>1. ChainedAt(log, i)
    BY <1>0 DEF Chained
  <2>2. new[i] = log[i] /\ \A j \in 1 .. (i - 1) : new[j] = log[j]
    BY <1>0
  <2> QED BY <2>1, <2>2 DEF ChainedAt
<1>6. Chained(new)
  BY <1>0, <1>1, <1>4, <1>5 DEF Chained
<1>7. e.kind \notin OffChain => e.id \in ChainIds(new)
  BY <1>0, <1>1 DEF ChainIds
<1> QED BY <1>2, <1>6, <1>7 DEF new

\* A supported log with one more supported entry.
LEMMA SupportedGrows ==
  ASSUME NEW S, NEW log \in Seq(S), NEW e \in S, NEW T, NEW U, Supported(log, T), T \subseteq U,
         e.kind \notin OffChain => e.id \in U, e.kind = "leaf" => e.target \in U
  PROVE  Supported(Append(log, e), U)
<1> DEFINE new == Append(log, e)
           n == Len(log) + 1
<1>0. /\ Len(log) \in Nat /\ DOMAIN log = 1 .. Len(log)
      /\ new \in Seq(S) /\ Len(new) = n
      /\ new[n] = e /\ \A i \in 1 .. Len(log) : new[i] = log[i]
  BY AppendProperties, LenProperties
<1>1. DOMAIN new = 1 .. n
  BY <1>0, LenProperties
<1> HIDE DEF new
<1>2. Supported(new, U)
  <2> SUFFICES ASSUME NEW i \in DOMAIN new
               PROVE  /\ new[i].kind \notin OffChain => new[i].id \in U
                      /\ new[i].kind = "leaf" => new[i].target \in U
    BY DEF Supported
  <2>1. CASE i = n
    BY <2>1, <1>0
  <2>2. CASE i # n
    <3>1. i \in DOMAIN log /\ new[i] = log[i]
      BY <2>2, <1>0, <1>1
    <3> QED BY <3>1 DEF Supported
  <2> QED BY <2>1, <2>2
<1> QED BY <1>2 DEF new

\* A line appended by the store: what it hangs from stands on disk.
LEMMA LineHangs ==
  ASSUME NEW c \in Seq(Chunk), NEW e \in Lines, Hangs(c),
         e.parent = Root \/ e.parent \in Standing(c),
         e.kind = "leaf" => e.target \in Standing(c)
  PROVE  /\ Full(<<e>>) \in Seq(Chunk)
         /\ Hangs(c \o Full(<<e>>))
         /\ Standing(c) \subseteq Standing(c \o Full(<<e>>))
         /\ e.kind \notin OffChain => e.id \in Standing(c \o Full(<<e>>))
<1> DEFINE x == [entry |-> e, part |-> "full"]
           k == <<x>>
           b == c \o k
           n == Len(c) + 1
<1>1. Full(<<e>>) = k
  BY DEF Full, Piece
<1>2. x \in Chunk
  BY DEF Chunk, Lines
<1>3. k \in Seq(Chunk) /\ Len(k) = 1 /\ k[1] = x
  BY <1>2
<1>4. x.entry = e /\ x.part = "full"
  OBVIOUS
<1> HIDE DEF x, k
<1>5. /\ b \in Seq(Chunk) /\ Len(c) \in Nat /\ DOMAIN c = 1 .. Len(c) /\ DOMAIN b = 1 .. n
      /\ \A i \in 1 .. Len(c) : b[i] = c[i]
      /\ b[n] = x
  <2>1. /\ b \in Seq(Chunk) /\ Len(c) \in Nat /\ DOMAIN c = 1 .. Len(c)
        /\ DOMAIN b = 1 .. (Len(c) + Len(k))
        /\ \A i \in 1 .. Len(c) : b[i] = c[i]
        /\ \A i \in 1 .. Len(k) : b[Len(c) + i] = k[i]
    <3> k \in Seq(Chunk)
      BY <1>3
    <3> QED BY Appended
  <2> HIDE DEF b
  <2> QED BY <1>3, <2>1
<1>6. Standing(c) \subseteq Standing(b)
  BY <1>3, StandingGrows
<1> HIDE DEF b
<1>7. Standing(c) \subseteq Earlier(b, n)
  <2> SUFFICES ASSUME NEW id \in Standing(c) PROVE id \in Earlier(b, n)
    OBVIOUS
  <2>1. PICK j \in DOMAIN c : c[j].part = "full" /\ c[j].entry.kind \notin OffChain /\ c[j].entry.id = id
    BY DEF Standing, Whole
  <2>2. j \in DOMAIN b /\ b[j] = c[j] /\ j < n
    BY <1>5
  <2> QED BY <2>1, <2>2 DEF Earlier, Whole
<1>8. HangsAt(b, n)
  BY <1>4, <1>5, <1>7 DEF HangsAt
<1>9. ASSUME NEW i \in 1 .. Len(c) PROVE HangsAt(b, i)
  <2>1. HangsAt(c, i) /\ b[i] = c[i]
    BY <1>5 DEF Hangs
  <2>2. Earlier(c, i) \subseteq Earlier(b, i)
    <3> SUFFICES ASSUME NEW id \in Earlier(c, i) PROVE id \in Earlier(b, i)
      OBVIOUS
    <3>1. PICK j \in DOMAIN c : /\ c[j].part = "full" /\ j < i
                                /\ c[j].entry.kind \notin OffChain /\ c[j].entry.id = id
      BY DEF Earlier, Whole
    <3>2. j \in DOMAIN b /\ b[j] = c[j]
      BY <1>5
    <3> QED BY <3>1, <3>2 DEF Earlier, Whole
  <2> QED BY <2>1, <2>2 DEF HangsAt
<1>10. Hangs(b)
  BY <1>5, <1>8, <1>9 DEF Hangs
<1>11. e.kind \notin OffChain => e.id \in Standing(b)
  BY <1>4, <1>5 DEF Standing, Whole
<1> QED BY <1>1, <1>3, <1>6, <1>10, <1>11 DEF b

\* A chained log stays chained behind the header.
LEMMA ChainedBehindHeader ==
  ASSUME NEW log \in Seq(Lines), Chained(log)
  PROVE  /\ <<Header>> \o log \in Seq(Lines)
         /\ Chained(<<Header>> \o log)
         /\ ChainIds(log) \subseteq ChainIds(<<Header>> \o log)
<1> DEFINE h == <<Header>>
           new == h \o log
<1>1. h \in Seq(Lines) /\ Len(h) = 1 /\ h[1] = Header
  BY DEF Lines
<1>h. Header.parent = Root /\ Header.kind # "leaf"
  BY DEF Header
<1> HIDE DEF h
<1>2. /\ new \in Seq(Lines) /\ Len(log) \in Nat /\ DOMAIN log = 1 .. Len(log)
      /\ DOMAIN new = 1 .. (Len(h) + Len(log))
      /\ \A i \in 1 .. Len(h) : new[i] = h[i]
      /\ \A i \in 1 .. Len(log) : new[Len(h) + i] = log[i]
  <2>1. h \in Seq(Lines)
    BY <1>1
  <2> QED BY <2>1, Appended
<1> HIDE DEF new
<1>3. /\ DOMAIN new = 1 .. (1 + Len(log)) /\ new[1] = Header
      /\ \A i \in 1 .. Len(log) : new[1 + i] = log[i]
  BY <1>1, <1>2
<1>4. ChainedAt(new, 1)
  BY <1>3, <1>h DEF ChainedAt
<1>5. ASSUME NEW i \in 1 .. Len(log) PROVE ChainedAt(new, 1 + i)
  <2>1. ChainedAt(log, i)
    BY <1>2 DEF Chained
  <2>2. \A j \in 1 .. (i - 1) : 1 + j \in 1 .. (1 + i - 1) /\ new[1 + j] = log[j]
    BY <1>2, <1>3
  <2>3. new[1 + i] = log[i]
    BY <1>3
  <2>4. \A id : (\E j \in 1 .. (i - 1) : log[j].id = id /\ log[j].kind \notin OffChain)
                => \E j \in 1 .. ((1 + i) - 1) : new[j].id = id /\ new[j].kind \notin OffChain
    BY <2>2
  <2> DEFINE m == 1 + i
  <2> HIDE DEF m
  <2>5. ChainedAt(new, m)
    <3>1. new[m] = log[i]
      BY <2>3 DEF m
    <3>2. \A id : (\E j \in 1 .. (i - 1) : log[j].id = id /\ log[j].kind \notin OffChain)
                  => \E j \in 1 .. (m - 1) : new[j].id = id /\ new[j].kind \notin OffChain
      BY <2>4 DEF m
    <3>3. (\E j \in 1 .. (i - 1) : log[j].id = log[i].parent /\ log[j].kind \notin OffChain)
            => \E j \in 1 .. (m - 1) : new[j].id = log[i].parent /\ new[j].kind \notin OffChain
      BY <3>2
    <3>4. (\E j \in 1 .. (i - 1) : log[j].id = log[i].target /\ log[j].kind \notin OffChain)
            => \E j \in 1 .. (m - 1) : new[j].id = log[i].target /\ new[j].kind \notin OffChain
      BY <3>2
    <3> QED BY <2>1, <3>1, <3>3, <3>4 DEF ChainedAt
  <2> QED BY <2>5 DEF m
<1>6. ASSUME NEW i \in DOMAIN new PROVE ChainedAt(new, i)
  <2>1. CASE i = 1
    BY <2>1, <1>4
  <2>2. CASE i # 1
    <3>1. i - 1 \in 1 .. Len(log) /\ 1 + (i - 1) = i
      BY <2>2, <1>2, <1>3
    <3>2. ChainedAt(new, 1 + (i - 1))
      BY <3>1, <1>5
    <3> QED BY <3>1, <3>2
  <2> QED BY <2>1, <2>2
<1>7. ASSUME NEW id \in ChainIds(log) PROVE id \in ChainIds(new)
  <2>1. PICK j \in DOMAIN log : log[j].kind \notin OffChain /\ log[j].id = id
    BY DEF ChainIds
  <2>2. 1 + j \in DOMAIN new /\ new[1 + j] = log[j]
    BY <1>2, <1>3
  <2> QED BY <2>1, <2>2 DEF ChainIds
<1>8. Chained(new)
  BY <1>6 DEF Chained
<1> QED BY <1>2, <1>7, <1>8 DEF new, h

\* What createAndFlush writes: the header, the buffered entries, the message.
LEMMA FirstLinesHang ==
  ASSUME NEW log \in Seq(Lines), Chained(log), NEW e \in Lines, e.kind = "message",
         e.parent = Root \/ e.parent \in ChainIds(log)
  PROVE  LET lines == Full(<<Header>> \o log \o <<e>>)
         IN  /\ lines \in Seq(Chunk) /\ Hangs(lines)
             /\ ChainIds(log) \subseteq Standing(lines)
             /\ e.id \in Standing(lines)
<1> DEFINE b == <<Header>> \o log
           new == Append(b, e)
<1>1. b \in Seq(Lines) /\ Chained(b) /\ ChainIds(log) \subseteq ChainIds(b)
  BY ChainedBehindHeader
<1> HIDE DEF b
<1>2. /\ Chained(new) /\ ChainIds(b) \subseteq ChainIds(new)
      /\ e.kind \notin OffChain => e.id \in ChainIds(new)
  <2>1. e.kind # "leaf" /\ (e.parent = Root \/ e.parent \in ChainIds(b))
    BY <1>1
  <2> QED BY <1>1, <2>1, ChainedGrows
<1>3. new \in Seq(Lines) /\ new = b \o <<e>>
  BY <1>1, AppendProperties, AppendIsConcat
<1> HIDE DEF new
<1>4. Full(new) \in Seq(Chunk) /\ Hangs(Full(new)) /\ ChainIds(new) \subseteq Standing(Full(new))
  BY <1>2, <1>3, FullHangs
<1>5. e.id \in ChainIds(new)
  BY <1>2 DEF OffChain
<1> QED BY <1>1, <1>2, <1>3, <1>4, <1>5 DEF b

\* Two entries of one identity do not matter: what load keeps hangs together
\* as it did, and supports the tree load builds from it.
LEMMA LoadHangs ==
  ASSUME NEW c \in Seq(Chunk), Hangs(c), Kept(c) >= 1
  PROVE  /\ Kept(c) \in 1 .. Len(c)
         /\ Recovered(c) \in Seq(Chunk) /\ Len(Recovered(c)) = Kept(c)
         /\ Hangs(Recovered(c))
         /\ Loaded(c) \in Seq(Lines)
         /\ Supported(Loaded(c), Standing(Recovered(c)))
<1> DEFINE n == Kept(c)
           d == Recovered(c)
<1>0. Len(c) \in Nat /\ DOMAIN c = 1 .. Len(c) /\ \A i \in 1 .. Len(c) : c[i] \in Chunk
  BY LenProperties, ElementOfSeq
<1>1. n \in 1 .. Len(c)
  <2>1. Whole(c) \in SUBSET (1 .. Len(c))
    BY <1>0 DEF Whole
  <2>2. IsFiniteSet(1 .. Len(c)) /\ Cardinality(1 .. Len(c)) = Len(c)
    <3>1. /\ IsFiniteSet(1 .. Len(c))
          /\ Cardinality(1 .. Len(c)) = IF 1 > Len(c) THEN 0 ELSE Len(c) - 1 + 1
      BY <1>0, FS_Interval
    <3> QED BY <1>0, <3>1
  <2>3. IsFiniteSet(Whole(c)) /\ Cardinality(Whole(c)) <= Cardinality(1 .. Len(c))
    BY <2>1, <2>2, FS_Subset
  <2>4. Cardinality(Whole(c)) \in Nat
    BY <2>3, FS_CardinalityType
  <2> QED BY <2>2, <2>3, <2>4, <1>0 DEF Kept
<1>2. d = [i \in 1 .. n |-> [entry |-> c[i].entry, part |-> "full"]]
  BY DEF Recovered, Piece
<1> HIDE DEF n
<1>3. \A i \in 1 .. n : i \in 1 .. Len(c) /\ [entry |-> c[i].entry, part |-> "full"] \in Chunk
  BY <1>0, <1>1 DEF Chunk
<1>4. d \in Seq(Chunk) /\ DOMAIN d = 1 .. n /\ Len(d) = n
  BY <1>1, <1>2, <1>3
<1>5. \A i \in 1 .. n : d[i].entry = c[i].entry /\ d[i].part = "full"
  BY <1>2
<1> HIDE DEF d
<1>6. ASSUME NEW i \in 1 .. n PROVE HangsAt(d, i)
  <2>1. HangsAt(c, i)
    BY <1>0, <1>3 DEF Hangs
  <2>2. Earlier(c, i) \subseteq Earlier(d, i)
    <3> SUFFICES ASSUME NEW id \in Earlier(c, i) PROVE id \in Earlier(d, i)
      OBVIOUS
    <3>1. PICK j \in DOMAIN c : /\ j < i /\ c[j].entry.kind \notin OffChain /\ c[j].entry.id = id
      BY DEF Earlier, Whole
    <3>2. j \in 1 .. n
      BY <3>1, <1>0, <1>1
    <3> QED BY <3>1, <3>2, <1>4, <1>5 DEF Earlier, Whole
  <2> QED BY <2>1, <2>2, <1>5 DEF HangsAt
<1>7. Hangs(d)
  BY <1>4, <1>6 DEF Hangs
<1> DEFINE all == EntriesOf(d)
           log == Tail(all)
<1>8. all = [i \in 1 .. n |-> d[i].entry]
  BY <1>4 DEF EntriesOf
<1>9. \A i \in 1 .. n : d[i].entry \in Lines
  BY <1>0, <1>3, <1>5 DEF Chunk, Lines
<1>10. all \in Seq(Lines) /\ Len(all) = n /\ \A i \in 1 .. n : all[i] = d[i].entry
  BY <1>1, <1>8, <1>9
<1> HIDE DEF all
<1>11. all # <<>>
  BY <1>10, <1>1
<1>12. /\ log \in Seq(Lines) /\ Len(log) = n - 1
       /\ \A i \in 1 .. Len(log) : log[i] = all[i + 1]
  BY <1>10, <1>11, HeadTailProperties
<1>13. DOMAIN log = 1 .. (n - 1)
  BY <1>12, LenProperties
<1> HIDE DEF log
<1>14. Supported(log, Standing(d))
  <2> SUFFICES ASSUME NEW i \in DOMAIN log
               PROVE  /\ log[i].kind \notin OffChain => log[i].id \in Standing(d)
                      /\ log[i].kind = "leaf" => log[i].target \in Standing(d)
    BY DEF Supported
  <2>1. i + 1 \in 1 .. n
    BY <1>1, <1>13
  <2>2. log[i] = d[i + 1].entry
    BY <1>10, <1>12, <1>13, <2>1
  <2>3. d[i + 1].entry.kind \notin OffChain => d[i + 1].entry.id \in Standing(d)
    BY <2>1, <1>4, <1>5 DEF Standing, Whole
  <2>4. Earlier(d, i + 1) \subseteq Standing(d)
    BY DEF Earlier, Standing
  <2>5. HangsAt(d, i + 1)
    BY <2>1, <1>6
  <2> QED BY <2>2, <2>3, <2>4, <2>5 DEF HangsAt
<1> QED BY <1>1, <1>4, <1>7, <1>12, <1>14 DEF Loaded, log, all, d, n
----------------------------------------------------------------------------
\* The types of what is on disk and of what each store keeps of it; a sync
\* covers only what was written.
DiskTypes ==
  /\ content \in [Files -> Seq(Chunk)]
  /\ durable \in [Files -> Nat]
  /\ \A f \in Files : durable[f] <= Len(content[f])
  /\ pending \in [Procs -> Seq(Lines)]
  /\ index \in [Procs -> Seq(Lines)]
  /\ inflight \in [Procs -> Lines]

\* Before its first write a store's tree is what it has buffered, afterwards
\* it hangs from what stands in its file; the first message goes the same way.
Buffering == {"deferred", "created", "locked", "undo"}
\* What a store holds hangs from the buffer, or from what stands in its file.
StoreSupported(p) ==
  /\ phase[p] \in Buffering => index[p] = pending[p] /\ Chained(pending[p])
  /\ phase[p] \in {"created", "locked"} =>
       /\ inflight[p].kind = "message"
       /\ inflight[p].parent = Root \/ inflight[p].parent \in ChainIds(pending[p])
  /\ phase[p] \in HasFile => Supported(index[p], Standing(content[fd[p]]))
  /\ phase[p] = "flushed" =>
       inflight[p].kind = "message" /\ inflight[p].id \in Standing(content[fd[p]])

\* Inductive together with LockInv: a file shrinks only in Load, whose lock
\* keeps every other store that has the file out of HasFile.
DiskInv == /\ DiskTypes
           /\ \A f \in Files : Hangs(content[f])
           /\ \A p \in Procs : StoreSupported(p)

\* A step of p in which no file another store writes loses a standing entry.
LEMMA OthersKeep ==
  ASSUME DiskInv, NEW p \in Procs,
         content' \in [Files -> Seq(Chunk)], durable' \in [Files -> Nat],
         \A f \in Files : durable'[f] <= Len(content'[f]),
         \A f \in Files : Hangs(content'[f]),
         pending' \in [Procs -> Seq(Lines)], index' \in [Procs -> Seq(Lines)],
         inflight' \in [Procs -> Lines],
         \A q \in Procs \ {p} : /\ phase'[q] = phase[q] /\ fd'[q] = fd[q]
                                /\ pending'[q] = pending[q] /\ index'[q] = index[q]
                                /\ inflight'[q] = inflight[q],
         \A q \in Procs \ {p} : phase[q] \in HasFile =>
            Standing(content[fd[q]]) \subseteq Standing(content'[fd[q]]),
         StoreSupported(p)'
  PROVE  DiskInv'
<1>1. DiskTypes'
  BY DEF DiskTypes
<1>2. ASSUME NEW q \in Procs \ {p} PROVE StoreSupported(q)'
  <2>1. StoreSupported(q)
    BY DEF DiskInv
  <2>2. /\ phase'[q] = phase[q] /\ fd'[q] = fd[q] /\ pending'[q] = pending[q]
        /\ index'[q] = index[q] /\ inflight'[q] = inflight[q]
    OBVIOUS
  <2>3. phase[q] \in HasFile => Standing(content[fd[q]]) \subseteq Standing(content'[fd[q]])
    OBVIOUS
  <2>4. phase[q] \in HasFile => Supported(index[q], Standing(content'[fd[q]]))
    <3> HAVE phase[q] \in HasFile
    <3>1. Supported(index[q], Standing(content[fd[q]]))
      BY <2>1 DEF StoreSupported
    <3> QED BY <3>1, <2>3 DEF Supported
  <2>5. phase[q] = "flushed" => inflight[q].id \in Standing(content'[fd[q]])
    BY <2>1, <2>3 DEF StoreSupported, HasFile
  <2> QED BY <2>1, <2>2, <2>4, <2>5 DEF StoreSupported
<1> QED BY <1>1, <1>2 DEF DiskInv

\* A step of p that leaves every file as it is.
LEMMA FilesKeep ==
  ASSUME DiskInv, NEW p \in Procs, content' = content,
         durable' \in [Files -> Nat], \A f \in Files : durable'[f] <= Len(content[f]),
         pending' \in [Procs -> Seq(Lines)], index' \in [Procs -> Seq(Lines)],
         inflight' \in [Procs -> Lines],
         \A q \in Procs \ {p} : /\ phase'[q] = phase[q] /\ fd'[q] = fd[q]
                                /\ pending'[q] = pending[q] /\ index'[q] = index[q]
                                /\ inflight'[q] = inflight[q],
         StoreSupported(p)'
  PROVE  DiskInv'
<1>1. content' \in [Files -> Seq(Chunk)] /\ \A f \in Files : Hangs(content'[f])
  BY DEF DiskInv, DiskTypes
<1>2. \A q \in Procs \ {p} : phase[q] \in HasFile =>
         Standing(content[fd[q]]) \subseteq Standing(content'[fd[q]])
  OBVIOUS
<1>3. \A f \in Files : durable'[f] <= Len(content'[f])
  OBVIOUS
<1> QED BY <1>1, <1>2, <1>3, OthersKeep

\* A write of p appends chunks that hang from what is there.
LEMMA WriteKeeps ==
  ASSUME LockInv, DiskInv, NEW p \in Procs, NEW f \in Files, NEW k \in Seq(Chunk),
         Hangs(content[f] \o k), content' = [content EXCEPT ![f] = @ \o k], durable' = durable,
         pending' \in [Procs -> Seq(Lines)], index' \in [Procs -> Seq(Lines)],
         inflight' \in [Procs -> Lines],
         \A q \in Procs \ {p} : /\ phase'[q] = phase[q] /\ fd'[q] = fd[q]
                                /\ pending'[q] = pending[q] /\ index'[q] = index[q]
                                /\ inflight'[q] = inflight[q],
         StoreSupported(p)'
  PROVE  DiskInv'
<1>0. content[f] \in Seq(Chunk) /\ content \in [Files -> Seq(Chunk)]
  BY DEF DiskInv, DiskTypes
<1>1. /\ content[f] \o k \in Seq(Chunk)
      /\ Len(content[f]) \in Nat /\ Len(k) \in Nat
      /\ Len(content[f] \o k) = Len(content[f]) + Len(k)
  BY <1>0, Appended
<1>2. content'[f] = content[f] \o k /\ \A g \in Files \ {f} : content'[g] = content[g]
  BY <1>0
<1>3. content' \in [Files -> Seq(Chunk)]
  BY <1>0, <1>1
<1>4. \A g \in Files : Hangs(content'[g])
  BY <1>2 DEF DiskInv
<1>5. \A g \in Files : durable'[g] <= Len(content'[g])
  <2> SUFFICES ASSUME NEW g \in Files PROVE durable[g] <= Len(content'[g])
    OBVIOUS
  <2>1. durable[g] \in Nat /\ durable[g] <= Len(content[g])
    BY DEF DiskInv, DiskTypes
  <2> QED BY <2>1, <1>1, <1>2
<1>6. \A g \in Files : Standing(content[g]) \subseteq Standing(content'[g])
  <2>1. Standing(content[f]) \subseteq Standing(content[f] \o k)
    BY <1>0, StandingGrows
  <2> QED BY <2>1, <1>2
<1>7. \A q \in Procs \ {p} : phase[q] \in HasFile =>
         Standing(content[fd[q]]) \subseteq Standing(content'[fd[q]])
  BY <1>6 DEF LockInv, WritersHoldLock, Locking
<1>8. durable' \in [Files -> Nat]
  BY DEF DiskInv, DiskTypes
<1> QED BY <1>3, <1>4, <1>5, <1>7, <1>8, OthersKeep

\* An entry a store makes: it hangs from its own tree.
LEMMA NewEntryHangs ==
  ASSUME NEW p \in Procs, index[p] \in Seq(Lines), nextID \in EntryIDs,
         NEW T, Supported(index[p], T)
  PROVE  /\ NewEntry(p, "message", Root) \in Lines
         /\ NewEntry(p, "message", Root).kind = "message"
         /\ NewEntry(p, "message", Root).parent = Root \/ NewEntry(p, "message", Root).parent \in T
         /\ \A e \in NewEntries(p) : /\ e \in Lines
                                     /\ e.parent = Root \/ e.parent \in T
                                     /\ e.kind = "leaf" => e.target \in T
<1>1. Len(index[p]) \in Nat /\ DOMAIN index[p] = 1 .. Len(index[p])
      /\ \A i \in 1 .. Len(index[p]) : index[p][i] \in Lines
  BY LenProperties, ElementOfSeq
<1>2. \A e \in Lines : e.id \in EntryIDs \cup {Root} /\ e.target \in EntryIDs \cup {Root}
  BY DEF Lines, Entry, Header, Root
<1>3. Supported(index[p], EntryIDs \cup {Root})
  BY <1>1, <1>2 DEF Supported
<1>4. LeafOf(index[p]) \in EntryIDs \cup {Root}
  BY <1>3, LeafSupported
<1>5. LeafOf(index[p]) = Root \/ LeafOf(index[p]) \in T
  BY LeafSupported
<1>6. ChainIds(index[p]) \subseteq T /\ ChainIds(index[p]) \subseteq EntryIDs \cup {Root}
  BY <1>3 DEF Supported, ChainIds
<1>7. ASSUME NEW kind \in EntryKinds, NEW target \in EntryIDs \cup {Root}
      PROVE  /\ NewEntry(p, kind, target) \in Lines
             /\ NewEntry(p, kind, target).kind = kind
             /\ NewEntry(p, kind, target).parent = LeafOf(index[p])
             /\ NewEntry(p, kind, target).target = target
  BY <1>4 DEF NewEntry, Lines, Entry
<1>8. "message" \in EntryKinds /\ Root \in EntryIDs \cup {Root}
  BY DEF EntryKinds
<1>9. ASSUME NEW e \in NewEntries(p)
      PROVE  e \in Lines /\ (e.parent = Root \/ e.parent \in T) /\ (e.kind = "leaf" => e.target \in T)
  <2>1. CASE \E kind \in AppendKinds \ {"leaf"} : e = NewEntry(p, kind, Root)
    <3>1. PICK kind \in AppendKinds \ {"leaf"} : e = NewEntry(p, kind, Root)
      BY <2>1
    <3>2. kind \in EntryKinds /\ kind # "leaf"
      BY AppendKindsAssumption
    <3> QED BY <3>1, <3>2, <1>5, <1>7, <1>8
  <2>2. CASE \E kind \in AppendKinds \cap {"leaf"}, target \in ChainIds(index[p]) : e = NewEntry(p, kind, target)
    <3>1. PICK kind \in AppendKinds \cap {"leaf"}, target \in ChainIds(index[p]) : e = NewEntry(p, kind, target)
      BY <2>2
    <3>2. kind \in EntryKinds /\ target \in EntryIDs \cup {Root} /\ target \in T
      BY AppendKindsAssumption, <1>6
    <3> QED BY <3>1, <3>2, <1>5, <1>7
  <2> QED BY <2>1, <2>2 DEF NewEntries
<1> QED BY <1>5, <1>7, <1>8, <1>9
----------------------------------------------------------------------------
\* Steps of a store that has no file yet.
LEMMA BufferKeeps ==
  ASSUME LockInv, DiskInv, NEW p \in Procs, AppendDeferred(p)
  PROVE  DiskInv'
<1>1. PICK e \in NewEntries(p) : /\ pending' = [pending EXCEPT ![p] = Append(@, e)]
                                 /\ index' = [index EXCEPT ![p] = Append(@, e)]
  BY DEF AppendDeferred, Index
<1>2. /\ phase[p] = "deferred" /\ nextID \in EntryIDs
      /\ UNCHANGED <<content, durable, phase, fd, inflight>>
  BY DEF AppendDeferred, disk
<1>3. /\ index[p] \in Seq(Lines) /\ pending[p] \in Seq(Lines) /\ durable \in [Files -> Nat]
      /\ pending \in [Procs -> Seq(Lines)] /\ index \in [Procs -> Seq(Lines)]
      /\ inflight \in [Procs -> Lines]
      /\ \A f \in Files : durable[f] <= Len(content[f])
  BY DEF DiskInv, DiskTypes
<1>4. index[p] = pending[p] /\ Chained(pending[p])
  BY <1>2 DEF DiskInv, StoreSupported, Buffering
<1>5. Supported(index[p], ChainIds(pending[p]))
  <2>1. Len(pending[p]) \in Nat /\ DOMAIN pending[p] = 1 .. Len(pending[p])
    BY <1>3, LenProperties
  <2>2. Supported(pending[p], ChainIds(pending[p]))
    BY <2>1, <1>4, ChainedSupports
  <2> QED BY <2>2, <1>4
<1>6. /\ e \in Lines /\ (e.parent = Root \/ e.parent \in ChainIds(pending[p]))
      /\ e.kind = "leaf" => e.target \in ChainIds(pending[p])
  BY <1>2, <1>3, <1>5, NewEntryHangs
<1>7. Chained(Append(pending[p], e)) /\ Append(pending[p], e) \in Seq(Lines)
  BY <1>3, <1>4, <1>6, ChainedGrows, AppendProperties
<1>8. /\ pending' \in [Procs -> Seq(Lines)] /\ index' \in [Procs -> Seq(Lines)]
      /\ pending'[p] = Append(pending[p], e) /\ index'[p] = pending'[p]
      /\ \A q \in Procs \ {p} : pending'[q] = pending[q] /\ index'[q] = index[q]
  BY <1>1, <1>3, <1>4, <1>7
<1>9. StoreSupported(p)'
  BY <1>2, <1>7, <1>8 DEF StoreSupported, HasFile
<1> QED BY <1>2, <1>3, <1>8, <1>9, FilesKeep

\* The first message is made from the buffered tree.
LEMMA CreateKeeps ==
  ASSUME LockInv, DiskInv, NEW p \in Procs, CreateFile(p)
  PROVE  DiskInv'
<1>1. /\ phase[p] = "deferred" /\ nextID \in EntryIDs
      /\ inflight' = [inflight EXCEPT ![p] = NewEntry(p, "message", Root)]
      /\ phase' = [phase EXCEPT ![p] = "created"]
      /\ fd' = [fd EXCEPT ![p] = created']
      /\ UNCHANGED <<content, durable, pending, index>>
  BY DEF CreateFile, Enter
<1>2. /\ index[p] \in Seq(Lines) /\ pending[p] \in Seq(Lines) /\ durable \in [Files -> Nat]
      /\ pending \in [Procs -> Seq(Lines)] /\ index \in [Procs -> Seq(Lines)]
      /\ inflight \in [Procs -> Lines]
      /\ \A f \in Files : durable[f] <= Len(content[f])
  BY DEF DiskInv, DiskTypes
<1>3. phase \in [Procs -> Phases] /\ fd \in [Procs -> Files \cup {NoFile}]
  BY DEF LockInv, LockTypes
<1>4. index[p] = pending[p] /\ Chained(pending[p])
  BY <1>1 DEF DiskInv, StoreSupported, Buffering
<1>5. Supported(index[p], ChainIds(pending[p]))
  <2>1. Len(pending[p]) \in Nat /\ DOMAIN pending[p] = 1 .. Len(pending[p])
    BY <1>2, LenProperties
  <2>2. Supported(pending[p], ChainIds(pending[p]))
    BY <2>1, <1>4, ChainedSupports
  <2> QED BY <2>2, <1>4
<1> DEFINE e == NewEntry(p, "message", Root)
<1>6. /\ e \in Lines /\ e.kind = "message"
      /\ e.parent = Root \/ e.parent \in ChainIds(pending[p])
  BY <1>1, <1>2, <1>5, NewEntryHangs
<1> HIDE DEF e
<1>7. inflight' \in [Procs -> Lines] /\ inflight'[p] = e
  BY <1>1, <1>2, <1>6 DEF e
<1>8. phase'[p] = "created" /\ \A q \in Procs \ {p} :
        phase'[q] = phase[q] /\ fd'[q] = fd[q] /\ inflight'[q] = inflight[q]
  BY <1>1, <1>2, <1>3
<1>9. StoreSupported(p)'
  BY <1>1, <1>4, <1>6, <1>7, <1>8 DEF StoreSupported, HasFile
<1> QED BY <1>1, <1>2, <1>7, <1>8, <1>9, FilesKeep

\* A step of p after which it is not past its first write, and keeps what it
\* has buffered.
LEMMA WaitingKeeps ==
  ASSUME LockInv, DiskInv, NEW p \in Procs, phase[p] \in Buffering,
         NEW ph \in Buffering,
         ph \in {"created", "locked"} => phase[p] \in {"created", "locked"} /\ inflight' = inflight,
         phase' = [phase EXCEPT ![p] = ph],
         inflight' = inflight \/ inflight' = [inflight EXCEPT ![p] = Header],
         \A q \in Procs \ {p} : fd'[q] = fd[q],
         UNCHANGED <<content, durable, pending, index>>
  PROVE  DiskInv'
<1>1. /\ durable \in [Files -> Nat]
      /\ pending \in [Procs -> Seq(Lines)] /\ index \in [Procs -> Seq(Lines)]
      /\ inflight \in [Procs -> Lines]
      /\ \A f \in Files : durable[f] <= Len(content[f])
  BY DEF DiskInv, DiskTypes
<1>2. phase \in [Procs -> Phases]
  BY DEF LockInv, LockTypes
<1>3. Header \in Lines
  BY DEF Lines
<1>4. inflight' \in [Procs -> Lines] /\ \A q \in Procs \ {p} : inflight'[q] = inflight[q]
  BY <1>1, <1>3
<1>5. phase'[p] = ph /\ \A q \in Procs \ {p} : phase'[q] = phase[q]
  BY <1>2
<1>6. StoreSupported(p)
  BY DEF DiskInv
<1>7. StoreSupported(p)'
  <2>1. index'[p] = pending'[p] /\ Chained(pending'[p])
    BY <1>6 DEF StoreSupported
  <2>2. phase'[p] \in {"created", "locked"} =>
          /\ inflight'[p].kind = "message"
          /\ inflight'[p].parent = Root \/ inflight'[p].parent \in ChainIds(pending'[p])
    BY <1>5, <1>6 DEF StoreSupported
  <2>3. phase'[p] \notin HasFile
    BY <1>5 DEF HasFile, Buffering
  <2> QED BY <2>1, <2>2, <2>3 DEF StoreSupported, HasFile
<1> QED BY <1>1, <1>4, <1>5, <1>7, FilesKeep

\* A step of p after which it has no store open for writing.
LEMMA IdleKeeps ==
  ASSUME LockInv, DiskInv, NEW p \in Procs, NEW ph \in {"none", "opened", "loading", "reading", "reader"},
         phase' = [phase EXCEPT ![p] = ph],
         pending' \in [Procs -> Seq(Lines)], index' \in [Procs -> Seq(Lines)],
         inflight' \in [Procs -> Lines],
         \A q \in Procs \ {p} : /\ fd'[q] = fd[q] /\ pending'[q] = pending[q]
                                /\ index'[q] = index[q] /\ inflight'[q] = inflight[q],
         UNCHANGED <<content, durable>>
  PROVE  DiskInv'
<1>1. durable \in [Files -> Nat] /\ \A f \in Files : durable[f] <= Len(content[f])
  BY DEF DiskInv, DiskTypes
<1>2. phase'[p] = ph /\ \A q \in Procs \ {p} : phase'[q] = phase[q]
  BY DEF LockInv, LockTypes
<1>3. StoreSupported(p)'
  BY <1>2 DEF StoreSupported, HasFile, Buffering
<1> QED BY <1>1, <1>2, <1>3, FilesKeep

\* The lines of a first write hang together, and make everything the store
\* has buffered, and its message, stand.
LEMMA FirstLinesOf ==
  ASSUME LockInv, DiskInv, NEW p \in Procs, phase[p] = "locked"
  PROVE  /\ fd[p] \in Files /\ FirstLines(p) \in Seq(Chunk)
         /\ Hangs(content[fd[p]] \o FirstLines(p))
         /\ Supported(index[p], Standing(content[fd[p]] \o FirstLines(p)))
         /\ inflight[p].kind = "message"
         /\ inflight[p].id \in Standing(content[fd[p]] \o FirstLines(p))
<1>1. fd[p] \in Files
  BY DEF LockInv, WritersHoldLock, Locking
<1>2. pending[p] \in Seq(Lines) /\ inflight[p] \in Lines /\ content[fd[p]] \in Seq(Chunk)
  BY <1>1 DEF DiskInv, DiskTypes
<1>3. /\ index[p] = pending[p] /\ Chained(pending[p]) /\ inflight[p].kind = "message"
      /\ inflight[p].parent = Root \/ inflight[p].parent \in ChainIds(pending[p])
  BY DEF DiskInv, StoreSupported, Buffering
<1> DEFINE lines == FirstLines(p)
           c == content[fd[p]]
<1>4. /\ lines \in Seq(Chunk) /\ Hangs(lines)
      /\ ChainIds(pending[p]) \subseteq Standing(lines)
      /\ inflight[p].id \in Standing(lines)
  BY <1>2, <1>3, FirstLinesHang DEF FirstLines
<1>5. Hangs(c)
  BY <1>1 DEF DiskInv
<1> HIDE DEF lines
<1>6. Hangs(c \o lines) /\ Standing(lines) \subseteq Standing(c \o lines)
  BY <1>2, <1>4, <1>5, HangsAfter
<1>7. Supported(index[p], Standing(c \o lines))
  <2>1. Len(pending[p]) \in Nat /\ DOMAIN pending[p] = 1 .. Len(pending[p])
    BY <1>2, LenProperties
  <2>2. Supported(pending[p], ChainIds(pending[p]))
    BY <2>1, <1>3, ChainedSupports
  <2> QED BY <2>2, <1>3, <1>4, <1>6 DEF Supported
<1> QED BY <1>1, <1>3, <1>4, <1>6, <1>7 DEF lines

\* The first write puts the header and a chained buffer in an empty file.
LEMMA FirstWriteKeeps ==
  ASSUME LockInv, DiskInv, NEW p \in Procs, FirstWrite(p)
  PROVE  DiskInv'
<1> DEFINE f == fd[p]
           k == FirstLines(p)
           T == Standing(content[fd[p]] \o FirstLines(p))
<1>1. /\ phase[p] = "locked"
      /\ content' = [content EXCEPT ![f] = @ \o k]
      /\ pending' = [pending EXCEPT ![p] = <<>>]
      /\ UNCHANGED <<durable, fd>>
  BY DEF FirstWrite, Write
<1>2. /\ f \in Files /\ k \in Seq(Chunk) /\ Hangs(content[f] \o k)
      /\ Supported(index[p], T) /\ inflight[p].kind = "message" /\ inflight[p].id \in T
  BY <1>1, FirstLinesOf
<1>3. /\ index[p] \in Seq(Lines) /\ inflight[p] \in Lines /\ content \in [Files -> Seq(Chunk)]
      /\ pending \in [Procs -> Seq(Lines)] /\ index \in [Procs -> Seq(Lines)]
      /\ inflight \in [Procs -> Lines]
  BY DEF DiskInv, DiskTypes
<1>4. phase \in [Procs -> Phases]
  BY DEF LockInv, LockTypes
<1>5. content'[fd'[p]] = content[f] \o k
  BY <1>1, <1>2, <1>3
<1>6. Standing(content'[fd'[p]]) = T
  BY <1>5
<1>7. pending' \in [Procs -> Seq(Lines)] /\ \A q \in Procs \ {p} : pending'[q] = pending[q]
  BY <1>1, <1>3
<1>8. CASE Fsync
  <2>1. phase' = [phase EXCEPT ![p] = "flushed"] /\ UNCHANGED <<index, inflight>>
    BY <1>8 DEF FirstWrite, Enter
  <2>2. phase'[p] = "flushed" /\ \A q \in Procs \ {p} : phase'[q] = phase[q]
    BY <2>1, <1>4
  <2> HIDE DEF T
  <2>3. StoreSupported(p)'
    BY <2>1, <2>2, <1>2, <1>6 DEF StoreSupported, HasFile, Buffering
  <2> HIDE DEF f, k
  <2>4. \A q \in Procs \ {p} : /\ phase'[q] = phase[q] /\ fd'[q] = fd[q]
                               /\ pending'[q] = pending[q] /\ index'[q] = index[q]
                               /\ inflight'[q] = inflight[q]
    BY <1>1, <1>7, <2>1, <2>2
  <2>5. index' \in [Procs -> Seq(Lines)] /\ inflight' \in [Procs -> Lines] /\ durable' = durable
    BY <1>1, <1>3, <2>1
  <2> QED BY <1>1, <1>2, <1>7, <2>3, <2>4, <2>5, WriteKeeps
<1>9. CASE ~Fsync
  <2>1. /\ phase' = [phase EXCEPT ![p] = "ready"]
        /\ index' = [index EXCEPT ![p] = Append(@, inflight[p])]
        /\ inflight' = [inflight EXCEPT ![p] = Header]
    BY <1>9 DEF FirstWrite, Enter, Index
  <2>2. phase'[p] = "ready" /\ \A q \in Procs \ {p} : phase'[q] = phase[q]
    BY <2>1, <1>4
  <2>3. Append(index[p], inflight[p]) \in Seq(Lines) /\ Header \in Lines
    BY <1>3, AppendProperties DEF Lines
  <2>4. /\ index' \in [Procs -> Seq(Lines)] /\ inflight' \in [Procs -> Lines]
        /\ index'[p] = Append(index[p], inflight[p])
        /\ \A q \in Procs \ {p} : index'[q] = index[q] /\ inflight'[q] = inflight[q]
    BY <2>1, <2>3, <1>3
  <2> HIDE DEF T
  <2>5. Supported(index'[p], T)
    <3>1. inflight[p].kind # "leaf"
      BY <1>2
    <3>2. Supported(Append(index[p], inflight[p]), T)
      BY <3>1, <1>2, <1>3, SupportedGrows
    <3> QED BY <3>2, <2>4
  <2>6. StoreSupported(p)'
    BY <2>2, <2>5, <1>6 DEF StoreSupported, HasFile, Buffering
  <2> HIDE DEF f, k
  <2>7. \A q \in Procs \ {p} : /\ phase'[q] = phase[q] /\ fd'[q] = fd[q]
                               /\ pending'[q] = pending[q] /\ index'[q] = index[q]
                               /\ inflight'[q] = inflight[q]
    BY <1>1, <1>7, <2>2, <2>4
  <2>8. durable' = durable
    BY <1>1
  <2> QED BY <1>1, <1>2, <1>7, <2>4, <2>6, <2>7, <2>8, WriteKeeps
<1> QED BY <1>8, <1>9

\* A write of p that was cut short, after which p has no store open for writing.
LEMMA CutWriteKeeps ==
  ASSUME LockInv, DiskInv, NEW p \in Procs, NEW f \in Files,
         NEW lines \in Seq(Chunk), Hangs(content[f] \o lines), NEW k \in CutShort(lines),
         content' = [content EXCEPT ![f] = @ \o k], durable' = durable,
         pending' \in [Procs -> Seq(Lines)], index' \in [Procs -> Seq(Lines)],
         inflight' \in [Procs -> Lines],
         \A q \in Procs \ {p} : /\ phase'[q] = phase[q] /\ fd'[q] = fd[q]
                                /\ pending'[q] = pending[q] /\ index'[q] = index[q]
                                /\ inflight'[q] = inflight[q],
         StoreSupported(p)'
  PROVE  DiskInv'
<1>1. k \in Seq(Chunk) /\ Cut(k, lines)
  BY CutShortCuts
<1>2. content[f] \in Seq(Chunk)
  BY DEF DiskInv, DiskTypes
<1>3. Cut(content[f] \o k, content[f] \o lines)
  BY <1>1, <1>2, CutAfter
<1>4. content[f] \o k \in Seq(Chunk) /\ content[f] \o lines \in Seq(Chunk)
  BY <1>1, <1>2, Appended
<1>5. Hangs(content[f] \o k)
  BY <1>3, <1>4, CutHangs
<1> QED BY <1>1, <1>5, WriteKeeps

\* A first write that is cut short leaves a beginning of that.
LEMMA FirstWriteFailsKeeps ==
  ASSUME LockInv, DiskInv, NEW p \in Procs, FirstWriteFails(p)
  PROVE  DiskInv'
<1>1. PICK k \in CutShort(FirstLines(p)) : content' = [content EXCEPT ![fd[p]] = @ \o k]
  BY DEF FirstWriteFails, Write
<1>2. /\ phase[p] = "locked" /\ phase' = [phase EXCEPT ![p] = "undo"]
      /\ fd' = [fd EXCEPT ![p] = NoFile]
      /\ UNCHANGED <<durable, pending, index, inflight>>
  BY DEF FirstWriteFails, LetGo, Enter
<1>3. /\ phase \in [Procs -> Phases] /\ fd \in [Procs -> Files \cup {NoFile}]
      /\ pending \in [Procs -> Seq(Lines)] /\ index \in [Procs -> Seq(Lines)]
      /\ inflight \in [Procs -> Lines]
  BY DEF LockInv, LockTypes, DiskInv, DiskTypes
<1>4. /\ fd[p] \in Files /\ FirstLines(p) \in Seq(Chunk)
      /\ Hangs(content[fd[p]] \o FirstLines(p))
  BY <1>2, FirstLinesOf
<1>5. phase'[p] = "undo" /\ \A q \in Procs \ {p} : phase'[q] = phase[q] /\ fd'[q] = fd[q]
  BY <1>2, <1>3
<1>6. index[p] = pending[p] /\ Chained(pending[p])
  BY <1>2 DEF DiskInv, StoreSupported, Buffering
<1>7. StoreSupported(p)'
  BY <1>2, <1>5, <1>6 DEF StoreSupported, HasFile
<1> QED BY <1>1, <1>2, <1>3, <1>4, <1>5, <1>7, CutWriteKeeps

\* An append to a file that is open: what the line is, and that it hangs.
LEMMA LineOf ==
  ASSUME LockInv, DiskInv, NEW p \in Procs, phase[p] = "ready", nextID \in EntryIDs,
         NEW e \in NewEntries(p)
  PROVE  /\ fd[p] \in Files /\ e \in Lines /\ Full(<<e>>) \in Seq(Chunk)
         /\ Hangs(content[fd[p]] \o Full(<<e>>))
         /\ Supported(Append(index[p], e), Standing(content[fd[p]] \o Full(<<e>>)))
<1>1. fd[p] \in Files
  BY DEF LockInv, WritersHoldLock, Locking, HasFile
<1>2. index[p] \in Seq(Lines) /\ content[fd[p]] \in Seq(Chunk) /\ Hangs(content[fd[p]])
  BY <1>1 DEF DiskInv, DiskTypes
<1> DEFINE c == content[fd[p]]
<1>3. Supported(index[p], Standing(c))
  BY DEF DiskInv, StoreSupported, HasFile
<1>4. /\ e \in Lines /\ (e.parent = Root \/ e.parent \in Standing(c))
      /\ e.kind = "leaf" => e.target \in Standing(c)
  BY <1>2, <1>3, NewEntryHangs
<1> HIDE DEF c
<1>5. c \in Seq(Chunk) /\ Hangs(c)
  BY <1>2 DEF c
<1>6. /\ Full(<<e>>) \in Seq(Chunk)
      /\ Hangs(c \o Full(<<e>>))
      /\ Standing(c) \subseteq Standing(c \o Full(<<e>>))
      /\ e.kind \notin OffChain => e.id \in Standing(c \o Full(<<e>>))
  BY <1>4, <1>5, LineHangs
<1>7. e.kind = "leaf" => e.target \in Standing(c \o Full(<<e>>))
  BY <1>4, <1>6
<1>8. Supported(Append(index[p], e), Standing(c \o Full(<<e>>)))
  <2> DEFINE U == Standing(c \o Full(<<e>>))
  <2>1. /\ Standing(c) \subseteq U /\ (e.kind \notin OffChain => e.id \in U)
        /\ e.kind = "leaf" => e.target \in U
    BY <1>6, <1>7
  <2> HIDE DEF U
  <2>2. Supported(Append(index[p], e), U)
    BY <1>2, <1>3, <1>4, <2>1, SupportedGrows
  <2> QED BY <2>2 DEF U
<1> QED BY <1>1, <1>4, <1>6, <1>8 DEF c

\* A line that is appended hangs from what stands in the file.
LEMMA AppendLineKeeps ==
  ASSUME LockInv, DiskInv, NEW p \in Procs, AppendLine(p)
  PROVE  DiskInv'
<1>1. PICK e \in NewEntries(p) :
        /\ content' = [content EXCEPT ![fd[p]] = @ \o Full(<<e>>)]
        /\ index' = [index EXCEPT ![p] = Append(@, e)]
        /\ phase' = [phase EXCEPT ![p] = "syncing"] \/ phase' = phase
  BY DEF AppendLine, Write, Index, Enter
<1>2. /\ phase[p] = "ready" /\ nextID \in EntryIDs
      /\ UNCHANGED <<durable, fd, pending, inflight>>
  BY DEF AppendLine
<1>3. /\ phase \in [Procs -> Phases] /\ content \in [Files -> Seq(Chunk)]
      /\ pending \in [Procs -> Seq(Lines)] /\ index \in [Procs -> Seq(Lines)]
      /\ inflight \in [Procs -> Lines]
  BY DEF LockInv, LockTypes, DiskInv, DiskTypes
<1> DEFINE k == Full(<<e>>)
<1>4. /\ fd[p] \in Files /\ e \in Lines /\ k \in Seq(Chunk)
      /\ Hangs(content[fd[p]] \o k)
      /\ Supported(Append(index[p], e), Standing(content[fd[p]] \o k))
  BY <1>2, LineOf
<1>5. content' = [content EXCEPT ![fd[p]] = @ \o k]
  BY <1>1
<1> HIDE DEF k
<1>6. content'[fd'[p]] = content[fd[p]] \o k
  BY <1>2, <1>3, <1>4, <1>5
<1>7. Append(index[p], e) \in Seq(Lines)
  BY <1>3, <1>4, AppendProperties
<1>8. /\ index' \in [Procs -> Seq(Lines)] /\ index'[p] = Append(index[p], e)
      /\ \A q \in Procs \ {p} : index'[q] = index[q]
  BY <1>1, <1>3, <1>7
<1>9. phase'[p] \in {"ready", "syncing"} /\ \A q \in Procs \ {p} : phase'[q] = phase[q]
  BY <1>1, <1>2, <1>3
<1>10. Supported(index'[p], Standing(content'[fd'[p]]))
  BY <1>4, <1>6, <1>8
<1>11. StoreSupported(p)'
  BY <1>9, <1>10 DEF StoreSupported, Buffering
<1> QED BY <1>2, <1>3, <1>4, <1>5, <1>8, <1>9, <1>11, WriteKeeps

\* A line that is cut short stands for nothing.
LEMMA AppendLineFailsKeeps ==
  ASSUME LockInv, DiskInv, NEW p \in Procs, AppendLineFails(p)
  PROVE  DiskInv'
<1>1. PICK e \in NewEntries(p) : \E k \in CutShort(Full(<<e>>)) :
        content' = [content EXCEPT ![fd[p]] = @ \o k]
  BY DEF AppendLineFails, Write
<1>2. PICK k \in CutShort(Full(<<e>>)) : content' = [content EXCEPT ![fd[p]] = @ \o k]
  BY <1>1
<1>3. /\ phase[p] = "ready" /\ nextID \in EntryIDs
      /\ UNCHANGED <<durable, phase, fd, pending, index, inflight>>
  BY DEF AppendLineFails
<1>4. /\ pending \in [Procs -> Seq(Lines)] /\ index \in [Procs -> Seq(Lines)]
      /\ inflight \in [Procs -> Lines] /\ content \in [Files -> Seq(Chunk)]
  BY DEF DiskInv, DiskTypes
<1>5. /\ fd[p] \in Files /\ Full(<<e>>) \in Seq(Chunk)
      /\ Hangs(content[fd[p]] \o Full(<<e>>))
  BY <1>3, LineOf
<1>6. k \in Seq(Chunk)
  BY <1>5, CutShortCuts
<1>7. Standing(content[fd[p]]) \subseteq Standing(content[fd[p]] \o k)
  BY <1>4, <1>5, <1>6, StandingGrows
<1>8. content'[fd'[p]] = content[fd[p]] \o k
  BY <1>2, <1>3, <1>4, <1>5
<1>9. Supported(index[p], Standing(content[fd[p]]))
  BY <1>3 DEF DiskInv, StoreSupported, HasFile
<1>10. Supported(index'[p], Standing(content'[fd'[p]]))
  BY <1>3, <1>7, <1>8, <1>9 DEF Supported
<1>11. StoreSupported(p)'
  BY <1>3, <1>10 DEF StoreSupported, Buffering
<1>12. \A q \in Procs \ {p} : /\ phase'[q] = phase[q] /\ fd'[q] = fd[q]
                              /\ pending'[q] = pending[q] /\ index'[q] = index[q]
                              /\ inflight'[q] = inflight[q]
  BY <1>3
<1> QED BY <1>2, <1>3, <1>4, <1>5, <1>11, <1>12, CutWriteKeeps

\* A step of p that leaves its tree and the file's chunks as they are.
LEMMA OpenKeeps ==
  ASSUME LockInv, DiskInv, NEW p \in Procs, phase[p] \in HasFile, NEW ph \in {"ready", "syncing"},
         phase' = [phase EXCEPT ![p] = ph], content' = content,
         durable' = durable \/ durable' = [durable EXCEPT ![fd[p]] = Len(content[fd[p]])],
         \/ index' = index /\ inflight' = inflight
         \/ index' = index /\ inflight' = [inflight EXCEPT ![p] = Header]
         \/ /\ phase[p] = "flushed"
            /\ index' = [index EXCEPT ![p] = Append(@, inflight[p])]
            /\ inflight' = [inflight EXCEPT ![p] = Header],
         UNCHANGED <<fd, pending>>
  PROVE  DiskInv'
<1>1. /\ pending \in [Procs -> Seq(Lines)] /\ index \in [Procs -> Seq(Lines)]
      /\ inflight \in [Procs -> Lines] /\ content \in [Files -> Seq(Chunk)]
      /\ durable \in [Files -> Nat] /\ \A f \in Files : durable[f] <= Len(content[f])
  BY DEF DiskInv, DiskTypes
<1>2. phase \in [Procs -> Phases] /\ fd[p] \in Files
  BY DEF LockInv, LockTypes, WritersHoldLock, Locking
<1>3. phase'[p] = ph /\ \A q \in Procs \ {p} : phase'[q] = phase[q]
  BY <1>2
<1>4. durable' \in [Files -> Nat] /\ \A f \in Files : durable'[f] <= Len(content[f])
  <2> DEFINE n == Len(content[fd[p]])
  <2>1. n \in Nat
    BY <1>1, <1>2, LenProperties
  <2>2. durable' = durable \/ durable' = [durable EXCEPT ![fd[p]] = n]
    OBVIOUS
  <2>3. n <= Len(content[fd[p]])
    BY <2>1
  <2> HIDE DEF n
  <2>4. CASE durable' = durable
    BY <2>4, <1>1
  <2>5. CASE durable' = [durable EXCEPT ![fd[p]] = n]
    <3>1. durable' \in [Files -> Nat]
      BY <1>1, <2>1, <2>5
    <3>2. durable'[fd[p]] = n /\ \A f \in Files \ {fd[p]} : durable'[f] = durable[f]
      BY <1>1, <1>2, <2>5
    <3>3. \A f \in Files : durable'[f] <= Len(content[f])
      BY <1>1, <2>3, <3>2
    <3> QED BY <3>1, <3>3
  <2> QED BY <2>2, <2>4, <2>5
<1>5. Append(index[p], inflight[p]) \in Seq(Lines) /\ Header \in Lines
  BY <1>1, AppendProperties DEF Lines
<1>6. /\ index' \in [Procs -> Seq(Lines)] /\ inflight' \in [Procs -> Lines]
      /\ \A q \in Procs \ {p} : index'[q] = index[q] /\ inflight'[q] = inflight[q]
      /\ \/ index'[p] = index[p]
         \/ phase[p] = "flushed" /\ index'[p] = Append(index[p], inflight[p])
  BY <1>1, <1>5
<1>7. Supported(index'[p], Standing(content[fd[p]]))
  <2>1. Supported(index[p], Standing(content[fd[p]]))
    BY DEF DiskInv, StoreSupported
  <2>2. CASE index'[p] = index[p]
    BY <2>1, <2>2
  <2>3. CASE phase[p] = "flushed" /\ index'[p] = Append(index[p], inflight[p])
    <3>1. inflight[p].kind = "message" /\ inflight[p].id \in Standing(content[fd[p]])
      BY <2>3 DEF DiskInv, StoreSupported
    <3>2. inflight[p].kind # "leaf"
      BY <3>1
    <3>3. Supported(Append(index[p], inflight[p]), Standing(content[fd[p]]))
      BY <2>1, <3>1, <3>2, <1>1, SupportedGrows
    <3> QED BY <2>3, <3>3
  <2> QED BY <1>6, <2>2, <2>3
<1>8. StoreSupported(p)'
  BY <1>3, <1>7 DEF StoreSupported, Buffering
<1> QED BY <1>1, <1>3, <1>4, <1>6, <1>8, FilesKeep

\* A kill inside a write leaves what a write that fails does.
LEMMA KillInWriteKeeps ==
  ASSUME LockInv, DiskInv, NEW p \in Procs, KillInWrite(p)
  PROVE  DiskInv'
<1>1. /\ phase' = [phase EXCEPT ![p] = "none"] /\ fd' = [fd EXCEPT ![p] = NoFile]
      /\ pending' = [pending EXCEPT ![p] = <<>>] /\ index' = [index EXCEPT ![p] = <<>>]
      /\ inflight' = [inflight EXCEPT ![p] = Header] /\ durable' = durable
  BY DEF KillInWrite, LetGo, Forget, Enter
<1>2. /\ phase \in [Procs -> Phases] /\ fd \in [Procs -> Files \cup {NoFile}]
      /\ pending \in [Procs -> Seq(Lines)] /\ index \in [Procs -> Seq(Lines)]
      /\ inflight \in [Procs -> Lines]
  BY DEF LockInv, LockTypes, DiskInv, DiskTypes
<1>3. <<>> \in Seq(Lines) /\ Header \in Lines
  BY EmptySeq DEF Lines
<1>4. /\ pending' \in [Procs -> Seq(Lines)] /\ index' \in [Procs -> Seq(Lines)]
      /\ inflight' \in [Procs -> Lines]
  BY <1>1, <1>2, <1>3
<1>5. /\ phase'[p] = "none"
      /\ \A q \in Procs \ {p} : /\ phase'[q] = phase[q] /\ fd'[q] = fd[q]
                                /\ pending'[q] = pending[q] /\ index'[q] = index[q]
                                /\ inflight'[q] = inflight[q]
  BY <1>1, <1>2
<1>6. StoreSupported(p)'
  BY <1>5 DEF StoreSupported, HasFile, Buffering
<1>7. ASSUME phase[p] = "locked", NEW k \in CutShort(FirstLines(p)),
             content' = [content EXCEPT ![fd[p]] = @ \o k]
      PROVE  DiskInv'
  <2>1. /\ fd[p] \in Files /\ FirstLines(p) \in Seq(Chunk)
        /\ Hangs(content[fd[p]] \o FirstLines(p))
    BY <1>7, FirstLinesOf
  <2> QED BY <1>1, <1>4, <1>5, <1>6, <1>7, <2>1, CutWriteKeeps
<1>8. ASSUME phase[p] = "ready", nextID \in EntryIDs, NEW e \in NewEntries(p),
             NEW k \in CutShort(Full(<<e>>)), content' = [content EXCEPT ![fd[p]] = @ \o k]
      PROVE  DiskInv'
  <2>1. /\ fd[p] \in Files /\ Full(<<e>>) \in Seq(Chunk)
        /\ Hangs(content[fd[p]] \o Full(<<e>>))
    BY <1>8, LineOf
  <2> QED BY <1>1, <1>4, <1>5, <1>6, <1>8, <2>1, CutWriteKeeps
<1> QED BY <1>7, <1>8 DEF KillInWrite, Write

\* load makes the file and the tree of what it keeps; nobody else has the
\* file open for writing.
LEMMA LoadKeeps ==
  ASSUME LockInv, DiskInv, NEW p \in Procs, Load(p)
  PROVE  DiskInv'
<1> DEFINE f == fd[p]
           c == content[fd[p]]
           n == Kept(c)
           d == Recovered(c)
           log == Loaded(c)
<1>1. /\ phase[p] = "loading" /\ n >= 1
      /\ content' = [content EXCEPT ![f] = d]
      /\ durable' = [durable EXCEPT ![f] = IF @ < n THEN @ ELSE n]
      /\ index' = [index EXCEPT ![p] = log]
      /\ phase' = [phase EXCEPT ![p] = "ready"]
      /\ UNCHANGED <<fd, pending, inflight>>
  BY DEF Load, Readable, Enter
<1>2. /\ phase \in [Procs -> Phases] /\ content \in [Files -> Seq(Chunk)]
      /\ pending \in [Procs -> Seq(Lines)] /\ index \in [Procs -> Seq(Lines)]
      /\ inflight \in [Procs -> Lines] /\ durable \in [Files -> Nat]
      /\ \A g \in Files : durable[g] <= Len(content[g])
  BY DEF LockInv, LockTypes, DiskInv, DiskTypes
<1>3. f \in Files /\ \A q \in Procs \ {p} : phase[q] \in HasFile => fd[q] # f
  <2>1. f \in Files /\ owner[f] = p
    BY <1>1 DEF LockInv, WritersHoldLock, Locking
  <2>2. \A q \in Procs : phase[q] \in HasFile => owner[fd[q]] = q
    BY DEF LockInv, WritersHoldLock, Locking
  <2> QED BY <2>1, <2>2
<1>4. c \in Seq(Chunk) /\ Hangs(c)
  BY <1>2, <1>3 DEF DiskInv
<1>5. /\ n \in 1 .. Len(c) /\ d \in Seq(Chunk) /\ Len(d) = n /\ Hangs(d)
      /\ log \in Seq(Lines) /\ Supported(log, Standing(d))
  <2> HIDE DEF c
  <2> QED BY <1>1, <1>4, LoadHangs
<1>6. Len(c) \in Nat
  BY <1>4, LenProperties
<1> HIDE DEF n, d, log, c
<1>7. /\ content' \in [Files -> Seq(Chunk)] /\ content'[f] = d
      /\ \A g \in Files \ {f} : content'[g] = content[g]
  BY <1>1, <1>2, <1>3, <1>5
<1>8. \A g \in Files : Hangs(content'[g])
  BY <1>5, <1>7 DEF DiskInv
<1>9. durable' \in [Files -> Nat] /\ \A g \in Files : durable'[g] <= Len(content'[g])
  <2>1. n \in Nat /\ durable[f] \in Nat
    BY <1>2, <1>3, <1>5, <1>6
  <2> DEFINE m == IF durable[f] < n THEN durable[f] ELSE n
  <2>2. m \in Nat /\ m <= n
    BY <2>1
  <2>3. durable' = [durable EXCEPT ![f] = m]
    BY <1>1
  <2> HIDE DEF m
  <2>4. /\ durable' \in [Files -> Nat] /\ durable'[f] = m
        /\ \A g \in Files \ {f} : durable'[g] = durable[g]
    BY <1>2, <1>3, <2>2, <2>3
  <2>5. \A g \in Files : durable'[g] <= Len(content'[g])
    BY <1>2, <1>5, <1>7, <2>2, <2>4
  <2> QED BY <2>4, <2>5
<1>10. /\ index' \in [Procs -> Seq(Lines)] /\ index'[p] = log
       /\ \A q \in Procs \ {p} : index'[q] = index[q]
  BY <1>1, <1>2, <1>5
<1>11. phase'[p] = "ready" /\ \A q \in Procs \ {p} : phase'[q] = phase[q]
  BY <1>1, <1>2
<1>12. Supported(index'[p], Standing(content'[fd'[p]]))
  BY <1>1, <1>5, <1>7, <1>10
<1>13. StoreSupported(p)'
  BY <1>11, <1>12 DEF StoreSupported, Buffering
<1>14. \A q \in Procs \ {p} : phase[q] \in HasFile =>
          Standing(content[fd[q]]) \subseteq Standing(content'[fd[q]])
  <2> SUFFICES ASSUME NEW q \in Procs \ {p}, phase[q] \in HasFile
               PROVE  content'[fd[q]] = content[fd[q]]
    OBVIOUS
  <2>1. fd[q] \in Files /\ fd[q] # f
    BY <1>3 DEF LockInv, WritersHoldLock, Locking
  <2> QED BY <2>1, <1>7
<1>15. pending' \in [Procs -> Seq(Lines)] /\ inflight' \in [Procs -> Lines]
       /\ \A q \in Procs \ {p} : /\ phase'[q] = phase[q] /\ fd'[q] = fd[q]
                                 /\ pending'[q] = pending[q] /\ index'[q] = index[q]
                                 /\ inflight'[q] = inflight[q]
  BY <1>1, <1>2, <1>10, <1>11
<1> HIDE DEF f
<1> QED BY <1>7, <1>8, <1>9, <1>10, <1>13, <1>14, <1>15, OthersKeep

\* A power loss leaves of the file at the path a cut with all that was synced.
LEMMA PowerCuts ==
  ASSUME LockInv, DiskInv, PowerLoss, path # NoFile
  PROVE  /\ path \in Files
         /\ \E new \in Seq(Chunk) :
              /\ content' = [content EXCEPT ![path] = new]
              /\ Cut(new, content[path])
              /\ durable[path] <= Len(new)
              /\ \A i \in 1 .. durable[path] : new[i] = content[path][i]
<1> DEFINE c == content[path]
           m == durable[path]
           front == SubSeq(c, 1, m)
           rest == SubSeq(c, m + 1, Len(c))
<1>1. path \in Files
  BY DEF LockInv, LockTypes
<1>2. PICK kept \in {rest} \cup CutShort(rest) : content' = [content EXCEPT ![path] = front \o kept]
  BY DEF PowerLoss
<1>3. c \in Seq(Chunk) /\ m \in Nat /\ m <= Len(c) /\ Len(c) \in Nat
  <2>1. c \in Seq(Chunk)
    BY <1>1 DEF DiskInv, DiskTypes
  <2> QED BY <1>1, <2>1, LenProperties DEF DiskInv, DiskTypes
<1> HIDE DEF c, m
<1>4. \A i \in 1 .. Len(c) : c[i] \in Chunk
  BY <1>3, ElementOfSeq
<1>5. front \in Seq(Chunk) /\ Len(front) = m /\ \A i \in 1 .. m : front[i] = c[i]
  BY <1>3, PrefixCuts
<1>6. rest \in Seq(Chunk) /\ Len(rest) = Len(c) - m /\ \A i \in 1 .. Len(rest) : rest[i] = c[m + i]
  <2>1. \A i \in m + 1 .. Len(c) : c[i] \in Chunk
    BY <1>3, <1>4
  <2>2. /\ rest \in Seq(Chunk)
        /\ Len(rest) = IF m + 1 <= Len(c) THEN Len(c) - (m + 1) + 1 ELSE 0
        /\ \A i \in 1 .. Len(c) - (m + 1) + 1 : rest[i] = c[m + 1 + i - 1]
    BY <1>3, <2>1, SubSeqProperties
  <2>3. Len(rest) = Len(c) - m
    BY <1>3, <2>2
  <2> HIDE DEF rest
  <2>4. ASSUME NEW i \in 1 .. Len(rest) PROVE rest[i] = c[m + i]
    <3>1. i \in 1 .. Len(c) - (m + 1) + 1 /\ m + 1 + i - 1 = m + i
      BY <1>3, <2>3
    <3> QED BY <2>2, <3>1
  <2> QED BY <2>2, <2>3, <2>4
<1> HIDE DEF front, rest
<1>7. kept \in Seq(Chunk) /\ Cut(kept, rest)
  <2>1. CASE kept = rest
    <3>1. Len(rest) \in Nat
      BY <1>6, LenProperties
    <3> QED BY <2>1, <1>6, <3>1 DEF Cut
  <2>2. CASE kept \in CutShort(rest)
    BY <1>6, <2>2, CutShortCuts
  <2> QED BY <2>1, <2>2
<1>8. front \o rest = c
  <2> DEFINE a == front \o rest
  <2>1. /\ a \in Seq(Chunk) /\ DOMAIN a = 1 .. (Len(front) + Len(rest))
        /\ \A i \in 1 .. Len(front) : a[i] = front[i]
        /\ \A i \in 1 .. Len(rest) : a[Len(front) + i] = rest[i]
    BY <1>5, <1>6, Appended
  <2> HIDE DEF a
  <2>2. Len(a) = Len(c)
    <3>1. DOMAIN a = 1 .. Len(a) /\ Len(a) \in Nat
      BY <2>1, LenProperties
    <3>2. Len(front) + Len(rest) = Len(c)
      BY <1>3, <1>5, <1>6
    <3> QED BY <2>1, <3>1, <3>2, <1>3
  <2>3. ASSUME NEW i \in 1 .. Len(c) PROVE a[i] = c[i]
    <3>1. CASE i <= m
      BY <3>1, <2>1, <1>3, <1>5
    <3>2. CASE ~(i <= m)
      <4>1. i - m \in 1 .. Len(rest) /\ m + (i - m) = i
        BY <3>2, <1>3, <1>6
      <4>2. a[m + (i - m)] = rest[i - m] /\ rest[i - m] = c[m + (i - m)]
        BY <4>1, <2>1, <1>5, <1>6
      <4> QED BY <4>1, <4>2
    <3> QED BY <3>1, <3>2
  <2>4. a = c
    BY <2>1, <2>2, <2>3, <1>3, SeqEqual
  <2> QED BY <2>4 DEF a
<1>9. Cut(front \o kept, front \o rest)
  BY <1>5, <1>6, <1>7, CutAfter
<1>10. /\ front \o kept \in Seq(Chunk) /\ front \o rest \in Seq(Chunk)
       /\ Len(front \o kept) = Len(front) + Len(kept) /\ Len(kept) \in Nat
       /\ \A i \in 1 .. Len(front) : (front \o kept)[i] = front[i]
  BY <1>5, <1>6, <1>7, Appended
<1> DEFINE new == front \o kept
<1>11. /\ new \in Seq(Chunk) /\ Cut(new, c) /\ m <= Len(new)
       /\ \A i \in 1 .. m : new[i] = c[i]
  BY <1>3, <1>5, <1>8, <1>9, <1>10
<1>12. content' = [content EXCEPT ![path] = new]
  BY <1>2
<1> HIDE DEF new
<1>13. /\ content' = [content EXCEPT ![path] = new] /\ Cut(new, content[path])
       /\ durable[path] <= Len(new)
       /\ \A i \in 1 .. durable[path] : new[i] = content[path][i]
  BY <1>11, <1>12 DEF c, m
<1> QED BY <1>1, <1>11, <1>13

\* After a power loss every file is a cut of what it was.
LEMMA PowerLossKeepsDisk ==
  ASSUME LockInv, DiskInv, PowerLoss
  PROVE  DiskInv'
<1>1. /\ pending' = [p \in Procs |-> <<>>] /\ index' = [p \in Procs |-> <<>>]
      /\ inflight' = [p \in Procs |-> Header] /\ phase' = [p \in Procs |-> "none"]
      /\ UNCHANGED durable
  BY DEF PowerLoss
<1>2. /\ content \in [Files -> Seq(Chunk)] /\ durable \in [Files -> Nat]
      /\ \A f \in Files : durable[f] <= Len(content[f])
  BY DEF DiskInv, DiskTypes
<1>3. <<>> \in Seq(Lines) /\ Header \in Lines
  BY EmptySeq DEF Lines
<1>4. pending' \in [Procs -> Seq(Lines)] /\ index' \in [Procs -> Seq(Lines)] /\ inflight' \in [Procs -> Lines]
  BY <1>1, <1>3
<1>5. \A p \in Procs : StoreSupported(p)'
  <2>1. \A p \in Procs : phase'[p] = "none"
    BY <1>1
  <2> QED BY <2>1 DEF StoreSupported, HasFile, Buffering
<1>6. /\ content' \in [Files -> Seq(Chunk)]
      /\ \A f \in Files : Hangs(content'[f]) /\ durable[f] <= Len(content'[f])
  <2>1. CASE path = NoFile
    BY <1>2, <2>1 DEF PowerLoss, DiskInv
  <2>2. CASE path # NoFile
    <3>1. path \in Files
      BY <2>2, PowerCuts
    <3>2. PICK new \in Seq(Chunk) : /\ content' = [content EXCEPT ![path] = new]
                                    /\ Cut(new, content[path])
                                    /\ durable[path] <= Len(new)
      BY <2>2, PowerCuts
    <3>3. Hangs(new)
      <4>1. content[path] \in Seq(Chunk) /\ Hangs(content[path])
        BY <1>2, <3>1 DEF DiskInv
      <4> QED BY <3>2, <4>1, CutHangs
    <3>4. /\ content' \in [Files -> Seq(Chunk)] /\ content'[path] = new
          /\ \A g \in Files \ {path} : content'[g] = content[g]
      BY <1>2, <3>1, <3>2
    <3>5. \A f \in Files : Hangs(content'[f]) /\ durable[f] <= Len(content'[f])
      BY <1>2, <3>2, <3>3, <3>4 DEF DiskInv
    <3> QED BY <3>4, <3>5
  <2> QED BY <2>1, <2>2
<1>7. DiskTypes'
  BY <1>1, <1>2, <1>4, <1>6 DEF DiskTypes
<1> QED BY <1>5, <1>6, <1>7 DEF DiskInv

\* Where readers stand, and the lines they have begun.
ScanTypes ==
  scan \in [Procs -> [at : Nat, spliced : BOOLEAN,
                     begun : [entry : Lines, part : {"torn", "bare", "none"}]]]

\* What a reader has before it are the chunks of its file from there on.
LEMMA AheadOf ==
  ASSUME LockInv, DiskInv, ScanTypes, NEW p \in Procs, phase[p] = "reading"
  PROVE  /\ fd[p] \in Files /\ content[fd[p]] \in Seq(Chunk) /\ scan[p].at \in Nat
         /\ Ahead(p) # <<>> => /\ scan[p].at + 1 \in 1 .. Len(content[fd[p]])
                               /\ Head(Ahead(p)) = content[fd[p]][scan[p].at + 1]
                               /\ Head(Ahead(p)) \in Chunk
<1> DEFINE c == content[fd[p]]
           n == scan[p].at
<1>1. fd[p] \in Files
  BY DEF LockInv, OpenBeforeLock
<1>2. c \in Seq(Chunk) /\ n \in Nat
  BY <1>1 DEF DiskInv, DiskTypes, ScanTypes
<1>3. Ahead(p) = SubSeq(c, n + 1, Len(c))
  BY DEF Ahead
<1>4. Len(c) \in Nat /\ \A i \in 1 .. Len(c) : c[i] \in Chunk
  BY <1>2, LenProperties, ElementOfSeq
<1> HIDE DEF c, n
<1>5. ASSUME Ahead(p) # <<>>
      PROVE  n + 1 \in 1 .. Len(c) /\ Head(Ahead(p)) = c[n + 1] /\ Head(Ahead(p)) \in Chunk
  <2>1. n + 1 <= Len(c)
    BY <1>2, <1>3, <1>4, <1>5, SubSeqEmpty
  <2>2. n + 1 \in 1 .. Len(c) /\ Len(c) \in (n + 1) .. Len(c)
    BY <2>1, <1>2, <1>4
  <2>3. Head(SubSeq(c, n + 1, Len(c))) = c[n + 1]
    BY <2>2, <1>2, HeadTailOfSubSeq, SMTT(20)
  <2> QED BY <2>2, <2>3, <1>3, <1>4
<1> QED BY <1>1, <1>2, <1>5 DEF c, n

\* The steps of a read-only load that reads on.
Reads(p) == ReadLine(p) \/ ReadPart(p) \/ ReadSplice(p) \/ ReadEnd(p)

\* They change nothing but where the reader stands and what it shows, and
\* show the next line, or the one begun.
LEMMA ReadSteps ==
  ASSUME LockInv, DiskInv, ScanTypes, NEW p \in Procs, Reads(p)
  PROVE  /\ phase[p] = "reading" /\ fd[p] \in Files
         /\ UNCHANGED <<path, created, content, durable, owner, fd, pending, inflight, nextID, owed, synced>>
         /\ phase' = phase \/ phase' = [phase EXCEPT ![p] = "reader"]
         /\ \/ index' = index
            \/ \E e \in Lines :
                 /\ scan[p].at > 0 /\ index' = [index EXCEPT ![p] = Append(@, e)]
                 /\ \/ scan[p].begun # NoLine /\ e = scan[p].begun.entry
                    \/ /\ scan[p].at + 1 \in 1 .. Len(content[fd[p]])
                       /\ e = content[fd[p]][scan[p].at + 1].entry
         /\ ScanTypes'
         /\ \A q \in Procs \ {p} : scan'[q] = scan[q]
         /\ \/ scan'[p].begun = NoLine
            \/ /\ scan'[p].at = scan[p].at /\ scan[p].at + 1 \in 1 .. Len(content[fd[p]])
               /\ scan'[p].begun.entry = content[fd[p]][scan[p].at + 1].entry
<1> DEFINE c == content[fd[p]]
           n == scan[p].at
           b == scan[p].begun
<1>1. phase[p] = "reading"
  BY DEF Reads, ReadLine, ReadPart, ReadSplice, ReadEnd
<1>2. /\ fd[p] \in Files /\ c \in Seq(Chunk) /\ n \in Nat
      /\ Ahead(p) # <<>> => /\ n + 1 \in 1 .. Len(c)
                            /\ Head(Ahead(p)) = c[n + 1] /\ Head(Ahead(p)) \in Chunk
  BY <1>1, AheadOf
<1>3. /\ UNCHANGED <<path, created, content, durable, owner, fd, pending, inflight, nextID, owed, synced>>
      /\ phase' = phase \/ phase' = [phase EXCEPT ![p] = "reader"]
  BY DEF Reads, ReadLine, ReadPart, ReadSplice, ReadEnd, Enter, disk, ghosts
<1>4. \A e \in Chunk : e.entry \in Lines
  BY DEF Chunk, Lines
<1>5. b.entry \in Lines /\ scan[p].spliced \in BOOLEAN
  BY DEF ScanTypes
<1>6. NoLine = [entry |-> Header, part |-> "none"] /\ Header \in Lines
  BY DEF NoLine, Piece, Lines
<1> DEFINE Shows(e) == index' = IF n = 0 THEN index ELSE [index EXCEPT ![p] = Append(@, e)]
           Next1(e) == \/ b # NoLine /\ e = b.entry
                       \/ n + 1 \in 1 .. Len(c) /\ e = c[n + 1].entry
<1>7. \A e : Takes(p, e) => Shows(e)
  BY DEF Takes, Index
<1>8. index' = index \/ \E e \in Lines : Shows(e) /\ Next1(e)
  <2>1. CASE ReadLine(p)
    <3>1. Shows(Head(Ahead(p)).entry) /\ Ahead(p) # <<>>
      BY <2>1, <1>7 DEF ReadLine
    <3> QED BY <3>1, <1>2, <1>4
  <2>2. CASE ReadPart(p)
    BY <2>2 DEF ReadPart
  <2>3. CASE ReadSplice(p)
    <3>1. b # NoLine
      BY <2>3 DEF ReadSplice, Overtaken
    <3>2. index' = index \/ Takes(p, b.entry)
      BY <2>3 DEF ReadSplice
    <3> QED BY <3>1, <3>2, <1>5, <1>7
  <2>4. CASE ReadEnd(p)
    <3>1. index' = index \/ (LastParses(p) /\ Takes(p, b.entry))
      BY <2>4 DEF ReadEnd
    <3>2. LastParses(p) => b # NoLine
      BY <1>6 DEF LastParses
    <3> QED BY <3>1, <3>2, <1>5, <1>7
  <2> QED BY <2>1, <2>2, <2>3, <2>4 DEF Reads
<1>9. /\ ScanTypes' /\ \A q \in Procs \ {p} : scan'[q] = scan[q]
      /\ \/ scan'[p].begun = NoLine
         \/ /\ scan'[p].at = n /\ n + 1 \in 1 .. Len(c)
            /\ scan'[p].begun.entry = c[n + 1].entry
  <2> DEFINE Lands(r) == /\ r \in [at : Nat, spliced : BOOLEAN,
                                    begun : [entry : Lines, part : {"torn", "bare", "none"}]]
                         /\ scan' = [scan EXCEPT ![p] = r]
                         /\ \/ r.begun = NoLine
                            \/ /\ r.at = n /\ n + 1 \in 1 .. Len(c)
                               /\ r.begun.entry = c[n + 1].entry
  <2>1. CASE ReadLine(p)
    <3>1. scan' = [scan EXCEPT ![p].at = @ + 1, ![p].begun = NoLine]
      BY <2>1 DEF ReadLine
    <3> DEFINE r == [scan[p] EXCEPT !.at = @ + 1, !.begun = NoLine]
    <3>2. scan' = [scan EXCEPT ![p] = r]
      BY <3>1 DEF ScanTypes
    <3>3. NoLine \in [entry : Lines, part : {"torn", "bare", "none"}] /\ n + 1 \in Nat
      BY <1>2, <1>6
    <3>4. /\ r.begun = NoLine
          /\ r \in [at : Nat, spliced : BOOLEAN,
                     begun : [entry : Lines, part : {"torn", "bare", "none"}]]
      BY <3>3 DEF ScanTypes
    <3> HIDE DEF r
    <3>5. Lands(r)
      BY <3>2, <3>4
    <3> QED BY <3>5 DEF ScanTypes
  <2>2. ASSUME NEW part \in {"torn", "bare"}, Ahead(p) # <<>>,
               scan' = [scan EXCEPT ![p].begun = Piece(Head(Ahead(p)).entry, part)]
        PROVE  \E r : Lands(r)
    <3> DEFINE e == Head(Ahead(p)).entry
               new == Piece(e, part)
               r == [scan[p] EXCEPT !.begun = new]
    <3>1. e \in Lines /\ e = c[n + 1].entry
      BY <2>2, <1>2, <1>4
    <3>2. scan' = [scan EXCEPT ![p] = r]
      BY <2>2 DEF ScanTypes
    <3> HIDE DEF e
    <3>3. /\ new \in [entry : Lines, part : {"torn", "bare", "none"}]
          /\ new.entry = c[n + 1].entry
      BY <3>1 DEF Piece
    <3> HIDE DEF new
    <3>4. /\ r.begun = new /\ r.at = n
          /\ r \in [at : Nat, spliced : BOOLEAN,
                     begun : [entry : Lines, part : {"torn", "bare", "none"}]]
      BY <3>3 DEF ScanTypes
    <3> QED BY <3>2, <3>3, <3>4, <2>2, <1>2
  <2>3. ASSUME NEW k \in DOMAIN Ahead(p),
               scan' = [scan EXCEPT ![p] = [at |-> @.at + k, begun |-> NoLine, spliced |-> TRUE]]
        PROVE  \E r : Lands(r)
    <3>1. k \in Nat
      <4>1. Ahead(p) = SubSeq(c, n + 1, Len(c)) /\ Len(c) \in Nat
        BY <1>2, LenProperties DEF Ahead
      <4>2. \A i \in (n + 1) .. Len(c) : c[i] \in Chunk
        BY <1>2, <4>1, ElementOfSeq
      <4>3. Ahead(p) \in Seq(Chunk)
        BY <4>1, <4>2, <1>2, SubSeqProperties
      <4> QED BY <4>3, LenProperties
    <3> DEFINE r == [at |-> n + k, begun |-> NoLine, spliced |-> TRUE]
    <3>2. scan' = [scan EXCEPT ![p] = r]
      BY <2>3
    <3>3. NoLine \in [entry : Lines, part : {"torn", "bare", "none"}]
      BY <1>6
    <3>4. /\ r \in [at : Nat, spliced : BOOLEAN,
                     begun : [entry : Lines, part : {"torn", "bare", "none"}]]
          /\ r.begun = NoLine
      BY <3>1, <3>3, <1>2
    <3> QED BY <3>2, <3>4
  <2>4. CASE ReadEnd(p)
    <3>1. \E s \in BOOLEAN : scan' = [scan EXCEPT ![p] = [Start EXCEPT !.spliced = s]]
      BY <2>4, <1>5 DEF ReadEnd
    <3> QED BY <3>1, <1>6 DEF Start, ScanTypes
  <2>5. ReadPart(p) => \E part \in {"torn", "bare"} :
           Ahead(p) # <<>> /\ scan' = [scan EXCEPT ![p].begun = Piece(Head(Ahead(p)).entry, part)]
    BY DEF ReadPart
  <2>6. ReadSplice(p) =>
          \/ Ahead(p) # <<>> /\ scan' = [scan EXCEPT ![p].begun = Piece(Head(Ahead(p)).entry, "torn")]
          \/ \E k \in DOMAIN Ahead(p) :
               scan' = [scan EXCEPT ![p] = [at |-> @.at + k, begun |-> NoLine, spliced |-> TRUE]]
    BY DEF ReadSplice
  <2>7. CASE ReadPart(p) \/ ReadSplice(p)
    <3>1. \E r : Lands(r)
      BY <2>7, <2>2, <2>3, <2>5, <2>6
    <3> QED BY <3>1 DEF ScanTypes
  <2> QED BY <2>1, <2>4, <2>7 DEF Reads
<1>10. \A e \in Lines : (Shows(e) /\ Next1(e)) => \/ index' = index
            \/ /\ n > 0 /\ index' = [index EXCEPT ![p] = Append(@, e)]
               /\ Next1(e)
  BY <1>2
<1> QED BY <1>1, <1>2, <1>3, <1>8, <1>9, <1>10

\* Every other step leaves readers where they are, or makes one start over.
LEMMA ScansStay ==
  ASSUME NEW p \in Procs, Step(p), ~Reads(p)
  PROVE  scan' = scan \/ scan' = [scan EXCEPT ![p] = Start]
<1>1. CASE \/ AppendDeferred(p) \/ CreateFile(p) \/ LockCreated(p) \/ FirstWrite(p)
           \/ FirstWriteFails(p) \/ RemoveFile(p) \/ FirstSync(p) \/ FirstSyncFails(p)
           \/ AppendLine(p) \/ AppendLineFails(p) \/ SyncLine(p) \/ SyncLineFails(p)
           \/ OpenFile(p) \/ LockOpened(p) \/ Load(p) \/ LoadFails(p)
  BY <1>1 DEF AppendDeferred, CreateFile, LockCreated, FirstWrite, FirstWriteFails, RemoveFile,
              FirstSync, FirstSyncFails, AppendLine, AppendLineFails, SyncLine, SyncLineFails,
              OpenFile, LockOpened, Load, LoadFails
<1>2. CASE OpenReadOnly(p) \/ ReadFails(p) \/ Close(p) \/ Kill(p) \/ KillInWrite(p)
  BY <1>2 DEF OpenReadOnly, ReadFails, Close, Kill, KillInWrite, Forget
<1> QED BY <1>1, <1>2 DEF Step, Reads

\* Every action of a process keeps what is on disk together.
LEMMA StepKeepsDisk ==
  ASSUME LockInv, DiskInv, ScanTypes, NEW p \in Procs, Step(p)
  PROVE  DiskInv'
<1>0. /\ phase \in [Procs -> Phases] /\ fd \in [Procs -> Files \cup {NoFile}]
      /\ pending \in [Procs -> Seq(Lines)] /\ index \in [Procs -> Seq(Lines)]
      /\ inflight \in [Procs -> Lines] /\ content \in [Files -> Seq(Chunk)]
  BY DEF LockInv, LockTypes, DiskInv, DiskTypes
<1>c. <<>> \in Seq(Lines) /\ Header \in Lines
  BY EmptySeq DEF Lines
<1>1. CASE AppendDeferred(p)
  BY <1>1, BufferKeeps
<1>2. CASE CreateFile(p)
  BY <1>2, CreateKeeps
<1>3. CASE LockCreated(p)
  <2>1. CASE owner[fd[p]] = NoProc
    <3>1. /\ phase[p] = "created" /\ phase' = [phase EXCEPT ![p] = "locked"]
          /\ UNCHANGED <<content, durable, fd, pending, index, inflight>>
      BY <1>3, <2>1 DEF LockCreated, Enter, disk
    <3> QED BY <3>1, WaitingKeeps DEF Buffering
  <2>2. CASE owner[fd[p]] # NoProc
    <3>1. /\ phase[p] = "created" /\ phase' = [phase EXCEPT ![p] = "deferred"]
          /\ inflight' = [inflight EXCEPT ![p] = Header]
          /\ fd' = [fd EXCEPT ![p] = NoFile]
          /\ UNCHANGED <<content, durable, pending, index>>
      BY <1>3, <2>2 DEF LockCreated, Enter, disk
    <3>2. \A q \in Procs \ {p} : fd'[q] = fd[q]
      BY <3>1, <1>0
    <3> QED BY <3>1, <3>2, WaitingKeeps DEF Buffering
  <2> QED BY <2>1, <2>2
<1>4. CASE FirstWrite(p)
  BY <1>4, FirstWriteKeeps
<1>5. CASE FirstWriteFails(p)
  BY <1>5, FirstWriteFailsKeeps
<1>6. CASE RemoveFile(p)
  <2>1. /\ phase[p] = "undo" /\ phase' = [phase EXCEPT ![p] = "deferred"]
        /\ inflight' = [inflight EXCEPT ![p] = Header]
        /\ UNCHANGED <<content, durable, fd, pending, index>>
    BY <1>6 DEF RemoveFile, Enter
  <2> QED BY <2>1, WaitingKeeps DEF Buffering
<1>7. CASE FirstSync(p)
  <2>1. /\ phase[p] = "flushed" /\ phase' = [phase EXCEPT ![p] = "syncing"]
        /\ durable' = [durable EXCEPT ![fd[p]] = Len(content[fd[p]])]
        /\ index' = [index EXCEPT ![p] = Append(@, inflight[p])]
        /\ inflight' = [inflight EXCEPT ![p] = Header]
        /\ UNCHANGED <<content, fd, pending>>
    BY <1>7 DEF FirstSync, Enter, Index
  <2> QED BY <2>1, OpenKeeps DEF HasFile
<1>8. CASE FirstSyncFails(p)
  <2>1. /\ phase[p] = "flushed" /\ phase' = [phase EXCEPT ![p] = "ready"]
        /\ inflight' = [inflight EXCEPT ![p] = Header]
        /\ UNCHANGED <<content, durable, index, fd, pending>>
    BY <1>8 DEF FirstSyncFails, Enter, disk
  <2> QED BY <2>1, OpenKeeps DEF HasFile
<1>9. CASE AppendLine(p)
  BY <1>9, AppendLineKeeps
<1>10. CASE AppendLineFails(p)
  BY <1>10, AppendLineFailsKeeps
<1>11. CASE SyncLine(p)
  <2>1. /\ phase[p] = "syncing" /\ phase' = [phase EXCEPT ![p] = "ready"]
        /\ durable' = [durable EXCEPT ![fd[p]] = Len(content[fd[p]])]
        /\ UNCHANGED <<content, index, inflight, fd, pending>>
    BY <1>11 DEF SyncLine, Enter
  <2> QED BY <2>1, OpenKeeps DEF HasFile
<1>12. CASE SyncLineFails(p)
  <2>1. /\ phase[p] = "syncing" /\ phase' = [phase EXCEPT ![p] = "ready"]
        /\ UNCHANGED <<content, durable, index, inflight, fd, pending>>
    BY <1>12 DEF SyncLineFails, Enter, disk
  <2> QED BY <2>1, OpenKeeps DEF HasFile
<1>13. CASE OpenFile(p)
  <2>1. /\ phase' = [phase EXCEPT ![p] = "opened"] /\ fd' = [fd EXCEPT ![p] = path]
        /\ UNCHANGED <<content, durable, index, inflight, pending>>
    BY <1>13 DEF OpenFile, Enter, disk
  <2>2. \A q \in Procs \ {p} : fd'[q] = fd[q]
    BY <2>1, <1>0
  <2> QED BY <1>0, <2>1, <2>2, IdleKeeps
<1>14. CASE LockOpened(p)
  <2>1. PICK ph \in {"none", "loading"} :
          /\ phase' = [phase EXCEPT ![p] = ph]
          /\ fd' = fd \/ fd' = [fd EXCEPT ![p] = NoFile]
          /\ UNCHANGED <<content, durable, index, inflight, pending>>
    BY <1>14 DEF LockOpened, Enter, disk
  <2>2. \A q \in Procs \ {p} : fd'[q] = fd[q]
    BY <2>1, <1>0
  <2> QED BY <1>0, <2>1, <2>2, IdleKeeps
<1>15. CASE Load(p)
  BY <1>15, LoadKeeps
<1>16. CASE LoadFails(p)
  <2>1. /\ phase' = [phase EXCEPT ![p] = "none"] /\ fd' = [fd EXCEPT ![p] = NoFile]
        /\ UNCHANGED <<content, durable, index, inflight, pending>>
    BY <1>16 DEF LoadFails, LetGo, Enter, disk
  <2>2. \A q \in Procs \ {p} : fd'[q] = fd[q]
    BY <2>1, <1>0
  <2> QED BY <1>0, <2>1, <2>2, IdleKeeps
<1>17. CASE OpenReadOnly(p)
  <2>1. /\ phase' = [phase EXCEPT ![p] = "reading"] /\ fd' = [fd EXCEPT ![p] = path]
        /\ index' = [index EXCEPT ![p] = <<>>]
        /\ UNCHANGED <<content, durable, inflight, pending>>
    BY <1>17 DEF OpenReadOnly, Enter, disk
  <2>2. /\ index' \in [Procs -> Seq(Lines)]
        /\ \A q \in Procs \ {p} : index'[q] = index[q] /\ fd'[q] = fd[q]
    BY <2>1, <1>0, <1>c
  <2>3. \A q \in Procs \ {p} : /\ fd'[q] = fd[q] /\ pending'[q] = pending[q]
                               /\ index'[q] = index[q] /\ inflight'[q] = inflight[q]
    BY <2>1, <2>2
  <2> QED BY <1>0, <2>1, <2>2, <2>3, IdleKeeps
<1>r. CASE Reads(p)
  <2>1. /\ phase[p] = "reading" /\ UNCHANGED <<content, durable, fd, pending, inflight>>
        /\ phase' = phase \/ phase' = [phase EXCEPT ![p] = "reader"]
        /\ index' = index \/ \E e \in Lines : index' = [index EXCEPT ![p] = Append(@, e)]
    BY <1>r, ReadSteps
  <2>2. /\ index' \in [Procs -> Seq(Lines)]
        /\ \A q \in Procs \ {p} : index'[q] = index[q]
    <3>1. \A e \in Lines : Append(index[p], e) \in Seq(Lines)
      BY <1>0, AppendProperties
    <3> QED BY <2>1, <3>1, <1>0
  <2>3. \E ph \in {"reading", "reader"} : phase' = [phase EXCEPT ![p] = ph]
    BY <2>1, <1>0
  <2>4. \A q \in Procs \ {p} : /\ fd'[q] = fd[q] /\ pending'[q] = pending[q]
                               /\ index'[q] = index[q] /\ inflight'[q] = inflight[q]
    BY <2>1, <2>2
  <2> QED BY <1>0, <2>1, <2>2, <2>3, <2>4, IdleKeeps
<1>18. ASSUME LetGo(p), Forget(p), UNCHANGED <<content, durable>> PROVE DiskInv'
  <2>1. /\ phase' = [phase EXCEPT ![p] = "none"] /\ fd' = [fd EXCEPT ![p] = NoFile]
        /\ pending' = [pending EXCEPT ![p] = <<>>] /\ index' = [index EXCEPT ![p] = <<>>]
        /\ inflight' = [inflight EXCEPT ![p] = Header]
    BY <1>18 DEF LetGo, Forget, Enter
  <2>2. /\ pending' \in [Procs -> Seq(Lines)] /\ index' \in [Procs -> Seq(Lines)]
        /\ inflight' \in [Procs -> Lines]
    BY <2>1, <1>0, <1>c
  <2>3. \A q \in Procs \ {p} : /\ fd'[q] = fd[q] /\ pending'[q] = pending[q]
                               /\ index'[q] = index[q] /\ inflight'[q] = inflight[q]
    BY <2>1, <1>0
  <2> QED BY <1>18, <2>1, <2>2, <2>3, IdleKeeps
<1>19. CASE ReadFails(p) \/ Close(p) \/ Kill(p)
  BY <1>18, <1>19 DEF ReadFails, Close, Kill, disk
<1>20. CASE KillInWrite(p)
  BY <1>20, KillInWriteKeeps
<1> QED
  BY <1>1, <1>2, <1>3, <1>4, <1>5, <1>6, <1>7, <1>8, <1>9, <1>10, <1>11, <1>12,
     <1>13, <1>14, <1>15, <1>16, <1>17, <1>r, <1>19, <1>20 DEF Step, Reads

\* The types of readers are kept together with what is on disk.
LEMMA DisksAndScans == Spec => [](DiskInv /\ ScanTypes)
<1>1. Init => DiskInv /\ ScanTypes
  <2> SUFFICES ASSUME Init PROVE DiskInv /\ ScanTypes
    OBVIOUS
  <2>1. <<>> \in Seq(Chunk) /\ <<>> \in Seq(Lines) /\ Header \in Lines /\ Len(<<>>) = 0
    BY EmptySeq DEF Lines
  <2>2. DiskTypes
    <3>1. /\ content = [f \in Files |-> <<>>] /\ durable = [f \in Files |-> 0]
          /\ pending = [p \in Procs |-> <<>>] /\ index = [p \in Procs |-> <<>>]
          /\ inflight = [p \in Procs |-> Header]
      BY DEF Init
    <3>2. \A f \in Files : durable[f] <= Len(content[f])
      BY <3>1, <2>1
    <3> QED BY <2>1, <3>1, <3>2 DEF DiskTypes
  <2>3. \A f \in Files : Hangs(content[f])
    BY DEF Init, Hangs
  <2>4. ASSUME NEW p \in Procs PROVE StoreSupported(p)
    <3>1. phase[p] \in {"deferred", "none"} /\ index[p] = <<>> /\ pending[p] = <<>>
      BY DEF Init
    <3>2. Chained(pending[p])
      BY <3>1 DEF Chained
    <3> QED BY <3>1, <3>2 DEF StoreSupported, HasFile
  <2>5. ScanTypes
    BY <2>1 DEF Init, ScanTypes, Start, NoLine, Piece
  <2> QED BY <2>2, <2>3, <2>4, <2>5 DEF DiskInv
<1>2. LockInv /\ DiskInv /\ ScanTypes /\ [Next]_vars => DiskInv' /\ ScanTypes'
  <2> SUFFICES ASSUME LockInv, DiskInv, ScanTypes, [Next]_vars PROVE DiskInv' /\ ScanTypes'
    OBVIOUS
  <2>0. Start \in [at : Nat, spliced : BOOLEAN, begun : [entry : Lines, part : {"torn", "bare", "none"}]]
    BY DEF Start, NoLine, Piece, Lines
  <2>1. CASE UNCHANGED vars
    BY <2>1 DEF vars, DiskInv, DiskTypes, StoreSupported, ScanTypes
  <2>2. CASE PowerLoss
    <3>1. ScanTypes'
      BY <2>0, <2>2 DEF PowerLoss, ScanTypes
    <3> QED BY <2>2, <3>1, PowerLossKeepsDisk
  <2>3. ASSUME NEW p \in Procs, Step(p) PROVE DiskInv' /\ ScanTypes'
    <3>1. CASE Reads(p)
      <4>1. ScanTypes'
        BY <3>1, ReadSteps
      <4> QED BY <2>3, <4>1, StepKeepsDisk
    <3>2. CASE ~Reads(p)
      <4>1. scan' = scan \/ scan' = [scan EXCEPT ![p] = Start]
        BY <2>3, <3>2, ScansStay
      <4>2. ScanTypes'
        BY <2>0, <4>1 DEF ScanTypes
      <4> QED BY <2>3, <4>2, StepKeepsDisk
    <3> QED BY <3>1, <3>2
  <2> QED BY <2>1, <2>2, <2>3 DEF Next
<1> QED BY <1>1, <1>2, WritersAreLocked, PTL DEF Spec

\* In every reachable state each file hangs together, and each open store's
\* tree hangs from what stands in its file.
THEOREM StoresHangFromDisk == Spec => []DiskInv
  BY DisksAndScans, PTL

\* Whatever writes, syncs, processes or the machine fail, an entry on disk
\* hangs from an entry that is on disk before it (store.go Append's order).
THEOREM DiskStaysChained == Spec => []ChainOnDisk
<1>1. DiskInv => ChainOnDisk
  <2> SUFFICES ASSUME DiskInv, NEW f \in Files, NEW i \in Whole(content[f])
               PROVE  LET e == content[f][i].entry
                          Before(id) == \E j \in Whole(content[f]) :
                            /\ j < i
                            /\ content[f][j].entry.id = id
                            /\ content[f][j].entry.kind \notin OffChain
                      IN  e # Header => /\ e.parent = Root \/ Before(e.parent)
                                        /\ e.kind = "leaf" => Before(e.target)
    BY DEF ChainOnDisk
  <2>1. HangsAt(content[f], i)
    BY DEF DiskInv, Hangs, Whole
  <2> QED BY <2>1 DEF HangsAt, Earlier
<1> QED BY <1>1, StoresHangFromDisk, PTL
----------------------------------------------------------------------------
(* Processes that die, and a machine that stops, with no write and no sync   *)
(* that fails: what the files hold, what a reload finds, and the refinement  *)
(* of SessionLog.                                                           *)

\* The entries of a session: a leaf entry always names a target.
Proper == {e \in Entry : e.kind = "leaf" => e.target # Root}

\* A file that only crashes have damaged: the header comes first, and no line
\* but the last may be incomplete.
Clean(c) ==
  /\ \A i \in DOMAIN c : i < Len(c) => c[i].part = "full"
  /\ \A i \in DOMAIN c : IF i = 1 THEN c[i].entry = Header ELSE c[i].entry \in Proper

\* What an open that reads c shows.
Shown(c) == IF Readable(c) THEN Loaded(c) ELSE <<>>

\* The file holds the header and the entries of log, complete.
Holds(c, log) ==
  /\ Len(c) = Len(log) + 1
  /\ \A i \in DOMAIN c : c[i].part = "full"
  /\ \A i \in DOMAIN log : c[i + 1].entry = log[i]

\* Only the file at the path is ever written; what was synced is complete.
FilesInv ==
  /\ \A p \in Procs : fd[p] \in {NoFile, path}
  /\ \A f \in Files : /\ f # path => content[f] = <<>>
                      /\ Clean(content[f])
                      /\ \A i \in 1 .. durable[f] : content[f][i].part = "full"

\* What a store's memory has to do with its file.
StoreMatches(p) ==
  /\ pending[p] \in Seq(Proper) /\ index[p] \in Seq(Proper)
  /\ phase[p] # "undo"
  /\ phase[p] \in Buffering => p = Creator /\ \A f \in Files : content[f] = <<>>
  /\ phase[p] \in {"created", "locked", "flushed"} => inflight[p] \in Proper
  /\ phase[p] = "flushed" => Holds(content[fd[p]], Append(index[p], inflight[p]))
  /\ phase[p] \in {"ready", "syncing"} => Holds(content[fd[p]], index[p])

\* What is owed is found by the next open; what was synced is among the
\* chunks a sync covered.
GhostsInv ==
  /\ synced \subseteq owed
  /\ \A id \in owed : /\ path \in Files
                      /\ \E i \in 2 .. Kept(content[path]) : content[path][i].entry.id = id
  /\ \A id \in synced : \E i \in 2 .. durable[path] : content[path][i].entry.id = id

\* Inductive together with LockInv and DiskInv, where only crashes happen.
CrashInv == FilesInv /\ (\A p \in Procs : StoreMatches(p)) /\ GhostsInv

\* How many chunks load keeps of a clean file: all, or all but a torn last.
LEMMA KeptOfClean ==
  ASSUME NEW c \in Seq(Chunk), Clean(c)
  PROVE  /\ Len(c) \in Nat /\ Kept(c) \in Nat
         /\ c = <<>> => Kept(c) = 0
         /\ c # <<>> => /\ Len(c) >= 1
                        /\ c[Len(c)].part # "torn" => Kept(c) = Len(c)
                        /\ c[Len(c)].part = "torn" => Kept(c) = Len(c) - 1
         /\ Readable(c) <=> Kept(c) >= 1
<1> DEFINE n == Len(c)
<1>1. n \in Nat /\ DOMAIN c = 1 .. n /\ \A i \in 1 .. n : c[i] \in Chunk
  BY LenProperties, ElementOfSeq
<1>2. \A m \in Nat : Cardinality(1 .. m) = m
  <2> SUFFICES ASSUME NEW m \in Nat PROVE Cardinality(1 .. m) = m
    OBVIOUS
  <2>1. Cardinality(1 .. m) = IF 1 > m THEN 0 ELSE m - 1 + 1
    BY FS_Interval
  <2> QED BY <2>1
<1>3. CASE c = <<>>
  <2>1. n = 0 /\ Whole(c) = 1 .. 0
    BY <1>3 DEF Whole
  <2>2. Cardinality(Whole(c)) = 0
    BY <2>1, <1>2
  <2>3. Kept(c) = 0
    BY <2>1, <2>2 DEF Kept
  <2> QED BY <1>1, <1>3, <2>3 DEF Readable
<1>4. CASE c # <<>> /\ c[n].part = "full"
  <2>1. n >= 1
    BY <1>1, <1>4, EmptySeq
  <2>2. Whole(c) = 1 .. n
    BY <1>1, <1>4 DEF Whole, Clean
  <2>3. Cardinality(Whole(c)) = n
    BY <2>2, <1>1, <1>2
  <2>4. Kept(c) = n
    BY <2>3, <1>1 DEF Kept
  <2>5. \A i \in Whole(c) : \A j \in 1 .. i : c[j].part = "full"
    BY <2>2, <1>1 DEF Whole
  <2> QED BY <1>1, <1>4, <2>1, <2>4, <2>5 DEF Readable
<1>5. CASE c # <<>> /\ c[n].part # "full"
  <2>1. n >= 1
    BY <1>1, <1>5, EmptySeq
  <2>2. Whole(c) = 1 .. (n - 1)
    BY <1>1, <1>5 DEF Whole, Clean
  <2>3. Cardinality(Whole(c)) = n - 1
    BY <2>1, <2>2, <1>1, <1>2
  <2>4. Kept(c) = IF c[n].part = "bare" THEN n ELSE n - 1
    BY <2>1, <2>3, <1>1 DEF Kept
  <2>5. c[n].part \in {"bare", "torn"}
    <3>1. c[n] \in Chunk
      BY <2>1, <1>1
    <3> QED BY <3>1, <1>5 DEF Chunk
  <2>6. \A i \in Whole(c) : \A j \in 1 .. i : c[j].part = "full"
    <3>1. \A i \in Whole(c) : \A j \in 1 .. i : j \in Whole(c)
      BY <2>2, <1>1
    <3> QED BY <3>1 DEF Whole
  <2>7. Kept(c) \in Nat /\ (Readable(c) <=> Kept(c) >= 1)
    BY <1>1, <2>1, <2>4, <2>6 DEF Readable
  <2>8. /\ c[n].part # "torn" => Kept(c) = n
        /\ c[n].part = "torn" => Kept(c) = n - 1
    BY <2>4, <2>5
  <2> QED BY <1>1, <1>5, <2>1, <2>7, <2>8
<1> QED BY <1>3, <1>4, <1>5

\* An open shows the entries behind the header, as many as load keeps.
LEMMA ShownOf ==
  ASSUME NEW c \in Seq(Chunk), Clean(c)
  PROVE  /\ Shown(c) \in Seq(Proper)
         /\ Len(Shown(c)) = IF Kept(c) >= 1 THEN Kept(c) - 1 ELSE 0
         /\ \A i \in 1 .. Len(Shown(c)) : /\ i + 1 <= Kept(c) /\ i + 1 \in DOMAIN c
                                          /\ Shown(c)[i] = c[i + 1].entry
<1> DEFINE n == Kept(c)
<1>1. /\ Len(c) \in Nat /\ n \in Nat /\ n <= Len(c) /\ (Readable(c) <=> n >= 1)
      /\ DOMAIN c = 1 .. Len(c)
  BY KeptOfClean, LenProperties
<1>2. CASE ~(n >= 1)
  <2>1. Shown(c) = <<>>
    BY <1>1, <1>2 DEF Shown
  <2> QED BY <2>1, <1>2, EmptySeq
<1>3. CASE n >= 1
  <2> DEFINE all == EntriesOf(Recovered(c))
             log == Tail(all)
  <2>1. Recovered(c) = [i \in 1 .. n |-> [entry |-> c[i].entry, part |-> "full"]]
    BY DEF Recovered, Piece
  <2>2. all = [i \in 1 .. n |-> c[i].entry]
    BY <2>1 DEF EntriesOf
  <2>3. \A i \in 1 .. n : c[i].entry \in Lines
    BY <1>1 DEF Clean, Proper, Lines
  <2> HIDE DEF n
  <2>4. all \in Seq(Lines) /\ Len(all) = n /\ \A i \in 1 .. n : all[i] = c[i].entry
    BY <1>1, <2>2, <2>3
  <2> HIDE DEF all
  <2>5. all # <<>>
    BY <2>4, <1>3, EmptySeq
  <2>6. log \in Seq(Lines) /\ Len(log) = n - 1 /\ \A i \in 1 .. Len(log) : log[i] = all[i + 1]
    BY <2>4, <2>5, HeadTailProperties
  <2> HIDE DEF log
  <2>7. \A i \in 1 .. Len(log) : /\ i + 1 <= n /\ i + 1 \in 1 .. n /\ i + 1 \in DOMAIN c /\ i + 1 # 1
                                 /\ log[i] = c[i + 1].entry
    BY <2>4, <2>6, <1>1, <1>3
  <2>8. \A i \in 1 .. Len(log) : log[i] \in Proper
    BY <2>7 DEF Clean
  <2>9. log \in Seq(Proper)
    <3>1. log = [i \in 1 .. Len(log) |-> log[i]] /\ Len(log) \in Nat
      BY <2>6, LenProperties
    <3> QED BY <3>1, <2>8
  <2>10. Shown(c) = log
    BY <1>1, <1>3 DEF Shown, Loaded, log, all, n
  <2> QED BY <2>6, <2>7, <2>9, <2>10, <1>3 DEF n
<1> QED BY <1>2, <1>3

\* What is shown of two files that agree as far as the first is kept.
LEMMA ShownAgree ==
  ASSUME NEW c \in Seq(Chunk), NEW d \in Seq(Chunk), Clean(c), Clean(d), Kept(d) <= Kept(c),
         \A i \in 1 .. Kept(d) : d[i].entry = c[i].entry
  PROVE  /\ Len(Shown(d)) \in 0 .. Len(Shown(c))
         /\ Shown(d) = SubSeq(Shown(c), 1, Len(Shown(d)))
<1> DEFINE s == Shown(c)
           t == Shown(d)
           u == SubSeq(s, 1, Len(t))
<1>1. Kept(c) \in Nat /\ Kept(d) \in Nat
  BY KeptOfClean
<1>2. /\ s \in Seq(Proper) /\ Len(s) = IF Kept(c) >= 1 THEN Kept(c) - 1 ELSE 0
      /\ \A i \in 1 .. Len(s) : s[i] = c[i + 1].entry
  BY ShownOf
<1>3. /\ t \in Seq(Proper) /\ Len(t) = IF Kept(d) >= 1 THEN Kept(d) - 1 ELSE 0
      /\ \A i \in 1 .. Len(t) : i + 1 <= Kept(d) /\ t[i] = d[i + 1].entry
  BY ShownOf
<1> HIDE DEF s, t
<1>4. Len(t) \in 0 .. Len(s)
  BY <1>1, <1>2, <1>3
<1>5. u \in Seq(Proper) /\ Len(u) = Len(t) /\ \A i \in 1 .. Len(t) : u[i] = s[i]
  BY <1>2, <1>4, PrefixCuts
<1>6. ASSUME NEW i \in 1 .. Len(t) PROVE t[i] = u[i]
  <2>1. i \in 1 .. Len(s) /\ i + 1 \in 1 .. Kept(d)
    BY <1>1, <1>2, <1>3, <1>4
  <2> QED BY <2>1, <1>2, <1>3, <1>5
<1> HIDE DEF u
<1>7. t = u
  BY <1>3, <1>5, <1>6, SeqEqual
<1> QED BY <1>4, <1>7 DEF s, t, u

\* A file that is shortened stays clean and shows a beginning of what it did.
LEMMA CutShown ==
  ASSUME NEW c \in Seq(Chunk), NEW d \in Seq(Chunk), Clean(c), Cut(d, c)
  PROVE  /\ Clean(d) /\ Kept(d) <= Kept(c)
         /\ Len(Shown(d)) \in 0 .. Len(Shown(c))
         /\ Shown(d) = SubSeq(Shown(c), 1, Len(Shown(d)))
<1>1. /\ Len(c) \in Nat /\ Len(d) \in Nat /\ DOMAIN c = 1 .. Len(c) /\ DOMAIN d = 1 .. Len(d)
      /\ Len(d) <= Len(c)
  BY LenProperties DEF Cut
<1>2. Clean(d)
  <2>1. ASSUME NEW i \in DOMAIN d, i < Len(d) PROVE d[i].part = "full"
    <3>1. d[i] = c[i] /\ i \in DOMAIN c /\ i < Len(c)
      BY <2>1, <1>1 DEF Cut
    <3> QED BY <3>1 DEF Clean
  <2>2. ASSUME NEW i \in DOMAIN d PROVE IF i = 1 THEN d[i].entry = Header ELSE d[i].entry \in Proper
    <3>1. d[i].entry = c[i].entry /\ i \in DOMAIN c
      BY <1>1 DEF Cut
    <3> QED BY <3>1 DEF Clean
  <2> QED BY <2>1, <2>2 DEF Clean
<1>3. Kept(d) <= Kept(c)
  <2>1. /\ Kept(c) \in Nat /\ Kept(d) \in Nat
        /\ Kept(d) <= Len(d) /\ Kept(c) >= Len(c) - 1
    BY <1>1, <1>2, KeptOfClean
  <2>2. CASE Len(d) < Len(c) \/ d = <<>>
    BY <2>1, <2>2, <1>1, <1>2, KeptOfClean
  <2>3. CASE Len(d) = Len(c) /\ d # <<>>
    <3>1. Len(d) >= 1 /\ c # <<>>
      BY <2>3, <1>1, EmptySeq
    <3>2. d[Len(d)].part # "torn" => c[Len(c)].part # "torn"
      BY <2>3, <3>1, <1>1 DEF Cut
    <3> QED BY <2>3, <3>1, <3>2, <1>1, <1>2, KeptOfClean
  <2>4. Len(d) < Len(c) \/ Len(d) = Len(c)
    <3> DEFINE a == Len(d)
               b == Len(c)
    <3>1. a \in Nat /\ b \in Nat /\ a <= b
      BY <1>1
    <3> HIDE DEF a, b
    <3>2. a < b \/ a = b
      BY <3>1
    <3> QED BY <3>2 DEF a, b
  <2> QED BY <2>2, <2>3, <2>4
<1>4. \A i \in 1 .. Kept(d) : d[i].entry = c[i].entry
  <2>1. Kept(d) \in Nat /\ Kept(d) <= Len(d)
    BY <1>1, <1>2, KeptOfClean
  <2> QED BY <2>1, <1>1 DEF Cut
<1> QED BY <1>2, <1>3, <1>4, ShownAgree

\* A file without damage keeps all its lines when others follow.
LEMMA GrownKept ==
  ASSUME NEW c \in Seq(Chunk), NEW k \in Seq(Chunk), \A i \in DOMAIN c : c[i].part = "full",
         Clean(c \o k)
  PROVE  /\ Clean(c) /\ Kept(c) = Len(c) /\ Kept(c) <= Kept(c \o k)
         /\ \A i \in 1 .. Kept(c) : (c \o k)[i] = c[i]
<1> DEFINE b == c \o k
<1>1. /\ b \in Seq(Chunk) /\ Len(c) \in Nat /\ Len(k) \in Nat /\ Len(b) = Len(c) + Len(k)
      /\ DOMAIN c = 1 .. Len(c) /\ DOMAIN b = 1 .. (Len(c) + Len(k))
      /\ \A i \in 1 .. Len(c) : b[i] = c[i]
  BY Appended
<1>2. k = <<>> => b = c
  BY ConcatEmptySeq
<1>3. k # <<>> => Len(k) >= 1
  BY <1>1, EmptySeq
<1>4. Clean(b)
  OBVIOUS
<1> HIDE DEF b
<1>5. Clean(c)
  BY <1>1, <1>4 DEF Clean
<1>6. Kept(c) \in Nat /\ Kept(c) = Len(c)
  <2>1. CASE c = <<>>
    BY <2>1, <1>5, KeptOfClean
  <2>2. CASE c # <<>>
    <3>1. Len(c) \in DOMAIN c
      BY <2>2, <1>1, <1>5, KeptOfClean
    <3> QED BY <2>2, <3>1, <1>5, KeptOfClean
  <2> QED BY <2>1, <2>2
<1>7. Kept(c) <= Kept(b)
  <2>1. CASE k = <<>>
    BY <2>1, <1>2, <1>6
  <2>2. CASE k # <<>>
    <3>1. Kept(b) >= Len(b) - 1
      BY <1>1, <1>4, KeptOfClean
    <3> QED BY <3>1, <2>2, <1>1, <1>3, <1>6, <1>4, KeptOfClean
  <2> QED BY <2>1, <2>2
<1>8. \A i \in 1 .. Kept(c) : b[i] = c[i]
  BY <1>1, <1>6
<1> QED BY <1>5, <1>6, <1>7, <1>8 DEF b

\* What an open shows of a file that hangs together is chained.
LEMMA ShownChained ==
  ASSUME NEW c \in Seq(Chunk), Clean(c), Hangs(c)
  PROVE  Chained(Shown(c))
<1> DEFINE s == Shown(c)
<1>1. /\ s \in Seq(Proper)
      /\ \A i \in 1 .. Len(s) : i + 1 \in DOMAIN c /\ s[i] = c[i + 1].entry
  BY ShownOf
<1>2. DOMAIN s = 1 .. Len(s) /\ Len(s) \in Nat /\ DOMAIN c = 1 .. Len(c) /\ Len(c) \in Nat
  BY <1>1, LenProperties
<1>3. Header.id = Root
  BY DEF Header, Root
<1> HIDE DEF s
<1>4. ASSUME NEW i \in 1 .. Len(s) PROVE ChainedAt(s, i)
  <2>1. HangsAt(c, i + 1) /\ s[i] = c[i + 1].entry /\ i + 1 # 1
    BY <1>1 DEF Hangs
  <2>2. c[i + 1].entry \in Proper
    BY <1>1, <2>1 DEF Clean
  <2>3. ASSUME NEW id \in Earlier(c, i + 1), id # Root
        PROVE  \E j \in 1 .. (i - 1) : s[j].id = id /\ s[j].kind \notin OffChain
    <3>1. PICK j \in DOMAIN c : /\ j < i + 1 /\ c[j].entry.kind \notin OffChain
                                /\ c[j].entry.id = id
      BY <2>3 DEF Earlier, Whole
    <3>2. j # 1
      BY <1>3, <2>3, <3>1 DEF Clean
    <3>3. j - 1 \in 1 .. (i - 1) /\ j - 1 \in 1 .. Len(s) /\ (j - 1) + 1 = j
      BY <3>1, <3>2, <1>2
    <3>4. s[j - 1] = c[(j - 1) + 1].entry
      BY <3>3, <1>1
    <3> QED BY <3>1, <3>3, <3>4
  <2>4. c[i + 1].entry.kind = "leaf" => c[i + 1].entry.target # Root
    BY <2>2 DEF Proper
  <2> QED BY <2>1, <2>3, <2>4 DEF HangsAt, ChainedAt
<1>5. Chained(s)
  BY <1>2, <1>4 DEF Chained
<1> QED BY <1>5 DEF s

\* A file that holds a log, complete, shows that log.
LEMMA HeldShown ==
  ASSUME NEW c \in Seq(Chunk), NEW log \in Seq(Proper), Clean(c), Holds(c, log)
  PROVE  Readable(c) /\ Kept(c) = Len(c) /\ Shown(c) = log /\ Loaded(c) = log
<1>1. /\ Len(c) \in Nat /\ DOMAIN c = 1 .. Len(c) /\ Len(c) = Len(log) + 1
      /\ Len(log) \in Nat /\ DOMAIN log = 1 .. Len(log)
  BY LenProperties DEF Holds
<1>2. c # <<>> /\ Len(c) \in DOMAIN c
  BY <1>1, EmptySeq
<1>3. c[Len(c)].part = "full"
  BY <1>2 DEF Holds
<1>4. Kept(c) = Len(c) /\ Readable(c)
  BY <1>1, <1>2, <1>3, KeptOfClean
<1>5. /\ Shown(c) \in Seq(Proper) /\ Len(Shown(c)) = Len(log)
      /\ \A i \in 1 .. Len(Shown(c)) : Shown(c)[i] = c[i + 1].entry
  BY <1>1, <1>4, ShownOf
<1>6. \A i \in 1 .. Len(Shown(c)) : Shown(c)[i] = log[i]
  BY <1>1, <1>5 DEF Holds
<1>7. Shown(c) = log
  BY <1>5, <1>6, SeqEqual
<1> QED BY <1>4, <1>7 DEF Shown

\* A complete file with one more complete line.
LEMMA LineHolds ==
  ASSUME NEW c \in Seq(Chunk), NEW log \in Seq(Proper), NEW e \in Proper, Clean(c), Holds(c, log)
  PROVE  LET b == c \o Full(<<e>>)
         IN  Full(<<e>>) \in Seq(Chunk) /\ b \in Seq(Chunk) /\ Clean(b) /\ Holds(b, Append(log, e))
<1> DEFINE x == [entry |-> e, part |-> "full"]
           k == <<x>>
           b == c \o k
           new == Append(log, e)
<1>1. Full(<<e>>) = k
  BY DEF Full, Piece
<1>2. x \in Chunk /\ x.entry = e /\ x.part = "full"
  BY DEF Chunk, Proper
<1>3. k \in Seq(Chunk) /\ Len(k) = 1 /\ k[1] = x
  BY <1>2
<1> HIDE DEF x, k
<1>4. /\ b \in Seq(Chunk) /\ Len(c) \in Nat /\ DOMAIN c = 1 .. Len(c)
      /\ Len(b) = Len(c) + Len(k) /\ DOMAIN b = 1 .. (Len(c) + Len(k))
      /\ \A i \in 1 .. Len(c) : b[i] = c[i]
      /\ \A i \in 1 .. Len(k) : b[Len(c) + i] = k[i]
  <2> k \in Seq(Chunk)
    BY <1>3
  <2> QED BY Appended
<1>5. /\ new \in Seq(Proper) /\ Len(new) = Len(log) + 1 /\ Len(log) \in Nat
      /\ DOMAIN new = 1 .. (Len(log) + 1)
      /\ \A i \in 1 .. Len(log) : new[i] = log[i]
      /\ new[Len(log) + 1] = e
  BY AppendProperties, LenProperties
<1> HIDE DEF b, new
<1>6. b[Len(c) + 1] = x /\ Len(b) = Len(c) + 1 /\ DOMAIN b = 1 .. (Len(c) + 1)
  BY <1>3, <1>4
<1>7. /\ Len(c) = Len(log) + 1
      /\ \A i \in 1 .. Len(c) : b[i].part = "full"
      /\ \A i \in 1 .. Len(log) : b[i + 1].entry = log[i]
  <2>1. Len(c) = Len(log) + 1 /\ DOMAIN log = 1 .. Len(log)
    BY LenProperties DEF Holds
  <2>2. \A i \in 1 .. Len(log) : i + 1 \in 1 .. Len(c)
    BY <2>1, <1>5
  <2> QED BY <2>1, <2>2, <1>4 DEF Holds
<1>8. \A i \in DOMAIN b : b[i].part = "full"
  BY <1>2, <1>4, <1>6, <1>7
<1>9. Clean(b)
  <2>1. ASSUME NEW i \in DOMAIN b PROVE IF i = 1 THEN b[i].entry = Header ELSE b[i].entry \in Proper
    <3>1. CASE i \in 1 .. Len(c)
      BY <3>1, <1>4 DEF Clean
    <3>2. CASE i = Len(c) + 1
      <4>1. i # 1
        BY <3>2, <1>5, <1>7
      <4> QED BY <4>1, <3>2, <1>2, <1>6
    <3> QED BY <3>1, <3>2, <1>4, <1>6
  <2> QED BY <2>1, <1>8 DEF Clean
<1>10. Holds(b, new)
  <2>1. ASSUME NEW i \in DOMAIN new PROVE b[i + 1].entry = new[i]
    <3>1. CASE i \in 1 .. Len(log)
      BY <3>1, <1>5, <1>7
    <3>2. CASE i = Len(log) + 1
      BY <3>2, <1>2, <1>5, <1>6, <1>7
    <3> QED BY <3>1, <3>2, <1>5
  <2>2. Len(b) = Len(new) + 1
    BY <1>5, <1>6, <1>7
  <2> QED BY <2>1, <2>2, <1>8 DEF Holds
<1> QED BY <1>1, <1>3, <1>4, <1>9, <1>10 DEF b, new

\* What createAndFlush writes holds what was buffered and the message.
LEMMA FirstLinesHold ==
  ASSUME NEW log \in Seq(Proper), NEW e \in Proper
  PROVE  LET lines == Full(<<Header>> \o log \o <<e>>)
         IN  lines \in Seq(Chunk) /\ Clean(lines) /\ Holds(lines, Append(log, e))
<1> DEFINE h == <<Header>>
           a == h \o log
           new == a \o <<e>>
           c == Full(new)
<1>1. h \in Seq(Lines) /\ Len(h) = 1 /\ h[1] = Header
  BY DEF Lines
<1>2. log \in Seq(Lines) /\ <<e>> \in Seq(Lines) /\ Len(<<e>>) = 1 /\ <<e>>[1] = e /\ e \in Lines
  <2>1. Proper \subseteq Lines
    BY DEF Proper, Lines
  <2>2. log \in Seq(Lines) /\ e \in Lines
    BY <2>1, SeqMonotonic
  <2> QED BY <2>2
<1> HIDE DEF h
<1>3. /\ a \in Seq(Lines) /\ Len(log) \in Nat /\ Len(a) = Len(h) + Len(log)
      /\ \A i \in 1 .. Len(h) : a[i] = h[i]
      /\ \A i \in 1 .. Len(log) : a[Len(h) + i] = log[i]
  <2>1. h \in Seq(Lines)
    BY <1>1
  <2> QED BY <2>1, <1>2, Appended
<1>4. /\ Len(a) = 1 + Len(log) /\ a[1] = Header
      /\ \A i \in 1 .. Len(log) : a[1 + i] = log[i]
  BY <1>1, <1>3
<1> DEFINE t == <<e>>
<1> HIDE DEF a, t
<1>5. t \in Seq(Lines) /\ Len(t) = 1 /\ t[1] = e
  BY <1>2 DEF t
<1>6. /\ a \o t \in Seq(Lines) /\ Len(a) \in Nat /\ Len(a \o t) = Len(a) + Len(t)
      /\ \A i \in 1 .. Len(a) : (a \o t)[i] = a[i]
      /\ \A i \in 1 .. Len(t) : (a \o t)[Len(a) + i] = t[i]
  <2>1. a \in Seq(Lines) /\ t \in Seq(Lines)
    BY <1>3, <1>5
  <2> QED BY <2>1, Appended
<1>7. new = a \o t
  BY DEF t
<1> HIDE DEF new
<1>8. /\ new \in Seq(Lines) /\ Len(new) = Len(log) + 2
      /\ new[1] = Header
      /\ \A i \in 1 .. Len(log) : new[1 + i] = log[i]
      /\ new[Len(log) + 2] = e
  <2>1. Len(new) = Len(log) + 2 /\ 1 \in 1 .. Len(a) /\ 1 \in 1 .. Len(t) /\ Len(a) + 1 = Len(log) + 2
    BY <1>3, <1>4, <1>5, <1>6, <1>7
  <2>2. \A i \in 1 .. Len(log) : 1 + i \in 1 .. Len(a)
    BY <1>3, <1>4
  <2>3. new[1] = a[1] /\ new[Len(a) + 1] = t[1]
    BY <2>1, <1>6, <1>7
  <2>4. \A i \in 1 .. Len(log) : new[1 + i] = a[1 + i]
    BY <2>2, <1>6, <1>7
  <2> QED BY <2>1, <2>3, <2>4, <1>4, <1>5, <1>6, <1>7
<1>9. DOMAIN new = 1 .. (Len(log) + 2)
  BY <1>8, LenProperties
<1>10. /\ c = [i \in 1 .. (Len(log) + 2) |-> [entry |-> new[i], part |-> "full"]]
       /\ \A i \in 1 .. (Len(log) + 2) : [entry |-> new[i], part |-> "full"] \in Chunk
  <2>1. \A i \in 1 .. (Len(log) + 2) : new[i] \in Lines
    BY <1>8, ElementOfSeq
  <2> QED BY <2>1, <1>9 DEF Full, Piece, Chunk, Lines
<1>11. Len(log) + 2 \in Nat
  BY <1>3
<1>12. /\ c \in Seq(Chunk) /\ Len(c) = Len(log) + 2 /\ DOMAIN c = 1 .. (Len(log) + 2)
       /\ \A i \in 1 .. (Len(log) + 2) : c[i].entry = new[i] /\ c[i].part = "full"
  BY <1>10, <1>11
<1> HIDE DEF c
<1>13. Clean(c)
  <2>1. ASSUME NEW i \in DOMAIN c PROVE IF i = 1 THEN c[i].entry = Header ELSE c[i].entry \in Proper
    <3>1. CASE i = 1
      BY <3>1, <1>3, <1>8, <1>12
    <3>2. CASE i = Len(log) + 2
      BY <3>2, <1>3, <1>8, <1>12
    <3>3. CASE i # 1 /\ i # Len(log) + 2
      <4>1. i - 1 \in 1 .. Len(log) /\ 1 + (i - 1) = i
        BY <3>3, <1>3, <1>12
      <4>2. new[1 + (i - 1)] = log[i - 1] /\ log[i - 1] \in Proper
        BY <4>1, <1>8, ElementOfSeq
      <4> QED BY <3>3, <4>1, <4>2, <1>12
    <3> QED BY <3>1, <3>2, <3>3
  <2> QED BY <2>1, <1>12 DEF Clean
<1> DEFINE l == Append(log, e)
<1>14. /\ l \in Seq(Proper) /\ Len(l) = Len(log) + 1
       /\ \A i \in 1 .. Len(log) : l[i] = log[i]
       /\ l[Len(log) + 1] = e
  BY AppendProperties
<1>15. DOMAIN l = 1 .. (Len(log) + 1)
  BY <1>14, LenProperties
<1> HIDE DEF l
<1>16. Holds(c, l)
  <2>1. ASSUME NEW i \in DOMAIN l PROVE c[i + 1].entry = l[i]
    <3>1. CASE i \in 1 .. Len(log)
      <4>1. i + 1 \in 1 .. (Len(log) + 2) /\ i + 1 = 1 + i
        BY <3>1, <1>3
      <4> QED BY <3>1, <4>1, <1>8, <1>12, <1>14
    <3>2. CASE i = Len(log) + 1
      <4>1. i + 1 \in 1 .. (Len(log) + 2) /\ i + 1 = Len(log) + 2
        BY <3>2, <1>3
      <4> QED BY <3>2, <4>1, <1>8, <1>12, <1>14
    <3> QED BY <3>1, <3>2, <1>15, <1>3
  <2>2. Len(c) = Len(l) + 1
    BY <1>3, <1>12, <1>14
  <2> QED BY <2>1, <2>2, <1>12 DEF Holds
<1> QED BY <1>12, <1>13, <1>16 DEF c, new, a, h, t, l

\* What load makes of a clean file holds what it loads, and shows no less.
LEMMA RecoveredHolds ==
  ASSUME NEW c \in Seq(Chunk), Clean(c), Readable(c)
  PROVE  LET d == Recovered(c)
         IN  /\ d \in Seq(Chunk) /\ Clean(d) /\ Holds(d, Loaded(c))
             /\ Loaded(c) \in Seq(Proper) /\ Shown(d) = Shown(c) /\ Shown(c) = Loaded(c)
             /\ Kept(d) = Kept(c) /\ Len(d) = Kept(c) /\ Kept(c) \in 1 .. Len(c)
             /\ \A i \in 1 .. Kept(c) : d[i].entry = c[i].entry
<1> DEFINE n == Kept(c)
           d == Recovered(c)
           log == Loaded(c)
<1>1. n \in Nat /\ n >= 1 /\ n <= Len(c) /\ Len(c) \in Nat /\ DOMAIN c = 1 .. Len(c)
  BY KeptOfClean, LenProperties
<1>2. d = [i \in 1 .. n |-> [entry |-> c[i].entry, part |-> "full"]]
  BY DEF Recovered, Piece
<1> HIDE DEF n
<1>3. \A i \in 1 .. n : [entry |-> c[i].entry, part |-> "full"] \in Chunk
  <2>1. \A i \in 1 .. n : c[i] \in Chunk
    BY <1>1, ElementOfSeq
  <2> QED BY <2>1 DEF Chunk
<1>4. d \in Seq(Chunk) /\ DOMAIN d = 1 .. n /\ Len(d) = n
  BY <1>1, <1>2, <1>3
<1>5. \A i \in 1 .. n : d[i].entry = c[i].entry /\ d[i].part = "full"
  BY <1>2
<1> HIDE DEF d
<1>6. Clean(d)
  BY <1>1, <1>4, <1>5 DEF Clean
<1>7. log = Shown(c)
  BY DEF Shown
<1>8. /\ log \in Seq(Proper) /\ Len(log) = n - 1
      /\ \A i \in 1 .. Len(log) : i + 1 <= n /\ log[i] = c[i + 1].entry
  BY <1>1, <1>7, ShownOf DEF n
<1> HIDE DEF log
<1>9. Holds(d, log)
  <2>1. DOMAIN log = 1 .. Len(log)
    BY <1>8, LenProperties
  <2>2. \A i \in 1 .. Len(log) : i + 1 \in 1 .. n
    BY <1>1, <1>8
  <2>3. Len(d) = Len(log) + 1
    BY <1>1, <1>4, <1>8
  <2> QED BY <2>1, <2>2, <2>3, <1>4, <1>5, <1>8 DEF Holds
<1>10. Shown(d) = log /\ Kept(d) = n
  BY <1>4, <1>6, <1>8, <1>9, HeldShown
<1> QED BY <1>1, <1>4, <1>5, <1>6, <1>7, <1>8, <1>9, <1>10 DEF d, n, log

\* The chunks a sync covered are kept.
LEMMA SyncedKept ==
  ASSUME NEW c \in Seq(Chunk), Clean(c), NEW m \in Nat, m <= Len(c),
         \A i \in 1 .. m : c[i].part = "full"
  PROVE  m <= Kept(c)
<1>1. CASE c = <<>>
  BY <1>1, KeptOfClean, EmptySeq
<1>2. CASE c # <<>> /\ c[Len(c)].part # "torn"
  BY <1>2, KeptOfClean
<1>3. CASE c # <<>> /\ c[Len(c)].part = "torn"
  <2>1. Kept(c) = Len(c) - 1 /\ Len(c) \in Nat /\ Len(c) >= 1
    BY <1>3, KeptOfClean
  <2>2. m # Len(c)
    BY <1>3, <2>1
  <2> QED BY <2>1, <2>2
<1> QED BY <1>1, <1>2, <1>3

\* An entry made from a proper tree is proper.
LEMMA NewEntryProper ==
  ASSUME NEW p \in Procs, index[p] \in Seq(Proper), nextID \in EntryIDs
  PROVE  NewEntry(p, "message", Root) \in Proper /\ NewEntries(p) \subseteq Proper
<1>1. Root \notin EntryIDs /\ Header.id = Root
  BY DEF EntryIDs, Root, Header
<1>2. index[p] \in Seq(Lines)
  <2>1. Proper \subseteq Lines
    BY DEF Proper, Lines
  <2> QED BY <2>1, SeqMonotonic
<1>3. Supported(index[p], EntryIDs)
  <2>1. \A i \in DOMAIN index[p] : index[p][i] \in Proper
    BY LenProperties, ElementOfSeq
  <2>2. \A e \in Proper : /\ e.id \in EntryIDs
                          /\ e.kind = "leaf" => e.target \in EntryIDs
    BY DEF Proper, Entry
  <2> QED BY <2>1, <2>2 DEF Supported
<1>4. /\ NewEntry(p, "message", Root) \in Lines
      /\ NewEntry(p, "message", Root).kind = "message"
      /\ \A e \in NewEntries(p) : e \in Lines /\ (e.kind = "leaf" => e.target \in EntryIDs)
  BY <1>2, <1>3, NewEntryHangs
<1>5. /\ NewEntry(p, "message", Root).id = nextID
      /\ \A e \in NewEntries(p) : e.id = nextID
  BY DEF NewEntry, NewEntries
<1>6. \A e \in Lines : e.id \in EntryIDs => e \in Entry
  BY <1>1 DEF Lines
<1> QED BY <1>1, <1>4, <1>5, <1>6 DEF Proper
----------------------------------------------------------------------------
\* No write and no sync fails.
OnlyCrashes == Faults \subseteq {"kill", "power"}

\* A step after which the session shows and owes what it did, and maybe more;
\* when a sync owes more, it shows the same.
Grows ==
  /\ \E n \in 0 .. Len(SessionLogNow') : SessionLogNow = SubSeq(SessionLogNow', 1, n)
  /\ owed \subseteq owed' /\ synced \subseteq synced'
  /\ synced' = synced \/ SessionLogNow' = SessionLogNow

\* The file at the path is the one that matters, as far as it is clean.
LEMMA LogNow ==
  ASSUME LockInv, DiskInv, FilesInv
  PROVE  /\ SessionLogNow = IF path = NoFile THEN <<>> ELSE Shown(content[path])
         /\ path # NoFile => path \in Files /\ content[path] \in Seq(Chunk) /\ Clean(content[path])
         /\ SessionLogNow \in Seq(Proper)
<1>1. path # NoFile => path \in Files /\ content[path] \in Seq(Chunk) /\ Clean(content[path])
  BY DEF LockInv, LockTypes, DiskInv, DiskTypes, FilesInv
<1>2. SessionLogNow = IF path = NoFile THEN <<>> ELSE Shown(content[path])
  BY DEF SessionLogNow, Shown
<1>3. path # NoFile => Shown(content[path]) \in Seq(Proper)
  BY <1>1, ShownOf
<1>4. <<>> \in Seq(Proper)
  BY EmptySeq, SMTT(20)
<1> QED BY <1>1, <1>2, <1>3, <1>4

\* A log is a beginning of itself.
LEMMA SameLog ==
  ASSUME LockInv, DiskInv, FilesInv, SessionLogNow' = SessionLogNow,
         owed \subseteq owed', synced \subseteq synced'
  PROVE  Grows
<1> DEFINE s == SessionLogNow
<1>1. s \in Seq(Proper)
  BY LogNow
<1> HIDE DEF s
<1>2. Len(s) \in 0 .. Len(s) /\ s = SubSeq(s, 1, Len(s))
  BY <1>1, LenProperties, SubSeqFull
<1>3. SessionLogNow' = s /\ SessionLogNow = s
  BY DEF s
<1> QED BY <1>2, <1>3 DEF Grows

\* What a step of p does to the memory of another store.
LEMMA OthersMatch ==
  ASSUME LockInv, CrashInv, NEW p \in Procs, NEW q \in Procs \ {p},
         phase'[q] = phase[q], fd'[q] = fd[q], pending'[q] = pending[q],
         index'[q] = index[q], inflight'[q] = inflight[q],
         \/ content' = content
         \/ /\ phase[p] \in Locking
            /\ phase[p] = "locked" \/ content[fd[p]] # <<>>
            /\ \A f \in Files \ {fd[p]} : content'[f] = content[f]
  PROVE  StoreMatches(q)'
<1>1. StoreMatches(q) /\ StoreMatches(p)
  BY DEF CrashInv
<1>2. CASE content' = content
  BY <1>1, <1>2 DEF StoreMatches, Holds
<1>3. CASE /\ phase[p] \in Locking
           /\ phase[p] = "locked" \/ content[fd[p]] # <<>>
           /\ \A f \in Files \ {fd[p]} : content'[f] = content[f]
  <2>1. fd[p] \in Files /\ owner[fd[p]] = p
    BY <1>3 DEF LockInv, WritersHoldLock
  <2>2. phase[q] \in HasFile => fd[q] \in Files /\ content'[fd[q]] = content[fd[q]]
    <3> HAVE phase[q] \in HasFile
    <3>1. fd[q] \in Files /\ owner[fd[q]] = q
      BY DEF LockInv, WritersHoldLock, Locking
    <3>2. fd[q] # fd[p]
      BY <2>1, <3>1
    <3> QED BY <3>1, <3>2, <1>3
  <2>3. phase[q] \notin Buffering
    <3>1. CASE phase[p] = "locked"
      BY <3>1, <1>1 DEF StoreMatches, Buffering
    <3>2. CASE content[fd[p]] # <<>>
      BY <3>2, <1>1, <2>1 DEF StoreMatches
    <3> QED BY <3>1, <3>2, <1>3
  <2>4. phase[q] \in HasFile => content'[fd'[q]] = content[fd[q]]
    BY <2>2
  <2>5. /\ phase'[q] = "flushed" => Holds(content'[fd'[q]], Append(index'[q], inflight'[q]))
        /\ phase'[q] \in {"ready", "syncing"} => Holds(content'[fd'[q]], index'[q])
    BY <1>1, <2>4 DEF StoreMatches, HasFile
  <2>6. /\ pending'[q] \in Seq(Proper) /\ index'[q] \in Seq(Proper)
        /\ phase'[q] # "undo" /\ phase'[q] \notin Buffering
        /\ phase'[q] \in {"created", "locked", "flushed"} => inflight'[q] \in Proper
    BY <1>1, <2>3 DEF StoreMatches
  <2> QED BY <2>5, <2>6 DEF StoreMatches
<1> QED BY <1>2, <1>3

\* A step of p that leaves the files and what is owed as they are.
LEMMA FilesStay ==
  ASSUME LockInv, DiskInv, CrashInv, NEW p \in Procs,
         UNCHANGED <<path, content, durable, owed, synced>>, fd'[p] \in {NoFile, path},
         \A q \in Procs \ {p} : /\ phase'[q] = phase[q] /\ fd'[q] = fd[q]
                                /\ pending'[q] = pending[q] /\ index'[q] = index[q]
                                /\ inflight'[q] = inflight[q],
         StoreMatches(p)'
  PROVE  CrashInv' /\ Grows
<1>1. \A q \in Procs \ {p} : StoreMatches(q)'
  BY OthersMatch
<1>2. FilesInv' /\ GhostsInv'
  BY DEF CrashInv, FilesInv, GhostsInv
<1>3. Grows
  <2>1. SessionLogNow' = SessionLogNow
    BY DEF SessionLogNow
  <2> QED BY <2>1, SameLog DEF CrashInv
<1> QED BY <1>1, <1>2, <1>3 DEF CrashInv

\* A step of p that makes d of its file and leaves m chunks of it synced: the
\* file keeps its lines, and what is owed from then on is in it.
Writes(p, d, m) ==
  /\ phase[p] \in Locking /\ (phase[p] = "locked" \/ content[fd[p]] # <<>>)
  /\ path' = path /\ content' = [content EXCEPT ![fd[p]] = d]
  /\ Clean(d) /\ Kept(content[fd[p]]) <= Kept(d)
  /\ \A i \in 1 .. Kept(content[fd[p]]) : d[i].entry = content[fd[p]][i].entry
  /\ durable' = [durable EXCEPT ![fd[p]] = m] /\ durable[fd[p]] <= m
  /\ \A i \in 1 .. m : d[i].part = "full"
  /\ fd'[p] \in {NoFile, path}
  /\ \A q \in Procs \ {p} : /\ phase'[q] = phase[q] /\ fd'[q] = fd[q]
                            /\ pending'[q] = pending[q] /\ index'[q] = index[q]
                            /\ inflight'[q] = inflight[q]
  /\ owed \subseteq owed' /\ synced \subseteq synced' /\ synced' \subseteq owed'
  /\ synced' = synced \/ d = content[fd[p]]
  /\ \A id \in owed' \ owed : \E i \in 2 .. Kept(d) : d[i].entry.id = id
  /\ \A id \in synced' \ synced : \E i \in 2 .. m : d[i].entry.id = id

\* Such a write keeps the invariant, and the session a fresh open finds grows.
LEMMA FileGrows ==
  ASSUME LockInv, DiskInv, CrashInv, NEW p \in Procs, NEW d \in Seq(Chunk), NEW m \in Nat,
         Writes(p, d, m), StoreMatches(p)'
  PROVE  CrashInv' /\ Grows
<1>0. /\ phase[p] \in Locking /\ (phase[p] = "locked" \/ content[fd[p]] # <<>>)
      /\ path' = path /\ content' = [content EXCEPT ![fd[p]] = d]
      /\ Clean(d) /\ Kept(content[fd[p]]) <= Kept(d)
      /\ \A i \in 1 .. Kept(content[fd[p]]) : d[i].entry = content[fd[p]][i].entry
      /\ durable' = [durable EXCEPT ![fd[p]] = m] /\ durable[fd[p]] <= m
      /\ \A i \in 1 .. m : d[i].part = "full"
      /\ fd'[p] \in {NoFile, path}
      /\ \A q \in Procs \ {p} : /\ phase'[q] = phase[q] /\ fd'[q] = fd[q]
                                /\ pending'[q] = pending[q] /\ index'[q] = index[q]
                                /\ inflight'[q] = inflight[q]
      /\ owed \subseteq owed' /\ synced \subseteq synced' /\ synced' \subseteq owed'
      /\ synced' = synced \/ d = content[fd[p]]
      /\ \A id \in owed' \ owed : \E i \in 2 .. Kept(d) : d[i].entry.id = id
      /\ \A id \in synced' \ synced : \E i \in 2 .. m : d[i].entry.id = id
  BY DEF Writes
<1> USE <1>0
<1> DEFINE f == fd[p]
           c == content[f]
<1>1. f \in Files /\ f = path /\ path # NoFile
  <2>1. f \in Files
    BY DEF LockInv, WritersHoldLock
  <2>2. f \in {NoFile, path}
    BY DEF CrashInv, FilesInv
  <2> QED BY <2>1, <2>2 DEF Files, NoFile
<1>2. /\ content \in [Files -> Seq(Chunk)] /\ durable \in [Files -> Nat]
      /\ durable[f] \in Nat /\ durable[f] <= Len(c) /\ c \in Seq(Chunk)
      /\ Clean(c) /\ \A i \in 1 .. durable[f] : c[i].part = "full"
  BY <1>1 DEF DiskInv, DiskTypes, CrashInv, FilesInv
<1>3. /\ content'[f] = d /\ durable'[f] = m
      /\ \A g \in Files \ {f} : content'[g] = content[g] /\ durable'[g] = durable[g]
  BY <1>1, <1>2
<1>4. durable[f] <= Kept(c) /\ Kept(c) \in Nat /\ Kept(d) \in Nat
  <2> HIDE DEF c, f
  <2> QED BY <1>2, SyncedKept, KeptOfClean
<1>5. FilesInv'
  <2>1. \A q \in Procs : fd'[q] \in {NoFile, path'}
    BY DEF CrashInv, FilesInv
  <2>2. ASSUME NEW g \in Files
        PROVE  /\ g # path' => content'[g] = <<>>
               /\ Clean(content'[g])
               /\ \A i \in 1 .. durable'[g] : content'[g][i].part = "full"
    BY <1>1, <1>3 DEF CrashInv, FilesInv
  <2> QED BY <2>1, <2>2 DEF FilesInv
<1>6. \A q \in Procs \ {p} : StoreMatches(q)'
  <2>1. \A g \in Files \ {fd[p]} : content'[g] = content[g]
    BY <1>3
  <2> QED BY <2>1, OthersMatch
<1>7. GhostsInv'
  <2>1. /\ \A id \in owed : \E i \in 2 .. Kept(c) : c[i].entry.id = id
        /\ \A id \in synced : \E i \in 2 .. durable[f] : c[i].entry.id = id
    BY <1>1 DEF CrashInv, GhostsInv
  <2>2. \A i \in 2 .. Kept(c) : i \in 2 .. Kept(d) /\ d[i].entry = c[i].entry
    BY <1>4
  <2>3. \A i \in 2 .. durable[f] : i \in 2 .. m /\ d[i].entry = c[i].entry
    BY <1>2, <1>4
  <2> HIDE DEF c, f
  <2>4. ASSUME NEW id \in owed' PROVE \E i \in 2 .. Kept(d) : d[i].entry.id = id
    <3>1. CASE id \in owed
      BY <3>1, <2>1, <2>2
    <3> QED BY <3>1
  <2>5. ASSUME NEW id \in synced' PROVE \E i \in 2 .. m : d[i].entry.id = id
    <3>1. CASE id \in synced
      BY <3>1, <2>1, <2>3
    <3> QED BY <3>1
  <2>6. content'[path'] = d /\ durable'[path'] = m /\ path' \in Files
    BY <1>1, <1>3, SMTT(20)
  <2> QED BY <2>4, <2>5, <2>6 DEF GhostsInv
<1>8. Grows
  <2>1. SessionLogNow = Shown(c) /\ SessionLogNow' = Shown(d)
    <3>1. SessionLogNow = IF path # NoFile /\ Readable(content[path]) THEN Loaded(content[path]) ELSE <<>>
      BY DEF SessionLogNow
    <3>2. SessionLogNow' = IF path' # NoFile /\ Readable(content'[path']) THEN Loaded(content'[path']) ELSE <<>>
      BY DEF SessionLogNow
    <3> QED BY <3>1, <3>2, <1>1, <1>3 DEF Shown
  <2> HIDE DEF c, f
  <2>2. Len(Shown(c)) \in 0 .. Len(Shown(d)) /\ Shown(c) = SubSeq(Shown(d), 1, Len(Shown(c)))
    <3>1. \A i \in 1 .. Kept(c) : c[i].entry = d[i].entry
      BY DEF c, f
    <3>2. Kept(c) <= Kept(d)
      BY DEF c, f
    <3> QED BY <3>1, <3>2, <1>2, ShownAgree
  <2>3. synced' = synced \/ d = c
    BY DEF c, f
  <2> QED BY <2>1, <2>2, <2>3 DEF Grows
<1> QED BY <1>5, <1>6, <1>7, <1>8 DEF CrashInv
----------------------------------------------------------------------------
\* The types of memory, which the steps below need.
LEMMA MemoryTypes ==
  ASSUME LockInv, DiskInv, CrashInv
  PROVE  /\ phase \in [Procs -> Phases] /\ fd \in [Procs -> Files \cup {NoFile}]
         /\ pending \in [Procs -> Seq(Lines)] /\ index \in [Procs -> Seq(Lines)]
         /\ inflight \in [Procs -> Lines] /\ content \in [Files -> Seq(Chunk)]
         /\ durable \in [Files -> Nat]
         /\ \A p \in Procs : StoreMatches(p) /\ fd[p] \in {NoFile, path}
         /\ \A f \in Files : /\ durable[f] <= Len(content[f])
                             /\ Clean(content[f])
                             /\ \A i \in 1 .. durable[f] : content[f][i].part = "full"
  BY DEF LockInv, LockTypes, DiskInv, DiskTypes, CrashInv, FilesInv

\* An entry that is buffered is on no disk yet.
LEMMA BufferMatches ==
  ASSUME LockInv, DiskInv, CrashInv, NEW p \in Procs, AppendDeferred(p)
  PROVE  CrashInv' /\ Grows
<1>0. /\ phase \in [Procs -> Phases] /\ pending \in [Procs -> Seq(Lines)]
      /\ index \in [Procs -> Seq(Lines)] /\ StoreMatches(p) /\ fd[p] \in {NoFile, path}
  BY MemoryTypes
<1>1. PICK e \in NewEntries(p) : /\ pending' = [pending EXCEPT ![p] = Append(@, e)]
                                 /\ index' = [index EXCEPT ![p] = Append(@, e)]
  BY DEF AppendDeferred, Index
<1>2. /\ phase[p] = "deferred" /\ nextID \in EntryIDs
      /\ UNCHANGED <<path, content, durable, phase, fd, inflight, owed, synced>>
  BY DEF AppendDeferred, disk, ghosts
<1>3. index[p] \in Seq(Proper) /\ pending[p] \in Seq(Proper)
  BY <1>0 DEF StoreMatches
<1>4. e \in Proper
  BY <1>2, <1>3, NewEntryProper
<1>5. Append(index[p], e) \in Seq(Proper) /\ Append(pending[p], e) \in Seq(Proper)
  BY <1>3, <1>4, AppendProperties
<1>6. /\ index'[p] \in Seq(Proper) /\ pending'[p] \in Seq(Proper)
      /\ \A q \in Procs \ {p} : index'[q] = index[q] /\ pending'[q] = pending[q]
  BY <1>0, <1>1, <1>5
<1>7. StoreMatches(p)'
  BY <1>0, <1>2, <1>6 DEF StoreMatches
<1> QED BY <1>0, <1>2, <1>6, <1>7, FilesStay

\* Nobody but the creator can have the path when it names no file.
LEMMA CreateMatches ==
  ASSUME LockInv, DiskInv, CrashInv, NEW p \in Procs, CreateFile(p)
  PROVE  CrashInv' /\ Grows
<1>0. /\ phase \in [Procs -> Phases] /\ inflight \in [Procs -> Lines]
      /\ fd \in [Procs -> Files \cup {NoFile}] /\ StoreMatches(p)
  BY MemoryTypes
<1>1. /\ phase[p] = "deferred" /\ nextID \in EntryIDs /\ path = NoFile
      /\ created < MaxFiles /\ created' = created + 1 /\ path' = created'
      /\ inflight' = [inflight EXCEPT ![p] = NewEntry(p, "message", Root)]
      /\ phase' = [phase EXCEPT ![p] = "created"]
      /\ fd' = [fd EXCEPT ![p] = created']
      /\ UNCHANGED <<content, durable, pending, index, owed, synced>>
  BY DEF CreateFile, Enter, ghosts
<1>2. path' \in Files /\ path' # NoFile /\ NoFile \notin Files
  BY <1>1, BoundsAssumption DEF LockInv, LockTypes, Files, NoFile
<1>3. /\ phase'[p] = "created" /\ fd'[p] = path' /\ inflight'[p] = NewEntry(p, "message", Root)
      /\ \A q \in Procs \ {p} : phase'[q] = phase[q] /\ fd'[q] = fd[q] /\ inflight'[q] = inflight[q]
  BY <1>0, <1>1
<1>4. NewEntry(p, "message", Root) \in Proper
  BY <1>0, <1>1, NewEntryProper DEF StoreMatches
<1>5. \A f \in Files : content[f] = <<>>
  BY <1>0, <1>1 DEF StoreMatches, Buffering
<1>6. StoreMatches(p)'
  BY <1>0, <1>1, <1>3, <1>4 DEF StoreMatches, Buffering
<1>7. \A q \in Procs \ {p} : StoreMatches(q)'
  BY <1>1, <1>3, OthersMatch
<1>8. FilesInv'
  BY <1>1, <1>3, <1>5 DEF CrashInv, FilesInv
<1>9. owed = {} /\ synced = {}
  BY <1>1, <1>2 DEF CrashInv, GhostsInv
<1>10. GhostsInv'
  BY <1>1, <1>9 DEF GhostsInv
<1>11. Grows
  <2>1. SessionLogNow = <<>>
    BY <1>1 DEF SessionLogNow
  <2>2. ~Readable(content[path'])
    <3>1. content[path'] = <<>> /\ content[path'] \in Seq(Chunk) /\ Clean(content[path'])
      BY <1>2, <1>5, MemoryTypes
    <3> DEFINE c == content[path']
    <3>2. c \in Seq(Chunk) /\ Clean(c) /\ c = <<>>
      BY <3>1
    <3> HIDE DEF c
    <3>3. Kept(c) = 0 /\ (Readable(c) <=> Kept(c) >= 1)
      BY <3>2, KeptOfClean
    <3>4. ~Readable(c)
      BY <3>3
    <3> QED BY <3>4 DEF c
  <2>3. SessionLogNow' = <<>>
    BY <2>2, <1>1 DEF SessionLogNow
  <2> QED BY <2>1, <2>3, <1>1, SameLog DEF CrashInv
<1> QED BY <1>6, <1>7, <1>8, <1>10, <1>11 DEF CrashInv

\* A step of p that changes its phase only, short of the first write, and
\* the file it has open.
LEMMA PhaseMatches ==
  ASSUME LockInv, DiskInv, CrashInv, NEW p \in Procs, NEW ph \in Phases \ (HasFile \cup {"undo"}),
         phase' = [phase EXCEPT ![p] = ph], ph \in Buffering => phase[p] \in Buffering,
         ph = "locked" => phase[p] = "created" /\ inflight' = inflight,
         ph # "created",
         fd' = fd \/ fd' = [fd EXCEPT ![p] = path] \/ fd' = [fd EXCEPT ![p] = NoFile],
         inflight' = inflight \/ inflight' = [inflight EXCEPT ![p] = Header],
         pending' \in [Procs -> Seq(Lines)], index' \in [Procs -> Seq(Lines)],
         pending'[p] \in Seq(Proper), index'[p] \in Seq(Proper),
         \A q \in Procs \ {p} : pending'[q] = pending[q] /\ index'[q] = index[q],
         UNCHANGED <<path, content, durable, owed, synced>>
  PROVE  CrashInv' /\ Grows
<1>0. /\ phase \in [Procs -> Phases] /\ inflight \in [Procs -> Lines]
      /\ fd \in [Procs -> Files \cup {NoFile}] /\ StoreMatches(p) /\ fd[p] \in {NoFile, path}
  BY MemoryTypes
<1>1. /\ phase'[p] = ph /\ fd'[p] \in {NoFile, path}
      /\ \A q \in Procs \ {p} : phase'[q] = phase[q] /\ fd'[q] = fd[q] /\ inflight'[q] = inflight[q]
  BY <1>0
<1>2. StoreMatches(p)'
  <2>1. ph \notin {"undo", "flushed", "ready", "syncing", "created"}
    BY DEF HasFile
  <2>2. ph = "locked" => inflight'[p] \in Proper
    BY <1>0 DEF StoreMatches
  <2>3. ph \in Buffering => p = Creator /\ \A f \in Files : content'[f] = <<>>
    BY <1>0 DEF StoreMatches
  <2> QED BY <1>1, <2>1, <2>2, <2>3 DEF StoreMatches
<1> QED BY <1>1, <1>2, FilesStay

\* The first write goes to an empty file.
LEMMA FirstLinesMatch ==
  ASSUME LockInv, DiskInv, CrashInv, NEW p \in Procs, phase[p] = "locked"
  PROVE  /\ fd[p] \in Files /\ content[fd[p]] = <<>> /\ Kept(content[fd[p]]) = 0
         /\ durable[fd[p]] = 0
         /\ inflight[p] \in Proper /\ index[p] = pending[p] /\ index[p] \in Seq(Proper)
         /\ FirstLines(p) \in Seq(Chunk) /\ Clean(FirstLines(p))
         /\ Holds(FirstLines(p), Append(index[p], inflight[p]))
<1>1. /\ content \in [Files -> Seq(Chunk)] /\ durable \in [Files -> Nat] /\ StoreMatches(p)
      /\ \A f \in Files : durable[f] <= Len(content[f]) /\ Clean(content[f])
  BY MemoryTypes
<1>2. fd[p] \in Files
  BY DEF LockInv, WritersHoldLock, Locking
<1>3. /\ content[fd[p]] = <<>> /\ inflight[p] \in Proper
      /\ pending[p] \in Seq(Proper) /\ index[p] \in Seq(Proper)
  BY <1>1, <1>2 DEF StoreMatches, Buffering
<1>4. index[p] = pending[p]
  BY DEF DiskInv, StoreSupported, Buffering
<1>5. durable[fd[p]] = 0 /\ Kept(content[fd[p]]) = 0
  <2>1. durable[fd[p]] \in Nat /\ durable[fd[p]] <= Len(content[fd[p]])
    BY <1>1, <1>2
  <2>2. durable[fd[p]] = 0
    BY <2>1, <1>3, EmptySeq
  <2> DEFINE c == content[fd[p]]
  <2>3. c \in Seq(Chunk) /\ Clean(c) /\ c = <<>>
    BY <1>1, <1>2, <1>3
  <2> HIDE DEF c
  <2>4. Kept(c) = 0
    BY <2>3, KeptOfClean
  <2> QED BY <2>2, <2>4 DEF c
<1>6. /\ FirstLines(p) \in Seq(Chunk) /\ Clean(FirstLines(p))
      /\ Holds(FirstLines(p), Append(pending[p], inflight[p]))
  BY <1>3, FirstLinesHold DEF FirstLines
<1> QED BY <1>2, <1>3, <1>4, <1>5, <1>6

\* After the first write the file holds the buffer and the message.
LEMMA FirstWriteMatches ==
  ASSUME LockInv, DiskInv, CrashInv, NEW p \in Procs, FirstWrite(p)
  PROVE  CrashInv' /\ Grows
<1> DEFINE d == FirstLines(p)
           new == Append(index[p], inflight[p])
<1>0. /\ phase \in [Procs -> Phases] /\ inflight \in [Procs -> Lines]
      /\ pending \in [Procs -> Seq(Lines)] /\ index \in [Procs -> Seq(Lines)]
      /\ content \in [Files -> Seq(Chunk)] /\ durable \in [Files -> Nat]
      /\ fd[p] \in {NoFile, path}
  BY MemoryTypes
<1>1. /\ phase[p] = "locked"
      /\ content' = [content EXCEPT ![fd[p]] = @ \o d]
      /\ pending' = [pending EXCEPT ![p] = <<>>]
      /\ UNCHANGED <<path, durable, fd>>
      /\ \/ /\ phase' = [phase EXCEPT ![p] = "flushed"]
            /\ UNCHANGED <<index, inflight, owed, synced>>
         \/ /\ phase' = [phase EXCEPT ![p] = "ready"]
            /\ index' = [index EXCEPT ![p] = new]
            /\ inflight' = [inflight EXCEPT ![p] = Header]
            /\ owed' = owed \cup Ids(index[p]) \cup {inflight[p].id} /\ synced' = synced
  BY DEF FirstWrite, Write, Enter, Index, Acknowledge, ghosts
<1>2. /\ fd[p] \in Files /\ content[fd[p]] = <<>> /\ Kept(content[fd[p]]) = 0
      /\ durable[fd[p]] = 0
      /\ inflight[p] \in Proper /\ index[p] \in Seq(Proper)
      /\ d \in Seq(Chunk) /\ Clean(d) /\ Holds(d, new)
  BY <1>1, FirstLinesMatch
<1>3. new \in Seq(Proper) /\ Header \in Lines /\ new \in Seq(Lines) /\ <<>> \in Seq(Proper)
  <2>1. new \in Seq(Proper) /\ <<>> \in Seq(Proper)
    BY <1>2, AppendProperties, EmptySeq
  <2>2. Proper \subseteq Lines /\ Header \in Lines
    BY DEF Proper, Lines
  <2> HIDE DEF new
  <2> QED BY <2>1, <2>2, SeqMonotonic
<1>4. Kept(d) = Len(d) /\ Len(d) = Len(new) + 1
  <2> HIDE DEF d, new
  <2> QED BY <1>2, <1>3, HeldShown DEF Holds
<1>5. content' = [content EXCEPT ![fd[p]] = d]
  <2> HIDE DEF d
  <2>1. <<>> \o d = d
    BY <1>2, ConcatEmptySeq
  <2> QED BY <2>1, <1>0, <1>1, <1>2
<1>6. \A i \in 1 .. Len(new) : i + 1 \in 2 .. Kept(d) /\ d[i + 1].entry = new[i]
  <2> HIDE DEF d, new
  <2>1. Len(new) \in Nat /\ DOMAIN new = 1 .. Len(new)
    BY <1>3, LenProperties
  <2> QED BY <2>1, <1>2, <1>4 DEF Holds
<1>7. \A id \in Ids(index[p]) \cup {inflight[p].id} : \E i \in 1 .. Len(new) : new[i].id = id
  <2>1. /\ Len(new) = Len(index[p]) + 1 /\ Len(index[p]) \in Nat
        /\ DOMAIN index[p] = 1 .. Len(index[p])
        /\ \A i \in 1 .. Len(index[p]) : new[i] = index[p][i]
        /\ new[Len(index[p]) + 1] = inflight[p]
    BY <1>2, AppendProperties, LenProperties
  <2> HIDE DEF new
  <2> QED BY <2>1 DEF Ids
<1>8. \A id \in owed' \ owed : \E i \in 2 .. Kept(d) : d[i].entry.id = id
  <2> SUFFICES ASSUME NEW id \in owed' \ owed PROVE \E i \in 2 .. Kept(d) : d[i].entry.id = id
    OBVIOUS
  <2>1. id \in Ids(index[p]) \cup {inflight[p].id}
    BY <1>1
  <2> HIDE DEF d, new
  <2>2. PICK i \in 1 .. Len(new) : new[i].id = id
    BY <2>1, <1>7
  <2> QED BY <2>2, <1>6
<1> HIDE DEF d, new
<1>9. /\ phase'[p] \in {"flushed", "ready"}
      /\ phase'[p] = "flushed" => inflight'[p] = inflight[p] /\ index'[p] = index[p]
      /\ phase'[p] = "ready" => index'[p] = new
      /\ pending'[p] = <<>> /\ index'[p] \in Seq(Proper)
      /\ \A q \in Procs \ {p} : /\ phase'[q] = phase[q] /\ fd'[q] = fd[q]
                                /\ pending'[q] = pending[q] /\ index'[q] = index[q]
                                /\ inflight'[q] = inflight[q]
  BY <1>0, <1>1, <1>2, <1>3
<1>10. content'[fd'[p]] = d
  BY <1>0, <1>1, <1>2, <1>5
<1>11. StoreMatches(p)'
  <2>1. phase'[p] = "flushed" => Holds(content'[fd'[p]], Append(index'[p], inflight'[p]))
    BY <1>2, <1>9, <1>10 DEF new
  <2>2. phase'[p] = "ready" => Holds(content'[fd'[p]], index'[p])
    BY <1>2, <1>9, <1>10
  <2> QED BY <2>1, <2>2, <1>2, <1>3, <1>9 DEF StoreMatches, Buffering
<1>12. /\ durable' = [durable EXCEPT ![fd[p]] = 0] /\ 0 \in Nat /\ durable[fd[p]] <= 0
       /\ \A i \in 1 .. 0 : d[i].part = "full"
  BY <1>0, <1>1, <1>2
<1>13. Kept(content[fd[p]]) <= Kept(d) /\ \A i \in 1 .. Kept(content[fd[p]]) : d[i].entry = content[fd[p]][i].entry
  <2>1. Len(new) \in Nat
    BY <1>3, LenProperties
  <2> QED BY <2>1, <1>2, <1>4
<1>14. /\ owed \subseteq owed' /\ synced' = synced /\ synced \subseteq synced' /\ synced' \subseteq owed'
       /\ \A id \in synced' \ synced : \E i \in 2 .. 0 : d[i].entry.id = id
  BY <1>1 DEF CrashInv, GhostsInv
<1>15. phase[p] \in Locking /\ path' = path /\ fd'[p] \in {NoFile, path}
  BY <1>0, <1>1 DEF Locking
<1>16. Writes(p, d, 0)
  BY <1>1, <1>2, <1>5, <1>8, <1>9, <1>12, <1>13, <1>14, <1>15 DEF Writes
<1> QED BY <1>2, <1>11, <1>16, FileGrows

\* A store past its first write has the file at the path open, which holds
\* its log, or with a first sync to come, one entry more.
LEMMA HeldFile ==
  ASSUME LockInv, DiskInv, CrashInv, NEW p \in Procs, NEW log \in Seq(Proper),
         phase[p] \in HasFile, Holds(content[fd[p]], log)
  PROVE  /\ fd[p] \in Files /\ content[fd[p]] \in Seq(Chunk) /\ Clean(content[fd[p]])
         /\ content[fd[p]] # <<>>
         /\ Kept(content[fd[p]]) \in Nat /\ Kept(content[fd[p]]) = Len(content[fd[p]])
         /\ durable[fd[p]] \in Nat /\ durable[fd[p]] <= Len(content[fd[p]])
         /\ \A i \in DOMAIN content[fd[p]] : content[fd[p]][i].part = "full"
         /\ DOMAIN content[fd[p]] = 1 .. Len(content[fd[p]])
         /\ \A id \in Ids(log) : \E i \in 2 .. Len(content[fd[p]]) : content[fd[p]][i].entry.id = id
<1> DEFINE c == content[fd[p]]
<1>1. fd[p] \in Files
  BY DEF LockInv, WritersHoldLock, Locking
<1>2. c \in Seq(Chunk) /\ Clean(c) /\ durable[fd[p]] \in Nat /\ durable[fd[p]] <= Len(c)
  BY <1>1, MemoryTypes
<1>3. Holds(c, log)
  OBVIOUS
<1> HIDE DEF c
<1>4. Kept(c) = Len(c) /\ Kept(c) \in Nat
  BY <1>2, <1>3, HeldShown, KeptOfClean
<1>5. DOMAIN c = 1 .. Len(c) /\ Len(c) \in Nat /\ DOMAIN log = 1 .. Len(log) /\ Len(log) \in Nat
  BY <1>2, LenProperties
<1>6. c # <<>>
  BY <1>3, <1>5, EmptySeq DEF Holds
<1>7. \A i \in DOMAIN log : i + 1 \in 2 .. Len(c) /\ c[i + 1].entry = log[i]
  BY <1>3, <1>5 DEF Holds
<1>8. \A id \in Ids(log) : \E i \in 2 .. Len(c) : c[i].entry.id = id
  BY <1>7 DEF Ids
<1>9. \A i \in DOMAIN c : c[i].part = "full"
  BY <1>3 DEF Holds
<1> QED BY <1>1, <1>2, <1>4, <1>5, <1>6, <1>8, <1>9 DEF c

\* A sync of all that p has written.
LEMMA SyncWrites ==
  ASSUME LockInv, DiskInv, CrashInv, NEW p \in Procs, NEW log \in Seq(Proper),
         phase[p] \in HasFile, Holds(content[fd[p]], log),
         UNCHANGED <<path, content, fd, pending>>,
         durable' = [durable EXCEPT ![fd[p]] = Len(content[fd[p]])],
         \A q \in Procs \ {p} : /\ phase'[q] = phase[q] /\ fd'[q] = fd[q]
                                /\ pending'[q] = pending[q] /\ index'[q] = index[q]
                                /\ inflight'[q] = inflight[q],
         \/ owed' = owed /\ synced' = synced
         \/ owed' = owed \cup Ids(log) /\ synced' = synced \cup Ids(log)
  PROVE  Writes(p, content[fd[p]], Len(content[fd[p]]))
<1> DEFINE c == content[fd[p]]
<1>1. /\ content \in [Files -> Seq(Chunk)] /\ fd[p] \in {NoFile, path}
      /\ fd[p] \in Files /\ c \in Seq(Chunk) /\ Clean(c) /\ c # <<>>
      /\ Kept(c) \in Nat /\ Kept(c) = Len(c)
      /\ durable[fd[p]] <= Len(c)
      /\ \A i \in DOMAIN c : c[i].part = "full"
      /\ DOMAIN c = 1 .. Len(c)
      /\ \A id \in Ids(log) : \E i \in 2 .. Len(c) : c[i].entry.id = id
  BY HeldFile, MemoryTypes
<1>2. content' = [content EXCEPT ![fd[p]] = c] /\ durable' = [durable EXCEPT ![fd[p]] = Len(c)]
  BY <1>1
<1>3. phase[p] \in Locking /\ fd'[p] \in {NoFile, path}
  BY <1>1 DEF Locking
<1>4. synced \subseteq owed
  BY DEF CrashInv, GhostsInv
<1>5. /\ owed \subseteq owed' /\ synced \subseteq synced' /\ synced' \subseteq owed'
      /\ \A id \in owed' \ owed : id \in Ids(log)
      /\ \A id \in synced' \ synced : id \in Ids(log)
  BY <1>4
<1>6. c = content[fd[p]]
  OBVIOUS
<1> HIDE DEF c
<1>7. /\ \A id \in owed' \ owed : \E i \in 2 .. Kept(c) : c[i].entry.id = id
      /\ \A id \in synced' \ synced : \E i \in 2 .. Len(c) : c[i].entry.id = id
  BY <1>1, <1>5
<1>8. /\ Kept(content[fd[p]]) <= Kept(c)
      /\ \A i \in 1 .. Kept(content[fd[p]]) : c[i].entry = content[fd[p]][i].entry
      /\ content[fd[p]] # <<>>
      /\ \A i \in 1 .. Len(c) : c[i].part = "full"
  <2>1. /\ Kept(c) <= Kept(c) /\ c # <<>>
        /\ \A i \in 1 .. Kept(c) : c[i].entry = c[i].entry
        /\ \A i \in 1 .. Len(c) : c[i].part = "full"
    <3>1. Kept(c) \in Nat /\ c # <<>>
      BY <1>1
    <3>2. \A i \in 1 .. Len(c) : c[i].part = "full"
      BY <1>1
    <3> QED BY <3>1, <3>2
  <2> QED BY <2>1, <1>6
<1>9. Writes(p, c, Len(c))
  BY <1>1, <1>2, <1>3, <1>5, <1>6, <1>7, <1>8 DEF Writes
<1> QED BY <1>9 DEF c

\* The first sync covers the whole file; the message is indexed after it.
LEMMA FirstSyncMatches ==
  ASSUME LockInv, DiskInv, CrashInv, NEW p \in Procs, FirstSync(p)
  PROVE  CrashInv' /\ Grows
<1> DEFINE new == Append(index[p], inflight[p])
<1>0. /\ phase \in [Procs -> Phases] /\ inflight \in [Procs -> Lines]
      /\ index \in [Procs -> Seq(Lines)] /\ StoreMatches(p)
  BY MemoryTypes
<1>1. /\ phase[p] = "flushed"
      /\ durable' = [durable EXCEPT ![fd[p]] = Len(content[fd[p]])]
      /\ index' = [index EXCEPT ![p] = new]
      /\ inflight' = [inflight EXCEPT ![p] = Header]
      /\ phase' = [phase EXCEPT ![p] = "syncing"]
      /\ UNCHANGED <<path, content, fd, pending, owed, synced>>
  BY DEF FirstSync, Index, Enter, ghosts
<1>2. /\ new \in Seq(Proper) /\ pending[p] \in Seq(Proper) /\ Holds(content[fd[p]], new)
      /\ new \in Seq(Lines) /\ phase[p] \in HasFile
  <2>1. index[p] \in Seq(Proper) /\ inflight[p] \in Proper /\ pending[p] \in Seq(Proper)
        /\ Holds(content[fd[p]], new)
    BY <1>0, <1>1 DEF StoreMatches
  <2>2. new \in Seq(Proper)
    BY <2>1, AppendProperties
  <2>3. Proper \subseteq Lines
    BY DEF Proper, Lines
  <2> HIDE DEF new
  <2>4. new \in Seq(Lines)
    BY <2>2, <2>3, SeqMonotonic
  <2> QED BY <2>1, <2>2, <2>4, <1>1 DEF HasFile
<1> HIDE DEF new
<1>3. /\ phase'[p] = "syncing" /\ index'[p] = new
      /\ \A q \in Procs \ {p} : /\ phase'[q] = phase[q] /\ fd'[q] = fd[q]
                                /\ pending'[q] = pending[q] /\ index'[q] = index[q]
                                /\ inflight'[q] = inflight[q]
  BY <1>0, <1>1, <1>2
<1>4. Writes(p, content[fd[p]], Len(content[fd[p]]))
  BY <1>1, <1>2, <1>3, SyncWrites
<1>5. StoreMatches(p)'
  BY <1>1, <1>2, <1>3 DEF StoreMatches, Buffering
<1>6. content[fd[p]] \in Seq(Chunk) /\ Len(content[fd[p]]) \in Nat
  BY <1>2, HeldFile
<1> QED BY <1>4, <1>5, <1>6, FileGrows

\* The sync of an Append covers the whole file, which is what is then owed.
LEMMA SyncLineMatches ==
  ASSUME LockInv, DiskInv, CrashInv, NEW p \in Procs, SyncLine(p)
  PROVE  CrashInv' /\ Grows
<1>0. phase \in [Procs -> Phases] /\ StoreMatches(p)
  BY MemoryTypes
<1>1. /\ phase[p] = "syncing"
      /\ durable' = [durable EXCEPT ![fd[p]] = Len(content[fd[p]])]
      /\ phase' = [phase EXCEPT ![p] = "ready"]
      /\ owed' = owed \cup Ids(index[p]) /\ synced' = synced \cup Ids(index[p])
      /\ UNCHANGED <<path, content, fd, pending, index, inflight>>
  BY DEF SyncLine, Owe, Enter
<1>2. /\ index[p] \in Seq(Proper) /\ Holds(content[fd[p]], index[p]) /\ phase[p] \in HasFile
  BY <1>0, <1>1 DEF StoreMatches, HasFile
<1>3. /\ phase'[p] = "ready"
      /\ \A q \in Procs \ {p} : /\ phase'[q] = phase[q] /\ fd'[q] = fd[q]
                                /\ pending'[q] = pending[q] /\ index'[q] = index[q]
                                /\ inflight'[q] = inflight[q]
  BY <1>0, <1>1
<1>4. Writes(p, content[fd[p]], Len(content[fd[p]]))
  BY <1>1, <1>2, <1>3, SyncWrites
<1>5. StoreMatches(p)'
  BY <1>0, <1>1, <1>2, <1>3 DEF StoreMatches, Buffering
<1>6. content[fd[p]] \in Seq(Chunk) /\ Len(content[fd[p]]) \in Nat
  BY <1>2, HeldFile
<1> QED BY <1>4, <1>5, <1>6, FileGrows

\* p appends to its file, which was complete, chunks that make a clean file.
LEMMA AppendWrites ==
  ASSUME LockInv, DiskInv, CrashInv, NEW p \in Procs, NEW k \in Seq(Chunk),
         phase[p] = "ready", Clean(content[fd[p]] \o k),
         path' = path, content' = [content EXCEPT ![fd[p]] = @ \o k], durable' = durable,
         fd'[p] \in {NoFile, path},
         \A q \in Procs \ {p} : /\ phase'[q] = phase[q] /\ fd'[q] = fd[q]
                                /\ pending'[q] = pending[q] /\ index'[q] = index[q]
                                /\ inflight'[q] = inflight[q],
         synced' = synced, owed \subseteq owed',
         \A id \in owed' \ owed : \E i \in 2 .. Kept(content[fd[p]] \o k) :
            (content[fd[p]] \o k)[i].entry.id = id
  PROVE  content[fd[p]] \o k \in Seq(Chunk) /\ Writes(p, content[fd[p]] \o k, durable[fd[p]])
<1> DEFINE f == fd[p]
           c == content[f]
           d == c \o k
<1>0. content \in [Files -> Seq(Chunk)] /\ durable \in [Files -> Nat] /\ StoreMatches(p)
  BY MemoryTypes
<1>1. index[p] \in Seq(Proper) /\ Holds(content[fd[p]], index[p]) /\ phase[p] \in HasFile
  BY <1>0 DEF StoreMatches, HasFile
<1>2. /\ f \in Files /\ c \in Seq(Chunk) /\ c # <<>>
      /\ durable[f] \in Nat /\ durable[f] <= Len(c)
      /\ \A i \in DOMAIN c : c[i].part = "full"
      /\ DOMAIN c = 1 .. Len(c)
  BY <1>1, HeldFile
<1>3. content' = [content EXCEPT ![f] = d] /\ durable' = [durable EXCEPT ![f] = durable[f]]
  BY <1>0, <1>2
<1>4. Clean(d)
  OBVIOUS
<1>5. synced' \subseteq owed'
  BY DEF CrashInv, GhostsInv
<1>6. phase[p] \in Locking
  BY <1>1 DEF Locking
<1>7. d \in Seq(Chunk) /\ \A i \in 1 .. Len(c) : d[i] = c[i]
  <2> HIDE DEF c
  <2> QED BY <1>2, Appended
<1>8. Kept(c) = Len(c) /\ Kept(c) <= Kept(d) /\ \A i \in 1 .. Kept(c) : d[i] = c[i]
  <2> HIDE DEF c
  <2> QED BY <1>2, <1>4, GrownKept
<1>9. \A i \in 1 .. durable[f] : d[i].part = "full"
  <2> HIDE DEF c, d
  <2>1. \A i \in 1 .. durable[f] : i \in 1 .. Len(c)
    BY <1>2
  <2> QED BY <2>1, <1>2, <1>7
<1>10. \A id \in owed' \ owed : \E i \in 2 .. Kept(d) : d[i].entry.id = id
  OBVIOUS
<1> HIDE DEF d
<1>11. /\ content[fd[p]] # <<>> /\ content' = [content EXCEPT ![fd[p]] = d]
       /\ Kept(content[fd[p]]) <= Kept(d)
       /\ \A i \in 1 .. Kept(content[fd[p]]) : d[i].entry = content[fd[p]][i].entry
       /\ durable' = [durable EXCEPT ![fd[p]] = durable[fd[p]]] /\ durable[fd[p]] <= durable[fd[p]]
       /\ \A i \in 1 .. durable[fd[p]] : d[i].part = "full"
  <2>1. c # <<>> /\ Kept(c) <= Kept(d) /\ \A i \in 1 .. Kept(c) : d[i].entry = c[i].entry
    <3> HIDE DEF c
    <3> QED BY <1>2, <1>8
  <2>2. durable[f] <= durable[f]
    BY <1>2
  <2> QED BY <2>1, <2>2, <1>3, <1>9
<1>12. \A id \in synced' \ synced : \E i \in 2 .. durable[fd[p]] : d[i].entry.id = id
  OBVIOUS
<1>13. synced \subseteq synced' /\ synced' = synced
  OBVIOUS
<1> HIDE DEF c, f
<1>14. Writes(p, d, durable[fd[p]])
  BY <1>4, <1>5, <1>6, <1>10, <1>11, <1>12, <1>13 DEF Writes
<1> QED BY <1>7, <1>14 DEF d, c, f

\* A line goes to the file and to the index in one step of the store.
LEMMA AppendLineMatches ==
  ASSUME LockInv, DiskInv, CrashInv, NEW p \in Procs, AppendLine(p)
  PROVE  CrashInv' /\ Grows
<1>0. /\ phase \in [Procs -> Phases] /\ index \in [Procs -> Seq(Lines)]
      /\ content \in [Files -> Seq(Chunk)] /\ StoreMatches(p) /\ fd[p] \in {NoFile, path}
  BY MemoryTypes
<1>1. PICK e \in NewEntries(p) :
        /\ content' = [content EXCEPT ![fd[p]] = @ \o Full(<<e>>)]
        /\ index' = [index EXCEPT ![p] = Append(@, e)]
        /\ \/ phase' = [phase EXCEPT ![p] = "syncing"] /\ UNCHANGED <<owed, synced>>
           \/ /\ phase' = phase /\ synced' = synced
              /\ owed' = owed \cup Ids(index[p]) \cup {e.id}
  BY DEF AppendLine, Write, Index, Enter, Acknowledge, ghosts
<1>2. /\ phase[p] = "ready" /\ nextID \in EntryIDs
      /\ UNCHANGED <<path, durable, fd, pending, inflight>>
  BY DEF AppendLine
<1>3. /\ index[p] \in Seq(Proper) /\ pending[p] \in Seq(Proper) /\ e \in Proper
      /\ Holds(content[fd[p]], index[p]) /\ phase[p] \in HasFile
  BY <1>0, <1>2, NewEntryProper DEF StoreMatches, HasFile
<1> DEFINE c == content[fd[p]]
           k == Full(<<e>>)
           d == c \o k
           new == Append(index[p], e)
<1>4. fd[p] \in Files /\ c \in Seq(Chunk) /\ Clean(c) /\ Holds(c, index[p])
  BY <1>3, HeldFile
<1>5. k \in Seq(Chunk) /\ d \in Seq(Chunk) /\ Clean(d) /\ Holds(d, new)
  <2> HIDE DEF c
  <2> QED BY <1>3, <1>4, LineHolds
<1>6. new \in Seq(Proper) /\ new \in Seq(Lines)
  <2>1. new \in Seq(Proper)
    BY <1>3, AppendProperties
  <2>2. Proper \subseteq Lines
    BY DEF Proper, Lines
  <2> HIDE DEF new
  <2> QED BY <2>1, <2>2, SeqMonotonic
<1>7. /\ phase'[p] \in {"ready", "syncing"} /\ index'[p] = new
      /\ \A q \in Procs \ {p} : /\ phase'[q] = phase[q] /\ fd'[q] = fd[q]
                                /\ pending'[q] = pending[q] /\ index'[q] = index[q]
                                /\ inflight'[q] = inflight[q]
  <2> HIDE DEF new
  <2>1. index' = [index EXCEPT ![p] = new]
    BY <1>1 DEF new
  <2> QED BY <2>1, <1>0, <1>1, <1>2, <1>6
<1>8. content' = [content EXCEPT ![fd[p]] = @ \o k] /\ content'[fd[p]] = d
  BY <1>0, <1>1, <1>4
<1>9. \A id \in Ids(index[p]) \cup {e.id} : id \in Ids(new)
  <2>1. /\ Len(new) = Len(index[p]) + 1 /\ Len(index[p]) \in Nat
        /\ DOMAIN index[p] = 1 .. Len(index[p]) /\ DOMAIN new = 1 .. Len(new)
        /\ \A i \in 1 .. Len(index[p]) : new[i] = index[p][i]
        /\ new[Len(index[p]) + 1] = e
    BY <1>3, <1>6, AppendProperties, LenProperties
  <2> HIDE DEF new
  <2> QED BY <2>1 DEF Ids
<1> HIDE DEF d, new, k, c
<1>10. \A id \in Ids(new) : \E i \in 2 .. Kept(d) : d[i].entry.id = id
  <2>1. DOMAIN new = 1 .. Len(new) /\ Len(new) \in Nat
    BY <1>6, LenProperties
  <2>2. Kept(d) = Len(new) + 1
    BY <1>5, <1>6, HeldShown DEF Holds
  <2>3. \A i \in DOMAIN new : i + 1 \in 2 .. Kept(d) /\ d[i + 1].entry = new[i]
    BY <2>1, <2>2, <1>5 DEF Holds
  <2> QED BY <2>3 DEF Ids
<1>11. \A id \in owed' \ owed : \E i \in 2 .. Kept(d) : d[i].entry.id = id
  <2> SUFFICES ASSUME NEW id \in owed' \ owed PROVE \E i \in 2 .. Kept(d) : d[i].entry.id = id
    OBVIOUS
  <2>1. id \in Ids(index[p]) \cup {e.id}
    BY <1>1
  <2> QED BY <2>1, <1>9, <1>10
<1>12. owed \subseteq owed' /\ synced' = synced
  BY <1>1
<1>13. d = content[fd[p]] \o k
  BY DEF d, c
<1>14. Writes(p, d, durable[fd[p]])
  <2>1. /\ k \in Seq(Chunk) /\ Clean(content[fd[p]] \o k)
        /\ \A id \in owed' \ owed : \E i \in 2 .. Kept(content[fd[p]] \o k) :
              (content[fd[p]] \o k)[i].entry.id = id
    BY <1>5, <1>11, <1>13
  <2>2. fd'[p] \in {NoFile, path} /\ path' = path /\ durable' = durable
    BY <1>0, <1>2
  <2>3. Writes(p, content[fd[p]] \o k, durable[fd[p]])
    BY <2>1, <2>2, <1>2, <1>7, <1>8, <1>12, AppendWrites
  <2> QED BY <2>3, <1>13
<1>15. Holds(content'[fd'[p]], index'[p])
  BY <1>2, <1>5, <1>7, <1>8
<1>16. StoreMatches(p)'
  BY <1>2, <1>3, <1>6, <1>7, <1>15 DEF StoreMatches, Buffering
<1>17. durable[fd[p]] \in Nat
  BY <1>4, MemoryTypes
<1> QED BY <1>5, <1>14, <1>16, <1>17, FileGrows

\* A load that truncates and repairs the tail keeps what an open showed.
LEMMA LoadMatches ==
  ASSUME LockInv, DiskInv, CrashInv, NEW p \in Procs, Load(p)
  PROVE  CrashInv' /\ Grows
<1> DEFINE f == fd[p]
           c == content[f]
           d == Recovered(c)
           log == Loaded(c)
           m == durable[f]
<1>0. /\ phase \in [Procs -> Phases] /\ index \in [Procs -> Seq(Lines)]
      /\ content \in [Files -> Seq(Chunk)] /\ durable \in [Files -> Nat]
      /\ StoreMatches(p) /\ fd[p] \in {NoFile, path}
  BY MemoryTypes
<1>1. /\ phase[p] = "loading" /\ Readable(c)
      /\ content' = [content EXCEPT ![f] = d]
      /\ durable' = [durable EXCEPT ![f] = IF @ < Kept(c) THEN @ ELSE Kept(c)]
      /\ index' = [index EXCEPT ![p] = log]
      /\ phase' = [phase EXCEPT ![p] = "ready"]
      /\ UNCHANGED <<path, fd, pending, inflight, owed, synced>>
  BY DEF Load, Enter, ghosts
<1>2. f \in Files
  BY <1>1 DEF LockInv, WritersHoldLock, Locking
<1>3. /\ c \in Seq(Chunk) /\ Clean(c) /\ m \in Nat /\ m <= Len(c)
      /\ \A i \in 1 .. m : c[i].part = "full"
  BY <1>2, MemoryTypes
<1> HIDE DEF c, m
<1>4. /\ d \in Seq(Chunk) /\ Clean(d) /\ Holds(d, log) /\ log \in Seq(Proper)
      /\ Kept(d) = Kept(c) /\ Kept(c) \in 1 .. Len(c) /\ Len(c) \in Nat /\ Len(d) = Kept(c)
      /\ \A i \in 1 .. Kept(c) : d[i].entry = c[i].entry
  BY <1>1, <1>3, RecoveredHolds, KeptOfClean
<1>5. m <= Kept(c) /\ DOMAIN d = 1 .. Len(d)
  BY <1>3, <1>4, SyncedKept, LenProperties
<1>6. durable' = [durable EXCEPT ![f] = m]
  <2>1. (IF m < Kept(c) THEN m ELSE Kept(c)) = m
    BY <1>3, <1>4, <1>5
  <2>2. durable' = [durable EXCEPT ![f] = IF m < Kept(c) THEN m ELSE Kept(c)]
    BY <1>1 DEF m
  <2> QED BY <2>1, <2>2
<1>7. \A i \in 1 .. m : d[i].part = "full"
  BY <1>3, <1>4, <1>5 DEF Holds
<1>8. c # <<>>
  BY <1>4, EmptySeq
<1> HIDE DEF d, log
<1>9. log \in Seq(Lines)
  <2>1. Proper \subseteq Lines
    BY DEF Proper, Lines
  <2> QED BY <2>1, <1>4, SeqMonotonic
<1>10. /\ phase'[p] = "ready" /\ index'[p] = log /\ content'[f] = d
       /\ \A q \in Procs \ {p} : /\ phase'[q] = phase[q] /\ fd'[q] = fd[q]
                                 /\ pending'[q] = pending[q] /\ index'[q] = index[q]
                                 /\ inflight'[q] = inflight[q]
  BY <1>0, <1>1, <1>2, <1>4, <1>9
<1>11. StoreMatches(p)'
  <2>1. Holds(content'[fd'[p]], index'[p])
    BY <1>1, <1>4, <1>10
  <2> QED BY <2>1, <1>0, <1>1, <1>4, <1>10 DEF StoreMatches, Buffering
<1>12. synced' \subseteq owed'
  BY <1>1 DEF CrashInv, GhostsInv
<1>13. /\ content[f] # <<>> /\ Kept(content[f]) <= Kept(d)
       /\ \A i \in 1 .. Kept(content[f]) : d[i].entry = content[f][i].entry
       /\ durable[f] <= m
  <2>1. Kept(c) <= Kept(d) /\ m <= m
    BY <1>3, <1>4
  <2> QED BY <2>1, <1>4, <1>8 DEF c, m
<1>14. phase[p] \in Locking /\ fd'[p] \in {NoFile, path}
  BY <1>0, <1>1 DEF Locking
<1>15. Writes(p, d, m)
  BY <1>1, <1>4, <1>6, <1>7, <1>10, <1>12, <1>13, <1>14 DEF Writes
<1> QED BY <1>3, <1>4, <1>11, <1>15, FileGrows

\* A kill inside a write leaves a beginning of what was written.
LEMMA KillInWriteMatches ==
  ASSUME LockInv, DiskInv, CrashInv, NEW p \in Procs, KillInWrite(p)
  PROVE  CrashInv' /\ Grows
<1>0. /\ phase \in [Procs -> Phases] /\ fd \in [Procs -> Files \cup {NoFile}]
      /\ pending \in [Procs -> Seq(Lines)] /\ index \in [Procs -> Seq(Lines)]
      /\ inflight \in [Procs -> Lines] /\ durable \in [Files -> Nat]
      /\ content \in [Files -> Seq(Chunk)] /\ StoreMatches(p)
  BY MemoryTypes
<1>1. /\ phase' = [phase EXCEPT ![p] = "none"] /\ fd' = [fd EXCEPT ![p] = NoFile]
      /\ pending' = [pending EXCEPT ![p] = <<>>] /\ index' = [index EXCEPT ![p] = <<>>]
      /\ inflight' = [inflight EXCEPT ![p] = Header]
      /\ UNCHANGED <<path, durable, owed, synced>>
  BY DEF KillInWrite, LetGo, Forget, Enter, ghosts
<1>2. /\ phase'[p] = "none" /\ fd'[p] \in {NoFile, path} /\ pending'[p] = <<>> /\ index'[p] = <<>>
      /\ \A q \in Procs \ {p} : /\ phase'[q] = phase[q] /\ fd'[q] = fd[q]
                                /\ pending'[q] = pending[q] /\ index'[q] = index[q]
                                /\ inflight'[q] = inflight[q]
  BY <1>0, <1>1
<1>3. StoreMatches(p)'
  <2>1. <<>> \in Seq(Proper)
    BY EmptySeq
  <2> QED BY <1>2, <2>1 DEF StoreMatches, Buffering
<1>4. synced' = synced /\ owed' = owed /\ synced' \subseteq owed'
  BY <1>1 DEF CrashInv, GhostsInv
<1>5. ASSUME phase[p] = "locked", NEW k \in CutShort(FirstLines(p)),
             content' = [content EXCEPT ![fd[p]] = @ \o k]
      PROVE  CrashInv' /\ Grows
  <2>1. /\ fd[p] \in Files /\ content[fd[p]] = <<>> /\ Kept(content[fd[p]]) = 0
        /\ durable[fd[p]] = 0 /\ FirstLines(p) \in Seq(Chunk) /\ Clean(FirstLines(p))
    BY <1>5, FirstLinesMatch
  <2>2. k \in Seq(Chunk) /\ Cut(k, FirstLines(p))
    BY <1>5, <2>1, CutShortCuts
  <2>3. Clean(k) /\ Kept(k) \in Nat
    BY <2>1, <2>2, CutShown, KeptOfClean
  <2>4. <<>> \o k = k
    BY <2>2, ConcatEmptySeq
  <2>5. content' = [content EXCEPT ![fd[p]] = k]
    BY <1>5, <2>1, <2>4, <1>0
  <2>6. durable' = [durable EXCEPT ![fd[p]] = 0] /\ durable[fd[p]] <= 0
    BY <1>0, <1>1, <2>1
  <2>7. /\ Kept(content[fd[p]]) <= Kept(k)
        /\ \A i \in 1 .. Kept(content[fd[p]]) : k[i].entry = content[fd[p]][i].entry
        /\ \A i \in 1 .. 0 : k[i].part = "full"
    BY <2>1, <2>3
  <2>8. phase[p] \in Locking
    BY <1>5 DEF Locking
  <2>9. Writes(p, k, 0)
    BY <1>1, <1>2, <1>4, <1>5, <2>3, <2>5, <2>6, <2>7, <2>8 DEF Writes
  <2> QED BY <1>3, <2>2, <2>9, FileGrows
<1>6. ASSUME phase[p] = "ready", nextID \in EntryIDs, NEW e \in NewEntries(p),
             NEW k \in CutShort(Full(<<e>>)), content' = [content EXCEPT ![fd[p]] = @ \o k]
      PROVE  CrashInv' /\ Grows
  <2> DEFINE c == content[fd[p]]
             l == Full(<<e>>)
  <2>1. /\ index[p] \in Seq(Proper) /\ e \in Proper
        /\ Holds(content[fd[p]], index[p]) /\ phase[p] \in HasFile
    BY <1>0, <1>6, NewEntryProper DEF StoreMatches, HasFile
  <2>2. fd[p] \in Files /\ c \in Seq(Chunk) /\ Clean(c) /\ Holds(c, index[p])
    BY <2>1, HeldFile
  <2>3. l \in Seq(Chunk) /\ c \o l \in Seq(Chunk) /\ Clean(c \o l)
    <3> HIDE DEF c
    <3> QED BY <2>1, <2>2, LineHolds
  <2>4. k \in CutShort(l)
    BY <1>6
  <2> HIDE DEF c, l
  <2>5. k \in Seq(Chunk) /\ Cut(k, l)
    BY <2>3, <2>4, CutShortCuts
  <2>6. Cut(c \o k, c \o l) /\ c \o k \in Seq(Chunk)
    BY <2>2, <2>3, <2>5, CutAfter, Appended
  <2>7. Clean(c \o k)
    BY <2>3, <2>6, CutShown
  <2>8. Clean(content[fd[p]] \o k)
    BY <2>7 DEF c
  <2>9. /\ owed \subseteq owed'
        /\ \A id \in owed' \ owed : \E i \in 2 .. Kept(content[fd[p]] \o k) :
              (content[fd[p]] \o k)[i].entry.id = id
    BY <1>4
  <2>10. /\ content[fd[p]] \o k \in Seq(Chunk)
         /\ Writes(p, content[fd[p]] \o k, durable[fd[p]])
    BY <1>1, <1>2, <1>4, <1>6, <2>5, <2>8, <2>9, AppendWrites
  <2>11. durable[fd[p]] \in Nat
    BY <1>0, <2>2
  <2> QED BY <1>3, <2>10, <2>11, FileGrows
<1> QED BY <1>5, <1>6 DEF KillInWrite, Write

\* A power loss shortens what the session shows, by what was not synced.
Shrinks ==
  /\ \E n \in 0 .. Len(SessionLogNow) : SessionLogNow' = SubSeq(SessionLogNow, 1, n)
  /\ owed' = synced /\ synced' = synced

\* A power loss keeps what was synced, and any part of what follows.
LEMMA PowerLossMatches ==
  ASSUME LockInv, DiskInv, CrashInv, PowerLoss
  PROVE  CrashInv' /\ Shrinks
<1>0. /\ content \in [Files -> Seq(Chunk)] /\ durable \in [Files -> Nat]
      /\ \A f \in Files : /\ durable[f] <= Len(content[f])
                          /\ Clean(content[f])
                          /\ \A i \in 1 .. durable[f] : content[f][i].part = "full"
  BY MemoryTypes
<1>1. /\ pending' = [p \in Procs |-> <<>>] /\ index' = [p \in Procs |-> <<>>]
      /\ fd' = [p \in Procs |-> NoFile] /\ phase' = [p \in Procs |-> "none"]
      /\ owed' = synced /\ UNCHANGED <<path, durable, synced>>
  BY DEF PowerLoss
<1>2. \A p \in Procs : StoreMatches(p)'
  <2>1. <<>> \in Seq(Proper)
    BY EmptySeq
  <2>2. \A p \in Procs : phase'[p] = "none" /\ pending'[p] = <<>> /\ index'[p] = <<>>
    BY <1>1
  <2> QED BY <2>1, <2>2 DEF StoreMatches, Buffering
<1>3. CASE path = NoFile
  <2>1. content' = content
    BY <1>3 DEF PowerLoss
  <2>2. synced = {} /\ owed = {}
    BY <1>3 DEF CrashInv, GhostsInv, NoFile, Files
  <2>3. FilesInv' /\ GhostsInv'
    BY <1>1, <2>1, <2>2 DEF CrashInv, FilesInv, GhostsInv
  <2>4. SessionLogNow = <<>> /\ SessionLogNow' = <<>>
    BY <1>1, <1>3 DEF SessionLogNow
  <2>5. Shrinks
    <3>1. SubSeq(<<>>, 1, 0) = <<>> /\ 0 \in 0 .. Len(<<>>)
      BY SubSeqEmpty, EmptySeq
    <3> QED BY <1>1, <2>4, <3>1 DEF Shrinks
  <2> QED BY <1>2, <2>3, <2>5 DEF CrashInv
<1>4. CASE path # NoFile
  <2> DEFINE c == content[path]
             m == durable[path]
  <2>1. path \in Files
    BY <1>4, PowerCuts
  <2>2. PICK new \in Seq(Chunk) : /\ content' = [content EXCEPT ![path] = new]
                                  /\ Cut(new, c) /\ m <= Len(new)
                                  /\ \A i \in 1 .. m : new[i] = c[i]
    BY <1>4, PowerCuts
  <2>3. c \in Seq(Chunk) /\ Clean(c) /\ m \in Nat /\ \A i \in 1 .. m : c[i].part = "full"
    BY <2>1, <1>0
  <2> HIDE DEF c, m
  <2>4. /\ Clean(new) /\ Len(Shown(new)) \in 0 .. Len(Shown(c))
        /\ Shown(new) = SubSeq(Shown(c), 1, Len(Shown(new)))
    BY <2>2, <2>3, CutShown
  <2>5. \A i \in 1 .. m : new[i].part = "full"
    BY <2>2, <2>3
  <2>6. m <= Kept(new) /\ Kept(new) \in Nat
    BY <2>2, <2>3, <2>4, <2>5, SyncedKept, KeptOfClean
  <2>7. content'[path] = new /\ \A g \in Files \ {path} : content'[g] = content[g]
    BY <1>0, <2>1, <2>2
  <2>8. FilesInv'
    <3>1. ASSUME NEW g \in Files
          PROVE  /\ g # path => content'[g] = <<>>
                 /\ Clean(content'[g])
                 /\ \A i \in 1 .. durable[g] : content'[g][i].part = "full"
      <4>1. CASE g = path
        BY <4>1, <2>4, <2>5, <2>7 DEF m
      <4>2. CASE g # path
        BY <4>2, <2>7, <1>0 DEF CrashInv, FilesInv
      <4> QED BY <4>1, <4>2
    <3>2. \A p \in Procs : fd'[p] \in {NoFile, path'}
      BY <1>1
    <3> QED BY <1>1, <3>1, <3>2 DEF FilesInv
  <2>9. GhostsInv'
    <3>1. \A id \in synced : \E i \in 2 .. m : c[i].entry.id = id
      BY DEF CrashInv, GhostsInv, c, m
    <3>2. \A i \in 2 .. m : i \in 1 .. m /\ i \in 2 .. Kept(new)
      BY <2>3, <2>6
    <3>3. \A id \in synced : /\ \E i \in 2 .. m : new[i].entry.id = id
                             /\ \E i \in 2 .. Kept(new) : new[i].entry.id = id
      BY <3>1, <3>2, <2>2
    <3>4. path' \in Files /\ content'[path'] = new /\ durable'[path'] = m /\ owed' = synced /\ synced' = synced
      BY <1>1, <2>1, <2>7, SMTT(20) DEF m
    <3> QED BY <3>3, <3>4 DEF GhostsInv
  <2>10. Shrinks
    <3>1. SessionLogNow = Shown(c)
      BY <1>4 DEF SessionLogNow, Shown, c
    <3>2. SessionLogNow' = Shown(new)
      <4>1. SessionLogNow' = IF path' # NoFile /\ Readable(content'[path']) THEN Loaded(content'[path']) ELSE <<>>
        BY DEF SessionLogNow
      <4> QED BY <4>1, <1>1, <1>4, <2>7 DEF Shown
    <3> QED BY <1>1, <2>4, <3>1, <3>2 DEF Shrinks
  <2> QED BY <1>2, <2>8, <2>9, <2>10 DEF CrashInv
<1> QED BY <1>3, <1>4

\* A step that writes nothing: it opens, locks, reads or lets go.
LEMMA WaitingMatches ==
  ASSUME LockInv, DiskInv, CrashInv, NEW p \in Procs,
         \/ LockCreated(p) \/ OpenFile(p) \/ LockOpened(p) \/ LoadFails(p)
  PROVE  CrashInv' /\ Grows
<1>0. /\ pending \in [Procs -> Seq(Lines)] /\ index \in [Procs -> Seq(Lines)]
      /\ StoreMatches(p)
  BY MemoryTypes
<1>1. pending[p] \in Seq(Proper) /\ index[p] \in Seq(Proper)
  BY <1>0 DEF StoreMatches
<1>2. UNCHANGED <<path, content, durable, pending, index, owed, synced>>
  BY DEF LockCreated, OpenFile, LockOpened, LoadFails, disk, ghosts
<1>3. /\ pending' \in [Procs -> Seq(Lines)] /\ index' \in [Procs -> Seq(Lines)]
      /\ pending'[p] \in Seq(Proper) /\ index'[p] \in Seq(Proper)
      /\ \A q \in Procs \ {p} : pending'[q] = pending[q] /\ index'[q] = index[q]
  BY <1>0, <1>1, <1>2
<1> DEFINE Moves(ph) ==
             /\ phase' = [phase EXCEPT ![p] = ph] /\ ph \in Phases \ (HasFile \cup {"undo", "created"})
             /\ ph \in Buffering => phase[p] \in Buffering
             /\ ph = "locked" => phase[p] = "created" /\ inflight' = inflight
             /\ fd' = fd \/ fd' = [fd EXCEPT ![p] = path] \/ fd' = [fd EXCEPT ![p] = NoFile]
             /\ inflight' = inflight \/ inflight' = [inflight EXCEPT ![p] = Header]
<1>4. CASE LockCreated(p)
  <2>1. Moves("locked") \/ Moves("deferred")
    BY <1>4 DEF LockCreated, Enter, Phases, HasFile, Buffering
  <2> QED BY <2>1, <1>2, <1>3, PhaseMatches
<1>5. CASE OpenFile(p)
  <2>1. Moves("opened")
    BY <1>5 DEF OpenFile, Enter, Phases, HasFile, Buffering
  <2> QED BY <2>1, <1>2, <1>3, PhaseMatches
<1>6. CASE LockOpened(p)
  <2>1. Moves("loading") \/ Moves("none")
    BY <1>6 DEF LockOpened, Enter, Phases, HasFile, Buffering
  <2> QED BY <2>1, <1>2, <1>3, PhaseMatches
<1>7. CASE LoadFails(p)
  <2>1. Moves("none")
    BY <1>7 DEF LoadFails, LetGo, Enter, Phases, HasFile, Buffering
  <2> QED BY <2>1, <1>2, <1>3, PhaseMatches
<1> QED BY <1>4, <1>5, <1>6, <1>7

\* A store that is closed or killed between writes, or whose read-only load
\* fails.
LEMMA ForgetMatches ==
  ASSUME LockInv, DiskInv, CrashInv, NEW p \in Procs, ReadFails(p) \/ Close(p) \/ Kill(p)
  PROVE  CrashInv' /\ Grows
<1>0. pending \in [Procs -> Seq(Lines)] /\ index \in [Procs -> Seq(Lines)]
  BY MemoryTypes
<1>1. /\ pending' = [pending EXCEPT ![p] = <<>>] /\ index' = [index EXCEPT ![p] = <<>>]
      /\ inflight' = [inflight EXCEPT ![p] = Header] /\ phase' = [phase EXCEPT ![p] = "none"]
      /\ fd' = [fd EXCEPT ![p] = NoFile] /\ UNCHANGED <<path, content, durable, owed, synced>>
  BY DEF ReadFails, Close, Kill, LetGo, Forget, Enter, disk, ghosts
<1>2. <<>> \in Seq(Proper) /\ <<>> \in Seq(Lines)
  BY EmptySeq
<1>3. /\ pending' \in [Procs -> Seq(Lines)] /\ index' \in [Procs -> Seq(Lines)]
      /\ pending'[p] \in Seq(Proper) /\ index'[p] \in Seq(Proper)
      /\ \A q \in Procs \ {p} : pending'[q] = pending[q] /\ index'[q] = index[q]
  BY <1>0, <1>1, <1>2
<1>4. /\ "none" \in Phases \ (HasFile \cup {"undo"}) /\ "none" # "created" /\ "none" # "locked"
      /\ "none" \notin Buffering
  BY DEF Phases, HasFile, Buffering
<1> QED BY <1>1, <1>3, <1>4, PhaseMatches

\* What a reader has begun of a line behind the header is an entry.
ScanProper ==
  \A p \in Procs : scan[p].at > 0 /\ scan[p].begun # NoLine => scan[p].begun.entry \in Proper

\* A read-only open shows nothing yet.
LEMMA ReadOpens ==
  ASSUME LockInv, DiskInv, CrashInv, NEW p \in Procs, OpenReadOnly(p)
  PROVE  CrashInv' /\ Grows
<1>0. /\ pending \in [Procs -> Seq(Lines)] /\ index \in [Procs -> Seq(Lines)]
      /\ StoreMatches(p)
  BY MemoryTypes
<1>1. /\ index' = [index EXCEPT ![p] = <<>>]
      /\ phase' = [phase EXCEPT ![p] = "reading"] /\ fd' = [fd EXCEPT ![p] = path]
      /\ UNCHANGED <<path, content, durable, pending, inflight, owed, synced>>
  BY DEF OpenReadOnly, Enter, disk, ghosts
<1>2. <<>> \in Seq(Proper) /\ <<>> \in Seq(Lines) /\ pending[p] \in Seq(Proper)
  BY <1>0, EmptySeq DEF StoreMatches
<1>3. /\ pending' \in [Procs -> Seq(Lines)] /\ index' \in [Procs -> Seq(Lines)]
      /\ pending'[p] \in Seq(Proper) /\ index'[p] \in Seq(Proper)
      /\ \A q \in Procs \ {p} : pending'[q] = pending[q] /\ index'[q] = index[q]
  BY <1>0, <1>1, <1>2
<1>4. /\ "reading" \in Phases \ (HasFile \cup {"undo"}) /\ "reading" # "created"
      /\ "reading" # "locked" /\ "reading" \notin Buffering
  BY DEF Phases, HasFile, Buffering
<1> QED BY <1>1, <1>3, <1>4, PhaseMatches

\* Behind the header a clean file has entries only.
LEMMA BehindHeader ==
  ASSUME LockInv, DiskInv, ScanTypes, CrashInv, NEW p \in Procs,
         fd[p] \in Files, scan[p].at > 0, scan[p].at + 1 \in 1 .. Len(content[fd[p]])
  PROVE  content[fd[p]][scan[p].at + 1].entry \in Proper
<1>1. content[fd[p]] \in Seq(Chunk) /\ Clean(content[fd[p]]) /\ scan[p].at \in Nat
  BY DEF DiskInv, DiskTypes, CrashInv, FilesInv, ScanTypes
<1>2. scan[p].at + 1 \in DOMAIN content[fd[p]] /\ scan[p].at + 1 # 1
  BY <1>1, LenProperties
<1> QED BY <1>1, <1>2 DEF Clean

\* A step of a reader shows entries only, and changes nothing else.
LEMMA ReadMatches ==
  ASSUME LockInv, DiskInv, ScanTypes, CrashInv, ScanProper, NEW p \in Procs, Reads(p)
  PROVE  CrashInv' /\ Grows
<1>0. /\ pending \in [Procs -> Seq(Lines)] /\ index \in [Procs -> Seq(Lines)]
      /\ StoreMatches(p) /\ phase \in [Procs -> Phases]
  BY MemoryTypes
<1>1. /\ phase[p] = "reading" /\ fd[p] \in Files
      /\ UNCHANGED <<path, content, durable, fd, pending, inflight, owed, synced>>
      /\ phase' = phase \/ phase' = [phase EXCEPT ![p] = "reader"]
      /\ \/ index' = index
         \/ \E e \in Lines :
              /\ scan[p].at > 0 /\ index' = [index EXCEPT ![p] = Append(@, e)]
              /\ \/ scan[p].begun # NoLine /\ e = scan[p].begun.entry
                 \/ /\ scan[p].at + 1 \in 1 .. Len(content[fd[p]])
                    /\ e = content[fd[p]][scan[p].at + 1].entry
  BY ReadSteps
<1>2. index' = index \/ \E e \in Proper : index' = [index EXCEPT ![p] = Append(@, e)]
  <2>1. scan[p].at > 0 /\ scan[p].begun # NoLine => scan[p].begun.entry \in Proper
    BY DEF ScanProper
  <2>2. scan[p].at > 0 /\ scan[p].at + 1 \in 1 .. Len(content[fd[p]])
        => content[fd[p]][scan[p].at + 1].entry \in Proper
    BY <1>1, BehindHeader
  <2> QED BY <1>1, <2>1, <2>2
<1>3. pending[p] \in Seq(Proper) /\ index[p] \in Seq(Proper)
  BY <1>0 DEF StoreMatches
<1>4. /\ index' \in [Procs -> Seq(Lines)] /\ index'[p] \in Seq(Proper)
      /\ \A q \in Procs \ {p} : index'[q] = index[q]
  <2>1. \A e \in Proper : Append(index[p], e) \in Seq(Proper) /\ Append(index[p], e) \in Seq(Lines)
    <3>1. Proper \subseteq Lines
      BY DEF Proper, Lines
    <3> QED BY <3>1, <1>0, <1>3, AppendProperties
  <2> QED BY <2>1, <1>0, <1>2, <1>3
<1>5. /\ pending' \in [Procs -> Seq(Lines)] /\ pending'[p] \in Seq(Proper)
      /\ \A q \in Procs \ {p} : pending'[q] = pending[q] /\ index'[q] = index[q]
  BY <1>0, <1>1, <1>3, <1>4
<1>6. PICK ph \in {"reading", "reader"} : phase' = [phase EXCEPT ![p] = ph]
  BY <1>0, <1>1
<1>7. /\ ph \in Phases \ (HasFile \cup {"undo"}) /\ ph # "created"
      /\ ph # "locked" /\ ph \notin Buffering
  BY DEF Phases, HasFile, Buffering
<1> QED BY <1>1, <1>4, <1>5, <1>6, <1>7, PhaseMatches

\* A step leaves what readers have begun as it is, or begins a line of the file.
LEMMA ScansProper ==
  ASSUME LockInv, DiskInv, ScanTypes, CrashInv, ScanProper, NEW p \in Procs, Step(p)
  PROVE  ScanProper'
<1>1. CASE ~Reads(p)
  <2>1. scan' = scan \/ scan' = [scan EXCEPT ![p] = Start]
    BY <1>1, ScansStay
  <2> QED BY <2>1, SMTT(20) DEF ScanProper, ScanTypes, Start
<1>2. CASE Reads(p)
  <2>1. /\ fd[p] \in Files /\ \A q \in Procs \ {p} : scan'[q] = scan[q]
        /\ \/ scan'[p].begun = NoLine
           \/ /\ scan'[p].at = scan[p].at /\ scan[p].at + 1 \in 1 .. Len(content[fd[p]])
              /\ scan'[p].begun.entry = content[fd[p]][scan[p].at + 1].entry
    BY <1>2, ReadSteps
  <2>2. scan[p].at > 0 /\ scan[p].at + 1 \in 1 .. Len(content[fd[p]])
        => content[fd[p]][scan[p].at + 1].entry \in Proper
    BY <2>1, BehindHeader
  <2>3. scan'[p].at > 0 /\ scan'[p].begun # NoLine => scan'[p].begun.entry \in Proper
    BY <2>1, <2>2
  <2> QED BY <2>1, <2>3 DEF ScanProper
<1> QED BY <1>1, <1>2

\* Where nothing but crashes goes wrong, every step of a process keeps the
\* files clean and the stores true to them, and only adds to the session.
LEMMA StepKeepsCrash ==
  ASSUME LockInv, DiskInv, ScanTypes, CrashInv, ScanProper, OnlyCrashes, NEW p \in Procs, Step(p)
  PROVE  CrashInv' /\ Grows
<1>1. "write" \notin Faults /\ "sync" \notin Faults
  BY DEF OnlyCrashes
<1>2. ~FirstWriteFails(p) /\ ~FirstSyncFails(p) /\ ~AppendLineFails(p) /\ ~SyncLineFails(p)
  BY <1>1 DEF FirstWriteFails, FirstSyncFails, AppendLineFails, SyncLineFails
<1>3. ~RemoveFile(p)
  <2>1. StoreMatches(p)
    BY DEF CrashInv
  <2> QED BY <2>1 DEF RemoveFile, StoreMatches
<1>4. CASE AppendDeferred(p)
  BY <1>4, BufferMatches
<1>5. CASE CreateFile(p)
  BY <1>5, CreateMatches
<1>6. CASE LockCreated(p) \/ OpenFile(p) \/ LockOpened(p) \/ LoadFails(p)
  BY <1>6, WaitingMatches
<1>7. CASE FirstWrite(p)
  BY <1>7, FirstWriteMatches
<1>8. CASE FirstSync(p)
  BY <1>8, FirstSyncMatches
<1>9. CASE AppendLine(p)
  BY <1>9, AppendLineMatches
<1>10. CASE SyncLine(p)
  BY <1>10, SyncLineMatches
<1>11. CASE Load(p)
  BY <1>11, LoadMatches
<1>12. CASE OpenReadOnly(p)
  BY <1>12, ReadOpens
<1>13. CASE Reads(p)
  BY <1>13, ReadMatches
<1>14. CASE ReadFails(p) \/ Close(p) \/ Kill(p)
  BY <1>14, ForgetMatches
<1>15. CASE KillInWrite(p)
  BY <1>15, KillInWriteMatches
<1> QED BY <1>2, <1>3, <1>4, <1>5, <1>6, <1>7, <1>8, <1>9, <1>10, <1>11, <1>12, <1>13, <1>14, <1>15
        DEF Step, Reads

\* No file exists and the buffers are empty.
LEMMA CrashInvInit == Init => CrashInv
<1> SUFFICES ASSUME Init PROVE CrashInv
  OBVIOUS
<1>1. /\ path = NoFile /\ content = [f \in Files |-> <<>>] /\ durable = [f \in Files |-> 0]
      /\ phase = [p \in Procs |-> IF p = Creator THEN "deferred" ELSE "none"]
      /\ fd = [p \in Procs |-> NoFile]
      /\ pending = [p \in Procs |-> <<>>] /\ index = [p \in Procs |-> <<>>]
      /\ owed = {} /\ synced = {}
  BY DEF Init
<1>2. Clean(<<>>) /\ <<>> \in Seq(Proper)
  BY EmptySeq DEF Clean
<1>3. FilesInv
  BY <1>1, <1>2 DEF FilesInv
<1>4. ASSUME NEW p \in Procs PROVE StoreMatches(p)
  <2>1. /\ phase[p] \in {"deferred", "none"} /\ (phase[p] = "deferred" => p = Creator)
        /\ pending[p] = <<>> /\ index[p] = <<>> /\ \A f \in Files : content[f] = <<>>
    BY <1>1
  <2> QED BY <2>1, <1>2 DEF StoreMatches, Buffering
<1>5. GhostsInv
  BY <1>1 DEF GhostsInv
<1> QED BY <1>3, <1>4, <1>5 DEF CrashInv

\* Files and stores match together with what readers have begun.
LEMMA StoresAndScans ==
  ASSUME OnlyCrashes
  PROVE  Spec => [](CrashInv /\ ScanProper)
<1>1. LockInv /\ DiskInv /\ ScanTypes /\ CrashInv /\ ScanProper /\ [Next]_vars => CrashInv' /\ ScanProper'
  <2> SUFFICES ASSUME LockInv, DiskInv, ScanTypes, CrashInv, ScanProper, [Next]_vars
               PROVE  CrashInv' /\ ScanProper'
    OBVIOUS
  <2>1. CASE UNCHANGED vars
    BY <2>1 DEF vars, CrashInv, FilesInv, StoreMatches, Holds, GhostsInv, ScanProper
  <2>2. CASE PowerLoss
    <3>1. ScanProper'
      BY <2>2 DEF PowerLoss, ScanProper, Start
    <3> QED BY <2>2, <3>1, PowerLossMatches
  <2>3. ASSUME NEW p \in Procs, Step(p) PROVE CrashInv' /\ ScanProper'
    BY <2>3, StepKeepsCrash, ScansProper
  <2> QED BY <2>1, <2>2, <2>3 DEF Next
<1>2. Init => ScanProper
  BY DEF Init, ScanProper, Start
<1> QED BY <1>1, <1>2, CrashInvInit, WritersAreLocked, DisksAndScans, PTL DEF Spec

\* What every behaviour keeps where nothing but crashes goes wrong: files are
\* damaged at their end at most, a store between calls holds what its file
\* holds, and what is owed is in the file (store.go, loader.go).
THEOREM StoresMatchFiles ==
  ASSUME OnlyCrashes
  PROVE  Spec => []CrashInv
  BY StoresAndScans, PTL

\* Where nothing but crashes goes wrong, a store between calls has in memory
\* the tree that a reload would rebuild from its file.
THEOREM MemoryIsReloaded ==
  ASSUME OnlyCrashes
  PROVE  Spec => []MemoryMatchesDisk
<1>1. LockInv /\ DiskInv /\ CrashInv => MemoryMatchesDisk
  <2> SUFFICES ASSUME LockInv, DiskInv, CrashInv,
                      NEW p \in Procs, phase[p] \in {"ready", "syncing"}
               PROVE  Readable(content[fd[p]]) /\ index[p] = Loaded(content[fd[p]])
    BY DEF MemoryMatchesDisk
  <2>1. StoreMatches(p) /\ phase[p] \in HasFile
    BY DEF CrashInv, HasFile
  <2>2. index[p] \in Seq(Proper) /\ Holds(content[fd[p]], index[p])
    BY <2>1 DEF StoreMatches
  <2>3. content[fd[p]] \in Seq(Chunk) /\ Clean(content[fd[p]])
    BY <2>1, <2>2, HeldFile
  <2> QED BY <2>2, <2>3, HeldShown
<1> QED BY <1>1, StoresMatchFiles, WritersAreLocked, StoresHangFromDisk, PTL

\* The entries a fresh open finds are those of the chunks load keeps.
LEMMA ShownIds ==
  ASSUME NEW c \in Seq(Chunk), Clean(c)
  PROVE  \A id : id \in Ids(Shown(c)) <=> \E i \in 2 .. Kept(c) : c[i].entry.id = id
<1> DEFINE s == Shown(c)
           n == Kept(c)
<1>1. /\ s \in Seq(Proper) /\ n \in Nat /\ Len(s) = (IF n >= 1 THEN n - 1 ELSE 0)
      /\ \A i \in 1 .. Len(s) : s[i] = c[i + 1].entry
  BY ShownOf, KeptOfClean
<1>2. DOMAIN s = 1 .. Len(s) /\ Len(s) \in Nat
  BY <1>1, LenProperties
<1> HIDE DEF s, n
<1> SUFFICES ASSUME NEW id
             PROVE  id \in Ids(s) <=> \E i \in 2 .. n : c[i].entry.id = id
  BY DEF s, n
<1>3. ASSUME id \in Ids(s) PROVE \E i \in 2 .. n : c[i].entry.id = id
  <2>1. PICK i \in 1 .. Len(s) : s[i].id = id
    BY <1>2, <1>3 DEF Ids
  <2>2. i + 1 \in 2 .. n
    BY <1>1
  <2> QED BY <1>1, <2>1, <2>2
<1>4. ASSUME NEW i \in 2 .. n, c[i].entry.id = id PROVE id \in Ids(s)
  <2>1. i - 1 \in 1 .. Len(s) /\ (i - 1) + 1 = i
    BY <1>1
  <2>2. s[i - 1].id = id
    BY <1>1, <1>4, <2>1
  <2> QED BY <1>2, <2>1, <2>2 DEF Ids
<1> QED BY <1>3, <1>4

\* In every state the invariant allows, the session a fresh open finds hangs
\* together and has everything that is owed.
LEMMA LogKeeps ==
  ASSUME LockInv, DiskInv, CrashInv
  PROVE  /\ SessionLogNow \in Seq(Proper) /\ Chained(SessionLogNow)
         /\ owed \subseteq Ids(SessionLogNow) /\ synced \subseteq owed
<1>1. FilesInv /\ GhostsInv
  BY DEF CrashInv
<1>2. CASE path = NoFile
  <2>1. SessionLogNow = <<>>
    BY <1>2 DEF SessionLogNow
  <2>2. owed = {} /\ synced = {}
    BY <1>1, <1>2 DEF GhostsInv, NoFile, Files
  <2>3. Chained(<<>>) /\ <<>> \in Seq(Proper)
    BY EmptySeq DEF Chained
  <2> QED BY <2>1, <2>2, <2>3
<1>3. CASE path # NoFile
  <2>1. /\ path \in Files /\ content[path] \in Seq(Chunk) /\ Clean(content[path])
        /\ SessionLogNow = Shown(content[path]) /\ SessionLogNow \in Seq(Proper)
    BY <1>1, <1>3, LogNow
  <2>2. Chained(SessionLogNow)
    BY <2>1, ShownChained DEF DiskInv
  <2>3. \A id \in owed : id \in Ids(SessionLogNow)
    BY <1>1, <2>1, ShownIds DEF GhostsInv
  <2> QED BY <1>1, <2>1, <2>2, <2>3 DEF GhostsInv
<1> QED BY <1>2, <1>3

\* A fresh open finds every entry Append has acknowledged and no power loss
\* has taken (README.md:247).
THEOREM NothingOwedIsLost ==
  ASSUME OnlyCrashes
  PROVE  Spec => []OwedSurvive
<1>1. LockInv /\ DiskInv /\ CrashInv => OwedSurvive
  BY LogKeeps DEF OwedSurvive
<1> QED BY <1>1, StoresMatchFiles, WritersAreLocked, StoresHangFromDisk, PTL

\* A fresh open finds a session that hangs together, with what is owed.
LogSound ==
  /\ SessionLogNow \in Seq(Proper) /\ Chained(SessionLogNow)
  /\ owed \subseteq Ids(SessionLogNow) /\ synced \subseteq owed

\* The invariants of the store, all at once.
LEMMA LogStaysSound ==
  ASSUME OnlyCrashes
  PROVE  Spec => [](LockInv /\ DiskInv /\ ScanTypes /\ CrashInv /\ ScanProper /\ LogSound)
<1>1. LockInv /\ DiskInv /\ CrashInv => LogSound
  BY LogKeeps DEF LogSound
<1> QED BY <1>1, StoresAndScans, WritersAreLocked, DisksAndScans, PTL

\* What a step does to the session is a step of the log.
LEMMA StepsOfLog ==
  ASSUME LogSound', Grows \/ Shrinks
  PROVE  Log!Next
<1>1. \A log : Log!Chained(log) <=> Chained(log)
  BY DEF Log!Chained, Log!ChainedAt, Log!OffChain, Log!Root, Chained, ChainedAt, OffChain, Root
<1>2. \A log : Log!Ids(log) = Ids(log)
  BY DEF Log!Ids, Ids
<1>3. Chained(SessionLogNow') /\ owed' \subseteq Ids(SessionLogNow') /\ synced' \subseteq owed'
  BY DEF LogSound, Chained, ChainedAt, Ids
<1>4. CASE Grows /\ synced' = synced
  <2>1. Log!Extend
    BY <1>1, <1>2, <1>3, <1>4 DEF Grows, Log!Extend
  <2> QED BY <2>1 DEF Log!Next
<1>5. CASE Grows /\ SessionLogNow' = SessionLogNow
  <2>1. Log!Sync
    BY <1>2, <1>3, <1>5 DEF Grows, Log!Sync
  <2> QED BY <2>1 DEF Log!Next
<1>6. CASE Shrinks
  <2>1. Log!Lose
    BY <1>2, <1>3, <1>6 DEF Shrinks, Log!Lose
  <2> QED BY <2>1 DEF Log!Next
<1> QED BY <1>4, <1>5, <1>6 DEF Grows

\* Where nothing but crashes goes wrong, the store is a SessionLog: a log that
\* grows at its end, hangs together, and loses only what no sync covered, and
\* that only when the machine stops.
THEOREM StoreIsALog ==
  ASSUME OnlyCrashes
  PROVE  Spec => ImplementsLog
<1>1. Init => Log!Init
  BY DEF Init, Log!Init, SessionLogNow
<1>2. LockInv /\ DiskInv /\ ScanTypes /\ CrashInv /\ ScanProper /\ LogSound' /\ [Next]_vars
      => [Log!Next]_<<SessionLogNow, owed, synced>>
  <2> SUFFICES ASSUME LockInv, DiskInv, ScanTypes, CrashInv, ScanProper, LogSound', [Next]_vars
               PROVE  Log!Next \/ UNCHANGED <<SessionLogNow, owed, synced>>
    OBVIOUS
  <2>1. CASE UNCHANGED vars
    BY <2>1 DEF vars, SessionLogNow
  <2>2. CASE PowerLoss
    BY <2>2, PowerLossMatches, StepsOfLog
  <2>3. ASSUME NEW p \in Procs, Step(p) PROVE Log!Next
    BY <2>3, StepKeepsCrash, StepsOfLog
  <2> QED BY <2>1, <2>2, <2>3 DEF Next
<1> QED BY <1>1, <1>2, LogStaysSound, PTL DEF Spec, ImplementsLog, Log!Spec

\* What a reader shows, unless it has joined bytes of two lines, is a beginning
\* of the session, and while it reads on, what the chunks behind it hold.
Behind(p) == IF scan[p].at = 0 THEN 0 ELSE scan[p].at - 1
ReaderInv ==
  \A p \in Procs : phase[p] \in {"reading", "reader"} /\ ~scan[p].spliced =>
    \E n \in 0 .. Len(SessionLogNow) :
      /\ index[p] = SubSeq(SessionLogNow, 1, n)
      /\ phase[p] = "reading" => n = Behind(p)

\* A beginning of a beginning is a beginning.
LEMMA PrefixOfPrefix ==
  ASSUME NEW S, NEW s \in Seq(S), NEW n \in 0 .. Len(s), NEW k \in 0 .. n
  PROVE  SubSeq(SubSeq(s, 1, n), 1, k) = SubSeq(s, 1, k)
<1> DEFINE t == SubSeq(s, 1, n)
           u == SubSeq(t, 1, k)
           v == SubSeq(s, 1, k)
<1>1. Len(s) \in Nat
  BY LenProperties
<1>2. t \in Seq(S) /\ Len(t) = n /\ \A i \in 1 .. n : t[i] = s[i]
  BY PrefixCuts
<1>3. k \in 0 .. Len(s) /\ k \in 0 .. Len(t)
  BY <1>1, <1>2
<1>4. v \in Seq(S) /\ Len(v) = k /\ \A i \in 1 .. k : v[i] = s[i]
  BY <1>3, PrefixCuts
<1> HIDE DEF t, v
<1>5. u \in Seq(S) /\ Len(u) = k /\ \A i \in 1 .. k : u[i] = t[i]
  BY <1>2, <1>3, PrefixCuts
<1> HIDE DEF u
<1>6. \A i \in 1 .. k : u[i] = v[i]
  BY <1>1, <1>2, <1>4, <1>5
<1>7. u = v
  BY <1>4, <1>5, <1>6, SeqEqual
<1> QED BY <1>7 DEF t, u, v

\* A step changes no other store's tree, and only those of a read-only load
\* leave a reader.
LEMMA ReadersStay ==
  ASSUME LockInv, DiskInv, ScanTypes, NEW p \in Procs, Step(p)
  PROVE  /\ \A q \in Procs \ {p} : phase'[q] = phase[q] /\ index'[q] = index[q] /\ scan'[q] = scan[q]
         /\ phase'[p] \in {"reading", "reader"} => OpenReadOnly(p) \/ Reads(p)
<1>0. phase \in [Procs -> Phases] /\ index \in [Procs -> Seq(Lines)]
  BY DEF LockInv, LockTypes, DiskInv, DiskTypes
<1> DEFINE Stays == \A q \in Procs \ {p} : phase'[q] = phase[q] /\ index'[q] = index[q]
<1>s. \A q \in Procs \ {p} : scan'[q] = scan[q]
  <2>1. CASE Reads(p)
    BY <2>1, ReadSteps
  <2>2. CASE ~Reads(p)
    <3>1. scan' = scan \/ scan' = [scan EXCEPT ![p] = Start]
      BY <2>2, ScansStay
    <3> QED BY <3>1 DEF ScanTypes
  <2> QED BY <2>1, <2>2
<1>1. CASE OpenReadOnly(p)
  <2>1. /\ index' = [index EXCEPT ![p] = <<>>]
        /\ phase' = [phase EXCEPT ![p] = "reading"]
    BY <1>1 DEF OpenReadOnly, Enter, disk
  <2> QED BY <1>0, <1>1, <1>s, <2>1
<1>r. CASE Reads(p)
  <2>1. /\ phase' = phase \/ phase' = [phase EXCEPT ![p] = "reader"]
        /\ index' = index \/ \E e \in Lines : index' = [index EXCEPT ![p] = Append(@, e)]
    BY <1>r, ReadSteps
  <2> QED BY <1>0, <1>r, <1>s, <2>1
<1>2. CASE AppendDeferred(p) \/ AppendLine(p) \/ FirstWrite(p) \/ FirstSync(p)
  <2>1. \E e : index' = index \/ index' = [index EXCEPT ![p] = Append(@, e)]
    BY <1>2 DEF AppendDeferred, AppendLine, FirstWrite, FirstSync, Index, Acknowledge
  <2>2. \E ph \in {"deferred", "flushed", "ready", "syncing"} :
           phase[p] \notin {"reading", "reader"} /\ (phase' = phase \/ phase' = [phase EXCEPT ![p] = ph])
    BY <1>2 DEF AppendDeferred, AppendLine, FirstWrite, FirstSync, Enter, Acknowledge, ghosts
  <2>3. Stays
    BY <1>0, <2>1, <2>2
  <2>4. phase'[p] \notin {"reading", "reader"}
    BY <1>0, <2>2
  <2> QED BY <1>s, <2>3, <2>4
<1>3. CASE \/ CreateFile(p) \/ LockCreated(p) \/ FirstWriteFails(p) \/ RemoveFile(p)
           \/ FirstSyncFails(p) \/ AppendLineFails(p) \/ SyncLine(p) \/ SyncLineFails(p)
           \/ OpenFile(p) \/ LockOpened(p) \/ LoadFails(p)
  <2>1. index' = index
    BY <1>3 DEF CreateFile, LockCreated, FirstWriteFails, RemoveFile, FirstSyncFails,
                AppendLineFails, SyncLine, SyncLineFails, OpenFile, LockOpened, LoadFails
  <2>2. \E ph \in {"created", "locked", "deferred", "undo", "ready", "opened", "loading", "none"} :
           phase[p] \notin {"reading", "reader"} /\ (phase' = phase \/ phase' = [phase EXCEPT ![p] = ph])
    BY <1>3 DEF CreateFile, LockCreated, FirstWriteFails, RemoveFile, FirstSyncFails,
                AppendLineFails, SyncLine, SyncLineFails, OpenFile, LockOpened, LoadFails, Enter
  <2>3. Stays
    BY <1>0, <2>1, <2>2
  <2>4. phase'[p] \notin {"reading", "reader"}
    BY <1>0, <2>2
  <2> QED BY <1>s, <2>3, <2>4
<1>4. CASE Load(p) \/ ReadFails(p) \/ Close(p) \/ Kill(p) \/ KillInWrite(p)
  <2>1. \E log : index' = [index EXCEPT ![p] = log]
    BY <1>4 DEF Load, ReadFails, Close, Kill, KillInWrite, Forget
  <2>2. \E ph \in {"ready", "none"} : phase' = [phase EXCEPT ![p] = ph]
    BY <1>4 DEF Load, ReadFails, Close, Kill, KillInWrite, Forget, Enter
  <2>3. Stays
    BY <1>0, <2>1, <2>2
  <2>4. phase'[p] \notin {"reading", "reader"}
    BY <1>0, <2>2
  <2> QED BY <1>s, <2>3, <2>4
<1> QED BY <1>1, <1>r, <1>2, <1>3, <1>4 DEF Step, Reads

\* A whole line a reader has before it, in a clean file, is the next entry of
\* the session, even where only its newline is missing.
LEMMA NextShown ==
  ASSUME LockInv, DiskInv, ScanTypes, CrashInv, NEW p \in Procs, phase[p] = "reading",
         scan[p].at > 0, Ahead(p) # <<>>, Head(Ahead(p)).part # "torn"
  PROVE  /\ scan[p].at \in 1 .. Len(SessionLogNow)
         /\ Append(SubSeq(SessionLogNow, 1, scan[p].at - 1), Head(Ahead(p)).entry)
            = SubSeq(SessionLogNow, 1, scan[p].at)
<1> DEFINE c == content[path]
           n == scan[p].at
           s == SessionLogNow
<1>1. /\ fd[p] \in Files /\ n \in Nat /\ n + 1 \in 1 .. Len(content[fd[p]])
      /\ Head(Ahead(p)) = content[fd[p]][n + 1]
  BY AheadOf
<1>2. fd[p] = path /\ path # NoFile
  BY <1>1 DEF CrashInv, FilesInv, Files, NoFile
<1>3. c \in Seq(Chunk) /\ Clean(c) /\ s = Shown(c) /\ s \in Seq(Proper)
  BY <1>2, LogNow DEF CrashInv
<1>4. n + 1 \in 1 .. Len(c) /\ Head(Ahead(p)) = c[n + 1] /\ n > 0
  BY <1>1, <1>2
<1> HIDE DEF c, n, s
<1>5. n + 1 <= Kept(c)
  <2>1. c # <<>> /\ Len(c) \in Nat /\ Kept(c) \in Nat
    BY <1>1, <1>3, <1>4, KeptOfClean, EmptySeq
  <2>2. CASE n + 1 = Len(c)
    <3>1. c[Len(c)].part # "torn"
      BY <2>2, <1>4
    <3> QED BY <2>1, <2>2, <3>1, <1>3, KeptOfClean
  <2>3. CASE n + 1 < Len(c)
    <3>1. Kept(c) >= Len(c) - 1
      BY <2>1, <1>3, KeptOfClean
    <3> QED BY <2>1, <2>3, <3>1, <1>1
  <2> QED BY <2>1, <2>2, <2>3, <1>1, <1>4
<1>6. /\ Len(s) = Kept(c) - 1 /\ Kept(c) \in Nat
      /\ \A i \in 1 .. Len(s) : s[i] = c[i + 1].entry
  <2>1. /\ Len(Shown(c)) = IF Kept(c) >= 1 THEN Kept(c) - 1 ELSE 0
        /\ \A i \in 1 .. Len(Shown(c)) : Shown(c)[i] = c[i + 1].entry
    BY <1>3, ShownOf
  <2>2. Kept(c) \in Nat
    BY <1>3, KeptOfClean
  <2> QED BY <1>1, <1>3, <1>5, <2>1, <2>2
<1>7. n \in 1 .. Len(s) /\ s[n] = Head(Ahead(p)).entry
  <2>1. n \in 1 .. Len(s)
    BY <1>1, <1>4, <1>5, <1>6
  <2> QED BY <2>1, <1>4, <1>6
<1>8. Append(SubSeq(s, 1, n - 1), s[n]) = SubSeq(s, 1, n)
  <2> DEFINE t == SubSeq(s, 1, n - 1)
             u == SubSeq(s, 1, n)
             v == Append(t, s[n])
  <2>0. Len(s) \in Nat /\ n \in Nat /\ n - 1 \in 0 .. Len(s) /\ n \in 0 .. Len(s) /\ s[n] \in Proper
    BY <1>1, <1>3, <1>7, LenProperties, ElementOfSeq
  <2>1. t \in Seq(Proper) /\ Len(t) = n - 1 /\ \A i \in 1 .. (n - 1) : t[i] = s[i]
    BY <2>0, <1>3, PrefixCuts
  <2>2. u \in Seq(Proper) /\ Len(u) = n /\ \A i \in 1 .. n : u[i] = s[i]
    BY <2>0, <1>3, PrefixCuts
  <2> HIDE DEF t, u
  <2>3. /\ v \in Seq(Proper) /\ Len(v) = (n - 1) + 1
        /\ \A i \in 1 .. (n - 1) : v[i] = t[i]
        /\ v[(n - 1) + 1] = s[n]
    BY <2>0, <2>1, AppendProperties
  <2> HIDE DEF v
  <2>4. \A i \in 1 .. Len(v) : v[i] = u[i]
    BY <2>0, <2>1, <2>2, <2>3, SMTT(20)
  <2>5. Len(v) = Len(u)
    BY <2>0, <2>2, <2>3
  <2>6. v = u
    BY <2>2, <2>3, <2>4, <2>5, SeqEqual
  <2> QED BY <2>6 DEF t, u, v
<1> QED BY <1>7, <1>8 DEF n, s

\* A step of a read-only load, whatever has been appended or repaired since the
\* step before it, shows the next of the session or nothing more, unless it
\* joins what it had of a line to another.
LEMMA ReadsOn ==
  ASSUME LockInv, DiskInv, ScanTypes, CrashInv, ReaderInv, NEW p \in Procs,
         OpenReadOnly(p) \/ Reads(p), ~scan'[p].spliced
  PROVE  \E n \in 0 .. Len(SessionLogNow) :
           /\ index'[p] = SubSeq(SessionLogNow, 1, n)
           /\ phase'[p] = "reading" => n = Behind(p)'
<1> DEFINE s == SessionLogNow
           a == scan[p].at
<1>0. /\ phase \in [Procs -> Phases] /\ index \in [Procs -> Seq(Lines)] /\ s \in Seq(Proper)
      /\ scan[p] \in [at : Nat, spliced : BOOLEAN,
                      begun : [entry : Lines, part : {"torn", "bare", "none"}]]
  BY LogNow DEF LockInv, LockTypes, DiskInv, DiskTypes, CrashInv, ScanTypes
<1>1. Len(s) \in Nat /\ 0 \in 0 .. Len(s) /\ a \in Nat
  BY <1>0, LenProperties
<1>3. ASSUME phase[p] = "reading", ~scan[p].spliced
      PROVE  Behind(p) \in 0 .. Len(s) /\ index[p] = SubSeq(s, 1, Behind(p))
  BY <1>3 DEF ReaderInv
<1>4. ASSUME phase[p] = "reading", ~scan[p].spliced, a > 0, Ahead(p) # <<>>, Head(Ahead(p)).part # "torn"
      PROVE  a \in 1 .. Len(s) /\ Append(index[p], Head(Ahead(p)).entry) = SubSeq(s, 1, a)
  <2>1. /\ a \in 1 .. Len(s)
        /\ Append(SubSeq(s, 1, a - 1), Head(Ahead(p)).entry) = SubSeq(s, 1, a)
    BY <1>4, NextShown
  <2>2. Behind(p) = a - 1
    BY <1>4 DEF Behind
  <2>3. index[p] = SubSeq(s, 1, a - 1)
    BY <1>3, <1>4, <2>2
  <2> QED BY <2>1, <2>3
<1> SUFFICES \E n \in 0 .. Len(s) :
               /\ index'[p] = SubSeq(s, 1, n)
               /\ phase'[p] = "reading" => n = Behind(p)'
  OBVIOUS
<1> HIDE DEF s
<1>2. CASE OpenReadOnly(p)
  <2>1. index'[p] = <<>> /\ scan'[p].at = 0
    BY <1>0, <1>2 DEF OpenReadOnly, Start, ScanTypes
  <2>2. SubSeq(s, 1, 0) = <<>>
    BY SubSeqEmpty
  <2>3. Behind(p)' = 0
    BY <2>1 DEF Behind
  <2> QED BY <1>1, <2>1, <2>2, <2>3
<1>5. CASE ReadLine(p)
  <2>1. /\ phase[p] = "reading" /\ Ahead(p) # <<>> /\ Head(Ahead(p)).part # "torn"
        /\ scan' = [scan EXCEPT ![p].at = @ + 1, ![p].begun = NoLine]
        /\ Takes(p, Head(Ahead(p)).entry)
    BY <1>5 DEF ReadLine
  <2>2. scan'[p].at = a + 1 /\ scan'[p].spliced = scan[p].spliced
    BY <1>0, <2>1 DEF ScanTypes
  <2>3. Behind(p)' = a
    BY <1>1, <2>2 DEF Behind
  <2>4. CASE a = 0
    <3>1. index' = index /\ Behind(p) = 0
      BY <2>1, <2>4 DEF Takes, Behind
    <3> QED BY <1>1, <1>3, <2>1, <2>2, <2>3, <2>4, <3>1
  <2>5. CASE a > 0
    <3>1. index'[p] = Append(index[p], Head(Ahead(p)).entry)
      BY <1>0, <2>1, <2>5 DEF Takes, Index
    <3>2. a \in 1 .. Len(s) /\ Append(index[p], Head(Ahead(p)).entry) = SubSeq(s, 1, a)
      BY <1>4, <2>1, <2>2, <2>5
    <3>3. a \in 0 .. Len(s)
      BY <3>2
    <3> QED BY <2>3, <3>1, <3>2, <3>3
  <2>6. a = 0 \/ a > 0
    BY <1>1
  <2> QED BY <2>4, <2>5, <2>6
<1>6. ASSUME phase[p] = "reading", NEW part,
             scan' = [scan EXCEPT ![p].begun = Piece(Head(Ahead(p)).entry, part)], index' = index
      PROVE  \E n \in 0 .. Len(s) : index'[p] = SubSeq(s, 1, n) /\ (phase'[p] = "reading" => n = Behind(p)')
  <2>1. scan'[p].at = a /\ scan'[p].spliced = scan[p].spliced
    BY <1>0, <1>6 DEF ScanTypes
  <2>2. Behind(p)' = Behind(p)
    BY <2>1 DEF Behind
  <2> QED BY <1>3, <1>6, <2>1, <2>2
<1>7. CASE ReadPart(p)
  BY <1>6, <1>7 DEF ReadPart
<1>8. CASE ReadSplice(p)
  <2>1. ~\E k \in DOMAIN Ahead(p) :
          scan' = [scan EXCEPT ![p] = [at |-> @.at + k, begun |-> NoLine, spliced |-> TRUE]]
    BY DEF ScanTypes
  <2>2. /\ phase[p] = "reading" /\ index' = index
        /\ scan' = [scan EXCEPT ![p].begun = Piece(Head(Ahead(p)).entry, "torn")]
    BY <1>8, <2>1 DEF ReadSplice
  <2> QED BY <1>6, <2>2
<1>9. CASE ReadEnd(p)
  <2>1. /\ phase[p] = "reading" /\ AtEOF(p) /\ phase'[p] = "reader"
        /\ scan' = [scan EXCEPT ![p] = [Start EXCEPT !.spliced = scan[p].spliced \/ (LastParses(p) /\ Overtaken(p))]]
        /\ IF LastParses(p) THEN Takes(p, scan[p].begun.entry) ELSE index' = index
    BY <1>0, <1>9 DEF ReadEnd, Enter
  <2>2. ~scan[p].spliced /\ ~(LastParses(p) /\ Overtaken(p))
    BY <2>1 DEF ScanTypes, Start
  <2>3. CASE index' = index
    BY <1>3, <2>1, <2>2, <2>3
  <2>4. CASE LastParses(p) /\ a > 0
    <3>1. scan[p].begun.part = "bare" /\ scan[p].begun # NoLine
      BY <2>4 DEF LastParses, NoLine, Piece
    <3>2. Ahead(p) # <<>> /\ Head(Ahead(p)) = scan[p].begun
      BY <2>1, <2>2, <2>4, <3>1 DEF AtEOF, Overtaken
    <3>3. index'[p] = Append(index[p], Head(Ahead(p)).entry)
      BY <1>0, <2>1, <2>4, <3>2 DEF Takes, Index
    <3>4. a \in 1 .. Len(s) /\ Append(index[p], Head(Ahead(p)).entry) = SubSeq(s, 1, a)
      BY <1>4, <2>1, <2>2, <2>4, <3>1, <3>2
    <3>5. a \in 0 .. Len(s)
      BY <3>4
    <3> QED BY <2>1, <3>3, <3>4, <3>5
  <2>5. index' = index \/ (LastParses(p) /\ a > 0)
    <3>1. index' = index \/ (LastParses(p) /\ Takes(p, scan[p].begun.entry))
      BY <2>1
    <3>2. a = 0 \/ a > 0
      BY <1>1
    <3>3. Takes(p, scan[p].begun.entry) => index' = index \/ a # 0
      BY DEF Takes
    <3> QED BY <3>1, <3>2, <3>3
  <2> QED BY <2>3, <2>4, <2>5
<1>10. OpenReadOnly(p) \/ ReadLine(p) \/ ReadPart(p) \/ ReadSplice(p) \/ ReadEnd(p)
  BY DEF Reads
<1> QED BY <1>2, <1>5, <1>7, <1>8, <1>9, <1>10

\* Where nothing but crashes goes wrong, what a read-only open shows, and has
\* read so far while it reads on without a lock, is the beginning of what any
\* later open finds: whatever writers append, or cut off and repair, between
\* any two of its reads.  The one exception is a reader that had begun a line
\* which a repair cut off and has joined it to later bytes.
THEOREM ReadersSeeThePast ==
  ASSUME OnlyCrashes
  PROVE  Spec => []ReaderSeesPast
<1>1. Init => ReaderInv
  BY DEF Init, ReaderInv
<1>2. LockInv /\ DiskInv /\ ScanTypes /\ CrashInv /\ ScanProper /\ LogSound' /\ ReaderInv /\ [Next]_vars
      => ReaderInv'
  <2> SUFFICES ASSUME LockInv, DiskInv, ScanTypes, CrashInv, ScanProper, LogSound', ReaderInv, [Next]_vars
               PROVE  ReaderInv'
    OBVIOUS
  <2>1. CASE UNCHANGED vars
    BY <2>1 DEF vars, ReaderInv, SessionLogNow, Behind
  <2>2. CASE PowerLoss
    BY <2>2 DEF PowerLoss, ReaderInv
  <2>3. ASSUME NEW p \in Procs, Step(p) PROVE ReaderInv'
    <3> DEFINE s == SessionLogNow
               t == SessionLogNow'
    <3>1. /\ \A q \in Procs \ {p} : phase'[q] = phase[q] /\ index'[q] = index[q] /\ scan'[q] = scan[q]
          /\ phase'[p] \in {"reading", "reader"} => OpenReadOnly(p) \/ Reads(p)
      BY <2>3, ReadersStay
    <3>2. PICK m \in 0 .. Len(t) : s = SubSeq(t, 1, m)
      BY <2>3, StepKeepsCrash DEF Grows
    <3>3. t \in Seq(Proper)
      BY DEF LogSound
    <3>4. OpenReadOnly(p) \/ Reads(p) => t = s
      <4>1. OpenReadOnly(p) \/ Reads(p) => UNCHANGED <<path, content>>
        BY ReadSteps DEF OpenReadOnly, disk
      <4> QED BY <4>1 DEF SessionLogNow
    <3>5. ASSUME phase'[p] \in {"reading", "reader"}, ~scan'[p].spliced
          PROVE  \E n \in 0 .. Len(t) : index'[p] = SubSeq(t, 1, n) /\ (phase'[p] = "reading" => n = Behind(p)')
      <4>1. \E n \in 0 .. Len(s) : index'[p] = SubSeq(s, 1, n) /\ (phase'[p] = "reading" => n = Behind(p)')
        BY <3>1, <3>5, ReadsOn
      <4> HIDE DEF s, t
      <4> QED BY <3>1, <3>4, <3>5, <4>1
    <3>6. ASSUME NEW q \in Procs, q # p, phase'[q] \in {"reading", "reader"}, ~scan'[q].spliced
          PROVE  \E n \in 0 .. Len(t) : index'[q] = SubSeq(t, 1, n) /\ (phase'[q] = "reading" => n = Behind(q)')
      <4>1. PICK n \in 0 .. Len(s) : index[q] = SubSeq(s, 1, n) /\ (phase[q] = "reading" => n = Behind(q))
        BY <3>1, <3>6 DEF ReaderInv
      <4>2. Behind(q)' = Behind(q)
        BY <3>1, <3>6 DEF Behind
      <4> HIDE DEF s, t
      <4>3. Len(s) = m /\ Len(t) \in Nat
        BY <3>2, <3>3, PrefixCuts, LenProperties
      <4>4. n \in 0 .. m /\ n \in 0 .. Len(t)
        BY <4>1, <4>3, <3>2
      <4>5. SubSeq(SubSeq(t, 1, m), 1, n) = SubSeq(t, 1, n)
        BY <4>4, <3>2, <3>3, PrefixOfPrefix
      <4> QED BY <3>1, <3>2, <3>6, <4>1, <4>2, <4>4, <4>5
    <3> QED BY <3>5, <3>6 DEF ReaderInv
  <2> QED BY <2>1, <2>2, <2>3 DEF Next
<1>3. LogSound /\ ReaderInv => ReaderSeesPast
  <2> SUFFICES ASSUME LogSound, ReaderInv, NEW p \in Procs,
                      phase[p] \in {"reading", "reader"}, ~scan[p].spliced
               PROVE  /\ Len(index[p]) <= Len(SessionLogNow)
                      /\ index[p] = SubSeq(SessionLogNow, 1, Len(index[p]))
    BY DEF ReaderSeesPast
  <2> DEFINE s == SessionLogNow
  <2>1. s \in Seq(Proper)
    BY DEF LogSound
  <2>2. PICK n \in 0 .. Len(s) : index[p] = SubSeq(s, 1, n)
    BY DEF ReaderInv
  <2> HIDE DEF s
  <2>3. Len(s) \in Nat /\ Len(SubSeq(s, 1, n)) = n
    BY <2>1, <2>2, PrefixCuts, LenProperties
  <2>4. Len(index[p]) = n /\ n <= Len(s)
    BY <2>2, <2>3
  <2>5. Len(index[p]) <= Len(s) /\ index[p] = SubSeq(s, 1, Len(index[p]))
    BY <2>2, <2>4
  <2> QED BY <2>5 DEF s
<1> QED BY <1>1, <1>2, <1>3, LogStaysSound, PTL DEF Spec
=============================================================================
