----------------------------- MODULE Turn_proofs -----------------------------
(***************************************************************************)
(* What the parts of a turn promise: the tools about files and output, and *)
(* compaction about the conversation.                                      *)
(*                                                                         *)
(* On file systems without links no edit is lost, for any number of calls, *)
(* paths and files.  An entry of the lock table counts its users exactly,  *)
(* so it leaves the table only when nobody waits for it or holds it, and   *)
(* all users of a key share the entry that is in the table.                *)
(*                                                                         *)
(* bash_output passes over no output in silence, for any size of a result  *)
(* and any failure of the spill file: memory has the end of the output,    *)
(* all of it or more than a result shows; a file has the beginning.        *)
(*                                                                         *)
(* No change of a file escapes the working set, for any number of calls,   *)
(* changes and restarts: a stamp is about a text the agent has seen, and   *)
(* about a time that was the file's when it had that text, or is past.     *)
(*                                                                         *)
(* No compaction loses what no summary covers or parts a result from its   *)
(* call, for any path, estimate and order of compactions: a cut is known   *)
(* by what is before it and by the message it resumes with, and stays one  *)
(* while the path grows.                                                   *)
(*                                                                         *)
(* A turn returns what it has shown, for any answer, channel and number of *)
(* retries: each event takes the reader from the Partial of the event      *)
(* before it to its own, and the last one has all that the tracker has.    *)
(*                                                                         *)
(* Edits of a file whose lines end alike come out in their places, for any *)
(* such file and edits: applied from the back, each leaves what is before  *)
(* it, and so the places of the edits still to come, as they were; and     *)
(* what is taken from the lines' ends is what is put back.                 *)
(***************************************************************************)
EXTENDS FileMutation, Jobs, WorkingSet, Compaction, ModelStream, EditText, FiniteSets, FiniteSetTheorems, SequenceTheorems, TLAPS

\* A file system without links: mutKey is then the path itself.
Plain == [Paths -> {Missing} \cup {File(text) : text \in Seq(Ops)}]

Using == {"waiting", "locked", "read", "ends", "unlocked"}
Holding == {"locked", "read", "ends"}
States == {"none", "keyed", "done"} \cup Using

\* The calls that wait for entry e or hold it.
Users(e) == {c \in Ops : op[c].entry = e}

CallType == [st : States, how : {"write", "edit"}, path : Paths \cup {""}, key : Paths \cup {""},
             entry : Ops \cup {0}, base : Seq(Ops)]

Types ==
  /\ disk \in Plain
  /\ op \in [Ops -> CallType]
  /\ locks \in [Paths -> Ops \cup {0}]
  /\ refs \in [Ops -> Nat]
  /\ holder \in [Ops -> Ops \cup {0}]

\* A call knows its key once it is called, and its entry while it uses it.
Keyed == \A c \in Ops : /\ op[c].st # "none" => op[c].path \in Paths /\ op[c].key = op[c].path
                        /\ op[c].entry # 0 <=> op[c].st \in Using

\* mutEntry.refs is the number of its users.
Counted == \A e \in Ops : IsFiniteSet(Users(e)) /\ refs[e] = Cardinality(Users(e))

\* Who uses an entry finds it in the table, under its own key.
InTable == \A c \in Ops : op[c].entry # 0 => locks[op[c].key] = op[c].entry

\* Who is past Acquire holds the mutex of its entry.
Held == \A c \in Ops : op[c].st \in Holding => holder[op[c].entry] = c

\* Inductive: the lock table, and what the locks protect.
LockInv == Types /\ Keyed /\ Counted /\ InTable /\ Held /\ NoLostEdit
----------------------------------------------------------------------------
\* Without links a path is its own key, and a file at it has a text.
LEMMA PlainPaths ==
  ASSUME Types, NEW p \in Paths
  PROVE  /\ Real(p) = p /\ mutKey(p) = p
         /\ disk[p].kind = "file" => disk[p].text \in Seq(Ops) /\ disk[p] = File(disk[p].text)
<1>1. disk[p] \in {Missing} \cup {File(text) : text \in Seq(Ops)}
  BY DEF Types, Plain
<1>2. CASE disk[p] = Missing
  BY <1>2 DEF Missing, Real, mutKey
<1>3. CASE disk[p] \in {File(text) : text \in Seq(Ops)}
  <2>1. PICK text \in Seq(Ops) : disk[p] = File(text)
    BY <1>3
  <2> QED
    BY <2>1 DEF File, Real, mutKey
<1> QED
  BY <1>1, <1>2, <1>3

\* A call starts as a call.
LEMMA CalledType == Called \in CallType
  BY DEF Called, CallType, States

\* An empty lock table, and no call.
LEMMA LockInvInit == ASSUME Disks \subseteq Plain, MutInit PROVE LockInv
<1>1. Types
  BY CalledType DEF MutInit, Types
<1>2. Keyed /\ InTable /\ Held /\ NoLostEdit
  BY OpsAssumption DEF MutInit, Keyed, InTable, Held, NoLostEdit, Using, Holding, Called
<1>3. \A e \in Ops : Users(e) = {}
  BY OpsAssumption DEF MutInit, Users, Called
<1>4. Counted
  BY <1>3, FS_EmptySet DEF MutInit, Counted
<1> QED
  BY <1>1, <1>2, <1>4 DEF LockInv

\* Users are counted: steps that change nobody's entry keep the count ...
LEMMA SameUsers ==
  ASSUME Counted, UNCHANGED refs, \A c \in Ops : op'[c].entry = op[c].entry
  PROVE  Counted'
<1>1. \A e \in Ops : Users(e)' = Users(e)
  BY DEF Users
<1> QED
  BY <1>1 DEF Counted

\* ... Register adds one user to one entry ...
LEMMA OneMoreUser ==
  ASSUME Types, Counted, NEW c \in Ops, NEW e \in Ops, op[c].entry = 0,
         refs' = [refs EXCEPT ![e] = @ + 1],
         op'[c].entry = e, \A d \in Ops \ {c} : op'[d].entry = op[d].entry
  PROVE  Counted'
<1>0. 0 \notin Ops
  BY OpsAssumption
<1>1. Users(e)' = Users(e) \cup {c} /\ c \notin Users(e)
  BY <1>0 DEF Users
<1>2. \A f \in Ops \ {e} : Users(f)' = Users(f)
  BY <1>0 DEF Users
<1>3. IsFiniteSet(Users(e)') /\ Cardinality(Users(e)') = refs[e] + 1
  BY <1>1, FS_AddElement DEF Counted
<1> QED
  BY <1>2, <1>3 DEF Counted, Types

\* ... and Release takes one away.
LEMMA OneUserLess ==
  ASSUME Types, Counted, NEW c \in Ops, NEW e \in Ops, op[c].entry = e,
         refs' = [refs EXCEPT ![e] = @ - 1],
         op'[c].entry = 0, \A d \in Ops \ {c} : op'[d].entry = op[d].entry
  PROVE  /\ Counted'
         /\ refs' \in [Ops -> Nat]
         /\ refs[e] = 1 => \A d \in Ops \ {c} : op[d].entry # e
<1>0. 0 \notin Ops
  BY OpsAssumption
<1>1. Users(e)' = Users(e) \ {c} /\ c \in Users(e)
  BY <1>0 DEF Users
<1>2. \A f \in Ops \ {e} : Users(f)' = Users(f)
  BY <1>0 DEF Users
<1>3. IsFiniteSet(Users(e)') /\ Cardinality(Users(e)') = refs[e] - 1
  BY <1>1, FS_RemoveElement DEF Counted
<1>4. refs[e] - 1 \in Nat
  BY <1>3, FS_CardinalityType
<1>5. Counted' /\ refs' \in [Ops -> Nat]
  BY <1>2, <1>3, <1>4 DEF Counted, Types
<1>6. ASSUME refs[e] = 1, NEW d \in Ops \ {c} PROVE op[d].entry # e
  <2>1. \E x : Users(e) = {x}
    BY <1>6, FS_Singleton DEF Counted
  <2> QED
    BY <1>1, <2>1 DEF Users
<1> QED
  BY <1>5, <1>6

\* A step that moves one call on, of the same path, key and entry, and
\* touches no lock.
LEMMA CallMoves ==
  ASSUME LockInv, NEW c \in Ops, NEW call \in CallType,
         op' = [op EXCEPT ![c] = call],
         call.path = op[c].path, call.key = op[c].key, call.entry = op[c].entry,
         call.st # "none", op[c].st # "none",
         call.st \in Using <=> op[c].st \in Using,
         call.st \in Holding => holder[op[c].entry] = c,
         UNCHANGED <<locks, refs, holder>>, disk' \in Plain
  PROVE  (Types /\ Keyed /\ Counted /\ InTable /\ Held)'
<1>1. Types'
  BY DEF LockInv, Types
<1>2. op'[c] = call /\ \A d \in Ops \ {c} : op'[d] = op[d]
  BY DEF LockInv, Types
<1>3. Keyed' /\ InTable' /\ Held'
  BY <1>2 DEF LockInv, Keyed, InTable, Held
<1>4. Counted'
  BY <1>2, SameUsers DEF LockInv
<1> QED
  BY <1>1, <1>3, <1>4

\* Two calls of one path that hold their entries are one call.
LEMMA OneHolder ==
  ASSUME LockInv, NEW c \in Ops, NEW d \in Ops, op[c].st \in Holding, op[d].st \in Holding,
         op[c].path = op[d].path
  PROVE  c = d
<1>1. op[c].key = op[d].key
  BY DEF LockInv, Keyed, Holding
<1>2. op[c].entry # 0 /\ op[d].entry # 0
  BY DEF LockInv, Keyed, Holding, Using
<1>3. op[c].entry = op[d].entry
  BY <1>1, <1>2 DEF LockInv, InTable
<1> QED
  BY <1>3 DEF LockInv, Held

\* Where the disk stays as it is and no call begins to be past its read, no
\* edit is lost.
LEMMA ReadersStay ==
  ASSUME LockInv, UNCHANGED disk,
         \A d \in Ops : op'[d].st = "read" /\ op'[d].how = "edit" =>
           op[d].st = "read" /\ op[d].how = "edit" /\ op'[d].path = op[d].path /\ op'[d].base = op[d].base
  PROVE  NoLostEdit'
<1>1. \A p : Real(p)' = Real(p)
  BY DEF Real
<1> QED
  BY <1>1 DEF LockInv, NoLostEdit

----------------------------------------------------------------------------
\* A call takes its key.
LEMMA CallKeeps == ASSUME LockInv, NEW c \in Ops, NEW how \in {"write", "edit"}, NEW p \in Paths, Call(c, how, p)
                   PROVE  LockInv'
<1> DEFINE call == [Called EXCEPT !.st = "keyed", !.how = how, !.path = p, !.key = mutKey(p)]
<1>1. mutKey(p) = p
  BY PlainPaths DEF LockInv
<1>2. /\ call \in CallType /\ call.st = "keyed" /\ call.path = p /\ call.key = p /\ call.entry = 0
  <2>1. Called.entry = 0
    BY DEF Called
  <2> QED
    BY <1>1, <2>1, CalledType DEF CallType, States
<1>3. op' = [op EXCEPT ![c] = call] /\ UNCHANGED <<disk, locks, refs, holder>> /\ op[c].st = "none"
  BY DEF Call
<1> HIDE DEF call
<1>4. op'[c] = call /\ (\A d \in Ops \ {c} : op'[d] = op[d]) /\ Types'
  BY <1>2, <1>3 DEF LockInv, Types
<1>5. op[c].entry = 0
  BY <1>3 DEF LockInv, Keyed, Using
<1>6. Keyed' /\ InTable' /\ Held'
  BY <1>2, <1>3, <1>4 DEF LockInv, Keyed, InTable, Held, Using, Holding
<1>7. Counted'
  BY <1>2, <1>3, <1>4, <1>5, SameUsers DEF LockInv
<1>8. NoLostEdit'
  BY <1>2, <1>3, <1>4, ReadersStay
<1> QED
  BY <1>4, <1>6, <1>7, <1>8 DEF LockInv

\* A call takes the entry of its key, or makes one: one user more.
LEMMA RegisterKeeps == ASSUME LockInv, NEW c \in Ops, Register(c) PROVE LockInv'
<1> DEFINE k == op[c].key
           e == IF locks[k] # 0 THEN locks[k] ELSE c
           call == [op[c] EXCEPT !.st = "waiting", !.entry = e]
<1>1. k \in Paths /\ op[c].entry = 0 /\ op[c].st = "keyed" /\ k = op[c].path
  BY DEF Register, LockInv, Keyed, Using
<1>2. e \in Ops /\ 0 \notin Ops
  BY <1>1, OpsAssumption DEF LockInv, Types
<1>3. /\ locks' = [locks EXCEPT ![k] = e]
      /\ refs' = [refs EXCEPT ![e] = @ + 1]
      /\ op' = [op EXCEPT ![c] = call]
      /\ UNCHANGED <<disk, holder>>
  BY DEF Register, LockInv, Types
<1>4. /\ call \in CallType /\ call.st = "waiting" /\ call.entry = e /\ call.key = k /\ call.path = op[c].path
  <2>1. op[c] \in CallType
    BY DEF LockInv, Types
  <2>2. "waiting" \in States /\ e \in Ops \cup {0}
    BY <1>2 DEF States, Using
  <2> HIDE DEF e
  <2> QED
    BY <2>1, <2>2 DEF CallType
<1>5. \A d \in Ops \ {c} : op[d].entry # 0 /\ op[d].key = k => op[d].entry = e
  BY DEF LockInv, InTable
<1> HIDE DEF call, e
<1>6. op'[c] = call /\ (\A d \in Ops \ {c} : op'[d] = op[d])
  BY <1>3, <1>4 DEF LockInv, Types
<1>7. Types'
  BY <1>1, <1>2, <1>3, <1>4 DEF LockInv, Types
<1>8. Keyed' /\ Held'
  BY <1>1, <1>2, <1>3, <1>4, <1>6 DEF LockInv, Keyed, Held, Using, Holding
<1>9. InTable'
  <2> SUFFICES ASSUME NEW d \in Ops, op'[d].entry # 0 PROVE locks'[op'[d].key] = op'[d].entry
    BY DEF InTable
  <2>1. CASE d = c
    BY <2>1, <1>1, <1>3, <1>4, <1>6 DEF LockInv, Types
  <2>2. CASE d # c
    <3>1. op'[d] = op[d] /\ locks[op[d].key] = op[d].entry /\ op[d].key \in Paths
      BY <2>2, <1>6 DEF LockInv, InTable, Keyed, Using
    <3> QED
      BY <3>1, <2>2, <1>3, <1>5 DEF LockInv, Types
  <2> QED
    BY <2>1, <2>2
<1>10. Counted'
  BY <1>1, <1>2, <1>3, <1>4, <1>6, OneMoreUser DEF LockInv
<1>11. NoLostEdit'
  BY <1>3, <1>4, <1>6, ReadersStay
<1> QED
  BY <1>7, <1>8, <1>9, <1>10, <1>11 DEF LockInv

\* A call gets the mutex of its entry.
LEMMA AcquireKeeps == ASSUME LockInv, NEW c \in Ops, Acquire(c) PROVE LockInv'
<1> DEFINE e == op[c].entry
           call == [op[c] EXCEPT !.st = "locked"]
<1>1. op[c].st = "waiting" /\ e \in Ops /\ holder[e] = 0 /\ 0 \notin Ops
  BY OpsAssumption DEF Acquire, LockInv, Types, CallType, Keyed, Using
<1>2. /\ call \in CallType /\ call.st = "locked" /\ call.entry = e /\ call.key = op[c].key /\ call.path = op[c].path
  BY DEF LockInv, Types, CallType, States, Using
<1>3. op' = [op EXCEPT ![c] = call] /\ holder' = [holder EXCEPT ![e] = c] /\ UNCHANGED <<disk, locks, refs>>
  BY DEF Acquire, LockInv, Types
<1> HIDE DEF call, e
<1>4. op'[c] = call /\ (\A d \in Ops \ {c} : op'[d] = op[d])
  BY <1>2, <1>3 DEF LockInv, Types
<1>5. Types'
  BY <1>1, <1>2, <1>3 DEF LockInv, Types
<1>6. Keyed' /\ InTable'
  BY <1>1, <1>2, <1>3, <1>4 DEF LockInv, Keyed, InTable, Using, e
<1>7. Held'
  <2> SUFFICES ASSUME NEW d \in Ops, op'[d].st \in Holding PROVE holder'[op'[d].entry] = d
    BY DEF Held
  <2>1. CASE d = c
    BY <2>1, <1>1, <1>2, <1>3, <1>4 DEF LockInv, Types
  <2>2. CASE d # c
    <3>1. op'[d] = op[d] /\ holder[op[d].entry] = d
      BY <2>2, <1>4 DEF LockInv, Held
    <3>2. op[d].entry # e
      BY <3>1, <1>1
    <3> QED
      BY <3>1, <3>2, <1>3 DEF LockInv, Types
  <2> QED
    BY <2>1, <2>2
<1>8. Counted'
  BY <1>2, <1>3, <1>4, SameUsers DEF LockInv, e
<1>9. NoLostEdit'
  BY <1>2, <1>3, <1>4, ReadersStay
<1> QED
  BY <1>5, <1>6, <1>7, <1>8, <1>9 DEF LockInv

\* An edit reads the text under the lock; nobody else writes it until it is done.
LEMMA ReadKeeps == ASSUME LockInv, NEW c \in Ops, Read(c) PROVE LockInv'
<1>1. /\ op[c].st = "locked" /\ op[c].path \in Paths /\ holder[op[c].entry] = c
      /\ Real(op[c].path) = op[c].path
      /\ UNCHANGED <<disk, locks, refs, holder>>
  BY PlainPaths DEF Read, LockInv, Keyed, Held, Holding
<1>2. PICK call \in CallType :
        /\ op' = [op EXCEPT ![c] = call]
        /\ call.path = op[c].path /\ call.key = op[c].key /\ call.entry = op[c].entry
        /\ call.st \in {"read", "ends"}
        /\ call.st = "read" /\ call.how = "edit" => disk[op[c].path] = File(call.base)
  <2>1. CASE op[c].how = "edit" /\ disk[op[c].path].kind = "file"
             /\ op' = [op EXCEPT ![c].st = "read", ![c].base = disk[Real(op[c].path)].text]
    <3> DEFINE text == disk[op[c].path].text
               call == [op[c] EXCEPT !.st = "read", !.base = text]
    <3>1. text \in Seq(Ops) /\ disk[op[c].path] = File(text)
      BY <1>1, <2>1, PlainPaths DEF LockInv
    <3>2. op' = [op EXCEPT ![c] = call]
      BY <1>1, <2>1 DEF LockInv, Types
    <3> HIDE DEF text
    <3>3. /\ call \in CallType /\ call.st = "read" /\ call.base = text
          /\ call.path = op[c].path /\ call.key = op[c].key /\ call.entry = op[c].entry
      <4>1. op[c] \in CallType /\ "read" \in States
        BY DEF LockInv, Types, States, Using
      <4> QED
        BY <3>1, <4>1 DEF CallType
    <3> QED
      BY <3>1, <3>2, <3>3
  <2>2. CASE op' = [op EXCEPT ![c].st = "ends"]
    <3> DEFINE call == [op[c] EXCEPT !.st = "ends"]
    <3>1. op' = [op EXCEPT ![c] = call]
      BY <2>2 DEF LockInv, Types
    <3>2. /\ call \in CallType /\ call.st = "ends"
          /\ call.path = op[c].path /\ call.key = op[c].key /\ call.entry = op[c].entry
      BY DEF LockInv, Types, CallType, States, Using
    <3> QED
      BY <3>1, <3>2
  <2>3. CASE op[c].how = "write" /\ op' = [op EXCEPT ![c].st = "read"]
    <3> DEFINE call == [op[c] EXCEPT !.st = "read"]
    <3>1. op' = [op EXCEPT ![c] = call]
      BY <2>3 DEF LockInv, Types
    <3>2. /\ call \in CallType /\ call.st = "read" /\ call.how = "write"
          /\ call.path = op[c].path /\ call.key = op[c].key /\ call.entry = op[c].entry
      BY <2>3 DEF LockInv, Types, CallType, States, Using
    <3> QED
      BY <3>1, <3>2
  <2> QED
    BY <1>1, <2>1, <2>2, <2>3 DEF Read
<1>4. op'[c] = call /\ \A d \in Ops \ {c} : op'[d] = op[d]
  BY <1>2 DEF LockInv, Types
<1>5. (Types /\ Keyed /\ Counted /\ InTable /\ Held)'
  BY <1>1, <1>2, CallMoves DEF LockInv, Types, Using, Holding
<1>6. NoLostEdit'
  <2> SUFFICES ASSUME NEW d \in Ops
               PROVE  (op[d].st = "read" /\ op[d].how = "edit" => disk[Real(op[d].path)] = File(op[d].base))'
    BY DEF NoLostEdit
  <2>1. CASE d = c
    BY <2>1, <1>1, <1>2, <1>4 DEF Real
  <2>2. CASE d # c
    BY <2>2, <1>1, <1>4 DEF LockInv, NoLostEdit, Real
  <2> QED
    BY <2>1, <2>2
<1> QED
  BY <1>5, <1>6 DEF LockInv

\* What AtomicWrite writes is a file without links, and no other call is
\* between its read and its write of that path.
LEMMA AtomicWriteKeeps == ASSUME LockInv, NEW c \in Ops, AtomicWrite(c) PROVE LockInv'
<1> DEFINE p == op[c].path
           text == Append(op[c].base, c)
           call == [op[c] EXCEPT !.st = "ends", !.base = <<>>]
<1>1. /\ op[c].st = "read" /\ p \in Paths /\ holder[op[c].entry] = c
      /\ disk' = [disk EXCEPT ![p] = File(text)]
      /\ UNCHANGED <<locks, refs, holder>>
  BY DEF AtomicWrite, LockInv, Keyed, Held, Holding
<1>2. text \in Seq(Ops)
  <2>1. op[c] \in CallType
    BY DEF LockInv, Types
  <2>2. op[c].base \in Seq(Ops)
    BY <2>1 DEF CallType
  <2> QED
    BY <2>2
<1>3. op' = [op EXCEPT ![c] = call]
  BY DEF AtomicWrite, LockInv, Types
<1>4. /\ call \in CallType /\ call.st = "ends"
      /\ call.path = op[c].path /\ call.key = op[c].key /\ call.entry = op[c].entry
  <2>1. op[c] \in CallType
    BY DEF LockInv, Types
  <2>2. <<>> \in Seq(Ops)
    OBVIOUS
  <2> QED
    BY <2>1, <2>2 DEF CallType, States, Using
<1> HIDE DEF call, text
<1>5. disk' \in Plain
  BY <1>1, <1>2 DEF LockInv, Types, Plain
<1>6. op'[c] = call /\ \A d \in Ops \ {c} : op'[d] = op[d]
  BY <1>3, <1>4 DEF LockInv, Types
<1>7. (Types /\ Keyed /\ Counted /\ InTable /\ Held)'
  BY <1>1, <1>3, <1>4, <1>5, CallMoves DEF Using, Holding
<1>8. NoLostEdit'
  <2> SUFFICES ASSUME NEW d \in Ops, op'[d].st = "read", op'[d].how = "edit"
               PROVE  (disk[Real(op[d].path)] = File(op[d].base))'
    BY DEF NoLostEdit
  <2>1. d # c /\ op'[d] = op[d] /\ op[d].path \in Paths
    BY <1>4, <1>6 DEF LockInv, Keyed
  <2>2. op[d].path # p
    BY <2>1, <1>1, OneHolder DEF Holding
  <2>3. disk'[op[d].path] = disk[op[d].path]
    BY <2>1, <2>2, <1>1 DEF LockInv, Types, Plain
  <2>4. disk[op[d].path] = File(op[d].base)
    BY <2>1, PlainPaths DEF LockInv, NoLostEdit
  <2>5. disk'[op'[d].path] = File(op'[d].base)
    BY <2>1, <2>3, <2>4
  <2> QED
    BY <2>5 DEF Real, File
<1> QED
  BY <1>7, <1>8 DEF LockInv

\* A write that fails leaves the file as it was.
LEMMA AtomicWriteFailsKeeps == ASSUME LockInv, NEW c \in Ops, AtomicWriteFails(c) PROVE LockInv'
<1> DEFINE call == [op[c] EXCEPT !.st = "ends", !.base = <<>>]
<1>1. /\ op[c].st = "read" /\ holder[op[c].entry] = c
      /\ op' = [op EXCEPT ![c] = call]
      /\ UNCHANGED <<disk, locks, refs, holder>>
  BY DEF AtomicWriteFails, LockInv, Types, Held, Holding
<1>2. /\ call \in CallType /\ call.st = "ends"
      /\ call.path = op[c].path /\ call.key = op[c].key /\ call.entry = op[c].entry
  <2>1. op[c] \in CallType
    BY DEF LockInv, Types
  <2>2. <<>> \in Seq(Ops)
    OBVIOUS
  <2> QED
    BY <2>1, <2>2 DEF CallType, States, Using
<1> HIDE DEF call
<1>3. op'[c] = call /\ \A d \in Ops \ {c} : op'[d] = op[d]
  BY <1>1, <1>2 DEF LockInv, Types
<1>4. (Types /\ Keyed /\ Counted /\ InTable /\ Held)'
  BY <1>1, <1>2, CallMoves DEF LockInv, Types, Using, Holding
<1>5. NoLostEdit'
  BY <1>1, <1>2, <1>3, ReadersStay
<1> QED
  BY <1>4, <1>5 DEF LockInv

\* A call lets go of the mutex, and is no reader any more.
LEMMA UnlockKeeps == ASSUME LockInv, NEW c \in Ops, Unlock(c) PROVE LockInv'
<1> DEFINE e == op[c].entry
           call == [op[c] EXCEPT !.st = "unlocked"]
<1>1. op[c].st = "ends" /\ e \in Ops /\ holder[e] = c /\ 0 \notin Ops
  BY OpsAssumption DEF Unlock, LockInv, Types, CallType, Keyed, Held, Using, Holding
<1>2. /\ call \in CallType /\ call.st = "unlocked" /\ call.entry = e /\ call.key = op[c].key /\ call.path = op[c].path
  BY DEF LockInv, Types, CallType, States, Using
<1>3. op' = [op EXCEPT ![c] = call] /\ holder' = [holder EXCEPT ![e] = 0] /\ UNCHANGED <<disk, locks, refs>>
  BY DEF Unlock, LockInv, Types
<1> HIDE DEF call, e
<1>4. op'[c] = call /\ (\A d \in Ops \ {c} : op'[d] = op[d])
  BY <1>2, <1>3 DEF LockInv, Types
<1>5. Types'
  BY <1>1, <1>2, <1>3 DEF LockInv, Types
<1>6. Keyed' /\ InTable'
  BY <1>1, <1>2, <1>3, <1>4 DEF LockInv, Keyed, InTable, Using, e
<1>7. Held'
  <2> SUFFICES ASSUME NEW d \in Ops, op'[d].st \in Holding PROVE holder'[op'[d].entry] = d
    BY DEF Held
  <2>1. d # c /\ op'[d] = op[d] /\ holder[op[d].entry] = d
    BY <1>2, <1>4 DEF LockInv, Held, Holding
  <2> QED
    BY <2>1, <1>1, <1>3 DEF LockInv, Types
<1>8. Counted'
  BY <1>2, <1>3, <1>4, SameUsers DEF LockInv, e
<1>9. NoLostEdit'
  BY <1>2, <1>3, <1>4, ReadersStay
<1> QED
  BY <1>5, <1>6, <1>7, <1>8, <1>9 DEF LockInv

\* An entry leaves the table only when nobody else uses it.
LEMMA ReleaseKeeps == ASSUME LockInv, NEW c \in Ops, Release(c) PROVE LockInv'
<1> DEFINE e == op[c].entry
           k == op[c].key
           call == [op[c] EXCEPT !.st = "done", !.entry = 0]
<1>1. op[c].st = "unlocked" /\ e \in Ops /\ k \in Paths /\ 0 \notin Ops /\ locks[k] = e
  BY OpsAssumption DEF Release, LockInv, Types, CallType, Keyed, InTable, Using
<1>2. /\ call \in CallType /\ call.st = "done" /\ call.entry = 0 /\ call.key = k /\ call.path = op[c].path
  BY DEF LockInv, Types, CallType, States
<1>3. /\ op' = [op EXCEPT ![c] = call] /\ UNCHANGED <<disk, holder>>
      /\ refs' = [refs EXCEPT ![e] = @ - 1]
      /\ locks' = IF refs[e] = 1 THEN [locks EXCEPT ![k] = 0] ELSE locks
  BY DEF Release, Unused, LockInv, Types
<1> HIDE DEF call
<1>4. op'[c] = call /\ (\A d \in Ops \ {c} : op'[d] = op[d])
  BY <1>2, <1>3 DEF LockInv, Types
<1>5. /\ Counted' /\ refs' \in [Ops -> Nat]
      /\ refs[e] = 1 => \A d \in Ops \ {c} : op[d].entry # e
  BY <1>1, <1>2, <1>3, <1>4, OneUserLess DEF LockInv
<1> HIDE DEF e, k
<1>6. Types'
  BY <1>1, <1>2, <1>3, <1>5 DEF LockInv, Types
<1>7. Keyed' /\ Held'
  BY <1>1, <1>2, <1>3, <1>4 DEF LockInv, Keyed, Held, Using, Holding, k
<1>8. InTable'
  <2> SUFFICES ASSUME NEW d \in Ops, op'[d].entry # 0 PROVE locks'[op'[d].key] = op'[d].entry
    BY DEF InTable
  <2>1. d # c /\ op'[d] = op[d] /\ locks[op[d].key] = op[d].entry /\ op[d].key \in Paths
    BY <1>2, <1>4 DEF LockInv, InTable, Keyed, Using
  <2>2. refs[e] = 1 => op[d].key # k
    BY <2>1, <1>1, <1>5
  <2> QED
    BY <2>1, <2>2, <1>3 DEF LockInv, Types
<1>9. NoLostEdit'
  BY <1>2, <1>3, <1>4, ReadersStay
<1> QED
  BY <1>5, <1>6, <1>7, <1>8, <1>9 DEF LockInv
----------------------------------------------------------------------------
\* Every step of the tools keeps the lock table.
LEMMA LockInvNext == ASSUME LockInv, [MutNext]_mutVars PROVE LockInv'
<1>1. CASE UNCHANGED mutVars
  BY <1>1 DEF mutVars, LockInv, Types, Keyed, Counted, Users, InTable, Held, NoLostEdit, Real
<1>2. ASSUME NEW c \in Ops, NEW how \in {"write", "edit"}, NEW p \in Paths, Call(c, how, p) PROVE LockInv'
  BY <1>2, CallKeeps
<1>3. ASSUME NEW c \in Ops, Progress(c) PROVE LockInv'
  BY <1>3, RegisterKeeps, AcquireKeeps, ReadKeeps, AtomicWriteKeeps, AtomicWriteFailsKeeps, UnlockKeeps, ReleaseKeeps
     DEF Progress
<1> QED
  BY <1>1, <1>2, <1>3 DEF MutNext

\* On file systems without links, an edit writes back what its path shows
\* plus its own change, whatever writes and edits run beside it (mutqueue.go:8).
THEOREM EditsSerialized == ASSUME Disks \subseteq Plain PROVE MutSpec => []NoLostEdit
<1>1. MutInit => LockInv
  BY LockInvInit
<1>2. LockInv /\ [MutNext]_mutVars => LockInv'
  BY LockInvNext
<1>3. LockInv => NoLostEdit
  BY DEF LockInv
<1> QED
  BY <1>1, <1>2, <1>3, PTL DEF MutSpec

\* An entry that is taken out of the table and made anew never splits the
\* users of one key, however many wait (mutqueue.go:26).
THEOREM LocksNotSplit == ASSUME Disks \subseteq Plain PROVE MutSpec => []OneLockPerKey
<1>1. MutInit => LockInv
  BY LockInvInit
<1>2. LockInv /\ [MutNext]_mutVars => LockInv'
  BY LockInvNext
<1>3. LockInv => OneLockPerKey
  BY DEF LockInv, InTable, OneLockPerKey
<1> QED
  BY <1>1, <1>2, <1>3, PTL DEF MutSpec

-----------------------------------------------------------------------------
\* The pieces from lo + 1 to hi.
Run(s, lo, hi) == s \in Seq(Nat) /\ Len(s) = hi - lo /\ \A i \in 1 .. Len(s) : s[i] = lo + i

JobTypes ==
  /\ acc \in [buf : Seq(Nat), start : Nat, total : Nat, file : {"none", "open", "closed"},
              disk : Seq(Nat), err : BOOLEAN]
  /\ printed \in Nat
  /\ job \in [st : {"new", "live", "gone"}, cursor : Nat]
  /\ shown \in Seq(Nat)

\* The accumulator: memory has the end of the output, and all of it or more
\* than a result shows; a file has the beginning, all of it while it is
\* written; and memory drops nothing before there is a file or an error.
AccInv(a) ==
  /\ a.start <= a.total /\ Run(a.buf, a.start, a.total)
  /\ a.start > 0 => Len(a.buf) = MaxRolling
  /\ a.file = "none" /\ ~a.err => a.start = 0
  /\ a.file # "none" => /\ Len(a.disk) <= a.total /\ Run(a.disk, 0, Len(a.disk))
                        /\ a.file = "open" /\ ~a.err => Len(a.disk) = a.total

\* What was shown up to a piece: in order, without a gap that is not told.
Tells(s, upto) ==
  /\ \A i \in DOMAIN s : s[i] <= upto
  /\ \A i \in DOMAIN s : s[i] # 0 =>
       IF i = 1 THEN s[i] = 1
       ELSE IF s[i - 1] # 0 THEN s[i] = s[i - 1] + 1
       ELSE \A j \in 1..(i - 1) : s[j] < s[i]
  /\ s # <<>> => s[Len(s)] = upto
  /\ s = <<>> => upto = 0

JobInv ==
  /\ JobTypes /\ AccInv(acc)
  /\ job.cursor <= acc.total
  /\ Tells(shown, job.cursor)

\* The end of a run is a run.
LEMMA EndOfRun ==
  ASSUME NEW s, NEW lo \in Nat, NEW hi \in Nat, lo <= hi, Run(s, lo, hi), NEW n \in 1 .. Len(s) + 1
  PROVE  Run(SubSeq(s, n, Len(s)), lo + n - 1, hi)
<1>1. s \in Seq(Nat) /\ Len(s) = hi - lo /\ Len(s) \in Nat /\ \A i \in 1 .. Len(s) : s[i] = lo + i
  BY DEF Run
<1> DEFINE t == SubSeq(s, n, Len(s))
<1>2. t \in Seq(Nat) /\ Len(t) = Len(s) - n + 1 /\ \A i \in 1 .. Len(t) : t[i] = s[n + i - 1]
  <2>1. /\ t \in Seq(Nat)
        /\ Len(t) = IF n <= Len(s) THEN Len(s) - n + 1 ELSE 0
        /\ \A i \in 1 .. (Len(s) - n + 1) : t[i] = s[n + i - 1]
    <3>1. n \in Int /\ Len(s) \in Int
      BY <1>1
    <3>2. \A i \in n .. Len(s) : s[i] \in Nat
      BY <1>1, ElementOfSeq
    <3> QED BY <3>1, <3>2, SubSeqProperties
  <2> HIDE DEF t
  <2> QED BY <2>1, <1>1, SMTT(20)
<1> HIDE DEF t
<1>3. Len(t) = hi - (lo + n - 1)
  BY <1>1, <1>2
<1>4. \A i \in 1 .. Len(t) : t[i] = (lo + n - 1) + i
  <2> SUFFICES ASSUME NEW i \in 1 .. Len(t) PROVE t[i] = (lo + n - 1) + i
    OBVIOUS
  <2>1. n + i - 1 \in 1 .. Len(s)
    BY <1>1, <1>2
  <2> QED BY <2>1, <1>1, <1>2
<1>5. Run(t, lo + n - 1, hi)
  BY <1>2, <1>3, <1>4 DEF Run
<1> QED BY <1>5 DEF t

\* A run that goes on by a piece.
LEMMA RunGrows ==
  ASSUME NEW s, NEW lo \in Nat, NEW hi \in Nat, lo <= hi, Run(s, lo, hi)
  PROVE  Run(Append(s, hi + 1), lo, hi + 1) /\ Len(Append(s, hi + 1)) = Len(s) + 1
<1>1. s \in Seq(Nat) /\ Len(s) = hi - lo /\ Len(s) \in Nat /\ \A i \in 1 .. Len(s) : s[i] = lo + i
  BY DEF Run
<1> DEFINE t == Append(s, hi + 1)
<1>2. /\ t \in Seq(Nat) /\ Len(t) = Len(s) + 1
      /\ \A i \in 1 .. Len(s) : t[i] = s[i]
      /\ t[Len(s) + 1] = hi + 1
  BY <1>1, AppendProperties
<1> HIDE DEF t
<1>3. ASSUME NEW i \in 1 .. Len(t) PROVE t[i] = lo + i
  <2>1. CASE i \in 1 .. Len(s)
    BY <2>1, <1>1, <1>2
  <2>2. CASE i = Len(s) + 1
    BY <2>2, <1>1, <1>2
  <2> QED BY <2>1, <2>2, <1>1, <1>2
<1>4. Run(t, lo, hi + 1)
  BY <1>1, <1>2, <1>3 DEF Run
<1> QED BY <1>2, <1>4 DEF t

\* What memory keeps of a run is the end of it, all of it or MaxRolling.
LEMMA RolledRun ==
  ASSUME NEW s, NEW lo \in Nat, NEW hi \in Nat, lo <= hi, Run(s, lo, hi)
  PROVE  LET r == Rolled(s)
             m == lo + Len(s) - Len(r)
         IN  /\ Len(r) \in Nat /\ m \in Nat /\ lo <= m /\ m <= hi /\ Run(r, m, hi)
             /\ m > lo => Len(r) = MaxRolling
             /\ Len(s) <= MaxRolling => r = s /\ m = lo
             /\ Len(s) > MaxRolling => Len(r) = MaxRolling
<1>0. MaxRolling \in Nat /\ MaxRolling >= 2
  BY JobAssumption DEF MaxRolling
<1>1. s \in Seq(Nat) /\ Len(s) = hi - lo /\ Len(s) \in Nat
  BY DEF Run
<1>2. CASE Len(s) <= MaxRolling
  <2>1. Rolled(s) = s
    BY <1>0, <1>1, <1>2 DEF Rolled
  <2> QED BY <2>1, <1>0, <1>1, <1>2
<1>3. CASE Len(s) > MaxRolling
  <2> DEFINE n == Len(s) - MaxRolling + 1
             r == SubSeq(s, n, Len(s))
  <2>1. n \in 1 .. Len(s) + 1 /\ n \in Nat /\ n > 1
    BY <1>0, <1>1, <1>3
  <2>2. Run(r, lo + n - 1, hi)
    <3> HIDE DEF n
    <3> QED BY <2>1, EndOfRun
  <2>3. Rolled(s) = r
    BY <1>3 DEF Rolled
  <2> HIDE DEF r
  <2>4. Len(r) = hi - (lo + n - 1)
    BY <2>2 DEF Run
  <2>5. Len(r) = MaxRolling /\ lo + Len(s) - Len(r) = lo + n - 1
    BY <2>4, <1>0, <1>1, <1>3
  <2>6. lo + n - 1 \in Nat /\ lo <= lo + n - 1 /\ lo + n - 1 <= hi
    BY <1>0, <1>1, <1>3
  <2> HIDE DEF n
  <2> QED BY <2>2, <2>3, <2>5, <2>6, <1>0, <1>1, <1>3
<1> QED BY <1>0, <1>1, <1>2, <1>3

\* Write: memory drops its beginning, the file gets what was dropped or an error.
LEMMA WriteKeeps ==
  ASSUME JobInv, Write
  PROVE  JobInv'
<1> DEFINE n == acc.total + 1
           grown == Append(acc.buf, n)
           rolled == Rolled(grown)
           m == acc.start + Len(grown) - Len(rolled)
           spills == Len(grown) > MaxRolling /\ acc.file = "none" /\ ~acc.err
<1>1. /\ acc \in [buf : Seq(Nat), start : Nat, total : Nat, file : {"none", "open", "closed"},
                  disk : Seq(Nat), err : BOOLEAN]
      /\ AccInv(acc) /\ JobTypes
  BY DEF JobInv, JobTypes
<1>2. /\ acc.buf \in Seq(Nat) /\ acc.start \in Nat /\ acc.total \in Nat /\ acc.start <= acc.total
      /\ Run(acc.buf, acc.start, acc.total) /\ n \in Nat /\ Len(acc.buf) \in Nat
  BY <1>1, LenProperties DEF AccInv
<1>3. Run(grown, acc.start, n) /\ Len(grown) = Len(acc.buf) + 1 /\ grown \in Seq(Nat)
  <2>1. Run(grown, acc.start, n)
    BY <1>2, RunGrows
  <2>2. Len(grown) = Len(acc.buf) + 1
    BY <1>2, AppendProperties
  <2> QED BY <2>1, <2>2 DEF Run
<1>4. /\ Len(rolled) \in Nat /\ m \in Nat /\ acc.start <= m /\ m <= n /\ Run(rolled, m, n)
      /\ m > acc.start => Len(rolled) = MaxRolling
      /\ Len(grown) <= MaxRolling => rolled = grown /\ m = acc.start
      /\ Len(grown) > MaxRolling => Len(rolled) = MaxRolling
  <2> HIDE DEF grown, n
  <2>1. acc.start <= n
    BY <1>2 DEF n
  <2> QED BY <1>2, <1>3, <2>1, RolledRun
<1> DEFINE rest == [acc EXCEPT !.total = n, !.buf = rolled, !.start = m]
<1>5. /\ \/ acc.file = "open" /\ ~acc.err /\ acc' = [rest EXCEPT !.disk = Append(@, n)]
         \/ acc.file # "none" /\ ~acc.err /\ acc' = [rest EXCEPT !.err = TRUE]
         \/ spills /\ acc' = [rest EXCEPT !.file = "open", !.disk = grown]
         \/ spills /\ acc' = [rest EXCEPT !.err = TRUE]
         \/ ~spills /\ (acc.file = "none" \/ acc.err) /\ acc' = rest
      /\ UNCHANGED <<printed, job, shown>>
  BY DEF Write, Seed
<1>6. MaxRolling \in Nat /\ MaxRolling >= 2
  BY JobAssumption DEF MaxRolling
<1>7. m > 0 => Len(rolled) = MaxRolling
  <2>1. CASE Len(grown) > MaxRolling
    BY <2>1, <1>4
  <2>2. CASE Len(grown) <= MaxRolling
    <3>1. m > 0 => Len(acc.buf) = MaxRolling
      BY <1>1, <1>4, <2>2 DEF AccInv
    <3>2. Len(grown) = Len(acc.buf) + 1
      BY <1>3
    <3> HIDE DEF grown, m
    <3> QED BY <3>1, <3>2, <2>2, <1>2, <1>6
  <2>3. Len(grown) \in Nat
    BY <1>2, <1>3
  <2> HIDE DEF grown, rolled, m
  <2> QED BY <2>1, <2>2, <2>3, <1>6
<1>8. acc.file = "none" /\ ~acc.err => acc.start = 0
  BY <1>1 DEF AccInv
<1>9. acc.file = "none" /\ ~acc.err /\ ~spills => m = 0
  <2> HAVE acc.file = "none" /\ ~acc.err /\ ~spills
  <2>1. Len(grown) <= MaxRolling
    <3>1. Len(grown) \in Nat
      BY <1>2, <1>3
    <3> HIDE DEF grown
    <3> QED BY <3>1, <1>6
  <2> QED BY <2>1, <1>4, <1>8
<1>10. acc.file # "none" => /\ acc.disk \in Seq(Nat) /\ Len(acc.disk) \in Nat
                            /\ Len(acc.disk) <= acc.total /\ Run(acc.disk, 0, Len(acc.disk))
                            /\ acc.file = "open" /\ ~acc.err => Len(acc.disk) = acc.total
  BY <1>1, LenProperties DEF AccInv
<1> HIDE DEF n, grown, rolled, m
<1>11. /\ rest.start = m /\ rest.total = n /\ rest.buf = rolled
       /\ rest.file = acc.file /\ rest.disk = acc.disk /\ rest.err = acc.err
       /\ rest \in [buf : Seq(Nat), start : Nat, total : Nat, file : {"none", "open", "closed"},
                    disk : Seq(Nat), err : BOOLEAN]
  <2>1. rolled \in Seq(Nat)
    BY <1>4 DEF Run
  <2> QED BY <2>1, <1>1, <1>2, <1>4
<1> HIDE DEF rest
<1>12. /\ acc'.start = m /\ acc'.total = n /\ acc'.buf = rolled
       /\ acc' \in [buf : Seq(Nat), start : Nat, total : Nat, file : {"none", "open", "closed"},
                    disk : Seq(Nat), err : BOOLEAN]
       /\ acc'.file = "none" /\ ~acc'.err => acc.file = "none" /\ ~acc.err /\ ~spills
       /\ acc'.file # "none" => \/ /\ acc.file = "open" /\ ~acc.err /\ acc'.file = "open"
                                   /\ acc'.disk = Append(acc.disk, n)
                                \/ /\ acc.file # "none" /\ acc'.disk = acc.disk /\ acc'.err
                                \/ acc'.disk = grown /\ acc.file = "none" /\ ~acc.err
  <2>1. CASE acc.file = "open" /\ ~acc.err /\ acc' = [rest EXCEPT !.disk = Append(@, n)]
    <3>1. Append(acc.disk, n) \in Seq(Nat)
      BY <1>2, <1>10, <2>1, AppendProperties
    <3> QED BY <2>1, <3>1, <1>11
  <2>2. CASE acc.file # "none" /\ ~acc.err /\ acc' = [rest EXCEPT !.err = TRUE]
    BY <2>2, <1>11
  <2>3. CASE spills /\ acc' = [rest EXCEPT !.file = "open", !.disk = grown]
    BY <2>3, <1>3, <1>11
  <2>4. CASE spills /\ acc' = [rest EXCEPT !.err = TRUE]
    BY <2>4, <1>11
  <2>5. CASE ~spills /\ (acc.file = "none" \/ acc.err) /\ acc' = rest
    BY <2>5, <1>11
  <2> QED BY <2>1, <2>2, <2>3, <2>4, <2>5, <1>5
<1>13. acc'.file # "none" => /\ Len(acc'.disk) <= n /\ Run(acc'.disk, 0, Len(acc'.disk))
                             /\ acc'.file = "open" /\ ~acc'.err => Len(acc'.disk) = n
  <2> HAVE acc'.file # "none"
  <2>1. CASE /\ acc.file = "open" /\ ~acc.err /\ acc'.file = "open"
             /\ acc'.disk = Append(acc.disk, n)
    <3>1. Run(acc.disk, 0, acc.total)
      BY <1>10, <2>1
    <3>2. Run(Append(acc.disk, acc.total + 1), 0, acc.total + 1)
      BY <3>1, <1>2, RunGrows
    <3>3. Run(acc'.disk, 0, n) /\ n \in Nat
      BY <3>2, <2>1, <1>2 DEF n
    <3>4. Len(acc'.disk) = n - 0
      BY <3>3 DEF Run
    <3> QED BY <3>3, <3>4
  <2>2. CASE acc.file # "none" /\ acc'.disk = acc.disk /\ acc'.err
    BY <2>2, <1>2, <1>10 DEF n
  <2>3. CASE acc'.disk = grown /\ acc.file = "none" /\ ~acc.err
    <3>1. Run(acc'.disk, 0, n) /\ n \in Nat
      BY <2>3, <1>2, <1>3, <1>8
    <3>2. Len(acc'.disk) = n - 0
      BY <3>1 DEF Run
    <3> QED BY <3>1, <3>2
  <2> QED BY <2>1, <2>2, <2>3, <1>12
<1>14. AccInv(acc')
  BY <1>4, <1>7, <1>9, <1>12, <1>13 DEF AccInv
<1>15. job'.cursor <= acc'.total /\ Tells(shown', job'.cursor) /\ JobTypes'
  <2>1. job.cursor \in Nat /\ job.cursor <= acc.total /\ acc'.total = acc.total + 1
    BY <1>1, <1>12 DEF JobInv, JobTypes, n
  <2>2. Tells(shown, job.cursor)
    BY DEF JobInv
  <2>3. JobTypes'
    BY <1>1, <1>5, <1>12 DEF JobTypes
  <2> QED BY <2>1, <2>2, <2>3, <1>2, <1>5
<1> QED BY <1>14, <1>15 DEF JobInv

\* A read that does not fail gets the pieces from the cursor on, or fewer:
\* the end of memory, which is then more than a result shows.
LEMMA DeltaRun ==
  ASSUME JobInv, ~Fails, acc.total > job.cursor
  PROVE  \E lo \in job.cursor .. (acc.total - 1) :
           Run(Delta, lo, acc.total) /\ (lo > job.cursor => Len(Delta) > MaxShown)
<1>1. /\ acc \in [buf : Seq(Nat), start : Nat, total : Nat, file : {"none", "open", "closed"},
                  disk : Seq(Nat), err : BOOLEAN]
      /\ AccInv(acc) /\ job.cursor \in Nat
  BY DEF JobInv, JobTypes
<1> DEFINE a == acc.start
           t == acc.total
           k == job.cursor
<1>2. a \in Nat /\ t \in Nat /\ k \in Nat /\ a <= t /\ k < t /\ ~(k >= t)
  BY <1>1 DEF AccInv
<1>3. MaxShown \in Nat /\ MaxShown >= 1 /\ MaxRolling = 2 * MaxShown
  BY JobAssumption DEF MaxRolling
<1>4. CASE acc.file # "none"
  <2> DEFINE s == acc.disk
             d == SubSeq(s, k + 1, t)
  <2>1. Run(s, 0, Len(s)) /\ s \in Seq(Nat) /\ Len(s) \in Nat /\ Len(s) = t
    <3>1. Run(s, 0, Len(s)) /\ s \in Seq(Nat) /\ Len(s) \in Nat /\ Len(s) <= t
      BY <1>1, <1>4, LenProperties DEF AccInv
    <3>2. ~(Len(s) < t)
      BY <1>2, <1>4 DEF Fails
    <3> HIDE DEF s
    <3> QED BY <3>1, <3>2, <1>2
  <2>2. Delta = d
    BY <1>2, <1>4 DEF Delta
  <2> HIDE DEF s, t, k
  <2>3. k + 1 \in 1 .. Len(s) + 1 /\ 0 + (k + 1) - 1 = k
    BY <1>2, <2>1
  <2>4. Run(SubSeq(s, k + 1, Len(s)), 0 + (k + 1) - 1, t)
    BY <1>2, <2>1, <2>3, EndOfRun
  <2>5. Run(d, k, t)
    BY <2>1, <2>3, <2>4
  <2>6. k \in k .. (t - 1)
    BY <1>2
  <2> QED BY <2>2, <2>5, <2>6, <1>2 DEF k, t
<1>5. CASE acc.file = "none" /\ k < a
  <2> DEFINE s == acc.buf
             d == SubSeq(s, 1, Len(s))
  <2>1. Run(s, a, t) /\ s \in Seq(Nat) /\ Len(s) \in Nat
    BY <1>1, LenProperties DEF AccInv
  <2>2. Delta = d
    BY <1>2, <1>5 DEF Delta
  <2>3. d = s
    <3> HIDE DEF s
    <3> QED BY <2>1, SubSeqFull
  <2>4. Len(s) = MaxRolling
    BY <1>1, <1>2, <1>5 DEF AccInv
  <2>5. Len(s) = t - a
    BY <2>1 DEF Run
  <2> HIDE DEF s
  <2>6. Len(s) = 2 * MaxShown /\ Len(s) > MaxShown /\ Len(s) >= 1
    BY <2>1, <2>4, <1>3
  <2>7. Len(d) > MaxShown
    BY <2>3, <2>6
  <2> HIDE DEF a, t, k, d
  <2>8. a \in k .. (t - 1)
    BY <2>5, <2>6, <1>2, <1>5
  <2> QED BY <2>1, <2>2, <2>3, <2>7, <2>8 DEF a, t, k
<1>6. CASE acc.file = "none" /\ ~(k < a)
  <2> DEFINE s == acc.buf
             n == k - a + 1
             d == SubSeq(s, n, Len(s))
  <2>1. Run(s, a, t) /\ s \in Seq(Nat) /\ Len(s) \in Nat
    BY <1>1, LenProperties DEF AccInv
  <2>2. Delta = d
    BY <1>2, <1>6 DEF Delta
  <2> HIDE DEF s, t, a, k
  <2>3. Len(s) = t - a
    BY <2>1 DEF Run
  <2>4. n \in 1 .. Len(s) + 1 /\ a + n - 1 = k
    BY <2>3, <1>2, <1>6
  <2>5. Run(d, a + n - 1, t)
    BY <2>1, <2>4, <1>2, EndOfRun
  <2>6. k \in k .. (t - 1)
    BY <1>2
  <2> QED BY <2>2, <2>4, <2>5, <2>6, <1>2 DEF k, t
<1> QED BY <1>4, <1>5, <1>6

\* The places of a sequence that another one follows.
LEMMA Joined ==
  ASSUME NEW s \in Seq(Nat), NEW b \in Seq(Nat)
  PROVE  /\ s \o b \in Seq(Nat) /\ Len(s) \in Nat /\ Len(b) \in Nat /\ Len(s \o b) = Len(s) + Len(b)
         /\ \A i \in 1 .. Len(s) : (s \o b)[i] = s[i]
         /\ \A i \in 1 .. Len(b) : (s \o b)[Len(s) + i] = b[i]
         /\ \A i \in 1 .. Len(s \o b) : i \in 1 .. Len(s) \/ \E j \in 1 .. Len(b) : i = Len(s) + j
<1>1. /\ s \o b \in Seq(Nat) /\ Len(s) \in Nat /\ Len(b) \in Nat /\ Len(s \o b) = Len(s) + Len(b)
      /\ \A i \in 1 .. Len(s) + Len(b) : (s \o b)[i] = IF i <= Len(s) THEN s[i] ELSE b[i - Len(s)]
  BY ConcatProperties, LenProperties
<1> DEFINE u == s \o b
<1> HIDE DEF u
<1>2. /\ u \in Seq(Nat) /\ Len(s) \in Nat /\ Len(b) \in Nat /\ Len(u) = Len(s) + Len(b)
      /\ \A i \in 1 .. Len(s) + Len(b) : u[i] = IF i <= Len(s) THEN s[i] ELSE b[i - Len(s)]
  BY <1>1 DEF u
<1>3. ASSUME NEW i \in 1 .. Len(s) PROVE u[i] = s[i]
  BY <1>2
<1>4. ASSUME NEW i \in 1 .. Len(b) PROVE u[Len(s) + i] = b[i]
  <2>1. Len(s) + i \in 1 .. Len(s) + Len(b) /\ ~(Len(s) + i <= Len(s)) /\ (Len(s) + i) - Len(s) = i
    BY <1>2
  <2> QED BY <2>1, <1>2
<1>5. ASSUME NEW i \in 1 .. Len(u) PROVE i \in 1 .. Len(s) \/ \E j \in 1 .. Len(b) : i = Len(s) + j
  <2>1. CASE i <= Len(s)
    BY <2>1, <1>2
  <2>2. CASE ~(i <= Len(s))
    <3>1. i - Len(s) \in 1 .. Len(b) /\ i = Len(s) + (i - Len(s))
      BY <2>2, <1>2
    <3> QED BY <3>1
  <2> QED BY <2>1, <2>2
<1>6. \A i \in 1 .. Len(u) : i \in 1 .. Len(s) \/ \E j \in 1 .. Len(b) : i = Len(s) + j
  BY <1>5
<1> QED BY <1>2, <1>3, <1>4, <1>6 DEF u

\* What follows in the same result: the next pieces, or a notice and later ones.
Follows(b, k, t) ==
  \/ Run(b, k, t)
  \/ \E lo \in k .. (t - 1) : /\ b \in Seq(Nat) /\ Len(b) = t - lo + 1 /\ b[1] = 0
                              /\ \A i \in 2 .. Len(b) : b[i] = lo + i - 1

\* What follows what was shown leaves no gap untold.
LEMMA TellsMore ==
  ASSUME NEW s \in Seq(Nat), NEW k \in Nat, NEW t \in Nat, k < t, Tells(s, k),
         NEW b \in Seq(Nat), Follows(b, k, t)
  PROVE  s \o b \in Seq(Nat) /\ Tells(s \o b, t)
<1> DEFINE u == s \o b
<1>1. /\ u \in Seq(Nat) /\ Len(s) \in Nat /\ Len(b) \in Nat /\ Len(u) = Len(s) + Len(b)
      /\ \A i \in 1 .. Len(s) : u[i] = s[i]
      /\ \A i \in 1 .. Len(b) : u[Len(s) + i] = b[i]
      /\ \A i \in 1 .. Len(u) : i \in 1 .. Len(s) \/ \E j \in 1 .. Len(b) : i = Len(s) + j
  BY Joined
<1> HIDE DEF u
<1>2. DOMAIN s = 1 .. Len(s) /\ DOMAIN u = 1 .. Len(u) /\ \A i \in 1 .. Len(s) : s[i] \in Nat
  BY <1>1, LenProperties, ElementOfSeq
<1>3. /\ \A i \in 1 .. Len(s) : s[i] <= k
      /\ s # <<>> => s[Len(s)] = k
      /\ s = <<>> => k = 0
  BY <1>2 DEF Tells
<1>4. s = <<>> <=> Len(s) = 0
  BY EmptySeq
<1> DEFINE Fits(i) == IF i = 1 THEN u[i] = 1
                    ELSE IF u[i - 1] # 0 THEN u[i] = u[i - 1] + 1
                    ELSE \A j \in 1..(i - 1) : u[j] < u[i]
<1>5. ASSUME NEW i \in 1 .. Len(s), u[i] # 0 PROVE Fits(i)
  <2>1. /\ u[i] = s[i] /\ s[i] # 0 /\ \A j \in 1 .. (i - 1) : j \in 1 .. Len(s) /\ u[j] = s[j]
        /\ i # 1 => i - 1 \in 1 .. (i - 1)
    BY <1>1, <1>5, SMTT(20)
  <2>2. IF i = 1 THEN s[i] = 1
        ELSE IF s[i - 1] # 0 THEN s[i] = s[i - 1] + 1
        ELSE \A j \in 1..(i - 1) : s[j] < s[i]
    BY <1>2, <2>1 DEF Tells
  <2>3. CASE i = 1
    BY <2>1, <2>2, <2>3
  <2>4. CASE i # 1 /\ s[i - 1] # 0
    BY <2>1, <2>2, <2>4
  <2>5. CASE i # 1 /\ s[i - 1] = 0
    BY <2>1, <2>2, <2>5
  <2> QED BY <2>3, <2>4, <2>5
<1>6. CASE Run(b, k, t)
  <2>1. Len(b) = t - k /\ Len(b) >= 1 /\ \A i \in 1 .. Len(b) : u[Len(s) + i] = k + i
    <3>1. Len(b) = t - k /\ \A i \in 1 .. Len(b) : b[i] = k + i
      BY <1>6 DEF Run
    <3>2. Len(b) >= 1
      BY <3>1
    <3>3. \A i \in 1 .. Len(b) : u[Len(s) + i] = k + i
      BY <3>1, <1>1
    <3> QED BY <3>1, <3>2, <3>3
  <2>2. ASSUME NEW i \in 1 .. Len(b) PROVE Fits(Len(s) + i)
    <3>1. u[Len(s) + i] = k + i
      BY <2>1
    <3>2. CASE i > 1
      <4>0. Len(s) \in Nat
        BY <1>1
      <4>1. i - 1 \in 1 .. Len(b) /\ Len(s) + (i - 1) = (Len(s) + i) - 1 /\ Len(s) + i # 1
        BY <4>0, <3>2
      <4>2. u[(Len(s) + i) - 1] = k + (i - 1)
        BY <2>1, <4>1
      <4>3. k + (i - 1) # 0 /\ k + i = (k + (i - 1)) + 1
        BY <3>2
      <4> QED BY <3>1, <4>1, <4>2, <4>3
    <3>3. CASE i = 1 /\ Len(s) = 0
      <4>1. Len(s) + i = 1 /\ k = 0
        BY <3>3, <1>3, <1>4
      <4> QED BY <3>1, <3>3, <4>1
    <3>4. CASE i = 1 /\ Len(s) # 0
      <4>1. /\ (Len(s) + i) - 1 = Len(s) /\ Len(s) + i # 1 /\ Len(s) \in 1 .. Len(s)
        BY <3>4, <1>1, SMTT(20)
      <4>2. u[(Len(s) + i) - 1] = k /\ u[Len(s) + i] = k + 1
        BY <3>1, <3>4, <4>1, <1>1, <1>3, <1>4
      <4>3. \A j \in 1 .. ((Len(s) + i) - 1) : u[j] < k + 1
        <5>1. \A j \in 1 .. Len(s) : u[j] \in Nat /\ u[j] <= k
          BY <1>1, <1>2, <1>3
        <5>2. \A j \in 1 .. Len(s) : u[j] < k + 1
          BY <5>1
        <5> QED BY <5>2, <4>1
      <4> QED BY <4>1, <4>2, <4>3
    <3> QED BY <3>2, <3>3, <3>4
  <2>3. \A i \in 1 .. Len(u) : i \in 1 .. Len(s) \/ \E j \in 1 .. Len(b) : i = Len(s) + j
    BY <1>1
  <2>4. \A i \in 1 .. Len(u) : u[i] # 0 => Fits(i)
    <3> HIDE DEF Fits
    <3> QED BY <1>5, <2>2, <2>3
  <2>5. \A i \in 1 .. Len(u) : u[i] <= t
    <3>1. \A i \in 1 .. Len(s) : u[i] <= t
      BY <1>1, <1>2, <1>3
    <3>2. ASSUME NEW j \in 1 .. Len(b) PROVE u[Len(s) + j] <= t
      <4>1. u[Len(s) + j] = k + j
        BY <2>1
      <4> QED BY <4>1, <2>1, <1>1
    <3> QED BY <2>3, <3>1, <3>2
  <2>6. Len(u) = Len(s) + Len(b) /\ u[Len(u)] = t /\ u # <<>>
    <3>1. u[Len(s) + Len(b)] = k + Len(b) /\ k + Len(b) = t
      <4>1. Len(b) \in 1 .. Len(b)
        BY <2>1, <1>1
      <4>2. u[Len(s) + Len(b)] = k + Len(b)
        BY <4>1, <2>1
      <4>3. k + Len(b) = t
        BY <2>1
      <4> QED BY <4>2, <4>3
    <3>2. Len(u) >= 1
      BY <1>1, <2>1
    <3> QED BY <3>1, <3>2, <1>1, EmptySeq
  <2> QED BY <1>1, <1>2, <2>4, <2>5, <2>6 DEF Tells, u
<1>7. ASSUME NEW lo \in k .. (t - 1), Len(b) = t - lo + 1, b[1] = 0,
             \A i \in 2 .. Len(b) : b[i] = lo + i - 1
      PROVE  u \in Seq(Nat) /\ Tells(u, t)
  <2>1. /\ Len(b) >= 2 /\ lo \in Nat /\ u[Len(s) + 1] = 0
        /\ \A i \in 2 .. Len(b) : u[Len(s) + i] = lo + i - 1
    <3>1. lo \in Nat /\ Len(b) >= 2
      BY <1>7
    <3>2. u[Len(s) + 1] = 0
      <4>1. 1 \in 1 .. Len(b)
        BY <3>1, <1>1
      <4> QED BY <4>1, <1>1, <1>7
    <3>3. ASSUME NEW i \in 2 .. Len(b) PROVE u[Len(s) + i] = lo + i - 1
      <4>1. i \in 1 .. Len(b)
        BY <1>1
      <4> QED BY <4>1, <1>1, <1>7
    <3> QED BY <3>1, <3>2, <3>3
  <2>2. ASSUME NEW i \in 2 .. Len(b) PROVE Fits(Len(s) + i)
    <3>1. u[Len(s) + i] = lo + i - 1 /\ Len(s) + i # 1
      BY <1>1, <2>1
    <3>2. CASE i > 2
      <4>0. Len(s) \in Nat /\ Len(b) \in Nat
        BY LenProperties
      <4>1. i - 1 \in 2 .. Len(b) /\ Len(s) + (i - 1) = (Len(s) + i) - 1
        BY <3>2, <4>0
      <4>2. u[(Len(s) + i) - 1] = lo + (i - 1) - 1
        BY <2>1, <4>1
      <4>3. lo + (i - 1) - 1 # 0 /\ lo + i - 1 = (lo + (i - 1) - 1) + 1
        BY <2>1, <3>2
      <4> QED BY <3>1, <4>2, <4>3
    <3>3. CASE i = 2
      <4>1. (Len(s) + i) - 1 = Len(s) + 1 /\ u[Len(s) + i] = lo + 1
        BY <3>1, <3>3, <1>1, <2>1
      <4>2. u[(Len(s) + i) - 1] = 0
        BY <4>1, <2>1
      <4>3. \A j \in 1 .. ((Len(s) + i) - 1) : u[j] < lo + 1
        <5>1. \A j \in 1 .. Len(s) : u[j] \in Nat /\ u[j] <= k
          BY <1>1, <1>2, <1>3
        <5>2. k <= lo /\ 0 < lo + 1
          BY <2>1
        <5>3. \A j \in 1 .. Len(s) + 1 : j \in 1 .. Len(s) \/ j = Len(s) + 1
          <6>1. Len(s) \in Nat
            BY <1>1
          <6> QED BY <6>1
        <5>4. ASSUME NEW j \in 1 .. Len(s) PROVE u[j] < lo + 1
          <6>1. u[j] \in Nat /\ u[j] <= k /\ lo \in Nat
            BY <5>1, <2>1
          <6> QED BY <6>1, <5>2
        <5>5. \A j \in 1 .. Len(s) + 1 : u[j] < lo + 1
          BY <5>2, <5>3, <5>4, <2>1
        <5> QED BY <5>5, <4>1
      <4> QED BY <3>1, <4>1, <4>2, <4>3
    <3> QED BY <3>2, <3>3
  <2>3. \A i \in 1 .. Len(u) : i \in 1 .. Len(s) \/ i = Len(s) + 1 \/ \E j \in 2 .. Len(b) : i = Len(s) + j
    <3>1. \A j \in 1 .. Len(b) : j = 1 \/ j \in 2 .. Len(b)
      BY <1>1
    <3> QED BY <3>1, <1>1
  <2>4. \A i \in 1 .. Len(u) : u[i] # 0 => Fits(i)
    <3> HIDE DEF Fits
    <3> QED BY <1>5, <2>1, <2>2, <2>3
  <2>5. \A i \in 1 .. Len(u) : u[i] <= t
    <3>1. \A i \in 1 .. Len(s) : u[i] <= t
      BY <1>1, <1>2, <1>3
    <3>2. ASSUME NEW j \in 2 .. Len(b) PROVE u[Len(s) + j] <= t
      <4>1. u[Len(s) + j] = lo + j - 1
        BY <2>1
      <4> QED BY <4>1, <2>1, <1>1, <1>7
    <3>3. u[Len(s) + 1] <= t
      BY <2>1
    <3> QED BY <2>3, <3>1, <3>2, <3>3
  <2>6. u[Len(u)] = t /\ u # <<>>
    <3>1. Len(b) \in 2 .. Len(b) /\ lo + Len(b) - 1 = t
      BY <1>1, <1>7, <2>1
    <3>2. u[Len(s) + Len(b)] = t
      BY <2>1, <3>1
    <3>3. Len(u) >= 1
      BY <1>1, <2>1
    <3> QED BY <3>2, <3>3, <1>1, EmptySeq
  <2> QED BY <1>1, <1>2, <2>4, <2>5, <2>6 DEF Tells
<1> QED BY <1>6, <1>7 DEF Follows, u

\* A result that is cut shows the notice and the last pieces.
LEMMA ResultFollows ==
  ASSUME NEW d, NEW k \in Nat, NEW t \in Nat, NEW lo \in k .. (t - 1), k < t, Run(d, lo, t),
         lo > k => Len(d) > MaxShown
  PROVE  tailTruncate(d) \in Seq(Nat) /\ Follows(tailTruncate(d), k, t)
<1>1. MaxShown \in Nat /\ MaxShown >= 1
  BY JobAssumption
<1>2. d \in Seq(Nat) /\ Len(d) = t - lo /\ Len(d) \in Nat /\ lo \in Nat /\ lo <= t
  BY LenProperties DEF Run
<1>3. CASE ~(Len(d) > MaxShown)
  <2>1. tailTruncate(d) = d
    BY <1>3 DEF tailTruncate
  <2>2. lo = k
    BY <1>3, <1>2
  <2> QED BY <2>1, <2>2, <1>2 DEF Follows
<1>4. CASE Len(d) > MaxShown
  <2> DEFINE n == Len(d) - MaxShown + 1
             e == SubSeq(d, n, Len(d))
             m == lo + n - 1
             b == <<0>> \o e
  <2>1. tailTruncate(d) = b
    BY <1>4 DEF tailTruncate
  <2>2. n \in 1 .. Len(d) + 1 /\ m = t - MaxShown /\ m \in k .. (t - 1)
    BY <1>1, <1>2, <1>4
  <2>3. Run(e, m, t)
    <3> HIDE DEF n
    <3> QED BY <2>2, <1>2, EndOfRun
  <2> HIDE DEF n, m, e
  <2>4. e \in Seq(Nat) /\ Len(e) = t - m /\ \A i \in 1 .. Len(e) : e[i] = m + i
    BY <2>3 DEF Run
  <2>5. <<0>> \in Seq(Nat) /\ Len(<<0>>) = 1 /\ <<0>>[1] = 0
    OBVIOUS
  <2> DEFINE z == <<0>>
  <2> HIDE DEF z
  <2>6. /\ z \in Seq(Nat) /\ Len(z) = 1 /\ z[1] = 0 /\ b = z \o e
    BY <2>5 DEF z
  <2> HIDE DEF b
  <2>7. /\ b \in Seq(Nat) /\ Len(b) = 1 + Len(e) /\ Len(e) \in Nat /\ b[1] = 0
        /\ \A i \in 1 .. Len(e) : b[1 + i] = e[i]
    <3>1. /\ z \o e \in Seq(Nat) /\ Len(e) \in Nat /\ Len(z \o e) = Len(z) + Len(e)
          /\ \A i \in 1 .. Len(z) : (z \o e)[i] = z[i]
          /\ \A i \in 1 .. Len(e) : (z \o e)[Len(z) + i] = e[i]
      BY <2>4, <2>6, Joined
    <3> QED BY <3>1, <2>6
  <2>8. ASSUME NEW i \in 2 .. Len(b) PROVE b[i] = m + i - 1
    <3>1. i - 1 \in 1 .. Len(e) /\ 1 + (i - 1) = i
      BY <2>7
    <3>2. b[i] = e[i - 1] /\ e[i - 1] = m + (i - 1)
      BY <3>1, <2>4, <2>7
    <3> QED BY <3>1, <3>2, <2>2
  <2>9. Len(b) = t - m + 1
    BY <2>2, <2>4, <2>7
  <2> QED BY <2>1, <2>2, <2>7, <2>8, <2>9 DEF Follows
<1> QED BY <1>3, <1>4

\* bash_output shows what follows, and moves the cursor to the end.
LEMMA OutputKeeps ==
  ASSUME JobInv, NEW c \in Callers, Output(c)
  PROVE  JobInv'
<1>1. /\ JobTypes /\ AccInv(acc) /\ job.cursor <= acc.total /\ Tells(shown, job.cursor)
      /\ shown \in Seq(Nat) /\ job.cursor \in Nat /\ acc.total \in Nat
      /\ acc' = acc /\ printed' = printed
  BY DEF JobInv, JobTypes, Output
<1>2. CASE Fails
  <2>1. job' = job /\ shown' = shown
    BY <1>2 DEF Output
  <2> QED BY <1>1, <2>1 DEF JobInv, JobTypes
<1>3. CASE ~Fails
  <2>1. shown' = shown \o tailTruncate(Delta) /\ job' = [job EXCEPT !.cursor = acc.total]
    BY <1>3 DEF Output
  <2>2. job' \in [st : {"new", "live", "gone"}, cursor : Nat] /\ job'.cursor = acc.total
    BY <1>1, <2>1 DEF JobTypes
  <2>3. CASE job.cursor >= acc.total
    <3>1. job.cursor = acc.total
      BY <1>1, <2>3
    <3>2. Delta = <<>>
      BY <2>3 DEF Delta
    <3>3. tailTruncate(<<>>) = <<>>
      BY JobAssumption DEF tailTruncate
    <3>4. shown' = shown
      BY <2>1, <3>2, <3>3, <1>1, ConcatEmptySeq
    <3> QED BY <1>1, <2>2, <3>1, <3>4 DEF JobInv, JobTypes
  <2>4. CASE acc.total > job.cursor
    <3>1. PICK lo \in job.cursor .. (acc.total - 1) :
            Run(Delta, lo, acc.total) /\ (lo > job.cursor => Len(Delta) > MaxShown)
      BY <1>3, <2>4, DeltaRun
    <3>2. tailTruncate(Delta) \in Seq(Nat) /\ Follows(tailTruncate(Delta), job.cursor, acc.total)
      BY <1>1, <2>4, <3>1, ResultFollows
    <3>3. shown' \in Seq(Nat) /\ Tells(shown', acc.total)
      BY <1>1, <2>1, <2>4, <3>2, TellsMore
    <3> QED BY <1>1, <2>2, <3>3 DEF JobInv, JobTypes
  <2> QED BY <1>1, <2>3, <2>4
<1> QED BY <1>2, <1>3

\* Closing the accumulator leaves memory and the file as they are.
LEMMA CloseKeeps ==
  ASSUME JobInv, acc' \in {acc, Closed(acc)}, printed' \in Nat, job'.cursor = job.cursor,
         job' \in [st : {"new", "live", "gone"}, cursor : Nat], shown' = shown
  PROVE  JobInv'
<1>1. /\ acc \in [buf : Seq(Nat), start : Nat, total : Nat, file : {"none", "open", "closed"},
                  disk : Seq(Nat), err : BOOLEAN]
      /\ AccInv(acc) /\ JobTypes /\ job.cursor <= acc.total /\ Tells(shown, job.cursor)
  BY DEF JobInv, JobTypes
<1>2. /\ acc' \in [buf : Seq(Nat), start : Nat, total : Nat, file : {"none", "open", "closed"},
                   disk : Seq(Nat), err : BOOLEAN]
      /\ acc'.buf = acc.buf /\ acc'.start = acc.start /\ acc'.total = acc.total
      /\ acc'.disk = acc.disk /\ acc'.err = acc.err
      /\ acc'.file = acc.file \/ (acc.file = "open" /\ acc'.file = "closed")
  <2>1. CASE acc' = acc
    BY <1>1, <2>1
  <2>2. CASE acc' = Closed(acc) /\ acc.file = "open"
    BY <1>1, <2>2 DEF Closed
  <2>3. CASE acc' = Closed(acc) /\ acc.file # "open"
    BY <1>1, <2>3 DEF Closed
  <2> QED BY <2>1, <2>2, <2>3
<1>3. AccInv(acc')
  BY <1>1, <1>2 DEF AccInv
<1>4. JobTypes'
  BY <1>1, <1>2 DEF JobTypes
<1> QED BY <1>1, <1>2, <1>3, <1>4 DEF JobInv

\* Whatever was spilled to the file, dropped from memory or failed to be
\* written, bash_output shows every piece once and in order, or says that it
\* passes over some (bash_bg.go:48, accumulator.go:84).
THEOREM OutputShownOnce == JobInit /\ [][JobNext]_jobVars => []OutputOnce
<1>1. JobInit => JobInv
  <2> SUFFICES ASSUME JobInit PROVE JobInv
    OBVIOUS
  <2>1. /\ acc = [buf |-> <<>>, start |-> 0, total |-> 0, file |-> "none", disk |-> <<>>, err |-> FALSE]
        /\ job = [st |-> "new", cursor |-> 0] /\ shown = <<>> /\ printed = 0
    BY DEF JobInit
  <2>2. <<>> \in Seq(Nat) /\ Len(<<>>) = 0
    BY EmptySeq
  <2>3. AccInv(acc)
    BY <2>1, <2>2 DEF AccInv, Run
  <2>4. JobTypes
    BY <2>1, <2>2 DEF JobTypes
  <2>5. Tells(shown, job.cursor)
    BY <2>1 DEF Tells
  <2> QED BY <2>1, <2>3, <2>4, <2>5 DEF JobInv
<1>2. JobInv /\ [JobNext]_jobVars => JobInv'
  <2> SUFFICES ASSUME JobInv, [JobNext]_jobVars PROVE JobInv'
    OBVIOUS
  <2>0. /\ printed \in Nat /\ job \in [st : {"new", "live", "gone"}, cursor : Nat]
    BY DEF JobInv, JobTypes
  <2> DEFINE Kept == /\ acc' \in {acc, Closed(acc)} /\ printed' \in Nat /\ job'.cursor = job.cursor
                     /\ job' \in [st : {"new", "live", "gone"}, cursor : Nat] /\ shown' = shown
  <2>1. CASE UNCHANGED jobVars
    <3>1. Kept
      BY <2>0, <2>1 DEF jobVars
    <3> QED BY <3>1, CloseKeeps
  <2>2. CASE Writes \/ Leave \/ AwayEnds \/ GroupEnds \/ KillFires \/ Exits \/ Timeout
    <3>1. Kept
      BY <2>0, <2>2 DEF Writes, Leave, AwayEnds, GroupEnds, KillFires, Exits, Timeout
    <3> QED BY <3>1, CloseKeeps
  <2>3. CASE Result \/ AddJob \/ KillAll
    <3>1. Kept
      BY <2>0, <2>3 DEF Result, AddJob, KillAll
    <3> QED BY <3>1, CloseKeeps
  <2>4. CASE \/ \E c \in Callers : Kill(c) \/ Killed(c)
             \/ \E c \in JobCalls, how \in {"output", "kill"} : GetJob(c, how)
    <3>1. Kept
      BY <2>0, <2>4 DEF Kill, Killed, GetJob
    <3> QED BY <3>1, CloseKeeps
  <2>5. CASE Write
    BY <2>5, WriteKeeps
  <2>6. ASSUME NEW c \in Callers, Output(c) PROVE JobInv'
    BY <2>6, OutputKeeps
  <2> QED BY <2>1, <2>2, <2>3, <2>4, <2>5, <2>6 DEF JobNext, Goes
<1>3. JobInv => OutputOnce
  <2> SUFFICES ASSUME JobInv PROVE OutputOnce
    OBVIOUS
  <2>1. Tells(shown, job.cursor) /\ AccInv(acc) /\ acc.file \in {"none", "open", "closed"} /\ acc.err \in BOOLEAN
        /\ acc.total \in Nat
    BY DEF JobInv, JobTypes
  <2>2. Fails => acc.err \/ acc.file = "closed"
    BY <2>1 DEF Fails, AccInv
  <2> QED BY <2>1, <2>2 DEF OutputOnce, Tells
<1> QED BY <1>1, <1>2, <1>3, PTL

-----------------------------------------------------------------------------
ToolStates == {"none", "called", "taken", "stat", "done"}
StampType == [tracked : BOOLEAN, time : Nat, hash : Nat]
SetTypes ==
  /\ onDisk \in [text : Nat, time : Nat]
  /\ stamp \in StampType /\ saved \in StampType
  /\ tool \in [Tools -> [st : ToolStates, writes : BOOLEAN, data : Nat, time : Nat]]
  /\ pass \in [st : {"none", "stat", "hash", "fresh", "stale"}, of : StampType, time : Nat]
  /\ batches \in Nat /\ slipped \in BOOLEAN

\* A time that was the file's at some point: if it still is, the agent has
\* seen the text, unless a change slipped in.
Told(time) == /\ time <= onDisk.time
              /\ time = onDisk.time => slipped \/ onDisk.text \in seen

\* A stamp is about a text the agent has seen, and a time it was told of.
StampTold(s) == s.tracked => s.hash \in seen /\ Told(s.time)

\* What a call took from the file, or stored in it, the agent has seen.
CallTold(c) ==
  /\ tool[c].st \in {"taken", "stat"} => tool[c].data \in seen
  /\ tool[c].st = "taken" => slipped \/ onDisk.text \in seen
  /\ tool[c].st = "stat" => Told(tool[c].time)

\* A hash is taken of a tracked file, at the time of the stat or later.
HashTold == pass.st = "hash" => pass.of.tracked /\ pass.time <= onDisk.time

SetInv ==
  /\ SetTypes
  /\ StampTold(stamp) /\ StampTold(saved) /\ StampTold(pass.of)
  /\ HashTold
  /\ \A c \in Tools : CallTold(c)

\* No call runs, and nothing is tracked.
LEMMA SetInvInit == SetInit => SetInv
<1> SUFFICES ASSUME SetInit PROVE SetInv
  OBVIOUS
<1>1. /\ onDisk \in [text : {0, 1}, time : {0}]
      /\ stamp = Untracked /\ saved = Untracked /\ pass = NoPass
      /\ tool = [c \in Tools |-> Idle] /\ batches = 0 /\ slipped = FALSE
  BY DEF SetInit
<1>2. /\ Untracked \in StampType /\ ~Untracked.tracked
      /\ NoPass.of = Untracked /\ NoPass.st = "none"
      /\ NoPass \in [st : {"none", "stat", "hash", "fresh", "stale"}, of : StampType, time : Nat]
      /\ Idle \in [st : ToolStates, writes : BOOLEAN, data : Nat, time : Nat] /\ Idle.st = "none"
  BY DEF Untracked, NoPass, Idle, StampType, ToolStates
<1>3. SetTypes
  <2>1. onDisk \in [text : Nat, time : Nat]
    BY <1>1
  <2>2. tool \in [Tools -> [st : ToolStates, writes : BOOLEAN, data : Nat, time : Nat]]
    BY <1>1, <1>2
  <2>3. stamp \in StampType /\ saved \in StampType
        /\ pass \in [st : {"none", "stat", "hash", "fresh", "stale"}, of : StampType, time : Nat]
        /\ batches \in Nat /\ slipped \in BOOLEAN
    BY <1>1, <1>2
  <2> QED BY <2>1, <2>2, <2>3 DEF SetTypes
<1>4. StampTold(stamp) /\ StampTold(saved) /\ StampTold(pass.of) /\ HashTold
  BY <1>1, <1>2 DEF StampTold, HashTold
<1>5. \A c \in Tools : CallTold(c)
  BY <1>1, <1>2 DEF CallTold
<1> QED BY <1>3, <1>4, <1>5 DEF SetInv

\* A step of the turn that does not touch the file.
LEMMA TurnKeepsTold ==
  ASSUME SetInv, Batch \/ StaleBegins \/ StaleStats \/ Sent \/ Snapshot
  PROVE  SetInv'
<1>1. /\ onDisk' = onDisk /\ seen' = seen /\ slipped' = slipped
      /\ \A t : Told(t)' <=> Told(t)
  BY DEF Batch, StaleBegins, StaleStats, Sent, Snapshot, Told
<1>2. \A s : (s.tracked => s.hash \in seen' /\ Told(s.time)') <=> StampTold(s)
  BY <1>1 DEF StampTold
<1>3. /\ SetTypes /\ HashTold /\ \A c \in Tools : CallTold(c)
      /\ StampTold(stamp) /\ StampTold(saved) /\ StampTold(pass.of)
  BY DEF SetInv
<1>4. tool' = tool => \A c \in Tools : CallTold(c)'
  BY <1>1, <1>3 DEF CallTold
<1>5. stamp' = stamp /\ saved' \in {saved, stamp} => StampTold(stamp)' /\ StampTold(saved)'
  BY <1>2, <1>3 DEF StampTold
<1>6. pass' = pass => StampTold(pass.of)' /\ HashTold'
  BY <1>1, <1>2, <1>3 DEF StampTold, HashTold
<1>7. /\ Untracked \in StampType /\ ~Untracked.tracked
      /\ NoPass \in [st : {"none", "stat", "hash", "fresh", "stale"}, of : StampType, time : Nat]
      /\ NoPass.of = Untracked /\ NoPass.st = "none"
  BY DEF Untracked, NoPass, StampType
<1>8. CASE Batch
  <2>1. /\ tool' = [c \in Tools |-> [Idle EXCEPT !.st = "called"]]
        /\ batches' = batches + 1 /\ UNCHANGED <<stamp, saved, pass>>
    BY <1>8 DEF Batch
  <2>2. /\ [Idle EXCEPT !.st = "called"] \in [st : ToolStates, writes : BOOLEAN, data : Nat, time : Nat]
        /\ [Idle EXCEPT !.st = "called"].st = "called"
    BY DEF Idle, ToolStates
  <2>3. SetTypes'
    BY <1>1, <1>3, <2>1, <2>2 DEF SetTypes
  <2>4. \A c \in Tools : CallTold(c)'
    BY <2>1, <2>2 DEF CallTold
  <2> QED BY <1>5, <1>6, <2>1, <2>3, <2>4 DEF SetInv
<1>9. CASE StaleBegins
  <2>1. /\ pass' = [NoPass EXCEPT !.st = "stat", !.of = stamp]
        /\ UNCHANGED <<stamp, saved, tool, batches>>
    BY <1>9 DEF StaleBegins
  <2>2. /\ pass'.of = stamp /\ pass'.st = "stat"
        /\ pass' \in [st : {"none", "stat", "hash", "fresh", "stale"}, of : StampType, time : Nat]
    BY <1>3, <2>1 DEF NoPass, Untracked, SetTypes
  <2>3. SetTypes'
    BY <1>1, <1>3, <2>1, <2>2 DEF SetTypes
  <2>4. StampTold(pass.of)' /\ HashTold'
    BY <1>2, <1>3, <2>2 DEF StampTold, HashTold
  <2> QED BY <1>4, <1>5, <2>1, <2>3, <2>4 DEF SetInv
<1>10. CASE StaleStats
  <2>1. UNCHANGED <<stamp, saved, tool, batches>>
    BY <1>10 DEF StaleStats
  <2>2. /\ pass'.of = pass.of
        /\ pass' \in [st : {"none", "stat", "hash", "fresh", "stale"}, of : StampType, time : Nat]
        /\ pass'.st = "hash" => pass.of.tracked /\ pass'.time = onDisk.time
    BY <1>3, <1>10 DEF StaleStats, Verdict, SetTypes
  <2>3. SetTypes'
    BY <1>1, <1>3, <2>1, <2>2 DEF SetTypes
  <2>4. StampTold(pass.of)' /\ HashTold'
    <3>1. onDisk.time \in Nat
      BY <1>3 DEF SetTypes
    <3> QED BY <3>1, <1>1, <1>2, <1>3, <2>2 DEF StampTold, HashTold
  <2> QED BY <1>4, <1>5, <2>1, <2>3, <2>4 DEF SetInv
<1>11. CASE Sent
  <2>1. pass' = NoPass /\ UNCHANGED <<stamp, saved, tool, batches>>
    BY <1>11 DEF Sent
  <2>2. SetTypes'
    BY <1>1, <1>3, <1>7, <2>1 DEF SetTypes
  <2>3. StampTold(pass.of)' /\ HashTold'
    BY <1>7, <2>1 DEF StampTold, HashTold
  <2> QED BY <1>4, <1>5, <2>1, <2>2, <2>3 DEF SetInv
<1>12. CASE Snapshot
  <2>1. saved' \in {saved, stamp} /\ UNCHANGED <<stamp, pass, tool, batches>>
    BY <1>12 DEF Snapshot
  <2>2. SetTypes'
    BY <1>1, <1>3, <2>1 DEF SetTypes
  <2> QED BY <1>4, <1>5, <1>6, <2>1, <2>2 DEF SetInv
<1> QED BY <1>8, <1>9, <1>10, <1>11, <1>12

\* A stamp gets the time of a stat when the hash that was taken after it is
\* the stamp's: the file is as the agent saw it, or was changed since.
LEMMA RefreshKeepsTold ==
  ASSUME SetInv, StaleHashes
  PROVE  SetInv'
<1>1. /\ onDisk' = onDisk /\ seen' = seen /\ slipped' = slipped
      /\ \A t : Told(t)' <=> Told(t)
      /\ UNCHANGED <<dirty, saved, tool, batches>>
  BY DEF StaleHashes, Told
<1>2. pass.st = "hash" /\ pass.of.tracked /\ pass.time <= onDisk.time /\ pass.of.hash \in seen
  BY DEF SetInv, StaleHashes, StampTold, HashTold
<1>3. /\ pass'.of = pass.of /\ pass'.st \in {"fresh", "stale"} /\ pass'.time \in Nat
      /\ pass' \in [st : {"none", "stat", "hash", "fresh", "stale"}, of : StampType, time : Nat]
  BY DEF SetInv, SetTypes, StaleHashes, Verdict
<1>4. StampTold(stamp)' /\ stamp' \in StampType
  <2>1. CASE stamp' = stamp
    BY <1>1, <2>1 DEF SetInv, SetTypes, StampTold
  <2>2. CASE Same(pass.of) /\ stamp.tracked /\ stamp' = [stamp EXCEPT !.time = pass.time]
    <3>1. onDisk.text \in seen
      BY <1>2, <2>2 DEF Same
    <3>2. /\ stamp' \in StampType /\ stamp'.time = pass.time /\ stamp'.hash = stamp.hash
          /\ stamp'.tracked = stamp.tracked /\ stamp.hash \in seen
      BY <2>2 DEF SetInv, SetTypes, StampType, StampTold
    <3> QED BY <1>1, <1>2, <3>1, <3>2 DEF StampTold, Told
  <2> QED BY <2>1, <2>2 DEF StaleHashes
<1>5. StampTold(saved)' /\ StampTold(pass.of)' /\ HashTold'
  BY <1>1, <1>3 DEF SetInv, StampTold, HashTold
<1>6. \A c \in Tools : CallTold(c)'
  BY <1>1 DEF SetInv, CallTold
<1>7. SetTypes'
  BY <1>1, <1>3, <1>4 DEF SetInv, SetTypes
<1> QED BY <1>4, <1>5, <1>6, <1>7 DEF SetInv

\* What a call does with a file it reads or finds gone.
LEMMA CallKeepsTold ==
  ASSUME SetInv, NEW c \in Tools, ReadFile(c) \/ Refused(c) \/ Stat(c) \/ Observe(c)
  PROVE  SetInv'
<1>0. /\ tool \in [Tools -> [st : ToolStates, writes : BOOLEAN, data : Nat, time : Nat]]
      /\ onDisk.text \in Nat /\ onDisk.time \in Nat
  BY DEF SetInv, SetTypes
<1>1. onDisk' = onDisk /\ slipped' = slipped /\ seen \subseteq seen' /\ pass' = pass /\ saved' = saved /\ batches' = batches
  BY DEF ReadFile, Refused, Stat, Observe
<1>2. \A t : Told(t) => Told(t)'
  BY <1>1 DEF Told
<1>3. \A s : StampTold(s) => (s.tracked => s.hash \in seen' /\ Told(s.time)')
  BY <1>1, <1>2 DEF StampTold
<1>4. StampTold(saved)' /\ StampTold(pass.of)'
  BY <1>1, <1>3 DEF SetInv, StampTold
<1>5. /\ tool' \in [Tools -> [st : ToolStates, writes : BOOLEAN, data : Nat, time : Nat]]
      /\ \A d \in Tools \ {c} : tool'[d] = tool[d]
  <2> DEFINE ToolCall == [st : ToolStates, writes : BOOLEAN, data : Nat, time : Nat]
  <2>1. tool \in [Tools -> ToolCall] /\ tool[c] \in ToolCall
    BY <1>0
  <2>2. \E call \in ToolCall : tool' = [tool EXCEPT ![c] = call]
    <3>1. CASE ReadFile(c)
      <4>1. [tool[c] EXCEPT !.st = "taken", !.data = onDisk.text] \in ToolCall
        BY <1>0, <2>1 DEF ToolStates
      <4> QED BY <3>1, <4>1 DEF ReadFile
    <3>2. CASE Refused(c) \/ Observe(c)
      <4>1. [tool[c] EXCEPT !.st = "done"] \in ToolCall
        BY <2>1 DEF ToolStates
      <4> QED BY <3>2, <4>1 DEF Refused, Observe
    <3>3. CASE Stat(c)
      <4>1. [tool[c] EXCEPT !.st = IF onDisk.text = 0 THEN "done" ELSE "stat", !.time = onDisk.time] \in ToolCall
        BY <1>0, <2>1 DEF ToolStates
      <4> QED BY <3>3, <4>1 DEF Stat
    <3> QED BY <3>1, <3>2, <3>3
  <2> HIDE DEF ToolCall
  <2>3. tool' \in [Tools -> ToolCall] /\ \A d \in Tools \ {c} : tool'[d] = tool[d]
    BY <2>1, <2>2
  <2> QED BY <2>3 DEF ToolCall
<1>6. CallTold(c) /\ \A d \in Tools \ {c} : CallTold(d)
  BY DEF SetInv
<1>11. CallTold(c)'
  <2>1. CASE ReadFile(c)
    <3>1. tool'[c].st = "taken" /\ tool'[c].data = onDisk.text /\ onDisk.text \in seen'
      BY <2>1, <1>0 DEF ReadFile
    <3> QED BY <3>1, <1>1 DEF CallTold
  <2>2. CASE Refused(c)
    <3>1. tool'[c].st = "done"
      BY <2>2, <1>0 DEF Refused
    <3> QED BY <3>1 DEF CallTold
  <2>3. CASE Stat(c)
    <3>1. /\ tool'[c].st \in {"stat", "done"} /\ tool'[c].time = onDisk.time /\ tool'[c].data = tool[c].data
          /\ tool[c].st = "taken"
      BY <2>3, <1>0 DEF Stat
    <3>2. Told(onDisk.time)
      BY <3>1, <1>0, <1>6 DEF Told, CallTold
    <3> QED BY <3>1, <3>2, <1>1, <1>2, <1>6 DEF CallTold
  <2>4. CASE Observe(c)
    <3>1. tool'[c].st = "done"
      BY <2>4, <1>0 DEF Observe
    <3> QED BY <3>1 DEF CallTold
  <2> QED BY <2>1, <2>2, <2>3, <2>4
<1>7. StampTold(stamp)' /\ stamp' \in StampType
  <2>1. CASE stamp' = stamp
    BY <2>1, <1>3 DEF SetInv, SetTypes, StampTold
  <2>2. CASE Observe(c)
    <3>1. /\ tool[c].st = "stat" /\ stamp' = [tracked |-> TRUE, time |-> tool[c].time, hash |-> tool[c].data]
      BY <2>2 DEF Observe
    <3>2. tool[c].time \in Nat /\ tool[c].data \in Nat
      BY <1>0
    <3>3. tool[c].data \in seen /\ Told(tool[c].time)
      BY <3>1, <1>6 DEF CallTold
    <3>4. onDisk' = onDisk /\ slipped' = slipped /\ seen \subseteq seen'
      BY <1>1
    <3>5. /\ stamp'.time = tool[c].time /\ stamp'.hash = tool[c].data
          /\ stamp' \in StampType
      BY <3>1, <3>2 DEF StampType
    <3> QED BY <3>3, <3>4, <3>5 DEF StampTold, Told
  <2> QED BY <2>1, <2>2 DEF ReadFile, Refused, Stat
<1>8. \A d \in Tools \ {c} : CallTold(d)'
  BY <1>1, <1>2, <1>5, <1>6 DEF CallTold
<1>9. SetTypes'
  BY <1>1, <1>5, <1>7 DEF SetInv, SetTypes
<1>10. HashTold'
  BY <1>1 DEF SetInv, HashTold
<1> QED BY <1>4, <1>7, <1>8, <1>9, <1>10, <1>11 DEF SetInv

\* A change of the file makes every time known of it a past one.
LEMMA ChangeKeepsTold ==
  ASSUME SetInv, (\E c \in Tools : WriteFile(c)) \/ UserChanges
  PROVE  SetInv'
<1>0. /\ tool \in [Tools -> [st : ToolStates, writes : BOOLEAN, data : Nat, time : Nat]]
      /\ onDisk.text \in Nat /\ onDisk.time \in Nat /\ batches \in Nat
  BY DEF SetInv, SetTypes
<1>1. /\ onDisk'.time = onDisk.time + 1 /\ onDisk' \in [text : Nat, time : Nat] /\ seen \subseteq seen'
      /\ UNCHANGED <<stamp, saved, pass, batches>>
  <2>1. ASSUME NEW c \in Tools, WriteFile(c)
        PROVE  /\ onDisk' = [text |-> Written(c), time |-> onDisk.time + 1] /\ seen \subseteq seen'
               /\ UNCHANGED <<stamp, saved, pass, batches>>
               /\ Written(c) \in Nat
    <3>1. c \in Nat
      BY ToolsAssumption
    <3>2. Written(c) \in Nat
      BY <3>1, <1>0 DEF Written
    <3> QED BY <2>1, <3>2 DEF WriteFile
  <2>2. CASE UserChanges
    <3>1. PICK t \in Texts \cup {0, onDisk.text} : onDisk' = [text |-> t, time |-> onDisk.time + 1]
      BY <2>2 DEF UserChanges
    <3>2. t \in Nat
      BY <1>0 DEF Texts
    <3> QED BY <2>2, <3>1, <3>2, <1>0 DEF UserChanges
  <2>3. CASE \E c \in Tools : WriteFile(c)
    <3>1. PICK c \in Tools : WriteFile(c)
      BY <2>3
    <3>2. /\ onDisk' = [text |-> Written(c), time |-> onDisk.time + 1] /\ Written(c) \in Nat
      BY <3>1, <2>1
    <3> QED BY <3>1, <3>2, <2>1, <1>0
  <2> QED BY <2>2, <2>3
<1>2. \A t \in Nat : Told(t) => Told(t)'
  BY <1>0, <1>1 DEF Told
<1>3. StampTold(stamp)' /\ StampTold(saved)' /\ StampTold(pass.of)'
  BY <1>1, <1>2 DEF SetInv, SetTypes, StampTold, StampType
<1>4. HashTold'
  BY <1>0, <1>1 DEF SetInv, SetTypes, HashTold
<1>5. CASE UserChanges
  <2>1. tool' = tool /\ slipped' \in BOOLEAN /\ ((\E c \in Tools : tool[c].st = "taken") => slipped')
    BY <1>5 DEF UserChanges, SetInv, SetTypes
  <2>2. SetTypes'
    BY <1>1, <2>1 DEF SetInv, SetTypes
  <2>3. ASSUME NEW c \in Tools PROVE CallTold(c)'
    <3>1. CallTold(c) /\ tool[c].time \in Nat
      BY <1>0 DEF SetInv
    <3> QED BY <3>1, <1>1, <1>2, <2>1 DEF CallTold
  <2> QED BY <1>3, <1>4, <2>2, <2>3 DEF SetInv
<1>6. ASSUME NEW c \in Tools, WriteFile(c) PROVE SetInv'
  <2> DEFINE new == [tool[c] EXCEPT !.st = "taken", !.writes = TRUE, !.data = Written(c)]
  <2>1. /\ tool' = [tool EXCEPT ![c] = new]
        /\ onDisk'.text = Written(c) /\ seen' = seen \cup {Written(c)} /\ slipped' = slipped
    BY <1>6 DEF WriteFile
  <2>2. Written(c) \in Nat
    <3>1. c \in Nat
      BY ToolsAssumption
    <3> QED BY <3>1, <1>0 DEF Written
  <2>3. /\ new \in [st : ToolStates, writes : BOOLEAN, data : Nat, time : Nat]
        /\ new.st = "taken" /\ new.data = Written(c)
    <3>1. tool[c] \in [st : ToolStates, writes : BOOLEAN, data : Nat, time : Nat]
      BY <1>0
    <3> QED BY <3>1, <2>2 DEF ToolStates
  <2> HIDE DEF new
  <2>4. /\ tool' \in [Tools -> [st : ToolStates, writes : BOOLEAN, data : Nat, time : Nat]]
        /\ tool'[c] = new /\ \A d \in Tools \ {c} : tool'[d] = tool[d]
    BY <2>1, <2>3, <1>0
  <2>5. SetTypes'
    BY <1>1, <2>1, <2>4 DEF SetInv, SetTypes
  <2>6. ASSUME NEW d \in Tools PROVE CallTold(d)'
    <3>1. CASE d = c
      BY <3>1, <2>1, <2>3, <2>4 DEF CallTold
    <3>2. CASE d # c
      <4>1. CallTold(d) /\ tool[d].time \in Nat /\ tool'[d] = tool[d]
        BY <1>0, <2>4, <3>2 DEF SetInv
      <4> QED BY <4>1, <1>1, <1>2, <2>1 DEF CallTold
    <3> QED BY <3>1, <3>2
  <2> QED BY <1>3, <1>4, <2>5, <2>6 DEF SetInv
<1> QED BY <1>5, <1>6

\* A restart has the stamp of the last snapshot.
LEMMA ResumeKeepsTold ==
  ASSUME SetInv, Resume
  PROVE  SetInv'
<1>1. /\ stamp' = saved /\ saved' = saved /\ pass' = NoPass /\ tool' = [c \in Tools |-> Idle]
      /\ onDisk' = onDisk /\ batches' = batches /\ seen' = seen /\ slipped' = slipped
  BY DEF Resume
<1>2. /\ Untracked \in StampType /\ ~Untracked.tracked
      /\ NoPass.of = Untracked /\ NoPass.st = "none"
      /\ NoPass \in [st : {"none", "stat", "hash", "fresh", "stale"}, of : StampType, time : Nat]
      /\ Idle \in [st : ToolStates, writes : BOOLEAN, data : Nat, time : Nat] /\ Idle.st = "none"
  BY DEF Untracked, NoPass, Idle, StampType, ToolStates
<1>3. SetTypes'
  BY <1>1, <1>2 DEF SetInv, SetTypes
<1>4. StampTold(stamp)' /\ StampTold(saved)' /\ StampTold(pass.of)' /\ HashTold'
  BY <1>1, <1>2 DEF SetInv, StampTold, HashTold, Told
<1>5. \A c \in Tools : CallTold(c)'
  BY <1>1, <1>2 DEF CallTold
<1> QED BY <1>3, <1>4, <1>5 DEF SetInv

\* A tracked file whose time has not changed since has a text the agent has
\* seen, for any number of tools, batches, changes and restarts (workset.go).
THEOREM ChangesAreNoticed == SetInit /\ [][SetNext]_setVars => []ChangesNoticed
<1>1. SetInv /\ [SetNext]_setVars => SetInv'
  <2> SUFFICES ASSUME SetInv, [SetNext]_setVars PROVE SetInv'
    OBVIOUS
  <2>1. CASE UNCHANGED setVars
    BY <2>1 DEF setVars, SetInv, SetTypes, StampTold, CallTold, HashTold, Told
  <2> QED BY <2>1, TurnKeepsTold, RefreshKeepsTold, CallKeepsTold, ChangeKeepsTold, ResumeKeepsTold
          DEF SetNext
<1>2. SetInv => ChangesNoticed
  BY DEF SetInv, StampTold, Told, ChangesNoticed
<1> QED BY <1>1, <1>2, SetInvInit, PTL

-----------------------------------------------------------------------------
\* What the controller keeps, by type.
EntryKinds == Messages \cup {"settings", "custom", "label", "compaction"}
EntryType == [kind : EntryKinds, first : Nat, covers : SUBSET Nat]
MsgType == [kind : Messages, id : Nat]
CompType == [st : {"none", "planned", "appended"}, first : Nat, covers : SUBSET Nat,
             then : {"", "stream", "build", "next"}]

ContextTypes ==
  /\ path \in Seq(EntryType)
  /\ mirror \in Seq(MsgType)
  /\ half \in MsgType \cup {Nobody}
  /\ todo \in Seq(Messages)
  /\ builder \in [covers : SUBSET Nat, kept : Nat]
  /\ comp \in [Actors -> CompType]

\* A cut: a summary covers what is before it, and the first message from
\* there on is one that a conversation may resume from.
Cut(p, f, cov) ==
  /\ f \in DOMAIN p
  /\ \A i \in 1..(f - 1) : p[i].kind \in Messages => i \in cov
  /\ \E c \in f..Len(p) : validCut(p[c]) /\ \A j \in f..(c - 1) : p[j].kind \notin Messages

\* The mirror has the messages of the path in its order, but for one that
\* is on its way; and those that were not saved.
Mirrored(p, m, h) ==
  /\ \A k \in DOMAIN m : m[k].id # 0 => m[k].id \in DOMAIN p /\ p[m[k].id].kind = m[k].kind
  /\ \A j, k \in DOMAIN m : j < k /\ m[j].id # 0 /\ m[k].id # 0 => m[j].id < m[k].id
  /\ \A i \in DOMAIN p : p[i].kind \in Messages => i = h.id \/ \E k \in DOMAIN m : m[k].id = i
  /\ h.id # 0 => /\ h.id \in DOMAIN p /\ p[h.id].kind = h.kind
                 /\ \A k \in DOMAIN m : m[k].id < h.id

\* What the builder leaves out is covered, and what it goes on with is a
\* message that a conversation may resume from, or will be.
Shows(b, m, h) ==
  /\ b.kept <= Len(m)
  /\ \A k \in 1..b.kept : m[k].id = 0 \/ m[k].id \in b.covers
  /\ b.kept > 0 => IF b.kept < Len(m) THEN validCut(m[b.kept + 1]) ELSE validCut(h)

PathCut(p) == \A i \in DOMAIN p : p[i].kind = "compaction" => Cut(p, p[i].first, p[i].covers)
CompCut(p, c) == \A a \in Actors : c[a].st # "none" => Cut(p, c[a].first, c[a].covers)

\* A message is on its way only while the loop records.
OnItsWay == half = Nobody \/ todo # <<>>

\* Inductive: the cuts on the path and under way, the mirror, and the builder.
ContextInv ==
  /\ ContextTypes /\ OnItsWay
  /\ PathCut(path) /\ CompCut(path, comp)
  /\ Mirrored(path, mirror, half)
  /\ Shows(builder, mirror, half)

\* A set of naturals below a bound has a greatest and a least element.
LEMMA BothExist ==
  ASSUME NEW n \in Nat, NEW S, S \subseteq 0 .. n, S # {}
  PROVE  /\ Greatest(S) \in S /\ \A j \in S : j <= Greatest(S)
         /\ Least(S) \in S /\ \A j \in S : Least(S) <= j
<1> DEFINE T == {i .. n : i \in S}
           B == {0 .. i : i \in S}
           R == StrictSubsetOrdering(0 .. n)
<1>1. IsWellFoundedOn(R, SUBSET (0 .. n))
  <2>1. IsFiniteSet(0 .. n)
    BY FS_Interval
  <2> QED BY <2>1, FS_StrictSubsetOrderingWellFounded, FS_FiniteSubsetsOfFinite
<1>2. \A i \in S : i \in Nat /\ i <= n /\ i .. n \subseteq 0 .. n /\ 0 .. i \subseteq 0 .. n
  OBVIOUS
<1>3. T \subseteq SUBSET (0 .. n) /\ T # {} /\ B \subseteq SUBSET (0 .. n) /\ B # {}
  BY <1>2
<1>4. PICK t \in T : \A u \in T : ~(<<u, t>> \in R)
  <2> HIDE DEF T, B, R
  <2> QED BY <1>1, <1>3, WFMin
<1>5. PICK b \in B : \A u \in B : ~(<<u, b>> \in R)
  <2> HIDE DEF T, B, R
  <2> QED BY <1>1, <1>3, WFMin
<1>6. \E i \in S : \A j \in S : j <= i
  <2>1. PICK i \in S : t = i .. n
    OBVIOUS
  <2>2. ASSUME NEW j \in S, ~(j <= i) PROVE FALSE
    <3>1. i \in Nat /\ j \in Nat /\ i < j /\ j <= n /\ i <= n
      BY <1>2, <2>2
    <3>2. j .. n \subseteq i .. n /\ i \notin j .. n /\ i \in i .. n
      BY <3>1
    <3>3. j .. n \in SUBSET (0 .. n) /\ i .. n \in SUBSET (0 .. n)
      BY <1>2
    <3>4. <<j .. n, t>> \in R
      BY <3>2, <3>3, <2>1 DEF StrictSubsetOrdering
    <3>5. j .. n \in T
      OBVIOUS
    <3> QED BY <3>4, <3>5, <1>4
  <2> QED BY <2>2
<1>7. \E i \in S : \A j \in S : i <= j
  <2>1. PICK i \in S : b = 0 .. i
    OBVIOUS
  <2>2. ASSUME NEW j \in S, ~(i <= j) PROVE FALSE
    <3>1. i \in Nat /\ j \in Nat /\ j < i /\ j <= n /\ i <= n
      BY <1>2, <2>2
    <3>2. 0 .. j \subseteq 0 .. i /\ i \notin 0 .. j /\ i \in 0 .. i
      BY <3>1
    <3>3. 0 .. j \in SUBSET (0 .. n) /\ 0 .. i \in SUBSET (0 .. n)
      BY <1>2
    <3>4. <<0 .. j, b>> \in R
      BY <3>2, <3>3, <2>1 DEF StrictSubsetOrdering
    <3>5. 0 .. j \in B
      OBVIOUS
    <3> QED BY <3>4, <3>5, <1>5
  <2> QED BY <2>2
<1>8. Greatest(S) \in S /\ \A j \in S : j <= Greatest(S)
  BY <1>6 DEF Greatest
<1>9. Least(S) \in S /\ \A j \in S : Least(S) <= j
  BY <1>7 DEF Least
<1> QED BY <1>8, <1>9

\* The last compaction is one.
LEMMA LastCompIs ==
  ASSUME NEW p \in Seq(EntryType)
  PROVE  /\ LastComp(p) \in 0 .. Len(p)
         /\ LastComp(p) # 0 => p[LastComp(p)].kind = "compaction"
         /\ \A i \in DOMAIN p : p[i].kind = "compaction" => i <= LastComp(p)
<1> DEFINE cs == {i \in DOMAIN p : p[i].kind = "compaction"}
<1>1. Len(p) \in Nat /\ DOMAIN p = 1 .. Len(p)
  BY LenProperties
<1>2. cs \subseteq 0 .. Len(p)
  BY <1>1
<1>3. LastComp(p) = IF cs = {} THEN 0 ELSE Greatest(cs)
  BY DEF LastComp, Greatest
<1>4. cs # {} => Greatest(cs) \in cs /\ \A j \in cs : j <= Greatest(cs)
  BY <1>1, <1>2, BothExist
<1>5. CASE cs = {}
  BY <1>1, <1>3, <1>5
<1>6. CASE cs # {}
  BY <1>1, <1>3, <1>4, <1>6
<1> QED BY <1>5, <1>6

\* What a compaction plans is a cut.
LEMMA PlanIsCut ==
  ASSUME NEW p \in Seq(EntryType), PathCut(p), planCut(p) # 0
  PROVE  /\ planCut(p) \in Nat /\ Covered(p, planCut(p)) \in SUBSET Nat
         /\ Cut(p, planCut(p), Covered(p, planCut(p)))
<1> DEFINE w == WindowStart(p)
           far == {i \in (w + 1)..Len(p) : Cost(p, i) >= KeepRecent}
           cuts == {w} \cup {i \in (w + 1)..Greatest(far) : validCut(p[i])}
           cut == Greatest(cuts)
           lead == {i \in (w + 1)..cut : i > LastComp(p) /\ \A j \in i..(cut - 1) : isSettings(p[j])}
           f == Least(lead)
           k == LastComp(p)
<1>1. Len(p) \in Nat /\ DOMAIN p = 1 .. Len(p) /\ \A i \in 1 .. Len(p) : p[i] \in EntryType
  BY LenProperties, ElementOfSeq
<1>2. /\ k \in 0 .. Len(p) /\ k \in Nat
      /\ k # 0 => Cut(p, p[k].first, p[k].covers) /\ p[k].covers \in SUBSET Nat
  <2>1. k \in 0 .. Len(p) /\ (k # 0 => p[k].kind = "compaction")
    BY LastCompIs
  <2>2. k # 0 => k \in DOMAIN p /\ p[k] \in EntryType
    BY <1>1, <2>1
  <2> QED BY <1>1, <2>1, <2>2 DEF PathCut, EntryType
<1>3. w \in Nat \ {0} /\ (k = 0 => w = 1) /\ (k # 0 => w = p[k].first /\ w \in 1 .. Len(p))
  <2>1. k # 0 => p[k].first \in 1 .. Len(p)
    BY <1>1, <1>2 DEF Cut
  <2> QED BY <1>1, <2>1 DEF WindowStart
<1>4. /\ far # {} /\ cut > w /\ cut > k /\ planCut(p) = f
  <2>1. planCut(p) = IF far = {} THEN 0
                     ELSE IF cut <= w \/ cut <= LastComp(p) THEN 0
                     ELSE Least(lead)
    BY DEF planCut
  <2>2. far # {} /\ ~(cut <= w \/ cut <= k) /\ planCut(p) = f
    <3> HIDE DEF f, lead, cut, far
    <3> QED BY <2>1 DEF f
  <2>3. cut \in Nat
    <3>1. far \subseteq 0 .. Len(p)
      BY <1>1, <1>3
    <3>2. Greatest(far) \in far
      BY <1>1, <2>2, <3>1, BothExist
    <3>3. Greatest(far) \in 0 .. Len(p)
      BY <3>1, <3>2
    <3> HIDE DEF far
    <3>4. w + Greatest(far) \in Nat /\ cuts \subseteq 0 .. (w + Greatest(far)) /\ cuts # {}
      BY <1>1, <1>3, <3>3
    <3>5. cut \in cuts
      <4> HIDE DEF cuts
      <4> QED BY <3>4, BothExist
    <3> QED BY <3>4, <3>5
  <2> QED BY <1>2, <1>3, <2>2, <2>3
<1>5. cut \in (w + 1) .. Len(p) /\ validCut(p[cut])
  <2>1. far \subseteq 0 .. Len(p)
    BY <1>1, <1>3
  <2>2. Greatest(far) \in far
    BY <1>1, <1>4, <2>1, BothExist
  <2>3. Greatest(far) \in 0 .. Len(p)
    BY <2>1, <2>2
  <2> HIDE DEF far
  <2>4. w + Greatest(far) \in Nat /\ cuts \subseteq 0 .. (w + Greatest(far)) /\ cuts # {}
    BY <1>1, <1>3, <2>3
  <2>5. cut \in cuts
    <3> HIDE DEF cuts
    <3> QED BY <2>4, BothExist
  <2>6. cut # w
    BY <1>3, <1>4, <2>4, <2>5
  <2> HIDE DEF cut
  <2> QED BY <1>1, <1>3, <2>3, <2>5, <2>6
<1>6. f \in lead
  <2> HIDE DEF cut
  <2>1. cut \in Nat /\ lead \subseteq 0 .. cut
    BY <1>3, <1>5
  <2>2. cut \in lead
    BY <1>3, <1>4, <1>5
  <2> HIDE DEF lead
  <2> QED BY <2>1, <2>2, BothExist
<1> HIDE DEF far, cuts, cut
<1>7. f \in (w + 1) .. cut /\ \A j \in f .. (cut - 1) : isSettings(p[j])
  BY <1>6
<1> HIDE DEF f, lead
<1>8. f \in Nat /\ f \in DOMAIN p /\ cut \in f .. Len(p)
  BY <1>1, <1>3, <1>5, <1>7
<1>9. \A i \in 1 .. (f - 1) : p[i].kind \in Messages => i \in Covered(p, f)
  <2> SUFFICES ASSUME NEW i \in 1 .. (f - 1), p[i].kind \in Messages PROVE i \in Covered(p, f)
    OBVIOUS
  <2>1. CASE i >= w
    <3>1. i \in w .. (f - 1)
      BY <1>3, <1>8, <2>1
    <3> QED BY <3>1 DEF Covered
  <2>2. CASE i < w
    <3>1. k # 0 /\ w = p[k].first
      BY <1>3, <2>2
    <3>2. i \in 1 .. (p[k].first - 1)
      BY <1>3, <2>2, <3>1
    <3>3. i \in p[k].covers
      BY <1>2, <3>1, <3>2 DEF Cut
    <3> QED BY <3>1, <3>3 DEF Covered
  <2> QED BY <1>3, <2>1, <2>2
<1>10. \A j \in f .. (cut - 1) : p[j].kind \notin Messages
  BY <1>7 DEF isSettings, Messages
<1>11. Covered(p, f) \in SUBSET Nat
  <2>1. {i \in w .. (f - 1) : p[i].kind \in Messages} \subseteq Nat
    BY <1>3, <1>8
  <2>2. (IF k = 0 THEN {} ELSE p[k].covers) \subseteq Nat
    BY <1>2
  <2> QED BY <2>1, <2>2 DEF Covered
<1> QED BY <1>4, <1>5, <1>8, <1>9, <1>10, <1>11 DEF Cut

\* The ids of a mirror are places of the path, each at one place of the mirror.
LEMMA IdsInPath ==
  ASSUME NEW p \in Seq(EntryType), NEW m \in Seq(MsgType), NEW h, Mirrored(p, m, h)
  PROVE  /\ \A i \in DOMAIN m : m[i].id \in Nat /\ m[i].kind \in Messages
         /\ \A i, j \in DOMAIN m : m[i].id # 0 /\ m[i].id = m[j].id => i = j
<1>1. DOMAIN m = 1 .. Len(m) /\ Len(m) \in Nat /\ \A i \in 1 .. Len(m) : m[i] \in MsgType
  BY LenProperties, ElementOfSeq
<1>2. \A i \in DOMAIN m : m[i].id \in Nat /\ m[i].kind \in Messages
  BY <1>1 DEF MsgType
<1>3. ASSUME NEW i \in DOMAIN m, NEW j \in DOMAIN m, m[i].id # 0, m[i].id = m[j].id PROVE i = j
  <2>1. ~(i < j) /\ ~(j < i)
    BY <1>2, <1>3 DEF Mirrored
  <2> QED BY <1>1, <2>1
<1> QED BY <1>2, <1>3

\* Where the builder goes on after a cut: with the message of the cut, or at
\* the end while that is on its way.
LEMMA KeptAtCut ==
  ASSUME NEW p \in Seq(EntryType), NEW m \in Seq(MsgType), NEW h \in MsgType \cup {Nobody},
         NEW f \in Nat, NEW cov \in SUBSET Nat,
         Mirrored(p, m, h), Cut(p, f, cov)
  PROVE  keptFrom(f, p, m) \in Nat /\ Shows([covers |-> cov, kept |-> keptFrom(f, p, m)], m, h)
<1> DEFINE ids == {m[i].id : i \in DOMAIN m}
           later == {q \in f..Len(p) : q \in ids}
           L == Least(later)
           at == CHOOSE i \in DOMAIN m : m[i].id = L
           kept == keptFrom(f, p, m)
           b == [covers |-> cov, kept |-> kept]
<1>1. /\ DOMAIN m = 1 .. Len(m) /\ Len(m) \in Nat
      /\ DOMAIN p = 1 .. Len(p) /\ Len(p) \in Nat
  BY LenProperties
<1>2. /\ \A i \in DOMAIN m : m[i].id \in Nat /\ m[i].kind \in Messages
      /\ \A i, j \in DOMAIN m : m[i].id # 0 /\ m[i].id = m[j].id => i = j
  BY IdsInPath
<1>3. PICK c \in f..Len(p) : validCut(p[c]) /\ \A j \in f..(c - 1) : p[j].kind \notin Messages
  BY DEF Cut
<1>4. /\ f \in 1 .. Len(p) /\ c \in Nat /\ f <= c /\ c \in DOMAIN p /\ c # 0
      /\ p[c].kind \in Messages \ {"result"}
  BY <1>1, <1>3 DEF Cut, validCut
<1>5. kept = IF later = {} THEN Len(m) ELSE at - 1
  BY DEF keptFrom
<1>6. \A i \in DOMAIN m : m[i].id # 0 => m[i].id \in DOMAIN p /\ p[m[i].id].kind = m[i].kind
  BY DEF Mirrored
<1>7. ASSUME NEW k \in DOMAIN m, m[k].id # 0, m[k].id < c PROVE m[k].id \in cov
  <2>1. m[k].id \in DOMAIN p /\ p[m[k].id].kind \in Messages /\ m[k].id \in Nat
    BY <1>2, <1>6, <1>7
  <2>2. m[k].id \notin f .. (c - 1)
    BY <1>3, <2>1
  <2>3. m[k].id \in 1 .. (f - 1)
    BY <1>1, <1>4, <1>7, <2>1, <2>2
  <2> QED BY <2>1, <2>3 DEF Cut
<1> HIDE DEF kept
<1>8. b.kept = kept /\ b.covers = cov
  OBVIOUS
<1> HIDE DEF b
<1>9. ASSUME \E k \in DOMAIN m : m[k].id = c PROVE kept \in Nat /\ Shows(b, m, h)
  <2>1. PICK x \in DOMAIN m : m[x].id = c
    BY <1>9
  <2>2. c \in later
    BY <1>3, <2>1
  <2>3. L \in later /\ \A j \in later : L <= j
    <3>1. later \subseteq 0 .. Len(p)
      BY <1>1, <1>4
    <3> HIDE DEF later
    <3> QED BY <1>1, <2>2, <3>1, BothExist
  <2>4. L = c
    <3>1. PICK i \in DOMAIN m : m[i].id = L
      BY <2>3
    <3>2. L \in f .. Len(p) /\ L \in Nat
      BY <1>1, <1>4, <2>3
    <3>3. L # 0
      BY <1>4, <3>2
    <3>4. p[L].kind \in Messages
      BY <1>2, <1>6, <3>1, <3>3
    <3>5. L \notin f .. (c - 1)
      BY <1>3, <3>4
    <3>6. L <= c
      BY <2>2, <2>3
    <3> QED BY <1>4, <3>2, <3>5, <3>6
  <2>5. at \in DOMAIN m /\ m[at].id = c
    BY <2>1, <2>4
  <2> HIDE DEF at, L
  <2>6. kept = at - 1 /\ kept < Len(m) /\ kept \in Nat /\ at \in 1 .. Len(m)
    BY <1>1, <1>5, <2>2, <2>5
  <2>7. validCut(m[kept + 1])
    <3>1. kept + 1 = at
      BY <2>6
    <3>2. m[at].kind = p[c].kind
      BY <1>4, <1>6, <2>5
    <3> QED BY <1>4, <3>1, <3>2 DEF validCut
  <2>8. ASSUME NEW k \in 1 .. kept PROVE m[k].id = 0 \/ m[k].id \in cov
    <3>1. k \in DOMAIN m /\ k < at
      BY <1>1, <2>6
    <3>2. m[k].id # 0 => m[k].id < c
      BY <1>4, <2>5, <3>1 DEF Mirrored
    <3> QED BY <1>7, <3>1, <3>2
  <2> QED BY <1>8, <2>6, <2>7, <2>8 DEF Shows
<1>10. ASSUME ~ \E k \in DOMAIN m : m[k].id = c PROVE kept \in Nat /\ Shows(b, m, h)
  <2>1. c = h.id /\ h.id # 0
    BY <1>4, <1>10 DEF Mirrored
  <2>2. /\ p[c].kind = h.kind
        /\ \A k \in DOMAIN m : m[k].id < c
    BY <2>1 DEF Mirrored
  <2>3. validCut(h)
    BY <1>4, <2>2 DEF validCut
  <2>4. later = {}
    <3> SUFFICES ASSUME NEW i \in DOMAIN m, m[i].id \in f .. Len(p) PROVE FALSE
      OBVIOUS
    <3>1. m[i].id \in Nat /\ m[i].id < c /\ m[i].id # 0 /\ f <= m[i].id
      BY <1>1, <1>2, <1>4, <2>2
    <3>2. p[m[i].id].kind \in Messages
      BY <1>2, <1>6, <3>1
    <3>3. m[i].id \in f .. (c - 1)
      BY <1>4, <3>1
    <3> QED BY <1>3, <3>2, <3>3
  <2>5. kept = Len(m)
    BY <1>5, <2>4
  <2>6. ASSUME NEW k \in 1 .. kept PROVE m[k].id = 0 \/ m[k].id \in cov
    <3>1. k \in DOMAIN m
      BY <1>1, <2>5
    <3> QED BY <1>7, <2>2, <3>1
  <2>7. ~(kept < Len(m)) /\ kept <= Len(m) /\ kept \in Nat
    BY <1>1, <2>5
  <2> QED BY <1>8, <2>3, <2>6, <2>7 DEF Shows
<1> QED BY <1>9, <1>10 DEF kept, b

\* A set of naturals that has 0, and with every number below n the next, has all up to n.
LEMMA UpTo ==
  ASSUME NEW n \in Nat, NEW S, 0 \in S, \A i \in 0 .. n : i \in S /\ i < n => i + 1 \in S
  PROVE  \A i \in 0 .. n : i \in S
<1> DEFINE T == {i \in 0 .. n : i \notin S}
<1>1. CASE T # {}
  <2>1. Least(T) \in T /\ \A j \in T : Least(T) <= j
    BY <1>1, BothExist
  <2>2. PICK k \in 0 .. n : k = Least(T) /\ k \notin S
    BY <2>1
  <2>3. k # 0 /\ k - 1 \in 0 .. n /\ k - 1 < n /\ k = (k - 1) + 1
    BY <2>2
  <2>4. k - 1 \notin T
    BY <2>1, <2>2, <2>3
  <2>5. k - 1 \in S
    BY <2>3, <2>4
  <2> QED BY <2>2, <2>3, <2>5
<1> QED BY <1>1

\* What LoadHistory has taken from the first n entries.
Loaded(p, n, s) ==
  /\ s \in Seq(MsgType)
  /\ \A k \in DOMAIN s : s[k].id \in 1..n /\ s[k].kind = p[s[k].id].kind
  /\ \A j, k \in DOMAIN s : j < k => s[j].id < s[k].id
  /\ \A i \in 1..n : p[i].kind \in Messages => \E k \in DOMAIN s : s[k].id = i

Load(p, n, s) == IF p[n].kind \in Messages THEN Append(s, [kind |-> p[n].kind, id |-> n]) ELSE s

\* One round of the loop of LoadHistory.
LEMMA LoadsNext ==
  ASSUME NEW p \in Seq(EntryType), NEW n \in Nat, n < Len(p), NEW s, Loaded(p, n, s)
  PROVE  Loaded(p, n + 1, Load(p, n + 1, s))
<1> DEFINE e == [kind |-> p[n + 1].kind, id |-> n + 1]
           t == Append(s, e)
<1>1. s \in Seq(MsgType) /\ DOMAIN s = 1 .. Len(s) /\ Len(s) \in Nat
  BY LenProperties DEF Loaded
<1>2. /\ \A k \in DOMAIN s : s[k].id \in 1..n /\ s[k].kind = p[s[k].id].kind
      /\ \A j, k \in DOMAIN s : j < k => s[j].id < s[k].id
      /\ \A i \in 1..n : p[i].kind \in Messages => \E k \in DOMAIN s : s[k].id = i
  BY DEF Loaded
<1>3. CASE p[n + 1].kind \in Messages
  <2>1. e \in MsgType /\ e.id = n + 1 /\ e.kind = p[n + 1].kind
    BY <1>3 DEF MsgType
  <2> HIDE DEF e
  <2>2. /\ t \in Seq(MsgType) /\ Len(t) = Len(s) + 1
        /\ \A i \in 1 .. Len(s) : t[i] = s[i]
        /\ t[Len(s) + 1] = e
    BY <1>1, <2>1, AppendProperties
  <2> HIDE DEF t
  <2>3. DOMAIN t = 1 .. (Len(s) + 1)
    BY <2>2, LenProperties
  <2>4. ASSUME NEW k \in DOMAIN t PROVE t[k].id \in 1 .. (n + 1) /\ t[k].kind = p[t[k].id].kind
    <3>1. CASE k \in DOMAIN s
      <4>1. t[k] = s[k]
        BY <1>1, <2>2, <3>1
      <4> QED BY <1>2, <3>1, <4>1
    <3>2. CASE k = Len(s) + 1
      BY <2>1, <2>2, <3>2
    <3> QED BY <1>1, <2>3, <3>1, <3>2
  <2>5. ASSUME NEW j \in DOMAIN t, NEW k \in DOMAIN t, j < k PROVE t[j].id < t[k].id
    <3>1. j \in DOMAIN s /\ t[j] = s[j]
      BY <1>1, <2>2, <2>3, <2>5
    <3>2. CASE k \in DOMAIN s
      <4>1. t[k] = s[k]
        BY <1>1, <2>2, <3>2
      <4> QED BY <1>2, <2>5, <3>1, <3>2, <4>1
    <3>3. CASE k = Len(s) + 1
      <4>1. t[k].id = n + 1 /\ s[j].id \in 1 .. n
        BY <1>2, <2>1, <2>2, <3>1, <3>3
      <4> QED BY <3>1, <4>1
    <3> QED BY <1>1, <2>3, <3>2, <3>3
  <2>6. ASSUME NEW i \in 1 .. (n + 1), p[i].kind \in Messages PROVE \E k \in DOMAIN t : t[k].id = i
    <3>1. CASE i \in 1 .. n
      <4>1. PICK k \in DOMAIN s : s[k].id = i
        BY <1>2, <2>6, <3>1
      <4>2. k \in DOMAIN t /\ t[k] = s[k]
        BY <1>1, <2>2, <2>3
      <4> QED BY <4>1, <4>2
    <3>2. CASE i = n + 1
      <4>1. Len(s) + 1 \in DOMAIN t
        BY <1>1, <2>3
      <4> QED BY <2>1, <2>2, <3>2, <4>1
    <3> QED BY <3>1, <3>2
  <2>7. Loaded(p, n + 1, t)
    BY <2>2, <2>4, <2>5, <2>6 DEF Loaded
  <2>8. Load(p, n + 1, s) = t
    BY <1>3 DEF Load, t, e
  <2> QED BY <2>7, <2>8
<1>4. CASE p[n + 1].kind \notin Messages
  <2>1. Load(p, n + 1, s) = s
    BY <1>4 DEF Load
  <2>2. \A i \in 1 .. (n + 1) : p[i].kind \in Messages => i \in 1 .. n
    BY <1>4
  <2>3. \A k \in DOMAIN s : s[k].id \in 1 .. (n + 1)
    BY <1>2
  <2>4. Loaded(p, n + 1, s)
    BY <1>1, <1>2, <2>2, <2>3 DEF Loaded
  <2> QED BY <2>1, <2>4
<1> QED BY <1>3, <1>4

\* The loop of LoadHistory is a function of how far it is.
LEMMA LoopExists ==
  ASSUME NEW p, NEW n \in Nat
  PROVE  \E f : f = [i \in 0..n |-> IF i = 0 THEN <<>> ELSE Load(p, i, f[i - 1])]
<1> DEFINE Iterates(m, f) == f = [i \in 0..m |-> IF i = 0 THEN <<>> ELSE Load(p, i, f[i - 1])]
           S == {m \in 0 .. n : \E f : Iterates(m, f)}
<1>1. 0 \in S
  <2> DEFINE f == [i \in 0..0 |-> <<>>]
  <2>1. Iterates(0, f)
    OBVIOUS
  <2>2. \E g : Iterates(0, g)
    BY <2>1
  <2> HIDE DEF Iterates
  <2> QED BY <2>2
<1>2. ASSUME NEW m \in 0 .. n, m \in S, m < n PROVE m + 1 \in S
  <2>1. PICK f : Iterates(m, f)
    BY <1>2
  <2> DEFINE g == [i \in 0..(m + 1) |-> IF i = m + 1 THEN Load(p, m + 1, f[m]) ELSE f[i]]
             h == [i \in 0..(m + 1) |-> IF i = 0 THEN <<>> ELSE Load(p, i, g[i - 1])]
  <2>2. m \in Nat
    OBVIOUS
  <2>3. \A i \in 0 .. m : f[i] = IF i = 0 THEN <<>> ELSE Load(p, i, f[i - 1])
    BY <2>1
  <2>4. \A i \in 0 .. (m + 1) : g[i] = h[i]
    <3> SUFFICES ASSUME NEW i \in 0 .. (m + 1) PROVE g[i] = h[i]
      OBVIOUS
    <3>1. CASE i = 0
      BY <2>2, <2>3, <3>1
    <3>2. CASE i \in 1 .. m
      <4>1. g[i] = f[i] /\ g[i - 1] = f[i - 1]
        BY <2>2, <3>2
      <4> QED BY <2>2, <2>3, <3>2, <4>1
    <3>3. CASE i = m + 1
      <4>1. g[i] = Load(p, m + 1, f[m]) /\ g[i - 1] = f[m]
        BY <2>2, <3>3
      <4> QED BY <2>2, <3>3, <4>1
    <3> QED BY <2>2, <3>1, <3>2, <3>3
  <2>5. g = h
    BY <2>4
  <2>6. Iterates(m + 1, g)
    BY <2>5
  <2>7. m + 1 \in 0 .. n
    BY <1>2, <2>2
  <2> QED BY <2>6, <2>7
<1>3. n \in S
  <2> HIDE DEF S
  <2> QED BY <1>1, <1>2, UpTo
<1> QED BY <1>3

\* LoadHistory takes the messages of the path, all of them and in order.
LEMMA HistoryLoaded ==
  ASSUME NEW p \in Seq(EntryType)
  PROVE  Loaded(p, Len(p), history(p))
<1> DEFINE n == Len(p)
           upTo == CHOOSE f : f = [i \in 0..n |-> IF i = 0 THEN <<>> ELSE Load(p, i, f[i - 1])]
           S == {i \in 0 .. n : Loaded(p, i, upTo[i])}
<1>1. n \in Nat
  BY LenProperties
<1>2. upTo = [i \in 0..n |-> IF i = 0 THEN <<>> ELSE Load(p, i, upTo[i - 1])]
  <2>1. \E f : f = [i \in 0..n |-> IF i = 0 THEN <<>> ELSE Load(p, i, f[i - 1])]
    BY <1>1, LoopExists
  <2> QED BY <2>1
<1>3. history(p) = upTo[n]
  BY DEF history, Load
<1> HIDE DEF upTo, n
<1>4. \A i \in 0 .. n : upTo[i] = IF i = 0 THEN <<>> ELSE Load(p, i, upTo[i - 1])
  BY <1>2
<1>5. 0 \in S
  <2>1. upTo[0] = <<>>
    BY <1>1, <1>4
  <2>2. Loaded(p, 0, <<>>)
    BY EmptySeq DEF Loaded
  <2> QED BY <1>1, <2>1, <2>2
<1>6. ASSUME NEW i \in 0 .. n, i \in S, i < n PROVE i + 1 \in S
  <2>1. i \in Nat /\ i + 1 \in 0 .. n /\ i + 1 # 0 /\ (i + 1) - 1 = i
    BY <1>1, <1>6
  <2>2. upTo[i + 1] = Load(p, i + 1, upTo[i])
    BY <1>4, <2>1
  <2>3. Loaded(p, i, upTo[i])
    BY <1>6
  <2>4. Loaded(p, i + 1, Load(p, i + 1, upTo[i]))
    BY <1>6, <2>1, <2>3, LoadsNext DEF n
  <2> QED BY <2>1, <2>2, <2>4
<1> HIDE DEF S
<1>7. \A i \in 0 .. n : i \in S /\ i < n => i + 1 \in S
  BY <1>6
<1>8. \A i \in 0 .. n : i \in S
  BY <1>1, <1>5, <1>7, UpTo
<1>9. n \in S
  BY <1>1, <1>8
<1> QED BY <1>3, <1>9 DEF n, S

\* A cut stays one while the path grows.
LEMMA CutGrows ==
  ASSUME NEW p \in Seq(EntryType), NEW e \in EntryType, NEW f, NEW cov, Cut(p, f, cov)
  PROVE  Cut(Append(p, e), f, cov)
<1> DEFINE q == Append(p, e)
<1>1. Len(p) \in Nat /\ DOMAIN p = 1 .. Len(p)
  BY LenProperties
<1>2. Len(q) = Len(p) + 1 /\ DOMAIN q = 1 .. (Len(p) + 1) /\ \A i \in 1 .. Len(p) : q[i] = p[i]
  BY <1>1, AppendProperties, LenProperties
<1> HIDE DEF q
<1>3. PICK c \in f..Len(p) : validCut(p[c]) /\ \A j \in f..(c - 1) : p[j].kind \notin Messages
  BY DEF Cut
<1>4. f \in 1 .. Len(p) /\ f \in DOMAIN q /\ c \in f .. Len(q) /\ c \in 1 .. Len(p)
  BY <1>1, <1>2, <1>3 DEF Cut
<1>5. \A i \in 1 .. (f - 1) : q[i].kind \in Messages => i \in cov
  BY <1>1, <1>2, <1>4 DEF Cut
<1>6. validCut(q[c])
  BY <1>2, <1>3, <1>4
<1>7. \A j \in f .. (c - 1) : q[j].kind \notin Messages
  <2> SUFFICES ASSUME NEW j \in f .. (c - 1) PROVE q[j].kind \notin Messages
    OBVIOUS
  <2>1. j \in 1 .. Len(p)
    BY <1>1, <1>4
  <2> QED BY <1>2, <1>3, <2>1
<1>8. Cut(q, f, cov)
  BY <1>4, <1>5, <1>6, <1>7 DEF Cut
<1> QED BY <1>8 DEF q

\* The path grows by an entry; only a message is still to be mirrored.
LEMMA PathGrows ==
  ASSUME ContextInv, NEW e \in EntryType, e.kind = "compaction" => Cut(path, e.first, e.covers)
  PROVE  /\ Append(path, e) \in Seq(EntryType)
         /\ PathCut(Append(path, e)) /\ CompCut(Append(path, e), comp)
         /\ e.kind \notin Messages => Mirrored(Append(path, e), mirror, half)
<1> DEFINE q == Append(path, e)
<1>1. /\ path \in Seq(EntryType) /\ mirror \in Seq(MsgType)
      /\ PathCut(path) /\ CompCut(path, comp) /\ Mirrored(path, mirror, half)
  BY DEF ContextInv, ContextTypes
<1>2. Len(path) \in Nat /\ DOMAIN path = 1 .. Len(path)
  BY <1>1, LenProperties
<1>3. /\ q \in Seq(EntryType) /\ Len(q) = Len(path) + 1 /\ DOMAIN q = 1 .. (Len(path) + 1)
      /\ \A i \in 1 .. Len(path) : q[i] = path[i]
      /\ q[Len(path) + 1] = e
  BY <1>1, <1>2, AppendProperties, LenProperties
<1>4. \A f, cov : Cut(path, f, cov) => Cut(q, f, cov)
  BY <1>1, CutGrows
<1> HIDE DEF q
<1>5. ASSUME NEW i \in DOMAIN q, q[i].kind = "compaction" PROVE Cut(q, q[i].first, q[i].covers)
  <2>1. CASE i \in DOMAIN path
    <3>1. q[i] = path[i]
      BY <1>2, <1>3, <2>1
    <3>2. Cut(path, path[i].first, path[i].covers)
      BY <1>1, <1>5, <2>1, <3>1 DEF PathCut
    <3> QED BY <1>4, <3>1, <3>2
  <2>2. CASE i = Len(path) + 1
    <3>1. Cut(path, e.first, e.covers)
      BY <1>3, <1>5, <2>2
    <3> QED BY <1>3, <1>4, <2>2, <3>1
  <2> QED BY <1>2, <1>3, <2>1, <2>2
<1>6. CompCut(q, comp)
  BY <1>1, <1>4 DEF CompCut
<1>7. ASSUME e.kind \notin Messages PROVE Mirrored(q, mirror, half)
  <2>1. \A i \in DOMAIN path : i \in DOMAIN q /\ q[i] = path[i]
    BY <1>2, <1>3
  <2>2. \A i \in DOMAIN q : q[i].kind \in Messages => i \in DOMAIN path
    BY <1>2, <1>3, <1>7
  <2>3. \A k \in DOMAIN mirror : mirror[k].id # 0 =>
          mirror[k].id \in DOMAIN q /\ q[mirror[k].id].kind = mirror[k].kind
    BY <1>1, <2>1 DEF Mirrored
  <2>4. \A i \in DOMAIN q : q[i].kind \in Messages => i = half.id \/ \E k \in DOMAIN mirror : mirror[k].id = i
    BY <1>1, <2>1, <2>2 DEF Mirrored
  <2>5. half.id # 0 => /\ half.id \in DOMAIN q /\ q[half.id].kind = half.kind
                       /\ \A k \in DOMAIN mirror : mirror[k].id < half.id
    BY <1>1, <2>1 DEF Mirrored
  <2> QED BY <1>1, <2>3, <2>4, <2>5 DEF Mirrored
<1>8. PathCut(q)
  BY <1>5 DEF PathCut
<1> QED BY <1>3, <1>6, <1>7, <1>8 DEF q

\* A compaction is planned.
LEMMA PlanKeeps ==
  ASSUME NEW p \in Seq(EntryType), PathCut(p), comp \in [Actors -> CompType], CompCut(p, comp), planCut(p) # 0,
         NEW a \in Actors, NEW then \in {"", "stream", "build", "next"},
         comp' = [comp EXCEPT ![a] = [st |-> "planned", first |-> planCut(p),
                                      covers |-> Covered(p, planCut(p)), then |-> then]]
  PROVE  comp' \in [Actors -> CompType] /\ CompCut(p, comp')
<1> DEFINE f == planCut(p)
           cov == Covered(p, f)
           c == [st |-> "planned", first |-> f, covers |-> cov, then |-> then]
<1>1. f \in Nat /\ cov \in SUBSET Nat /\ Cut(p, f, cov)
  BY PlanIsCut
<1> HIDE DEF f, cov
<1>2. c \in CompType /\ c.first = f /\ c.covers = cov
  BY <1>1 DEF CompType
<1>3. comp' = [comp EXCEPT ![a] = c]
  BY DEF c, f, cov
<1> HIDE DEF c
<1>4. comp' \in [Actors -> CompType] /\ comp'[a] = c /\ \A b \in Actors \ {a} : comp'[b] = comp[b]
  BY <1>2, <1>3
<1> QED BY <1>1, <1>2, <1>4 DEF CompCut

\* Steps that change neither path, mirror nor builder.
Elsewhere == /\ UNCHANGED <<path, mirror, half, builder>>
             /\ todo' \in Seq(Messages) /\ OnItsWay'
             /\ comp' \in [Actors -> CompType] /\ CompCut(path, comp')

\* They keep the invariant.
LEMMA ElsewhereKeeps == ASSUME ContextInv, Elsewhere PROVE ContextInv'
<1>1. ContextTypes'
  BY DEF ContextInv, ContextTypes, Elsewhere
<1>2. PathCut(path)' /\ Mirrored(path, mirror, half)' /\ Shows(builder, mirror, half)'
  BY DEF ContextInv, Elsewhere
<1>3. CompCut(path, comp)' /\ OnItsWay'
  BY DEF Elsewhere
<1> QED BY <1>1, <1>2, <1>3 DEF ContextInv

\* Who starts or ends a step of the loop, plans a compaction or gives it up.
LEMMA LoopKeeps ==
  ASSUME ContextInv,
         \/ Prompt \/ Turn \/ Stop \/ Build \/ Answer \/ Broken \/ Overflow \/ Manual
         \/ \E a \in Actors : CompactFails(a)
  PROVE  Elsewhere
<1>1. /\ todo \in Seq(Messages) /\ comp \in [Actors -> CompType] /\ CompCut(path, comp)
      /\ path \in Seq(EntryType) /\ PathCut(path) /\ OnItsWay
  BY DEF ContextInv, ContextTypes
<1>0. OnItsWay'
  <2>1. CASE Prompt \/ Turn \/ Stop \/ Answer \/ Broken
    <3>1. todo = <<>> /\ half' = half
      BY <2>1 DEF Prompt, Turn, Stop, Answer, Broken, At
    <3> QED BY <1>1, <3>1 DEF OnItsWay
  <2>2. CASE Build \/ Overflow \/ Manual
    <3>1. todo' = todo /\ half' = half
      BY <2>2 DEF Build, Overflow, Manual
    <3> QED BY <1>1, <3>1 DEF OnItsWay
  <2>3. CASE \E a \in Actors : CompactFails(a)
    <3>1. todo' \in {todo, <<"failed">>} /\ half' = half
      BY <2>3 DEF CompactFails
    <3>2. <<"failed">> # <<>>
      OBVIOUS
    <3> QED BY <1>1, <3>1, <3>2 DEF OnItsWay
  <2> QED BY <2>1, <2>2, <2>3
<1>2. <<>> \in Seq(Messages) /\ \A x \in Messages : <<x>> \in Seq(Messages)
  BY EmptySeq
<1>3. "user" \in Messages /\ "failed" \in Messages
  BY DEF Messages
<1>4. CASE Prompt \/ Stop \/ Broken
  BY <1>0, <1>1, <1>2, <1>3, <1>4 DEF Prompt, Stop, Broken, Elsewhere
<1>5. CASE Turn
  <2>1. todo' \in {<<"user">>, <<>>} /\ UNCHANGED <<path, mirror, half, builder, comp>>
    BY <1>5 DEF Turn
  <2>2. todo' \in Seq(Messages)
    BY <1>2, <1>3, <2>1
  <2> QED BY <1>1, <2>1, <2>2, <1>0 DEF Elsewhere
<1>6. CASE Answer
  <2>1. PICK k \in 0..MaxCalls : todo' = <<"assistant">> \o [i \in 1..k |-> "result"]
    BY <1>6 DEF Answer
  <2>2. k \in Nat
    BY CompactionAssumption
  <2>3. [i \in 1..k |-> "result"] \in Seq(Messages) /\ <<"assistant">> \in Seq(Messages)
    BY <2>2 DEF Messages
  <2>4. todo' \in Seq(Messages)
    BY <2>1, <2>3, ConcatProperties
  <2> QED BY <1>0, <1>1, <1>6, <2>4 DEF Answer, Elsewhere
<1>7. CASE Build \/ Overflow \/ Manual
  <2>1. UNCHANGED <<path, mirror, half, builder, todo>>
    BY <1>7 DEF Build, Overflow, Manual
  <2>2. CASE comp' = comp
    BY <1>1, <2>1, <2>2, <1>0 DEF Elsewhere
  <2>3. CASE planCut(path) # 0 /\ \E a \in Actors, then \in {"", "stream", "build", "next"} : Plan(a, then)
    <3>1. PICK a \in Actors, then \in {"", "stream", "build", "next"} : Plan(a, then)
      BY <2>3
    <3>2. comp' \in [Actors -> CompType] /\ CompCut(path, comp')
      BY <1>1, <2>3, <3>1, PlanKeeps DEF Plan
    <3> QED BY <1>1, <2>1, <3>2, <1>0 DEF Elsewhere
  <2>4. Build => comp' = comp \/ (planCut(path) # 0 /\ Plan("loop", "stream"))
    BY DEF Build
  <2>5. /\ Overflow => planCut(path) # 0 /\ Plan("loop", "build")
        /\ Manual => planCut(path) # 0 /\ Plan("manual", "")
    BY DEF Overflow, Manual
  <2>6. "loop" \in Actors /\ "manual" \in Actors
    BY DEF Actors
  <2> QED BY <1>7, <2>2, <2>3, <2>4, <2>5, <2>6
<1>8. ASSUME NEW a \in Actors, CompactFails(a) PROVE Elsewhere
  <2>1. todo' \in {todo, <<"failed">>} /\ UNCHANGED <<path, mirror, half, builder>>
    BY <1>8 DEF CompactFails
  <2>2. comp' = [comp EXCEPT ![a] = NoComp] /\ NoComp \in CompType /\ NoComp.st = "none"
    BY <1>8 DEF CompactFails, NoComp, CompType
  <2>3. comp' \in [Actors -> CompType] /\ CompCut(path, comp')
    BY <1>1, <2>2 DEF CompCut
  <2>4. todo' \in Seq(Messages)
    BY <1>1, <1>2, <1>3, <2>1
  <2> QED BY <2>1, <2>3, <2>4, <1>0 DEF Elsewhere
<1> QED BY <1>4, <1>5, <1>6, <1>7, <1>8

\* OnMessage saves a message, or fails to.
LEMMA SaveKeeps == ASSUME ContextInv, Save PROVE ContextInv'
<1> DEFINE k == Head(todo)
           e == Entry(k)
           q == Append(path, e)
           n == Len(path) + 1
<1>1. /\ path \in Seq(EntryType) /\ mirror \in Seq(MsgType) /\ half = Nobody /\ k \in Messages
      /\ UNCHANGED <<mirror, builder, todo, comp>> /\ OnItsWay'
  BY HeadTailProperties DEF ContextInv, ContextTypes, OnItsWay, Save
<1>2. /\ PathCut(path) /\ CompCut(path, comp) /\ Mirrored(path, mirror, Nobody)
      /\ Shows(builder, mirror, Nobody) /\ Nobody.id = 0 /\ ~validCut(Nobody)
  BY <1>1 DEF ContextInv, Nobody, validCut, Messages
<1>3. Len(path) \in Nat /\ DOMAIN path = 1 .. Len(path) /\ n \in Nat /\ n # 0
  BY <1>1, LenProperties
<1>4. Shows(builder, mirror, half')
  BY <1>2 DEF Shows
<1> HIDE DEF k
<1>5. e \in EntryType /\ e.kind = k
  BY <1>1 DEF Entry, EntryType, EntryKinds
<1>6. CASE path' = q /\ half' = [kind |-> k, id |-> n]
  <2>1. half' \in MsgType /\ half'.id = n /\ half'.kind = k
    BY <1>1, <1>3, <1>6 DEF MsgType
  <2>2. q \in Seq(EntryType) /\ PathCut(q) /\ CompCut(q, comp)
    <3>1. e.kind # "compaction"
      BY <1>1, <1>5 DEF Messages
    <3> QED BY <1>5, <3>1, PathGrows
  <2> HIDE DEF e
  <2>3. DOMAIN q = 1 .. n /\ (\A i \in 1 .. Len(path) : q[i] = path[i]) /\ q[n] = e
    BY <1>1, <1>3, <1>5, AppendProperties, LenProperties
  <2> HIDE DEF q
  <2>4. Mirrored(q, mirror, half')
    <3>1. \A i \in DOMAIN path : i \in DOMAIN q /\ q[i] = path[i]
      BY <1>3, <2>3
    <3>2. \A j \in DOMAIN mirror : mirror[j].id # 0 =>
            mirror[j].id \in DOMAIN q /\ q[mirror[j].id].kind = mirror[j].kind
      BY <1>2, <3>1 DEF Mirrored
    <3>3. \A j \in DOMAIN mirror : mirror[j].id \in Nat /\ mirror[j].id < n
      <4>1. \A j \in DOMAIN mirror : mirror[j].id \in Nat
        BY <1>1, <1>2, IdsInPath
      <4>2. \A j \in DOMAIN mirror : mirror[j].id # 0 => mirror[j].id \in 1 .. Len(path)
        BY <1>2, <1>3 DEF Mirrored
      <4> QED BY <1>3, <4>1, <4>2
    <3>4. ASSUME NEW i \in DOMAIN q, q[i].kind \in Messages
          PROVE  i = half'.id \/ \E j \in DOMAIN mirror : mirror[j].id = i
      <4>1. i \in DOMAIN path \/ i = n
        BY <1>3, <2>3
      <4>2. CASE i \in DOMAIN path
        <5>1. i # 0 /\ path[i].kind \in Messages
          BY <1>3, <3>1, <3>4, <4>2
        <5> QED BY <1>2, <4>2, <5>1 DEF Mirrored
      <4> QED BY <2>1, <4>1, <4>2
    <3>5. half'.id \in DOMAIN q /\ q[half'.id].kind = half'.kind /\ \A j \in DOMAIN mirror : mirror[j].id < half'.id
      BY <1>3, <1>5, <2>1, <2>3, <3>3
    <3>6. \A i, j \in DOMAIN mirror : i < j /\ mirror[i].id # 0 /\ mirror[j].id # 0 => mirror[i].id < mirror[j].id
      BY <1>2 DEF Mirrored
    <3> QED BY <3>2, <3>4, <3>5, <3>6 DEF Mirrored
  <2>5. ContextTypes'
    BY <1>1, <1>6, <2>1, <2>2 DEF ContextInv, ContextTypes
  <2> QED BY <1>1, <1>4, <1>6, <2>2, <2>4, <2>5 DEF ContextInv
<1>7. CASE path' = path /\ half' = [kind |-> k, id |-> 0]
  <2>1. half' \in MsgType /\ half'.id = 0
    BY <1>1, <1>7 DEF MsgType
  <2>2. Mirrored(path, mirror, half')
    BY <1>2, <2>1 DEF Mirrored
  <2>3. ContextTypes'
    BY <1>1, <1>7, <2>1 DEF ContextInv, ContextTypes
  <2> QED BY <1>1, <1>2, <1>4, <1>7, <2>2, <2>3 DEF ContextInv
<1> QED BY <1>6, <1>7 DEF Save, k, n

\* OnMessage mirrors it: if the builder waits for where to go on, it is there.
LEMMA MirrorKeeps == ASSUME ContextInv, Mirror PROVE ContextInv'
<1> DEFINE m == Append(mirror, half)
<1>1. /\ path \in Seq(EntryType) /\ mirror \in Seq(MsgType) /\ half \in MsgType /\ todo \in Seq(Messages)
      /\ PathCut(path) /\ CompCut(path, comp) /\ Mirrored(path, mirror, half) /\ Shows(builder, mirror, half)
      /\ builder \in [covers : SUBSET Nat, kept : Nat]
      /\ UNCHANGED <<path, builder, comp>> /\ half' = Nobody
  BY DEF ContextInv, ContextTypes, Mirror
<1>2. mirror' = m /\ todo' = Tail(todo)
  BY DEF Mirror
<1>3. Len(mirror) \in Nat /\ DOMAIN mirror = 1 .. Len(mirror)
  BY <1>1, LenProperties
<1>4. /\ m \in Seq(MsgType) /\ Len(m) = Len(mirror) + 1 /\ DOMAIN m = 1 .. (Len(mirror) + 1)
      /\ (\A i \in 1 .. Len(mirror) : m[i] = mirror[i]) /\ m[Len(mirror) + 1] = half
  BY <1>1, <1>3, AppendProperties, LenProperties
<1> HIDE DEF m
<1>5. todo' \in Seq(Messages) /\ OnItsWay'
  <2>1. todo # <<>>
    BY DEF ContextInv, OnItsWay, Mirror
  <2> QED BY <2>1, <1>1, <1>2, HeadTailProperties DEF OnItsWay
<1>6. Nobody.id = 0
  BY DEF Nobody
<1>7. half.id \in Nat /\ half.kind \in Messages
  BY <1>1 DEF MsgType
<1>8. Mirrored(path, m, Nobody)
  <2>1. \A k \in DOMAIN m : (k \in DOMAIN mirror /\ m[k] = mirror[k]) \/ (k = Len(mirror) + 1 /\ m[k] = half)
    BY <1>3, <1>4
  <2>2. \A k \in DOMAIN m : m[k].id # 0 => m[k].id \in DOMAIN path /\ path[m[k].id].kind = m[k].kind
    BY <1>1, <2>1 DEF Mirrored
  <2>3. ASSUME NEW j \in DOMAIN m, NEW k \in DOMAIN m, j < k, m[j].id # 0, m[k].id # 0
        PROVE  m[j].id < m[k].id
    <3>1. j \in DOMAIN mirror /\ m[j] = mirror[j]
      BY <1>3, <1>4, <2>3
    <3>2. CASE k \in DOMAIN mirror /\ m[k] = mirror[k]
      BY <1>1, <2>3, <3>1, <3>2 DEF Mirrored
    <3>3. CASE m[k] = half
      BY <1>1, <2>3, <3>1, <3>3 DEF Mirrored
    <3> QED BY <2>1, <3>2, <3>3
  <2>4. ASSUME NEW i \in DOMAIN path, path[i].kind \in Messages PROVE \E k \in DOMAIN m : m[k].id = i
    <3>1. i = half.id \/ \E k \in DOMAIN mirror : mirror[k].id = i
      BY <1>1, <2>4 DEF Mirrored
    <3>2. Len(mirror) + 1 \in DOMAIN m /\ \A k \in DOMAIN mirror : k \in DOMAIN m /\ m[k] = mirror[k]
      BY <1>3, <1>4
    <3> QED BY <1>4, <3>1, <3>2
  <2> QED BY <1>6, <2>2, <2>3, <2>4 DEF Mirrored
<1>9. Shows(builder, m, Nobody)
  <2>1. builder.kept \in Nat /\ builder.kept <= Len(mirror)
    BY <1>1 DEF Shows
  <2>2. builder.kept < Len(m) /\ builder.kept <= Len(m)
    BY <1>3, <1>4, <2>1
  <2>3. \A k \in 1 .. builder.kept : m[k].id = 0 \/ m[k].id \in builder.covers
    <3>1. \A k \in 1 .. builder.kept : k \in 1 .. Len(mirror)
      BY <1>3, <2>1
    <3> QED BY <1>1, <1>4, <3>1 DEF Shows
  <2>4. builder.kept > 0 => validCut(m[builder.kept + 1])
    <3>1. CASE builder.kept < Len(mirror)
      <4>1. builder.kept + 1 \in 1 .. Len(mirror)
        BY <1>3, <2>1, <3>1
      <4> QED BY <1>1, <1>4, <3>1, <4>1 DEF Shows
    <3>2. CASE builder.kept = Len(mirror)
      BY <1>1, <1>3, <1>4, <3>2 DEF Shows
    <3> QED BY <1>3, <2>1, <3>1, <3>2
  <2> QED BY <2>2, <2>3, <2>4 DEF Shows
<1>10. ContextTypes'
  BY <1>1, <1>2, <1>4, <1>5 DEF ContextInv, ContextTypes
<1> QED BY <1>1, <1>2, <1>5, <1>8, <1>9, <1>10 DEF ContextInv

\* An entry that is no message is appended, by whomever.
LEMMA EntryKeeps ==
  ASSUME ContextInv, NEW e \in EntryType, e.kind \notin Messages,
         e.kind = "compaction" => Cut(path, e.first, e.covers),
         path' = Append(path, e), UNCHANGED <<mirror, half, builder, todo>>,
         comp' \in [Actors -> CompType], CompCut(path', comp')
  PROVE  ContextInv'
<1>1. path' \in Seq(EntryType) /\ PathCut(path') /\ Mirrored(path', mirror, half)
  BY PathGrows
<1>2. ContextTypes' /\ OnItsWay'
  BY <1>1 DEF ContextInv, ContextTypes, OnItsWay
<1> QED BY <1>1, <1>2 DEF ContextInv

\* What is appended beside the loop: labels, settings, a compaction's entry.
LEMMA AsideKeeps ==
  ASSUME ContextInv, AfterTurn \/ Settings \/ \E a \in Actors : AppendEntry(a)
  PROVE  ContextInv'
<1>1. /\ path \in Seq(EntryType) /\ comp \in [Actors -> CompType] /\ PathCut(path) /\ CompCut(path, comp)
      /\ todo \in Seq(Messages)
  BY DEF ContextInv, ContextTypes
<1>2. \A kind \in {"settings", "label", "custom"} :
        /\ Entry(kind) \in EntryType /\ Entry(kind).kind = kind /\ kind \notin Messages /\ kind # "compaction"
  BY DEF Entry, EntryType, EntryKinds, Messages
<1>3. CASE Settings
  <2>1. PICK kind \in {"settings", "label"} : path' = Append(path, Entry(kind))
    BY <1>3 DEF Settings
  <2>2. UNCHANGED <<mirror, half, builder, todo, comp>>
    BY <1>3 DEF Settings
  <2>3. /\ Entry(kind) \in EntryType /\ Entry(kind).kind \notin Messages
        /\ Entry(kind).kind = "compaction" => Cut(path, Entry(kind).first, Entry(kind).covers)
    BY <1>2
  <2>4. CompCut(path', comp')
    BY <2>1, <2>2, <2>3, PathGrows
  <2> QED BY <1>1, <2>1, <2>2, <2>3, <2>4, EntryKeeps
<1>4. CASE AfterTurn
  <2>1. /\ path' \in {path, Append(path, Entry("custom"))} /\ UNCHANGED <<mirror, half, builder, todo>>
        /\ \/ comp' = comp
           \/ /\ planCut(path') # 0
              /\ comp' = [comp EXCEPT !["loop"] = [st |-> "planned", first |-> planCut(path'),
                                                   covers |-> Covered(path', planCut(path')), then |-> "next"]]
    BY <1>4 DEF AfterTurn
  <2>2. /\ Entry("custom") \in EntryType /\ Entry("custom").kind \notin Messages
        /\ Entry("custom").kind = "compaction" => Cut(path, Entry("custom").first, Entry("custom").covers)
    BY <1>2
  <2>3. path' \in Seq(EntryType) /\ PathCut(path') /\ CompCut(path', comp)
    <3>1. CASE path' = path
      BY <1>1, <3>1
    <3>2. CASE path' = Append(path, Entry("custom"))
      BY <2>2, <3>2, PathGrows
    <3> QED BY <2>1, <3>1, <3>2
  <2>4. comp' \in [Actors -> CompType] /\ CompCut(path', comp')
    <3>1. "loop" \in Actors
      BY DEF Actors
    <3>2. CASE comp' = comp
      BY <1>1, <2>3, <3>2
    <3>3. CASE comp' # comp
      BY <1>1, <2>1, <2>3, <3>1, <3>3, PlanKeeps
    <3> QED BY <3>2, <3>3
  <2>5. CASE path' = path
    <3>1. Elsewhere
      BY <1>1, <2>1, <2>4, <2>5 DEF Elsewhere, ContextInv, OnItsWay
    <3> QED BY <3>1, ElsewhereKeeps
  <2>6. CASE path' = Append(path, Entry("custom"))
    BY <2>1, <2>2, <2>4, <2>6, EntryKeeps
  <2> QED BY <2>1, <2>5, <2>6
<1>5. ASSUME NEW a \in Actors, AppendEntry(a) PROVE ContextInv'
  <2> DEFINE e == [kind |-> "compaction", first |-> comp[a].first, covers |-> comp[a].covers]
  <2>1. /\ path' = Append(path, e) /\ UNCHANGED <<mirror, half, builder, todo>>
        /\ comp' = [comp EXCEPT ![a].st = "appended"] /\ comp[a].st = "planned"
    BY <1>5 DEF AppendEntry
  <2>2. comp[a] \in CompType /\ Cut(path, comp[a].first, comp[a].covers)
    BY <1>1, <2>1 DEF CompCut
  <2>3. e \in EntryType /\ e.kind = "compaction" /\ e.first = comp[a].first /\ e.covers = comp[a].covers
    BY <2>2 DEF EntryType, CompType, EntryKinds
  <2> HIDE DEF e
  <2>4. e.kind \notin Messages /\ (e.kind = "compaction" => Cut(path, e.first, e.covers))
    BY <2>2, <2>3 DEF Messages
  <2>5. /\ comp' \in [Actors -> CompType]
        /\ \A b \in Actors : /\ comp'[b].first = comp[b].first /\ comp'[b].covers = comp[b].covers
                             /\ comp'[b].st # "none" => comp[b].st # "none"
    BY <1>1, <2>1 DEF CompType
  <2>6. CompCut(path', comp)
    BY <2>1, <2>3, <2>4, PathGrows
  <2>7. CompCut(path', comp')
    BY <2>5, <2>6 DEF CompCut
  <2> QED BY <2>1, <2>3, <2>4, <2>5, <2>7, EntryKeeps
<1> QED BY <1>3, <1>4, <1>5

\* The entry is there, and the builder is told where to go on.
LEMMA InstallKeeps == ASSUME ContextInv, NEW a \in Actors, Install(a) PROVE ContextInv'
<1>1. /\ path \in Seq(EntryType) /\ mirror \in Seq(MsgType) /\ half \in MsgType \cup {Nobody}
      /\ comp \in [Actors -> CompType] /\ PathCut(path) /\ CompCut(path, comp) /\ Mirrored(path, mirror, half)
      /\ todo \in Seq(Messages) /\ OnItsWay
  BY DEF ContextInv, ContextTypes
<1> DEFINE f == comp[a].first
           cov == comp[a].covers
           b == [covers |-> cov, kept |-> keptFrom(f, path, mirror)]
<1>2. /\ builder' = b /\ comp' = [comp EXCEPT ![a] = NoComp] /\ comp[a].st = "appended"
      /\ UNCHANGED <<path, mirror, half, todo>>
  BY DEF Install
<1>3. f \in Nat /\ cov \in SUBSET Nat /\ Cut(path, f, cov)
  BY <1>1, <1>2 DEF CompType, CompCut
<1> HIDE DEF f, cov
<1>4. b \in [covers : SUBSET Nat, kept : Nat] /\ Shows(b, mirror, half)
  BY <1>1, <1>3, KeptAtCut
<1> HIDE DEF b
<1>5. comp' \in [Actors -> CompType] /\ CompCut(path, comp')
  <2>1. NoComp \in CompType /\ NoComp.st = "none"
    BY DEF NoComp, CompType
  <2> QED BY <1>1, <1>2, <2>1 DEF CompCut
<1>6. ContextTypes' /\ OnItsWay'
  BY <1>1, <1>2, <1>4, <1>5 DEF ContextTypes, OnItsWay
<1> QED BY <1>1, <1>2, <1>4, <1>5, <1>6 DEF ContextInv

\* A restart has what the path says.
LEMMA RestartKeeps == ASSUME ContextInv, Restart PROVE ContextInv'
<1> DEFINE loaded == history(path)
           c == LastComp(path)
           b == IF c = 0 THEN [covers |-> {}, kept |-> 0]
                ELSE [covers |-> path[c].covers, kept |-> keptFrom(path[c].first, path, loaded)]
<1>1. path \in Seq(EntryType) /\ PathCut(path)
  BY DEF ContextInv, ContextTypes
<1>2. /\ mirror' = loaded /\ builder' = b /\ half' = Nobody /\ todo' = <<>> /\ path' = path
      /\ comp' = [x \in Actors |-> NoComp]
  BY DEF Restart
<1>3. Len(path) \in Nat /\ DOMAIN path = 1 .. Len(path)
  BY <1>1, LenProperties
<1>4. Loaded(path, Len(path), loaded)
  BY <1>1, HistoryLoaded
<1> HIDE DEF loaded
<1>5. loaded \in Seq(MsgType) /\ Mirrored(path, loaded, Nobody)
  <2>1. Nobody.id = 0
    BY DEF Nobody
  <2>2. \A k \in DOMAIN loaded : loaded[k].id \in DOMAIN path /\ path[loaded[k].id].kind = loaded[k].kind
    BY <1>3, <1>4 DEF Loaded
  <2>3. \A i \in DOMAIN path : path[i].kind \in Messages => \E k \in DOMAIN loaded : loaded[k].id = i
    BY <1>3, <1>4 DEF Loaded
  <2> QED BY <1>4, <2>1, <2>2, <2>3 DEF Loaded, Mirrored
<1>6. b \in [covers : SUBSET Nat, kept : Nat] /\ Shows(b, loaded, Nobody)
  <2>1. Len(loaded) \in Nat
    BY <1>5, LenProperties
  <2>2. CASE c = 0
    <3>1. b.kept = 0 /\ b \in [covers : SUBSET Nat, kept : Nat]
      BY <2>2
    <3> HIDE DEF b
    <3> QED BY <2>1, <3>1 DEF Shows
  <2>3. CASE c # 0
    <3>1. c \in DOMAIN path /\ path[c].kind = "compaction"
      BY <1>1, <1>3, <2>3, LastCompIs
    <3>2. path[c] \in EntryType
      BY <1>1, <3>1, ElementOfSeq, LenProperties
    <3>3. path[c].first \in Nat /\ path[c].covers \in SUBSET Nat /\ Cut(path, path[c].first, path[c].covers)
      BY <1>1, <3>1, <3>2 DEF EntryType, PathCut
    <3>4. b = [covers |-> path[c].covers, kept |-> keptFrom(path[c].first, path, loaded)]
      BY <2>3
    <3>5. Nobody \in MsgType \cup {Nobody}
      OBVIOUS
    <3> HIDE DEF c, b
    <3> QED BY <1>1, <1>5, <3>3, <3>4, <3>5, KeptAtCut
  <2> QED BY <2>2, <2>3
<1> HIDE DEF b
<1>7. comp' \in [Actors -> CompType] /\ CompCut(path, comp')
  <2>1. NoComp \in CompType /\ NoComp.st = "none"
    BY DEF NoComp, CompType
  <2> QED BY <1>2, <2>1 DEF CompCut
<1>8. ContextTypes' /\ OnItsWay'
  <2>1. <<>> \in Seq(Messages)
    BY EmptySeq
  <2> QED BY <1>1, <1>2, <1>5, <1>6, <1>7, <2>1 DEF ContextTypes, OnItsWay
<1> QED BY <1>1, <1>2, <1>5, <1>6, <1>7, <1>8 DEF ContextInv

\* A new controller has nothing to cut.
LEMMA ContextInvInit == Init => ContextInv
<1> SUFFICES ASSUME Init PROVE ContextInv
  OBVIOUS
<1>1. /\ path = <<>> /\ mirror = <<>> /\ half = Nobody /\ builder = [covers |-> {}, kept |-> 0] /\ todo = <<>>
      /\ comp = [a \in Actors |-> NoComp]
  BY DEF Init
<1>2. NoComp \in CompType /\ NoComp.st = "none" /\ Nobody.id = 0
  BY DEF NoComp, CompType, Nobody
<1>3. ContextTypes /\ OnItsWay
  BY <1>1, <1>2, EmptySeq DEF ContextTypes, OnItsWay
<1>4. PathCut(path) /\ CompCut(path, comp)
  BY <1>1, <1>2 DEF PathCut, CompCut
<1>5. Mirrored(path, mirror, half)
  BY <1>1, <1>2 DEF Mirrored
<1>6. Shows(builder, mirror, half)
  BY <1>1 DEF Shows
<1> QED BY <1>3, <1>4, <1>5, <1>6 DEF ContextInv

\* Every step of the controller, the loop and the user keeps the invariant.
LEMMA ContextInvHolds == Spec => []ContextInv
<1>1. ContextInv /\ [Next]_vars => ContextInv'
  <2> SUFFICES ASSUME ContextInv, [Next]_vars PROVE ContextInv'
    OBVIOUS
  <2>1. CASE UNCHANGED vars
    BY <2>1 DEF vars, ContextInv, ContextTypes, OnItsWay
  <2>2. CASE \/ Prompt \/ Turn \/ Stop \/ Build \/ Answer \/ Broken \/ Overflow \/ Manual
             \/ \E a \in Actors : CompactFails(a)
    BY <2>2, LoopKeeps, ElsewhereKeeps
  <2>3. CASE AfterTurn \/ Settings \/ \E a \in Actors : AppendEntry(a)
    BY <2>3, AsideKeeps
  <2>4. ASSUME NEW a \in Actors, Install(a) PROVE ContextInv'
    BY <2>4, InstallKeeps
  <2>5. CASE Save
    BY <2>5, SaveKeeps
  <2>6. CASE Mirror
    BY <2>6, MirrorKeeps
  <2>7. CASE Restart
    BY <2>7, RestartKeeps
  <2> QED BY <2>1, <2>2, <2>3, <2>4, <2>5, <2>6, <2>7 DEF Next
<1> QED BY <1>1, ContextInvInit, PTL DEF Spec

\* The last compaction on the path is a cut.
LEMMA LastCut ==
  ASSUME ContextInv, LastComp(path) # 0
  PROVE  /\ LastComp(path) \in DOMAIN path
         /\ Cut(path, path[LastComp(path)].first, path[LastComp(path)].covers)
<1>1. path \in Seq(EntryType) /\ PathCut(path)
  BY DEF ContextInv, ContextTypes
<1>2. Len(path) \in Nat /\ DOMAIN path = 1 .. Len(path)
  BY <1>1, LenProperties
<1> QED BY <1>1, <1>2, LastCompIs DEF PathCut

\* What the builder leaves out of a request (builder.go:103), and what the last
\* compaction of the path cuts (compact.go:123), is covered by the summary, for
\* any path, estimate and interleaving of /compact with the loop's compactions.
THEOREM SummariesCover == Spec => []NothingForgotten
<1>1. ContextInv => NothingForgotten
  <2> SUFFICES ASSUME ContextInv PROVE NothingForgotten
    OBVIOUS
  <2>1. builder.kept <= Len(mirror) /\ \A k \in 1..builder.kept : mirror[k].id = 0 \/ mirror[k].id \in builder.covers
    BY DEF ContextInv, Shows
  <2>2. \A i \in 1..LeftOut : mirror[i].id = 0 \/ mirror[i].id \in builder.covers
    BY <2>1 DEF LeftOut
  <2>3. LastComp(path) # 0 => \A i \in 1..(path[LastComp(path)].first - 1) :
          path[i].kind \in Messages => i \in path[LastComp(path)].covers
    BY LastCut DEF Cut
  <2> QED BY <2>2, <2>3 DEF NothingForgotten
<1> QED BY <1>1, ContextInvHolds, PTL

\* Neither the builder's cut nor the path's (validCut, compact.go:189) is before
\* a tool result, whose call would be missing from every request after it.
THEOREM CutsKeepPairs == Spec => []PairsKept
<1>1. ContextInv => PairsKept
  <2> SUFFICES ASSUME ContextInv PROVE PairsKept
    OBVIOUS
  <2>1. builder.kept <= Len(mirror) /\ (builder.kept > 0 /\ builder.kept < Len(mirror) => validCut(mirror[builder.kept + 1]))
    BY DEF ContextInv, Shows
  <2>2. LeftOut > 0 /\ LeftOut < Len(mirror) => mirror[LeftOut + 1].kind # "result"
    BY <2>1 DEF LeftOut, validCut
  <2>3. ASSUME LastComp(path) # 0
        PROVE  LET rest == {i \in path[LastComp(path)].first..Len(path) : path[i].kind \in Messages}
               IN  rest # {} => path[Least(rest)].kind # "result"
    <3> DEFINE f == path[LastComp(path)].first
               rest == {i \in f..Len(path) : path[i].kind \in Messages}
    <3>1. path \in Seq(EntryType)
      BY DEF ContextInv, ContextTypes
    <3>2. Len(path) \in Nat /\ DOMAIN path = 1 .. Len(path)
      BY <3>1, LenProperties
    <3>3. f \in 1 .. Len(path) /\ \E c \in f..Len(path) : validCut(path[c]) /\ \A j \in f..(c - 1) : path[j].kind \notin Messages
      BY <2>3, <3>2, LastCut DEF Cut
    <3> HIDE DEF f
    <3>4. PICK c \in f..Len(path) : validCut(path[c]) /\ \A j \in f..(c - 1) : path[j].kind \notin Messages
      BY <3>3
    <3>5. c \in rest /\ rest \subseteq 0 .. Len(path) /\ path[c].kind # "result"
      BY <3>2, <3>3, <3>4 DEF validCut
    <3>6. Least(rest) \in rest /\ Least(rest) <= c
      <4> HIDE DEF rest
      <4> QED BY <3>2, <3>5, BothExist
    <3>7. Least(rest) \in f..Len(path) /\ path[Least(rest)].kind \in Messages
      BY <3>6
    <3> HIDE DEF rest
    <3>8. Least(rest) \notin f .. (c - 1)
      BY <3>4, <3>7
    <3>9. Least(rest) = c
      BY <3>2, <3>3, <3>6, <3>7, <3>8
    <3> QED BY <3>5, <3>9 DEF rest, f
  <2> QED BY <2>2, <2>3 DEF PairsKept
<1> QED BY <1>1, ContextInvHolds, PTL
-----------------------------------------------------------------------------
\* What the stream of a turn is made of, by type.
BlockType == [kind : Kinds, body : Seq(Nat), sig : Nat]
MessageType == [reason : {"", "stop", "length", "toolUse", "error", "aborted"},
                class : {"", "retryable", "overflow", "fatal"}, content : Seq(BlockType)]
EventType == [type : {"none", "start", "open", "delta", "end", "done", "error"}, i : Nat, kind : Kinds \cup {""},
              piece : Nat, msg : MessageType]
Working == {"request", "backoff", "read"}
Terminal == {"done", "error"}
AnswerType == [started : BOOLEAN, blocks : Seq(BlockType), open : Nat, pieces : Nat]
TrackerType == [content : Seq(BlockType), blocks : [1..MaxBlocks -> Nat]]
PumpType == [at : Working \cup {"emit", "exited"}, tries : Nat, out : EventType, bound : BOOLEAN]
TurnType == [at : {"pumping", "sleeping", "returned"}, attempt : Nat, overflowRetried : BOOLEAN,
             emitted : BOOLEAN, got : BOOLEAN, final : MessageType]

StreamTypes ==
  /\ answer \in AnswerType
  /\ tracker \in TrackerType
  /\ pump \in PumpType
  /\ ch \in Seq(EventType)
  /\ turn \in TurnType
  /\ cancelled \in BOOLEAN

\* The tracker has the server's known blocks, as far as they have come; only
\* the last one can be open, and its place is the last.
Folded ==
  /\ answer.open # 0 => answer.open = Len(answer.blocks)
  /\ \A i \in 1..MaxBlocks : tracker.blocks[i] =
       IF i = answer.open /\ answer.blocks[i].kind # "other" THEN Len(tracker.content) ELSE 0
  /\ tracker.content = Known(answer.blocks)

\* Event ev takes a reader who has content to the Partial that comes with it.
Fits(content, ev) == Bodies(ev.msg.content) = Added(content, ev)

\* What a reader has after n events of s, when it has content before them.
After(content, s, n) == IF n = 0 THEN content ELSE Bodies(s[n].msg.content)

\* Every event on its way fits what is before it, and the last one is where
\* the tracker is, or comes to be with the event that the goroutine sends.
Chained(content, s) == \A n \in DOMAIN s : Fits(After(content, s, n - 1), s[n])
InStep ==
  /\ Chained(view.content, ch)
  /\ pump.at \in Working => After(view.content, ch, Len(ch)) = Bodies(tracker.content)
  /\ pump.at = "emit" => /\ pump.out.msg.content = tracker.content
                         /\ Fits(After(view.content, ch, Len(ch)), pump.out)

\* Done and Error are the last events, with all that the tracker has.
Ending ==
  /\ \A n \in DOMAIN ch : ch[n].type \in Terminal =>
       n = Len(ch) /\ pump.at = "exited" /\ ch[n].msg.content = tracker.content
  /\ turn.got => /\ ch = <<>> /\ pump.at = "exited"
                 /\ turn.final.content = tracker.content /\ view.content = Bodies(tracker.content)
  /\ pump.at = "exited" => cancelled \/ turn.got \/ \E n \in DOMAIN ch : ch[n].type \in Terminal

\* Where streamTurn is.
TurnPlaced ==
  /\ ~turn.emitted => view.content = <<>>
  /\ turn.at = "sleeping" => turn.got /\ ~turn.emitted
  /\ turn.at = "returned" => turn.got \/ (cancelled /\ ch = <<>> /\ pump.at = "exited")
  /\ view.content = Bodies(view.partial)

\* Inductive: the tracker, the events on their way, and the turn.
StreamInv == StreamTypes /\ Folded /\ InStep /\ Ending /\ TurnPlaced
-----------------------------------------------------------------------------
\* One round of the loop of Known.
Knows(s, n, t) == IF s[n].kind = "other" THEN t ELSE Append(t, s[n])

\* The loop of Known is a function of how far it is.
LEMMA KnownExists ==
  ASSUME NEW s, NEW n \in Nat
  PROVE  \E f : f = [i \in 0..n |-> IF i = 0 THEN <<>> ELSE Knows(s, i, f[i - 1])]
<1> DEFINE Iterates(m, f) == f = [i \in 0..m |-> IF i = 0 THEN <<>> ELSE Knows(s, i, f[i - 1])]
           S == {m \in 0 .. n : \E f : Iterates(m, f)}
<1>1. 0 \in S
  <2> DEFINE f == [i \in 0..0 |-> <<>>]
  <2>1. Iterates(0, f)
    OBVIOUS
  <2>2. \E g : Iterates(0, g)
    BY <2>1
  <2> HIDE DEF Iterates
  <2> QED BY <2>2
<1>2. ASSUME NEW m \in 0 .. n, m \in S, m < n PROVE m + 1 \in S
  <2>1. PICK f : Iterates(m, f)
    BY <1>2
  <2> DEFINE g == [i \in 0..(m + 1) |-> IF i = m + 1 THEN Knows(s, m + 1, f[m]) ELSE f[i]]
             h == [i \in 0..(m + 1) |-> IF i = 0 THEN <<>> ELSE Knows(s, i, g[i - 1])]
  <2>2. m \in Nat
    OBVIOUS
  <2>3. \A i \in 0 .. m : f[i] = IF i = 0 THEN <<>> ELSE Knows(s, i, f[i - 1])
    BY <2>1
  <2>4. \A i \in 0 .. (m + 1) : g[i] = h[i]
    <3> SUFFICES ASSUME NEW i \in 0 .. (m + 1) PROVE g[i] = h[i]
      OBVIOUS
    <3>1. CASE i = 0
      BY <2>2, <2>3, <3>1
    <3>2. CASE i \in 1 .. m
      <4>1. g[i] = f[i] /\ g[i - 1] = f[i - 1]
        BY <2>2, <3>2
      <4> QED BY <2>2, <2>3, <3>2, <4>1
    <3>3. CASE i = m + 1
      <4>1. g[i] = Knows(s, m + 1, f[m]) /\ g[i - 1] = f[m]
        BY <2>2, <3>3
      <4> QED BY <2>2, <3>3, <4>1
    <3> QED BY <2>2, <3>1, <3>2, <3>3
  <2>5. g = h
    BY <2>4
  <2>6. Iterates(m + 1, g)
    BY <2>5
  <2>7. m + 1 \in 0 .. n
    BY <1>2, <2>2
  <2> QED BY <2>6, <2>7
<1>3. n \in S
  <2> HIDE DEF S
  <2> QED BY <1>1, <1>2, UpTo
<1> QED BY <1>3

KnownTo(s) == CHOOSE f : f = [i \in 0..Len(s) |-> IF i = 0 THEN <<>> ELSE Knows(s, i, f[i - 1])]

\* How far it is, and what it has then.
LEMMA KnownSteps ==
  ASSUME NEW s \in Seq(BlockType)
  PROVE  /\ Known(s) = KnownTo(s)[Len(s)]
         /\ KnownTo(s)[0] = <<>>
         /\ \A n \in 1..Len(s) : KnownTo(s)[n] = Knows(s, n, KnownTo(s)[n - 1])
         /\ \A n \in 0..Len(s) : KnownTo(s)[n] \in Seq(BlockType)
<1> DEFINE m == Len(s)
           S == {n \in 0 .. m : KnownTo(s)[n] \in Seq(BlockType)}
<1>1. m \in Nat /\ \A n \in 1..m : s[n] \in BlockType
  BY LenProperties, ElementOfSeq
<1>2. Known(s) = KnownTo(s)[m]
  BY DEF Known, KnownTo, Knows
<1>3. KnownTo(s) = [i \in 0..m |-> IF i = 0 THEN <<>> ELSE Knows(s, i, KnownTo(s)[i - 1])]
  <2>1. \E f : f = [i \in 0..m |-> IF i = 0 THEN <<>> ELSE Knows(s, i, f[i - 1])]
    BY <1>1, KnownExists
  <2> QED BY <2>1 DEF KnownTo
<1>4. \A i \in 0 .. m : KnownTo(s)[i] = IF i = 0 THEN <<>> ELSE Knows(s, i, KnownTo(s)[i - 1])
  BY <1>3
<1> HIDE DEF m
<1>5. KnownTo(s)[0] = <<>> /\ \A n \in 1..m : KnownTo(s)[n] = Knows(s, n, KnownTo(s)[n - 1])
  <2>1. m \in Nat
    BY <1>1
  <2>2. KnownTo(s)[0] = <<>>
    BY <1>4, <2>1
  <2>3. ASSUME NEW n \in 1 .. m PROVE KnownTo(s)[n] = Knows(s, n, KnownTo(s)[n - 1])
    BY <1>4, <2>1
  <2> QED BY <2>2, <2>3
<1>6. 0 \in S
  <2>1. 0 \in 0 .. m /\ KnownTo(s)[0] = <<>>
    BY <1>1, <1>5
  <2> QED BY <2>1, EmptySeq
<1>7. ASSUME NEW i \in 0 .. m, i \in S, i < m PROVE i + 1 \in S
  <2>1. i + 1 \in 1 .. m /\ (i + 1) - 1 = i
    BY <1>1, <1>7
  <2>2. KnownTo(s)[i + 1] = Knows(s, i + 1, KnownTo(s)[i]) /\ KnownTo(s)[i] \in Seq(BlockType)
    BY <1>5, <1>7, <2>1
  <2>3. Knows(s, i + 1, KnownTo(s)[i]) \in Seq(BlockType)
    BY <1>1, <2>1, <2>2 DEF Knows
  <2> QED BY <1>1, <2>1, <2>2, <2>3
<1> HIDE DEF S
<1>8. \A i \in 0 .. m : i \in S
  BY <1>1, <1>6, <1>7, UpTo
<1>9. \A n \in 0..m : KnownTo(s)[n] \in Seq(BlockType)
  BY <1>8 DEF S
<1> QED BY <1>2, <1>5, <1>9 DEF m

\* It has looked at no more than it has come by.
LEMMA KnownSame ==
  ASSUME NEW s \in Seq(BlockType), NEW t \in Seq(BlockType), NEW n \in Nat, n <= Len(s), n <= Len(t),
         \A i \in 1..n : s[i] = t[i]
  PROVE  KnownTo(s)[n] = KnownTo(t)[n]
<1> DEFINE S == {i \in 0 .. n : KnownTo(s)[i] = KnownTo(t)[i]}
<1>1. Len(s) \in Nat /\ Len(t) \in Nat
  BY LenProperties
<1>2. 0 \in S
  BY KnownSteps
<1>3. ASSUME NEW i \in 0 .. n, i \in S, i < n PROVE i + 1 \in S
  <2>1. i + 1 \in 1 .. n /\ i + 1 \in 1 .. Len(s) /\ i + 1 \in 1 .. Len(t) /\ (i + 1) - 1 = i
    BY <1>1, <1>3
  <2>2. KnownTo(s)[i + 1] = Knows(s, i + 1, KnownTo(s)[i]) /\ KnownTo(t)[i + 1] = Knows(t, i + 1, KnownTo(t)[i])
    BY <2>1, KnownSteps
  <2>3. s[i + 1] = t[i + 1] /\ KnownTo(s)[i] = KnownTo(t)[i]
    BY <1>3, <2>1
  <2>4. KnownTo(s)[i + 1] = KnownTo(t)[i + 1]
    BY <2>2, <2>3 DEF Knows
  <2> QED BY <2>1, <2>4
<1> HIDE DEF S
<1>4. \A i \in 0 .. n : i \in S
  BY <1>2, <1>3, UpTo
<1>5. n \in S
  BY <1>4
<1> QED BY <1>5 DEF S

\* A block more.
LEMMA KnownGrows ==
  ASSUME NEW s \in Seq(BlockType), NEW b \in BlockType
  PROVE  /\ Known(s) \in Seq(BlockType)
         /\ Known(Append(s, b)) = IF b.kind = "other" THEN Known(s) ELSE Append(Known(s), b)
<1> DEFINE t == Append(s, b)
           n == Len(s)
<1>1. n \in Nat /\ t \in Seq(BlockType) /\ Len(t) = n + 1 /\ (\A i \in 1 .. n : t[i] = s[i]) /\ t[n + 1] = b
  BY AppendProperties, LenProperties
<1>2. Known(s) = KnownTo(s)[n] /\ Known(s) \in Seq(BlockType)
  BY <1>1, KnownSteps
<1> HIDE DEF t, n
<1>3. KnownTo(t)[n] = KnownTo(s)[n]
  BY <1>1, KnownSame DEF n
<1>4. n + 1 \in 1 .. Len(t) /\ (n + 1) - 1 = n
  BY <1>1
<1>5. Known(t) = Knows(t, n + 1, KnownTo(t)[n])
  BY <1>1, <1>4, KnownSteps
<1> QED BY <1>1, <1>2, <1>3, <1>5 DEF Knows, t

\* A block that grows, of the same kind.
LEMMA KnownLast ==
  ASSUME NEW s \in Seq(BlockType), NEW b \in BlockType, s # <<>>, b.kind = s[Len(s)].kind
  PROVE  /\ [s EXCEPT ![Len(s)] = b] \in Seq(BlockType)
         /\ b.kind = "other" => Known([s EXCEPT ![Len(s)] = b]) = Known(s)
         /\ b.kind # "other" => /\ Known(s) \in Seq(BlockType) /\ Known(s) # <<>>
                                /\ Known(s)[Len(Known(s))] = s[Len(s)]
                                /\ Known([s EXCEPT ![Len(s)] = b]) = [Known(s) EXCEPT ![Len(Known(s))] = b]
<1> DEFINE n == Len(s)
           t == [s EXCEPT ![n] = b]
           k == KnownTo(s)[n - 1]
<1>1. n \in Nat /\ n > 0 /\ DOMAIN s = 1 .. n /\ s[n] \in BlockType
  BY LenProperties, EmptySeq, ElementOfSeq
<1>2. t \in Seq(BlockType) /\ Len(t) = n /\ (\A i \in 1 .. (n - 1) : t[i] = s[i]) /\ t[n] = b
  <2>1. n \in 1 .. Len(s)
    BY <1>1
  <2>2. t \in Seq(BlockType) /\ Len(t) = Len(s) /\ \A j \in 1 .. Len(s) : t[j] = IF j = n THEN b ELSE s[j]
    <3> HIDE DEF n
    <3> QED BY <2>1, ExceptSeq
  <2> HIDE DEF t
  <2>3. Len(s) = n /\ n \in 1 .. n
    BY <1>1
  <2> HIDE DEF n
  <2>4. Len(t) = n /\ t[n] = b
    BY <2>2, <2>3
  <2>5. \A i \in 1 .. (n - 1) : t[i] = s[i]
    BY <1>1, <2>2, <2>3
  <2> QED BY <2>2, <2>4, <2>5
<1> HIDE DEF t
<1>3. /\ n \in 1 .. Len(s) /\ n \in 1 .. Len(t) /\ n - 1 \in 0 .. Len(s)
      /\ n - 1 \in Nat /\ n - 1 <= Len(s) /\ n - 1 <= Len(t)
  BY <1>1, <1>2
<1>4. Known(s) = Knows(s, n, k) /\ k \in Seq(BlockType)
  BY <1>1, <1>3, KnownSteps
<1> HIDE DEF n
<1>5. KnownTo(t)[n - 1] = KnownTo(s)[n - 1]
  BY <1>2, <1>3, KnownSame
<1>6. Known(t) = Knows(t, n, k)
  BY <1>2, <1>3, <1>5, KnownSteps
<1> HIDE DEF k
<1>7. b.kind = "other" => Known(t) = Known(s)
  BY <1>2, <1>4, <1>6 DEF Knows, n
<1>8. CASE b.kind # "other"
  <2>1. Known(s) = Append(k, s[n]) /\ Known(t) = Append(k, b)
    BY <1>2, <1>4, <1>6, <1>8 DEF Knows, n
  <2>2. /\ Append(k, s[n]) \in Seq(BlockType) /\ Len(Append(k, s[n])) = Len(k) + 1 /\ Len(k) \in Nat
        /\ Append(k, s[n])[Len(k) + 1] = s[n] /\ Append(k, s[n]) # <<>>
    BY <1>1, <1>4, AppendProperties, LenProperties
  <2>3. Append(k, b) = [Append(k, s[n]) EXCEPT ![Len(k) + 1] = b]
    <3> DEFINE u == Append(k, s[n])
               v == Append(k, b)
               l == Len(k) + 1
    <3>1. l \in Nat /\ u \in Seq(BlockType) /\ Len(u) = l /\ (\A i \in 1 .. (l - 1) : u[i] = k[i])
      BY <1>1, <1>4, AppendProperties, LenProperties
    <3>2. v \in Seq(BlockType) /\ Len(v) = l /\ (\A i \in 1 .. (l - 1) : v[i] = k[i]) /\ v[l] = b
      BY <1>4, AppendProperties, LenProperties
    <3> HIDE DEF u, v, l
    <3>4. u = [i \in 1 .. l |-> u[i]] /\ v = [i \in 1 .. l |-> v[i]]
      BY <3>1, <3>2, LenProperties
    <3>3. v = [u EXCEPT ![l] = b]
      <4> DEFINE w == [u EXCEPT ![l] = b]
      <4>1. w = [i \in 1 .. l |-> IF i = l THEN b ELSE u[i]]
        BY <3>1, <3>4
      <4>2. \A i \in 1 .. l : w[i] = v[i]
        BY <3>1, <3>2, <4>1
      <4> QED BY <3>4, <4>1, <4>2
    <3> QED BY <3>3 DEF u, v, l
  <2> QED BY <1>2, <1>7, <1>8, <2>1, <2>2, <2>3 DEF t, n
<1> QED BY <1>2, <1>7, <1>8 DEF t, n
-----------------------------------------------------------------------------
\* What a reader has with a piece more.
Longer(bodies, k, piece) == [bodies EXCEPT ![k].body = Append(@, piece)]

\* What an event adds, by its type.
LEMMA AddedIs ==
  ASSUME NEW c, NEW ev
  PROVE  /\ ev.type = "open" => Added(c, ev) = Append(c, [kind |-> ev.kind, body |-> <<>>])
         /\ ev.type = "delta" => Added(c, ev) = Longer(c, ev.i, ev.piece)
         /\ ev.type \notin {"open", "delta"} => Added(c, ev) = c
BY DEF Added, Longer

\* A block is opened: for the reader, an empty one more.
LEMMA BodiesOpen ==
  ASSUME NEW c \in Seq(BlockType), NEW kind \in Kinds
  PROVE  /\ Append(c, Block(kind)) \in Seq(BlockType) /\ Block(kind) \in BlockType
         /\ Bodies(Append(c, Block(kind))) = Append(Bodies(c), [kind |-> kind, body |-> <<>>])
<1> DEFINE b == Block(kind)
           d == Append(c, b)
           e == [kind |-> kind, body |-> <<>>]
           n == Len(c)
           X == Bodies(d)
           Y == Append(Bodies(c), e)
           T == [kind : Kinds, body : Seq(Nat)]
<1>1. b \in BlockType /\ b.kind = kind /\ b.body = <<>>
  BY DEF Block, BlockType
<1>2. n \in Nat /\ DOMAIN c = 1 .. n
  BY LenProperties
<1> HIDE DEF b
<1>3. d \in Seq(BlockType) /\ DOMAIN d = 1 .. (n + 1) /\ (\A i \in 1 .. n : d[i] = c[i]) /\ d[n + 1] = b
  BY <1>1, <1>2, AppendProperties
<1> HIDE DEF d
<1>4. \A i \in 1 .. n : c[i].kind \in Kinds /\ c[i].body \in Seq(Nat)
  <2>1. ASSUME NEW i \in 1 .. n PROVE c[i] \in BlockType
    BY <1>2, ElementOfSeq
  <2> QED BY <2>1 DEF BlockType
<1>5. Bodies(c) = [i \in 1 .. n |-> [kind |-> c[i].kind, body |-> c[i].body]]
  BY <1>2 DEF Bodies
<1>6. Bodies(c) \in [1 .. n -> T]
  BY <1>4, <1>5
<1>7. Bodies(c) \in Seq(T) /\ Len(Bodies(c)) = n
  <2> HIDE DEF T, n
  <2>1. \E m \in Nat : Bodies(c) \in [1 .. m -> T]
    BY <1>2, <1>6
  <2>2. Bodies(c) \in Seq(T)
    BY <2>1
  <2> QED BY <1>2, <1>6, <2>2, LenProperties
<1>8. e \in T
  OBVIOUS
<1> HIDE DEF T, e
<1>9. Y \in Seq(T) /\ Len(Y) = n + 1 /\ (\A i \in 1 .. n : Y[i] = Bodies(c)[i]) /\ Y[n + 1] = e
  BY <1>7, <1>8, AppendProperties
<1>10. DOMAIN Y = 1 .. (n + 1)
  BY <1>9, LenProperties
<1>11. X = [i \in 1 .. (n + 1) |-> [kind |-> d[i].kind, body |-> d[i].body]]
  BY <1>3 DEF Bodies
<1> HIDE DEF Y, X
<1>12. \A i \in 1 .. (n + 1) : X[i] = Y[i]
  <2> SUFFICES ASSUME NEW i \in 1 .. (n + 1) PROVE X[i] = Y[i]
    OBVIOUS
  <2>1. CASE i \in 1 .. n
    BY <1>3, <1>5, <1>9, <1>11, <2>1
  <2>2. CASE i = n + 1
    BY <1>1, <1>3, <1>9, <1>11, <2>2 DEF e
  <2> QED BY <1>2, <2>1, <2>2
<1>13. X = Y
  <2>1. Y = [i \in 1 .. (n + 1) |-> Y[i]]
    BY <1>9, <1>10
  <2> QED BY <1>11, <1>12, <2>1
<1> QED BY <1>1, <1>3, <1>13 DEF X, Y, d, b, e

\* What a reader has of a block, with another body.
LEMMA NewBody ==
  ASSUME NEW kind, NEW old, NEW body, NEW a, a = [kind |-> kind, body |-> old]
  PROVE  [a EXCEPT !.body = body] = [kind |-> kind, body |-> body]
<1> DEFINE K == {kind}
           B == {old, body}
<1>1. a \in [kind : K, body : B] /\ a.kind = kind /\ kind \in K /\ body \in B
  OBVIOUS
<1> HIDE DEF K, B
<1> QED BY <1>1

\* A block grows: for the reader, by a piece of its body, or not at all.
LEMMA BodiesGrow ==
  ASSUME NEW c \in Seq(BlockType), NEW k \in 1 .. Len(c), NEW b \in BlockType, b.kind = c[k].kind
  PROVE  /\ [c EXCEPT ![k] = b] \in Seq(BlockType) /\ Len([c EXCEPT ![k] = b]) = Len(c)
         /\ b.body = c[k].body => Bodies([c EXCEPT ![k] = b]) = Bodies(c)
         /\ \A piece \in Nat : b.body = Append(c[k].body, piece) =>
              Bodies([c EXCEPT ![k] = b]) = Longer(Bodies(c), k, piece)
<1> DEFINE d == [c EXCEPT ![k] = b]
<1>1. d \in Seq(BlockType) /\ Len(d) = Len(c)
  BY ExceptSeq
<1>2. DOMAIN c = 1 .. Len(c) /\ DOMAIN d = 1 .. Len(c) /\ d[k] = b /\ \A i \in 1 .. Len(c) : i # k => d[i] = c[i]
  BY LenProperties
<1> HIDE DEF d
<1>3. Bodies(d) = [i \in 1 .. Len(c) |-> [kind |-> d[i].kind, body |-> d[i].body]]
  BY <1>2 DEF Bodies
<1>4. Bodies(c) = [i \in 1 .. Len(c) |-> [kind |-> c[i].kind, body |-> c[i].body]]
  BY <1>2 DEF Bodies
<1>5. b.body = c[k].body => Bodies(d) = Bodies(c)
  BY <1>2, <1>3, <1>4
<1>6. ASSUME NEW piece \in Nat, b.body = Append(c[k].body, piece)
      PROVE  Bodies(d) = [Bodies(c) EXCEPT ![k].body = Append(@, piece)]
  <2> DEFINE r == [Bodies(c) EXCEPT ![k].body = Append(@, piece)]
  <2>1. r = [i \in 1 .. Len(c) |-> IF i = k THEN [Bodies(c)[k] EXCEPT !.body = Append(Bodies(c)[k].body, piece)]
                                            ELSE Bodies(c)[i]]
    BY <1>4
  <2>2. Bodies(c)[k].body = c[k].body /\ [Bodies(c)[k] EXCEPT !.body = Append(Bodies(c)[k].body, piece)] =
          [kind |-> c[k].kind, body |-> Append(c[k].body, piece)]
    <3>1. Bodies(c)[k] = [kind |-> c[k].kind, body |-> c[k].body]
      BY <1>4
    <3> HIDE DEF r
    <3> DEFINE a == Bodies(c)[k]
    <3>2. a = [kind |-> c[k].kind, body |-> c[k].body]
      BY <3>1
    <3> HIDE DEF a
    <3>3. a.body = c[k].body /\ [a EXCEPT !.body = Append(a.body, piece)] =
            [kind |-> c[k].kind, body |-> Append(c[k].body, piece)]
      <4> DEFINE x == Append(a.body, piece)
      <4>1. a.body = c[k].body
        BY <3>2
      <4>2. x = Append(c[k].body, piece)
        BY <4>1
      <4> HIDE DEF x
      <4>3. [a EXCEPT !.body = x] = [kind |-> c[k].kind, body |-> x]
        BY <3>2, NewBody
      <4> QED BY <4>1, <4>2, <4>3 DEF x
    <3> QED BY <3>3 DEF a
  <2>3. ASSUME NEW i \in 1 .. Len(c) PROVE Bodies(d)[i] = r[i]
    <3>1. CASE i = k
      <4>1. Bodies(d)[i] = [kind |-> c[k].kind, body |-> Append(c[k].body, piece)]
        BY <1>2, <1>3, <1>6, <3>1
      <4>2. r[i] = [Bodies(c)[k] EXCEPT !.body = Append(Bodies(c)[k].body, piece)]
        BY <2>1, <3>1
      <4> QED BY <2>2, <4>1, <4>2
    <3>2. CASE i # k
      <4>1. r[i] = Bodies(c)[i]
        BY <2>1, <3>2
      <4>2. d[i] = c[i]
        BY <1>2, <3>2
      <4> QED BY <1>3, <1>4, <4>1, <4>2
    <3> QED BY <3>1, <3>2
  <2> QED BY <1>3, <2>1, <2>3
<1> QED BY <1>1, <1>5, <1>6 DEF d, Longer
-----------------------------------------------------------------------------
\* The answer and the tracker have their types.
FoldTypes == /\ answer \in AnswerType
             /\ tracker \in TrackerType

\* The goroutine comes to send an event that fits what it has told.
SendsNext == /\ pump.at \in Working
         /\ \E ev \in EventType, bound \in BOOLEAN :
              /\ Emits(ev, bound)
              /\ ev.msg.content = tracker'.content /\ Fits(Bodies(tracker.content), ev)
         /\ UNCHANGED <<ch, turn, view, cancelled>>

\* The goroutine goes on, and nothing that is told has changed.
IsQuiet == /\ pump.at \in Working /\ pump' \in PumpType /\ pump'.at \in Working
           /\ Bodies(tracker'.content) = Bodies(tracker.content)
           /\ UNCHANGED <<ch, turn, view, cancelled>>

\* While the goroutine works, no event is the last one.
LEMMA WorkIsOn ==
  ASSUME StreamInv, pump.at \in Working \cup {"emit"}
  PROVE  /\ \A n \in DOMAIN ch : ch[n].type \notin Terminal
         /\ ~turn.got /\ turn.at = "pumping"
<1>1. pump.at # "exited"
  BY DEF Working
<1>2. turn.at \in {"pumping", "sleeping", "returned"}
  BY DEF StreamInv, StreamTypes, TurnType
<1> QED BY <1>1, <1>2 DEF StreamInv, Ending, TurnPlaced

\* What it comes to send is then what the tracker has.
LEMMA SendsNextKeeps == ASSUME StreamInv, SendsNext, FoldTypes', Folded' PROVE StreamInv'
<1>1. pump.at \in Working /\ ch' = ch /\ turn' = turn /\ view' = view /\ cancelled' = cancelled
  BY DEF SendsNext
<1>2. PICK ev \in EventType, bound \in BOOLEAN :
        Emits(ev, bound) /\ ev.msg.content = tracker'.content /\ Fits(Bodies(tracker.content), ev)
  BY DEF SendsNext
<1>3. pump \in PumpType
  BY DEF StreamInv, StreamTypes, PumpType
<1>4. pump' \in PumpType /\ pump'.at = "emit" /\ pump'.out = ev
  BY <1>2, <1>3 DEF Emits, PumpType
<1>5. StreamTypes'
  BY <1>1, <1>4 DEF StreamInv, StreamTypes, FoldTypes, PumpType
<1>6. InStep'
  <2>1. Chained(view.content, ch) /\ After(view.content, ch, Len(ch)) = Bodies(tracker.content)
    BY <1>1 DEF StreamInv, InStep
  <2>2. Fits(After(view.content, ch, Len(ch)), ev)
    BY <1>2, <2>1
  <2>3. pump'.at \notin Working
    BY <1>4 DEF Working
  <2> QED BY <1>1, <1>2, <1>4, <2>1, <2>2, <2>3 DEF InStep
<1>7. Ending'
  BY <1>1, <1>4, WorkIsOn DEF Ending
<1>8. TurnPlaced'
  BY <1>1, WorkIsOn DEF StreamInv, TurnPlaced
<1> QED BY <1>5, <1>6, <1>7, <1>8 DEF StreamInv

\* Readers are where they were.
LEMMA QuietKeeps == ASSUME StreamInv, IsQuiet, FoldTypes', Folded' PROVE StreamInv'
<1>1. /\ pump.at \in Working /\ pump' \in PumpType /\ pump'.at \in Working
      /\ ch' = ch /\ turn' = turn /\ view' = view /\ cancelled' = cancelled
      /\ Bodies(tracker'.content) = Bodies(tracker.content)
  BY DEF IsQuiet
<1>2. StreamTypes'
  BY <1>1 DEF StreamInv, StreamTypes, FoldTypes, PumpType
<1>3. pump'.at # "emit" /\ pump'.at # "exited"
  BY <1>1 DEF Working
<1>4. InStep'
  BY <1>1, <1>3 DEF StreamInv, InStep
<1>5. Ending'
  BY <1>1, <1>3, WorkIsOn DEF Ending
<1>6. TurnPlaced'
  BY <1>1, WorkIsOn DEF StreamInv, TurnPlaced
<1> QED BY <1>2, <1>4, <1>5, <1>6 DEF StreamInv

\* An event that adds nothing fits.
LEMMA PlainEvent ==
  ASSUME StreamInv, NEW type \in {"start", "end", "done", "error"}, NEW i \in Nat, NEW m \in MessageType,
         m.content = tracker.content
  PROVE  /\ Event(type, i, m) \in EventType /\ Event(type, i, m).msg.content = tracker.content
         /\ Fits(Bodies(tracker.content), Event(type, i, m))
<1> DEFINE ev == Event(type, i, m)
<1>1. ev.type \notin {"open", "delta"} /\ ev.msg = m
  BY DEF Event
<1>2. ev \in EventType
  BY DEF Event, EventType
<1>3. Added(Bodies(tracker.content), ev) = Bodies(tracker.content)
  BY <1>1, AddedIs
<1> QED BY <1>1, <1>2, <1>3 DEF Fits

\* What a message of the tracker is.
LEMMA MessageTypes ==
  ASSUME StreamInv
  PROVE  /\ snapshot(tracker) \in MessageType /\ snapshot(tracker).content = tracker.content
         /\ \A reason \in {"stop", "length", "toolUse"} :
              /\ [snapshot(tracker) EXCEPT !.reason = reason] \in MessageType
              /\ [snapshot(tracker) EXCEPT !.reason = reason].content = tracker.content
         /\ \A reason \in {"error", "aborted"}, class \in {"", "retryable", "overflow", "fatal"} :
              LET m == [reason |-> reason, class |-> class, content |-> tracker.content]
              IN  m \in MessageType /\ m.content = tracker.content
<1>1. tracker.content \in Seq(BlockType)
  BY DEF StreamInv, StreamTypes, TrackerType
<1>2. NoMessage \in MessageType
  <2>1. <<>> \in Seq(BlockType)
    BY EmptySeq
  <2> HIDE DEF BlockType
  <2> QED BY <2>1 DEF NoMessage, MessageType
<1> DEFINE s == snapshot(tracker)
<1>3. s \in MessageType /\ s.content = tracker.content
  BY <1>1, <1>2 DEF snapshot, MessageType
<1> HIDE DEF s
<1>4. \A reason \in {"stop", "length", "toolUse"} :
        [s EXCEPT !.reason = reason] \in MessageType /\ [s EXCEPT !.reason = reason].content = tracker.content
  BY <1>3 DEF MessageType
<1>5. \A reason \in {"error", "aborted"}, class \in {"", "retryable", "overflow", "fatal"} :
        LET m == [reason |-> reason, class |-> class, content |-> tracker.content]
        IN  m \in MessageType /\ m.content = tracker.content
  BY <1>1 DEF MessageType
<1> QED BY <1>3, <1>4, <1>5 DEF s

\* The goroutine at its request, and what ends it with an error.
LEMMA FailsTell ==
  ASSUME StreamInv, pump.at \in Working, NEW class \in {"", "retryable", "overflow", "fatal"},
         \/ failFrom(class)
         \/ Emits(fail("error", class), TRUE),
         UNCHANGED <<answer, tracker, ch, turn, view, cancelled>>
  PROVE  StreamInv'
<1>1. PICK reason \in {"error", "aborted"}, c \in {"", "retryable", "overflow", "fatal"}, b \in BOOLEAN :
        Emits(fail(reason, c), b)
  BY DEF failFrom
<1> DEFINE m == [reason |-> reason, class |-> c, content |-> tracker.content]
<1>2. m \in MessageType /\ m.content = tracker.content
  BY MessageTypes
<1>3. fail(reason, c) = Event("error", 0, m)
  BY DEF fail
<1> HIDE DEF m
<1>4. fail(reason, c) \in EventType /\ fail(reason, c).msg.content = tracker.content
      /\ Fits(Bodies(tracker.content), fail(reason, c))
  BY <1>2, <1>3, PlainEvent
<1>5. SendsNext
  BY <1>1, <1>4 DEF SendsNext
<1>6. FoldTypes' /\ Folded'
  BY DEF StreamInv, StreamTypes, FoldTypes, Folded
<1> QED BY <1>5, <1>6, SendsNextKeeps

\* The request, its retries, and a stream that breaks.
LEMMA RequestKeeps ==
  ASSUME StreamInv,
         \/ HTTPFails \/ RequestOK \/ BackoffEnds
         \/ \E class \in {"retryable", "overflow", "fatal"} : ServerFails(class)
  PROVE  StreamInv'
<1>1. pump \in PumpType
  BY DEF StreamInv, StreamTypes, PumpType
<1>2. ASSUME UNCHANGED <<answer, tracker, ch, turn, view, cancelled>>, pump.at \in Working,
             pump' \in PumpType, pump'.at \in Working
      PROVE  StreamInv'
  <2>1. FoldTypes' /\ Folded'
    BY <1>2 DEF StreamInv, StreamTypes, FoldTypes, Folded
  <2>2. IsQuiet
    BY <1>2 DEF IsQuiet
  <2> QED BY <2>1, <2>2, QuietKeeps
<1>3. CASE RequestOK
  BY <1>1, <1>2, <1>3 DEF RequestOK, PumpType, Working
<1>4. CASE BackoffEnds
  <2>1. pump.at \in Working /\ UNCHANGED <<answer, tracker, ch, turn, view, cancelled>>
    BY <1>4 DEF BackoffEnds, Working
  <2>2. CASE pump' = [pump EXCEPT !.at = "request", !.tries = @ + 1]
    <3> DEFINE n == pump.tries + 1
    <3>0. n \in Nat
      BY <1>1 DEF PumpType
    <3> HIDE DEF n
    <3>1. pump' \in PumpType /\ pump'.at = "request"
      BY <1>1, <2>2, <3>0 DEF PumpType, Working, n
    <3>2. pump'.at \in Working
      BY <3>1 DEF Working
    <3> QED BY <1>2, <2>1, <3>1, <3>2
  <2>3. CASE failFrom("")
    BY <2>1, <2>3, FailsTell
  <2> QED BY <1>4, <2>2, <2>3 DEF BackoffEnds
<1>5. ASSUME NEW class \in {"retryable", "overflow", "fatal"},
             RequestFails(class) \/ RequestRefused(class) \/ ReadFails(class) \/ ServerFails(class)
      PROVE  StreamInv'
  <2>1. pump.at \in Working /\ UNCHANGED <<answer, tracker, ch, turn, view, cancelled>>
    BY <1>5 DEF RequestFails, RequestRefused, ReadFails, ServerFails, Working
  <2>2. CASE pump.at = "request" /\ pump' = [pump EXCEPT !.at = "backoff"]
    <3>1. pump' \in PumpType /\ pump'.at = "backoff"
      BY <1>1, <2>2 DEF PumpType, Working
    <3>2. pump'.at \in Working
      BY <3>1 DEF Working
    <3> QED BY <1>2, <2>1, <3>1, <3>2
  <2>3. CASE failFrom(class) \/ Emits(fail("error", class), TRUE)
    BY <2>1, <2>3, FailsTell
  <2> QED BY <1>5, <2>2, <2>3 DEF RequestFails, RequestRefused, ReadFails, ServerFails
<1> QED BY <1>3, <1>4, <1>5 DEF HTTPFails

\* The types of what is folded.
LEMMA AnswerTypes ==
  ASSUME StreamInv
  PROVE  /\ answer.started \in BOOLEAN /\ answer.blocks \in Seq(BlockType) /\ answer.open \in Nat
         /\ answer.pieces \in Nat /\ Len(answer.blocks) \in Nat /\ Len(tracker.content) \in Nat
         /\ tracker.content \in Seq(BlockType) /\ tracker.blocks \in [1..MaxBlocks -> Nat]
BY LenProperties DEF StreamInv, StreamTypes, AnswerType, TrackerType

\* message_start and message_stop.
LEMMA MessageKeeps ==
  ASSUME StreamInv,
         MessageStart \/ \E s \in {"end_turn", "max_tokens", "tool_use", "refusal"} : MessageStop(s)
  PROVE  StreamInv'
<1>1. CASE MessageStart
  <2>1. /\ pump.at \in Working /\ Emits(Event("start", 0, snapshot(tracker)), TRUE)
        /\ answer' = [answer EXCEPT !.started = TRUE] /\ UNCHANGED <<tracker, ch, turn, view, cancelled>>
    BY <1>1 DEF MessageStart, Working
  <2> DEFINE ev == Event("start", 0, snapshot(tracker))
  <2>2. ev \in EventType /\ ev.msg.content = tracker.content /\ Fits(Bodies(tracker.content), ev)
    BY PlainEvent, MessageTypes
  <2> HIDE DEF ev
  <2>3. SendsNext
    BY <2>1, <2>2 DEF SendsNext, ev
  <2>4. FoldTypes' /\ answer'.open = answer.open /\ answer'.blocks = answer.blocks
    BY <2>1 DEF StreamInv, StreamTypes, FoldTypes, AnswerType
  <2>5. Folded'
    BY <2>1, <2>4 DEF StreamInv, Folded
  <2> QED BY <2>3, <2>4, <2>5, SendsNextKeeps
<1>2. ASSUME NEW s \in {"end_turn", "max_tokens", "tool_use", "refusal"}, MessageStop(s) PROVE StreamInv'
  <2>1. pump.at \in Working /\ UNCHANGED <<answer, tracker, ch, turn, view, cancelled>>
    BY <1>2 DEF MessageStop, Working
  <2>2. CASE mapStopReason(s) = "error"
    <3>1. Emits(fail("error", "fatal"), TRUE)
      BY <1>2, <2>2 DEF MessageStop
    <3> QED BY <2>1, <3>1, FailsTell
  <2>3. CASE mapStopReason(s) # "error"
    <3> DEFINE m == [snapshot(tracker) EXCEPT !.reason = mapStopReason(s)]
    <3>1. mapStopReason(s) \in {"stop", "length", "toolUse"}
      BY <2>3 DEF mapStopReason
    <3>2. m \in MessageType /\ m.content = tracker.content
      BY <3>1, MessageTypes
    <3>3. Emits(Event("done", 0, m), TRUE)
      BY <1>2, <2>3 DEF MessageStop
    <3> HIDE DEF m
    <3> DEFINE ev == Event("done", 0, m)
    <3>4. ev \in EventType /\ ev.msg.content = tracker.content /\ Fits(Bodies(tracker.content), ev)
      BY <3>2, PlainEvent
    <3> HIDE DEF ev
    <3>5. SendsNext
      BY <2>1, <3>3, <3>4 DEF SendsNext, ev
    <3>6. FoldTypes' /\ Folded'
      BY <2>1 DEF StreamInv, StreamTypes, FoldTypes, Folded
    <3> QED BY <3>5, <3>6, SendsNextKeeps
  <2> QED BY <2>2, <2>3
<1> QED BY <1>1, <1>2

\* content_block_start: a block of a known kind has the last place.
LEMMA startBlockKeeps == ASSUME StreamInv, NEW kind \in Kinds, startBlock(kind) PROVE StreamInv'
<1> DEFINE i == Len(answer.blocks) + 1
           place == Len(tracker.content) + 1
           b == Block(kind)
           c == Append(tracker.content, b)
           t == [content |-> c, blocks |-> [tracker.blocks EXCEPT ![i] = place]]
<1>1. /\ pump.at \in Working /\ answer.open = 0 /\ i <= MaxBlocks
      /\ answer' = [answer EXCEPT !.blocks = Append(@, b), !.open = i]
      /\ UNCHANGED <<ch, turn, view, cancelled>>
  BY DEF startBlock, Working
<1>2. MaxBlocks \in Nat /\ i \in 1 .. MaxBlocks /\ place \in Nat
  BY <1>1, AnswerTypes, StreamAssumption
<1>3. /\ b \in BlockType /\ b.kind = kind
      /\ Append(answer.blocks, b) \in Seq(BlockType) /\ Append(answer.blocks, b)[i] = b
      /\ Len(Append(answer.blocks, b)) = i
  <2>1. b \in BlockType /\ b.kind = kind
    BY DEF Block, BlockType
  <2> HIDE DEF b
  <2> QED BY <2>1, AnswerTypes, AppendProperties
<1>4. /\ c \in Seq(BlockType) /\ Len(c) = place
      /\ Bodies(c) = Append(Bodies(tracker.content), [kind |-> kind, body |-> <<>>])
  BY BodiesOpen, AnswerTypes, AppendProperties
<1> HIDE DEF b
<1>5. answer'.blocks = Append(answer.blocks, b) /\ answer'.open = i
      /\ answer' \in AnswerType
  <2>1. answer \in AnswerType
    BY DEF StreamInv, StreamTypes
  <2> HIDE DEF i
  <2>2. i \in Nat
    BY <1>2
  <2> QED BY <1>1, <1>3, <2>1, <2>2 DEF AnswerType
<1>6. Known(answer'.blocks) = IF kind = "other" THEN tracker.content ELSE c
  <2>1. tracker.content = Known(answer.blocks)
    BY DEF StreamInv, Folded
  <2> QED BY <1>3, <1>5, <2>1, KnownGrows, AnswerTypes
<1>7. \A j \in 1 .. MaxBlocks : tracker.blocks[j] = 0
  BY <1>1 DEF StreamInv, Folded
<1> HIDE DEF i, place, c
<1>8. CASE kind = "other"
  <2>1. UNCHANGED <<tracker, pump>>
    BY <1>8 DEF startBlock
  <2>2. FoldTypes'
    BY <1>5, <2>1 DEF StreamInv, StreamTypes, FoldTypes
  <2>3. Folded'
    BY <1>3, <1>5, <1>6, <1>7, <1>8, <2>1 DEF Folded
  <2>4. IsQuiet
    BY <1>1, <2>1 DEF IsQuiet, StreamInv, StreamTypes, PumpType
  <2> QED BY <2>2, <2>3, <2>4, QuietKeeps
<1>9. CASE kind # "other"
  <2> DEFINE m == snapshot(t)
             e == Event("open", place, m)
             ev == [e EXCEPT !.kind = kind]
  <2>1. tracker' = t /\ Emits(ev, TRUE)
    BY <1>9 DEF startBlock, i, place, c, b
  <2>2. tracker'.content = c /\ tracker'.blocks = [tracker.blocks EXCEPT ![i] = place]
    BY <2>1
  <2>3. [tracker.blocks EXCEPT ![i] = place] \in [1 .. MaxBlocks -> Nat]
        /\ \A j \in 1 .. MaxBlocks : [tracker.blocks EXCEPT ![i] = place][j] = IF j = i THEN place ELSE 0
    BY <1>2, <1>7, AnswerTypes
  <2>4. FoldTypes'
    BY <1>4, <1>5, <2>1, <2>3 DEF FoldTypes, TrackerType
  <2>5. Folded'
    BY <1>3, <1>4, <1>5, <1>6, <1>9, <2>2, <2>3 DEF Folded
  <2>6. m \in MessageType /\ m.content = c
    <3>1. NoMessage \in MessageType
      <4>1. <<>> \in Seq(BlockType)
        BY EmptySeq
      <4> HIDE DEF BlockType
      <4> QED BY <4>1 DEF NoMessage, MessageType
    <3> QED BY <1>4, <3>1 DEF snapshot, MessageType
  <2> HIDE DEF m
  <2>7. e \in EventType /\ e.type = "open" /\ e.msg = m
    BY <1>2, <2>6 DEF Event, EventType
  <2> HIDE DEF e
  <2>8. ev \in EventType /\ ev.type = "open" /\ ev.msg = m /\ ev.kind = kind
    BY <2>7 DEF EventType
  <2> HIDE DEF ev
  <2>9. Added(Bodies(tracker.content), ev) = Append(Bodies(tracker.content), [kind |-> kind, body |-> <<>>])
    BY <2>8, AddedIs
  <2>10. Fits(Bodies(tracker.content), ev)
    BY <1>4, <2>6, <2>8, <2>9 DEF Fits
  <2>11. SendsNext
    BY <1>1, <2>1, <2>2, <2>6, <2>8, <2>10 DEF SendsNext
  <2> QED BY <2>4, <2>5, <2>11, SendsNextKeeps
<1> QED BY <1>8, <1>9

\* A piece of a known block reaches the tracker's last block, which is it.
LEMMA deltaBlockKeeps ==
  ASSUME StreamInv, NEW i \in 1 .. MaxBlocks, NEW field \in {"body", "sig"}, deltaBlock(i, field)
  PROVE  StreamInv'
<1> DEFINE place == Place(i)
           piece == answer.pieces + 1
           Grown(b) == IF field = "body" THEN [b EXCEPT !.body = Append(@, piece)] ELSE [b EXCEPT !.sig = @ + 1]
           last == answer.blocks[i]
           blocks == [answer.blocks EXCEPT ![i] = Grown(last)]
<1>1. /\ pump.at \in Working /\ i = answer.open
      /\ answer' = [answer EXCEPT !.blocks[i] = Grown(@), !.pieces = piece]
      /\ UNCHANGED <<ch, turn, view, cancelled>>
  BY DEF deltaBlock, Working
<1>2. i = Len(answer.blocks) /\ i \in Nat /\ i # 0 /\ piece \in Nat /\ answer.blocks # <<>>
  BY <1>1, AnswerTypes DEF StreamInv, Folded
<1>3. last \in BlockType
  BY <1>2, AnswerTypes, ElementOfSeq
<1> DEFINE new == Grown(last)
<1>4. /\ new \in BlockType /\ new.kind = last.kind
      /\ field = "body" => new.body = Append(last.body, piece)
      /\ field = "sig" => new.body = last.body
  <2> HIDE DEF last, piece
  <2>1. Append(last.body, piece) \in Seq(Nat) /\ last.sig + 1 \in Nat
    BY <1>2, <1>3 DEF BlockType
  <2> QED BY <1>3, <2>1 DEF BlockType
<1>5. /\ answer'.blocks = blocks /\ answer'.open = i
      /\ answer' \in AnswerType
  <2>1. blocks \in Seq(BlockType)
    <3> HIDE DEF new
    <3> QED BY <1>2, <1>4, AnswerTypes, KnownLast DEF new
  <2>2. answer \in AnswerType
    BY DEF StreamInv, StreamTypes
  <2>3. answer' = [answer EXCEPT !.blocks = blocks, !.pieces = piece]
    BY <1>1, <2>2
  <2> HIDE DEF blocks, piece
  <2> QED BY <1>1, <1>2, <2>1, <2>2, <2>3 DEF AnswerType
<1>6. blocks = [answer.blocks EXCEPT ![Len(answer.blocks)] = new] /\ new.kind = answer.blocks[Len(answer.blocks)].kind
  BY <1>2, <1>4
<1> HIDE DEF new
<1>7. Len(blocks) = Len(answer.blocks) /\ \A j \in 1 .. MaxBlocks : j = i => blocks[j].kind = last.kind
  <2>1. i \in 1 .. Len(answer.blocks)
    BY <1>2
  <2>2. Len(blocks) = Len(answer.blocks) /\ blocks[i] = new
    BY <1>2, <1>4, <1>6, <2>1, AnswerTypes, ExceptSeq
  <2> QED BY <1>4, <2>2
<1>8. /\ tracker.content = Known(answer.blocks)
      /\ \A j \in 1 .. MaxBlocks : tracker.blocks[j] = IF j = i /\ last.kind # "other" THEN Len(tracker.content) ELSE 0
  BY <1>1 DEF StreamInv, Folded
<1> HIDE DEF blocks
<1>9. CASE last.kind = "other"
  <2>1. place = 0 /\ Known(blocks) = tracker.content
    BY <1>2, <1>4, <1>6, <1>8, <1>9, AnswerTypes, KnownLast DEF Place
  <2>2. UNCHANGED <<tracker, pump>>
    BY <2>1 DEF deltaBlock
  <2>3. FoldTypes'
    BY <1>5, <2>2 DEF StreamInv, StreamTypes, FoldTypes
  <2>4. Folded'
    BY <1>2, <1>5, <1>7, <1>8, <1>9, <2>1, <2>2 DEF Folded
  <2>5. IsQuiet
    BY <1>1, <2>2 DEF IsQuiet, StreamInv, StreamTypes, PumpType
  <2> QED BY <2>3, <2>4, <2>5, QuietKeeps
<1>10. CASE last.kind # "other"
  <2> DEFINE c == tracker.content
             d == [c EXCEPT ![place] = new]
             t == [tracker EXCEPT !.content[place] = Grown(@)]
  <2>1. /\ c \in Seq(BlockType) /\ c # <<>> /\ c[Len(c)] = last
        /\ Known(blocks) = [c EXCEPT ![Len(c)] = new]
    BY <1>2, <1>4, <1>6, <1>8, <1>10, AnswerTypes, KnownLast
  <2>2. place = Len(c) /\ place \in 1 .. Len(c) /\ c[place] = last /\ place \in Nat /\ place # 0
    <3>1. place = Len(c)
      BY <1>8, <1>10 DEF Place
    <3>2. Len(c) \in Nat /\ Len(c) # 0
      BY <2>1, LenProperties, EmptySeq
    <3> QED BY <2>1, <3>1, <3>2
  <2>3. d \in Seq(BlockType) /\ Len(d) = Len(c) /\ d = Known(blocks)
        /\ (field = "sig" => Bodies(d) = Bodies(c))
        /\ (field = "body" => Bodies(d) = Longer(Bodies(c), place, piece))
    <3>1. new.kind = c[place].kind
      BY <1>4, <2>2
    <3>2. d \in Seq(BlockType) /\ Len(d) = Len(c)
      BY <1>4, <2>1, <2>2, <3>1, BodiesGrow
    <3>3. field = "sig" => Bodies(d) = Bodies(c)
      BY <1>4, <2>1, <2>2, <3>1, BodiesGrow
    <3>4. field = "body" => Bodies(d) = Longer(Bodies(c), place, piece)
      <4>1. \A p \in Nat : new.body = Append(c[place].body, p) =>
              Bodies(d) = Longer(Bodies(c), place, p)
        <5>1. c \in Seq(BlockType) /\ place \in 1 .. Len(c) /\ new \in BlockType /\ new.kind = c[place].kind
          BY <1>4, <2>1, <2>2, <3>1
        <5> HIDE DEF place, c
        <5> QED BY <5>1, BodiesGrow
      <4>2. piece \in Nat /\ (field = "body" => new.body = Append(c[place].body, piece))
        BY <1>2, <1>4, <2>2
      <4> HIDE DEF d, piece, place, c
      <4> QED BY <4>1, <4>2
    <3> QED BY <2>1, <2>2, <3>2, <3>3, <3>4
  <2>4. tracker' = t
    BY <2>2 DEF deltaBlock
  <2>5. t.content = d /\ t.blocks = tracker.blocks /\ t \in TrackerType
    <3>1. tracker \in TrackerType
      BY DEF StreamInv, StreamTypes
    <3>2. t = [tracker EXCEPT !.content = d]
      BY <2>2, <3>1 DEF new
    <3> HIDE DEF t, d
    <3> QED BY <2>3, <3>1, <3>2 DEF TrackerType
  <2> HIDE DEF t, d
  <2>6. FoldTypes'
    BY <1>5, <2>4, <2>5 DEF FoldTypes
  <2>7. Folded'
    BY <1>2, <1>5, <1>7, <1>8, <1>10, <2>3, <2>4, <2>5 DEF Folded
  <2>8. CASE field = "sig"
    <3>1. UNCHANGED pump
      BY <2>2, <2>8 DEF deltaBlock
    <3>2. IsQuiet
      BY <1>1, <2>3, <2>4, <2>5, <2>8, <3>1 DEF IsQuiet, StreamInv, StreamTypes, PumpType
    <3> QED BY <2>6, <2>7, <3>2, QuietKeeps
  <2>9. CASE field = "body"
    <3> DEFINE m == snapshot(t)
               e == Event("delta", place, m)
               ev == [e EXCEPT !.piece = piece]
    <3>1. Emits(ev, TRUE)
      BY <2>2, <2>9 DEF deltaBlock, t
    <3>2. m \in MessageType /\ m.content = d
      <4>1. NoMessage \in MessageType
        <5>1. <<>> \in Seq(BlockType)
          BY EmptySeq
        <5> HIDE DEF BlockType
        <5> QED BY <5>1 DEF NoMessage, MessageType
      <4> QED BY <2>3, <2>5, <4>1 DEF snapshot, MessageType
    <3> HIDE DEF m
    <3>3. e \in EventType /\ e.type = "delta" /\ e.msg = m /\ e.i = place
      BY <2>2, <3>2 DEF Event, EventType
    <3> HIDE DEF e
    <3>4. ev \in EventType /\ ev.type = "delta" /\ ev.msg = m /\ ev.i = place /\ ev.piece = piece
      BY <1>2, <3>3 DEF EventType
    <3> HIDE DEF ev
    <3>5. Added(Bodies(c), ev) = Longer(Bodies(c), place, piece)
      <4>1. Added(Bodies(c), ev) = Longer(Bodies(c), ev.i, ev.piece)
        BY <3>4, AddedIs
      <4> HIDE DEF place, piece
      <4> QED BY <3>4, <4>1
    <3>6. Fits(Bodies(tracker.content), ev)
      BY <2>3, <2>9, <3>2, <3>4, <3>5 DEF Fits
    <3>7. SendsNext
      BY <1>1, <2>4, <2>5, <3>1, <3>2, <3>4, <3>6 DEF SendsNext
    <3> QED BY <2>6, <2>7, <3>7, SendsNextKeeps
  <2> QED BY <2>8, <2>9
<1> QED BY <1>9, <1>10

\* A block is closed.
LEMMA stopBlockKeeps == ASSUME StreamInv, NEW i \in 1 .. MaxBlocks, stopBlock(i) PROVE StreamInv'
<1>1. /\ pump.at \in Working /\ i = answer.open /\ answer' = [answer EXCEPT !.open = 0]
      /\ UNCHANGED <<ch, turn, view, cancelled>>
  BY DEF stopBlock, Working
<1>2. /\ answer'.blocks = answer.blocks /\ answer'.open = 0
      /\ answer' \in AnswerType
  BY <1>1 DEF StreamInv, StreamTypes, AnswerType
<1>3. /\ tracker.content = Known(answer.blocks)
      /\ \A j \in 1 .. MaxBlocks : j # i => tracker.blocks[j] = 0
  BY <1>1 DEF StreamInv, Folded
<1>4. CASE Place(i) = 0
  <2>1. UNCHANGED <<tracker, pump>>
    BY <1>4 DEF stopBlock
  <2>2. FoldTypes'
    BY <1>2, <2>1 DEF StreamInv, StreamTypes, FoldTypes
  <2>3. Folded'
    <3>1. \A j \in 1 .. MaxBlocks : tracker.blocks[j] = 0
      BY <1>3, <1>4 DEF Place
    <3>2. \A j \in 1 .. MaxBlocks : j # 0
      BY StreamAssumption
    <3> QED BY <1>2, <1>3, <2>1, <3>1, <3>2 DEF Folded
  <2>4. IsQuiet
    BY <1>1, <2>1 DEF IsQuiet, StreamInv, StreamTypes, PumpType
  <2> QED BY <2>2, <2>3, <2>4, QuietKeeps
<1>5. CASE Place(i) # 0
  <2> DEFINE m == snapshot(tracker)
             ev == Event("end", Place(i), m)
  <2>1. tracker' = [tracker EXCEPT !.blocks[i] = 0] /\ Emits(ev, TRUE)
    BY <1>5 DEF stopBlock
  <2>2. /\ tracker'.content = tracker.content
        /\ tracker' \in TrackerType
        /\ \A j \in 1 .. MaxBlocks : tracker'.blocks[j] = 0
    <3>1. tracker \in TrackerType
      BY DEF StreamInv, StreamTypes
    <3> QED BY <1>3, <2>1, <3>1 DEF TrackerType
  <2>3. FoldTypes'
    BY <1>2, <2>2 DEF FoldTypes
  <2>4. Folded'
    <3>1. \A j \in 1 .. MaxBlocks : j # 0
      BY StreamAssumption
    <3> QED BY <1>2, <1>3, <2>2, <3>1 DEF Folded
  <2>5. ev \in EventType /\ ev.msg.content = tracker.content /\ Fits(Bodies(tracker.content), ev)
    <3>1. Place(i) \in Nat
      BY AnswerTypes DEF Place
    <3> QED BY <3>1, PlainEvent, MessageTypes
  <2> HIDE DEF ev
  <2>6. SendsNext
    BY <1>1, <2>1, <2>2, <2>5 DEF SendsNext
  <2> QED BY <2>3, <2>4, <2>6, SendsNextKeeps
<1> QED BY <1>4, <1>5

\* The channel takes an event, or the goroutine gives up.
LEMMA SendKeeps == ASSUME StreamInv, Send PROVE StreamInv'
<1> DEFINE out == pump.out
           c == view.content
           d == Append(ch, out)
           at == IF out.type \in Terminal THEN "exited" ELSE "read"
<1>1. /\ pump.at = "emit" /\ ch' = d /\ pump' = [pump EXCEPT !.at = at]
      /\ UNCHANGED <<answer, tracker, turn, view, cancelled>>
  BY DEF Send, Terminal
<1>2. pump \in PumpType /\ out \in EventType /\ ch \in Seq(EventType) /\ Len(ch) \in Nat
  BY LenProperties DEF StreamInv, StreamTypes, PumpType
<1>3. pump' \in PumpType /\ pump'.at = at
  BY <1>1, <1>2 DEF PumpType, Working
<1>4. /\ d \in Seq(EventType) /\ Len(d) = Len(ch) + 1 /\ d[Len(ch) + 1] = out
      /\ \A n \in 1 .. Len(ch) : d[n] = ch[n]
  BY <1>2, AppendProperties
<1>5. DOMAIN d = 1 .. (Len(ch) + 1) /\ DOMAIN ch = 1 .. Len(ch)
  BY <1>2, <1>4, LenProperties
<1> HIDE DEF d, at
<1>6. StreamTypes'
  BY <1>1, <1>3, <1>4 DEF StreamInv, StreamTypes, PumpType
<1>7. Folded'
  BY <1>1 DEF StreamInv, Folded
<1>8. /\ Chained(c, ch) /\ out.msg.content = tracker.content /\ Fits(After(c, ch, Len(ch)), out)
  BY <1>1 DEF StreamInv, InStep
<1>9. \A n \in 0 .. Len(ch) : After(c, d, n) = After(c, ch, n)
  BY <1>2, <1>4 DEF After
<1>10. InStep'
  <2>1. ASSUME NEW n \in 1 .. (Len(ch) + 1) PROVE Fits(After(c, d, n - 1), d[n])
    <3>1. CASE n \in 1 .. Len(ch)
      <4>1. d[n] = ch[n] /\ After(c, d, n - 1) = After(c, ch, n - 1)
        BY <1>2, <1>4, <1>9, <3>1
      <4>2. Fits(After(c, ch, n - 1), ch[n])
        BY <1>5, <1>8, <3>1 DEF Chained
      <4> QED BY <4>1, <4>2
    <3>2. CASE n = Len(ch) + 1
      <4>1. d[n] = out /\ n - 1 = Len(ch) /\ Len(ch) \in 0 .. Len(ch)
        BY <1>2, <1>4, <3>2
      <4>2. After(c, d, n - 1) = After(c, ch, Len(ch))
        BY <1>9, <4>1
      <4> QED BY <1>8, <4>1, <4>2
    <3> QED BY <1>2, <3>1, <3>2
  <2>2. Chained(c, d)
    BY <1>5, <2>1 DEF Chained
  <2>3. After(c, d, Len(d)) = Bodies(tracker.content)
    BY <1>2, <1>4, <1>8 DEF After
  <2>4. pump'.at # "emit"
    BY <1>3 DEF at
  <2> QED BY <1>1, <2>2, <2>3, <2>4 DEF InStep
<1>11. Ending'
  <2>1. (\A n \in DOMAIN ch : ch[n].type \notin Terminal) /\ ~turn.got
    BY <1>1, WorkIsOn
  <2>2. ASSUME NEW n \in DOMAIN d, d[n].type \in Terminal
        PROVE  n = Len(d) /\ pump'.at = "exited" /\ d[n].msg.content = tracker.content
    <3>1. n = Len(ch) + 1
      <4>1. n \notin 1 .. Len(ch)
        BY <1>4, <1>5, <2>1, <2>2
      <4> QED BY <1>2, <1>5, <4>1
    <3>2. d[n] = out /\ n = Len(d)
      BY <1>4, <3>1
    <3> QED BY <1>3, <1>8, <2>2, <3>2 DEF at
  <2>3. pump'.at = "exited" => d[Len(ch) + 1].type \in Terminal /\ Len(ch) + 1 \in DOMAIN d
    BY <1>2, <1>3, <1>4, <1>5 DEF at
  <2> QED BY <1>1, <2>1, <2>2, <2>3 DEF Ending
<1>12. TurnPlaced'
  BY <1>1, WorkIsOn DEF StreamInv, TurnPlaced
<1> QED BY <1>6, <1>7, <1>10, <1>11, <1>12 DEF StreamInv

\* A goroutine gives up only when the context has ended.
LEMMA GiveUpKeeps == ASSUME StreamInv, GiveUp PROVE StreamInv'
<1>1. /\ pump.at = "emit" /\ cancelled /\ pump' = [pump EXCEPT !.at = "exited"]
      /\ UNCHANGED <<answer, tracker, ch, turn, view, cancelled>>
  BY DEF GiveUp
<1>2. pump \in PumpType
  BY DEF StreamInv, StreamTypes, PumpType
<1>3. pump' \in PumpType /\ pump'.at = "exited"
  BY <1>1, <1>2 DEF PumpType
<1>4. StreamTypes' /\ Folded'
  BY <1>1, <1>3 DEF StreamInv, StreamTypes, PumpType, Folded
<1>5. InStep'
  <2>1. pump'.at \notin Working
    BY <1>3 DEF Working
  <2> QED BY <1>1, <1>3, <2>1 DEF StreamInv, InStep
<1>6. Ending' /\ TurnPlaced'
  BY <1>1, <1>3, WorkIsOn DEF StreamInv, Ending, TurnPlaced
<1> QED BY <1>4, <1>5, <1>6 DEF StreamInv

\* pumpStream takes an event: the reader is then where its Partial is.
LEMMA TakeKeeps == ASSUME StreamInv, Take PROVE StreamInv'
<1> DEFINE ev == Head(ch)
           last == ev.type \in Terminal
           c == view.content
           v == Added(c, ev)
           d == Tail(ch)
<1>1. /\ turn.at = "pumping" /\ ch # <<>> /\ ch' = d
      /\ turn' = [turn EXCEPT !.got = last, !.final = IF last THEN ev.msg ELSE @,
                              !.emitted = @ \/ ev.type \in {"open", "delta", "end"}]
      /\ view' = [content |-> v, partial |-> ev.msg.content]
      /\ UNCHANGED <<answer, tracker, pump, cancelled>>
  BY DEF Take, Terminal
<1>2. ch \in Seq(EventType) /\ Len(ch) \in Nat /\ Len(ch) > 0 /\ DOMAIN ch = 1 .. Len(ch)
  <2>1. ch \in Seq(EventType)
    BY DEF StreamInv, StreamTypes
  <2> QED BY <1>1, <2>1, LenProperties, EmptySeq
<1>3. /\ ev = ch[1] /\ 1 \in DOMAIN ch /\ ev \in EventType
      /\ d \in Seq(EventType) /\ Len(d) = Len(ch) - 1 /\ \A n \in 1 .. (Len(ch) - 1) : d[n] = ch[n + 1]
  <2>1. ev = ch[1] /\ 1 \in DOMAIN ch
    BY <1>1, <1>2
  <2>2. ev \in EventType
    BY <1>2, <2>1, ElementOfSeq
  <2>3. d \in Seq(EventType) /\ Len(d) = Len(ch) - 1 /\ \A n \in 1 .. Len(d) : d[n] = ch[n + 1]
    BY <1>1, <1>2, HeadTailProperties
  <2> QED BY <2>1, <2>2, <2>3
<1>4. DOMAIN d = 1 .. (Len(ch) - 1)
  BY <1>2, <1>3, LenProperties
<1> HIDE DEF d, ev
<1>5. Chained(c, ch) /\ v = Bodies(ev.msg.content)
  <2>1. Chained(c, ch)
    BY DEF StreamInv, InStep
  <2>2. Fits(After(c, ch, 1 - 1), ch[1])
    BY <1>3, <2>1 DEF Chained
  <2>3. After(c, ch, 1 - 1) = c
    BY DEF After
  <2>4. Fits(c, ev)
    BY <1>3, <2>2, <2>3
  <2> QED BY <2>1, <2>4 DEF Fits
<1> HIDE DEF v
<1>6. view'.content = v /\ view'.partial = ev.msg.content
  BY <1>1
<1>7. \A n \in 0 .. (Len(ch) - 1) : After(v, d, n) = After(c, ch, n + 1)
  BY <1>2, <1>3, <1>5 DEF After
<1>8. /\ turn'.got = last /\ turn'.at = "pumping" /\ (last => turn'.final = ev.msg)
      /\ turn'.emitted = (turn.emitted \/ ev.type \in {"open", "delta", "end"})
      /\ turn' \in TurnType
  <2>1. turn \in TurnType
    BY DEF StreamInv, StreamTypes
  <2>2. ev.msg \in MessageType
    BY <1>3 DEF EventType
  <2> DEFINE tells == ev.type \in {"open", "delta", "end"}
  <2>3. last \in BOOLEAN /\ (turn.emitted \/ tells) \in BOOLEAN
    OBVIOUS
  <2> HIDE DEF last
  <2> QED BY <1>1, <2>1, <2>2, <2>3 DEF TurnType
<1>9. StreamTypes'
  BY <1>1, <1>3, <1>8 DEF StreamInv, StreamTypes
<1>10. Folded'
  BY <1>1 DEF StreamInv, Folded
<1>11. InStep'
  <2>1. ASSUME NEW n \in 1 .. (Len(ch) - 1) PROVE Fits(After(v, d, n - 1), d[n])
    <3>1. n + 1 \in DOMAIN ch /\ n - 1 \in 0 .. (Len(ch) - 1) /\ (n - 1) + 1 = n /\ (n + 1) - 1 = n
      BY <1>2
    <3>2. Fits(After(c, ch, (n + 1) - 1), ch[n + 1])
      BY <1>5, <3>1 DEF Chained
    <3>3. After(v, d, n - 1) = After(c, ch, n)
      BY <1>7, <3>1
    <3>4. d[n] = ch[n + 1]
      BY <1>3
    <3> QED BY <3>1, <3>2, <3>3, <3>4
  <2>2. Chained(v, d)
    BY <1>4, <2>1 DEF Chained
  <2>3. After(v, d, Len(d)) = After(c, ch, Len(ch))
    BY <1>2, <1>3, <1>7
  <2> QED BY <1>1, <1>6, <2>2, <2>3 DEF StreamInv, InStep
<1>12. Ending'
  <2>1. ASSUME NEW n \in DOMAIN ch, ch[n].type \in Terminal
        PROVE  n = Len(ch) /\ pump.at = "exited" /\ ch[n].msg.content = tracker.content
    BY <2>1 DEF StreamInv, Ending
  <2>2. ASSUME NEW n \in DOMAIN d, d[n].type \in Terminal
        PROVE  n = Len(d) /\ pump.at = "exited" /\ d[n].msg.content = tracker.content
    <3>1. n + 1 \in DOMAIN ch /\ d[n] = ch[n + 1] /\ n \in Nat
      BY <1>2, <1>3, <1>4
    <3>2. n + 1 = Len(ch)
      BY <2>1, <2>2, <3>1
    <3> QED BY <1>2, <1>3, <2>1, <2>2, <3>1, <3>2
  <2>3. ASSUME last
        PROVE  /\ d = <<>> /\ pump.at = "exited" /\ ev.msg.content = tracker.content
               /\ v = Bodies(tracker.content)
    <3>1. 1 = Len(ch) /\ pump.at = "exited" /\ ev.msg.content = tracker.content
      BY <1>3, <2>1, <2>3
    <3>2. d = <<>>
      <4>1. d \in Seq(EventType)
        BY <1>3
      <4>2. Len(d) = Len(ch) - 1
        BY <1>3
      <4>3. Len(ch) = 1
        BY <3>1
      <4>4. Len(d) = 0
        BY <4>2, <4>3
      <4> QED BY <4>1, <4>4, EmptySeq
    <3> QED BY <1>5, <3>1, <3>2
  <2>4. ASSUME pump.at = "exited", ~last PROVE cancelled \/ \E n \in DOMAIN d : d[n].type \in Terminal
    <3>1. ~turn.got
      BY <1>1 DEF StreamInv, Ending
    <3>2. CASE ~cancelled
      <4>1. PICK n \in DOMAIN ch : ch[n].type \in Terminal
        BY <2>4, <3>1, <3>2 DEF StreamInv, Ending
      <4>2. n # 1
        BY <1>3, <2>4, <4>1
      <4>3. n - 1 \in DOMAIN d /\ d[n - 1] = ch[n]
        <5>1. n - 1 \in 1 .. (Len(ch) - 1) /\ (n - 1) + 1 = n
          BY <1>2, <4>2
        <5> QED BY <1>3, <1>4, <5>1
      <4> QED BY <4>1, <4>3
    <3> QED BY <3>2
  <2> QED BY <1>1, <1>6, <1>8, <2>2, <2>3, <2>4 DEF Ending
<1>13. TurnPlaced'
  <2>1. ~turn'.emitted => v = <<>>
    <3>1. ASSUME ~turn'.emitted PROVE v = <<>>
      <4>1. c = <<>> /\ ev.type \notin {"open", "delta"}
        BY <1>8, <3>1 DEF StreamInv, TurnPlaced
      <4> QED BY <4>1, AddedIs DEF v
    <3> QED BY <3>1
  <2> QED BY <1>5, <1>6, <1>8, <2>1 DEF TurnPlaced
<1> QED BY <1>9, <1>10, <1>11, <1>12, <1>13 DEF StreamInv

\* d.Stream is called again: nothing was shown, and nothing is on its way.
LEMMA RestartsKeeps ==
  ASSUME StreamInv, ~turn.emitted, ch = <<>>,
         NEW t \in TurnType,
         Restarts(t)
  PROVE  StreamInv'
<1>1. /\ turn' = [t EXCEPT !.at = "pumping", !.emitted = FALSE, !.got = FALSE, !.final = NoMessage]
      /\ answer' = NewAnswer /\ tracker' = newTracker /\ pump' = NewPump /\ UNCHANGED <<ch, view, cancelled>>
  BY DEF Restarts
<1>2. <<>> \in Seq(BlockType)
  BY EmptySeq
<1>3. NoMessage \in MessageType
  <2> HIDE DEF BlockType
  <2> QED BY <1>2 DEF NoMessage, MessageType
<1>4. /\ turn' \in TurnType
      /\ turn'.at = "pumping" /\ ~turn'.emitted /\ ~turn'.got
  BY <1>1, <1>3 DEF TurnType
<1>5. /\ answer' \in AnswerType
      /\ answer'.blocks = <<>> /\ answer'.open = 0
  <2> HIDE DEF BlockType
  <2> QED BY <1>1, <1>2 DEF NewAnswer, AnswerType
<1>6. /\ tracker' \in TrackerType
      /\ tracker'.content = <<>> /\ \A i \in 1..MaxBlocks : tracker'.blocks[i] = 0
  <2> HIDE DEF BlockType
  <2> QED BY <1>1, <1>2 DEF newTracker, TrackerType
<1>7. pump' \in PumpType /\ pump'.at = "request"
  <2> DEFINE none == Event("none", 0, NoMessage)
  <2>1. none \in EventType
    BY <1>3 DEF Event, EventType
  <2> HIDE DEF none
  <2>2. NewPump = [at |-> "request", tries |-> 0, out |-> none, bound |-> TRUE]
    BY DEF NewPump, none
  <2> HIDE DEF EventType
  <2> QED BY <1>1, <2>1, <2>2 DEF PumpType, Working
<1>8. StreamTypes'
  BY <1>1, <1>4, <1>5, <1>6, <1>7 DEF StreamInv, StreamTypes, PumpType
<1>9. Folded'
  <2>1. Known(<<>>) = <<>>
    <3>1. Len(<<>>) = 0
      OBVIOUS
    <3>2. Known(<<>>) = KnownTo(<<>>)[Len(<<>>)] /\ KnownTo(<<>>)[0] = <<>>
      BY <1>2, KnownSteps
    <3> QED BY <3>1, <3>2
  <2>2. \A i \in 1..MaxBlocks : i # 0
    BY StreamAssumption
  <2> QED BY <1>5, <1>6, <2>1, <2>2 DEF Folded
<1>10. view.content = <<>> /\ Bodies(<<>>) = <<>>
  <2>1. view.content = <<>>
    BY DEF StreamInv, TurnPlaced
  <2>2. DOMAIN <<>> = {}
    OBVIOUS
  <2>3. Bodies(<<>>) = <<>>
    BY <2>2 DEF Bodies
  <2> QED BY <2>1, <2>3
<1>11. InStep'
  <2>1. DOMAIN ch = {} /\ Len(ch) = 0
    OBVIOUS
  <2>2. Chained(view.content, ch)
    BY <2>1 DEF Chained
  <2>3. After(view.content, ch, Len(ch)) = <<>>
    BY <1>10, <2>1 DEF After
  <2> QED BY <1>1, <1>6, <1>7, <1>10, <2>2, <2>3 DEF InStep
<1>12. Ending'
  <2>1. DOMAIN ch = {}
    OBVIOUS
  <2> QED BY <1>1, <1>4, <1>7, <2>1 DEF Ending
<1>13. TurnPlaced'
  BY <1>1, <1>4, <1>10 DEF StreamInv, TurnPlaced
<1> QED BY <1>8, <1>9, <1>11, <1>12, <1>13 DEF StreamInv

\* What the turn has when the channel is closed and empty.
LEMMA FinalIs ==
  ASSUME StreamInv, Drained
  PROVE  /\ ch = <<>> /\ pump.at = "exited" /\ Final \in MessageType
         /\ turn.got => Final = turn.final
         /\ ~turn.got => cancelled /\ Final.class = ""
<1>1. ch = <<>> /\ pump.at = "exited" /\ DOMAIN ch = {}
  BY DEF Drained
<1>2. ~turn.got => cancelled
  BY <1>1 DEF StreamInv, Ending
<1>3. NoMessage \in MessageType /\ NoMessage.class = ""
  <2>1. <<>> \in Seq(BlockType)
    BY EmptySeq
  <2> HIDE DEF BlockType
  <2> QED BY <2>1 DEF NoMessage, MessageType
<1>4. CASE turn.got
  BY <1>1, <1>4 DEF Final, StreamInv, StreamTypes, TurnType
<1>5. CASE ~turn.got
  <2>1. Final = [NoMessage EXCEPT !.reason = "aborted"]
    BY <1>2, <1>5 DEF Final
  <2>2. Final \in MessageType /\ Final.class = ""
    BY <1>3, <2>1 DEF MessageType
  <2> QED BY <1>1, <1>2, <1>5, <2>2
<1> QED BY <1>4, <1>5

\* The retries of streamTurn, and what it returns.
LEMMA LoopStepKeeps ==
  ASSUME StreamInv,
         OverflowRetry \/ RetryStart \/ SleepEnds \/ SleepAborted \/ TurnReturns \/ Cancel
  PROVE  StreamInv'
<1>1. turn \in TurnType
  BY DEF StreamInv, StreamTypes
<1>2. CASE OverflowRetry
  <2> DEFINE t == [turn EXCEPT !.overflowRetried = TRUE]
  <2>1. Drained /\ ~turn.emitted /\ Restarts(t)
    BY <1>2 DEF OverflowRetry, Overflows
  <2>2. t \in TurnType
    BY <1>1 DEF TurnType
  <2> HIDE DEF t
  <2> QED BY <2>1, <2>2, RestartsKeeps, FinalIs
<1>3. CASE SleepEnds
  <2>1. ~turn.emitted /\ turn.got /\ Restarts(turn)
    BY <1>3 DEF SleepEnds, StreamInv, TurnPlaced
  <2>2. ch = <<>>
    BY <2>1 DEF StreamInv, Ending
  <2> QED BY <1>1, <2>1, <2>2, RestartsKeeps
\* Only the turn changes, and its final message keeps its content.
<1>4. ASSUME UNCHANGED <<answer, tracker, pump, ch, view>>, cancelled \in BOOLEAN, cancelled => cancelled',
             cancelled' \in BOOLEAN,
             turn' \in TurnType,
             turn'.got = turn.got, turn'.emitted = turn.emitted,
             turn.got => turn'.final.content = turn.final.content,
             turn'.at = "sleeping" => turn.got /\ ~turn.emitted,
             turn'.at = "returned" => turn.got \/ (cancelled /\ ch = <<>> /\ pump.at = "exited")
      PROVE  StreamInv'
  <2>1. StreamTypes' /\ Folded'
    BY <1>4 DEF StreamInv, StreamTypes, Folded
  <2>2. InStep'
    BY <1>4 DEF StreamInv, InStep
  <2>3. Ending'
    BY <1>4 DEF StreamInv, Ending
  <2>4. TurnPlaced'
    BY <1>4 DEF StreamInv, TurnPlaced
  <2> QED BY <2>1, <2>2, <2>3, <2>4 DEF StreamInv
<1>5. cancelled \in BOOLEAN
  BY DEF StreamInv, StreamTypes
<1>6. CASE RetryStart
  <2>1. /\ Drained /\ Final.class = "retryable" /\ ~turn.emitted
        /\ turn' = [turn EXCEPT !.at = "sleeping", !.attempt = @ + 1, !.final = Final]
        /\ UNCHANGED <<answer, tracker, pump, ch, view, cancelled>>
    BY <1>6 DEF RetryStart, Retryable
  <2>2. turn.got /\ Final = turn.final /\ Final \in MessageType
    BY <2>1, FinalIs
  <2> DEFINE n == turn.attempt + 1
  <2>3. n \in Nat
    BY <1>1 DEF TurnType
  <2> HIDE DEF n
  <2>4. /\ turn' \in TurnType
        /\ turn'.got = turn.got /\ turn'.emitted = turn.emitted /\ turn'.final = Final /\ turn'.at = "sleeping"
    BY <1>1, <2>1, <2>2, <2>3 DEF n, TurnType
  <2> QED BY <1>4, <1>5, <2>1, <2>2, <2>4
<1>7. CASE SleepAborted
  <2>1. /\ turn.at = "sleeping" /\ turn' = [turn EXCEPT !.at = "returned", !.final.reason = "aborted"]
        /\ UNCHANGED <<answer, tracker, pump, ch, view, cancelled>>
    BY <1>7 DEF SleepAborted
  <2>2. turn.got
    BY <2>1 DEF StreamInv, TurnPlaced
  <2> DEFINE m == [turn.final EXCEPT !.reason = "aborted"]
  <2>3. m \in MessageType /\ m.content = turn.final.content
    BY <1>1 DEF MessageType, TurnType
  <2>4. turn' = [turn EXCEPT !.at = "returned", !.final = m]
    BY <2>1
  <2> HIDE DEF m
  <2>5. /\ turn' \in TurnType
        /\ turn'.got = turn.got /\ turn'.emitted = turn.emitted /\ turn'.final = m /\ turn'.at = "returned"
    BY <1>1, <2>3, <2>4 DEF TurnType
  <2> QED BY <1>4, <1>5, <2>1, <2>2, <2>3, <2>5
<1>8. CASE TurnReturns
  <2>1. /\ Drained /\ turn' = [turn EXCEPT !.at = "returned", !.final = Final]
        /\ UNCHANGED <<answer, tracker, pump, ch, view, cancelled>>
    BY <1>8 DEF TurnReturns
  <2>2. /\ Final \in MessageType /\ ch = <<>> /\ pump.at = "exited"
        /\ (turn.got => Final = turn.final) /\ (~turn.got => cancelled)
    BY <2>1, FinalIs
  <2>3. /\ turn' \in TurnType
        /\ turn'.got = turn.got /\ turn'.emitted = turn.emitted /\ turn'.final = Final /\ turn'.at = "returned"
    BY <1>1, <2>1, <2>2 DEF TurnType
  <2> QED BY <1>4, <1>5, <2>1, <2>2, <2>3
<1>9. CASE Cancel
  <2>1. cancelled' = TRUE /\ UNCHANGED <<answer, tracker, pump, ch, turn, view>>
    BY <1>9 DEF Cancel
  <2>2. /\ turn.at = "sleeping" => turn.got /\ ~turn.emitted
        /\ turn.at = "returned" => turn.got \/ (cancelled /\ ch = <<>> /\ pump.at = "exited")
    BY DEF StreamInv, TurnPlaced
  <2> QED BY <1>1, <1>4, <1>5, <2>1, <2>2
<1> QED BY <1>2, <1>3, <1>6, <1>7, <1>8, <1>9

\* The first request is like a restart.
LEMMA StreamInvInit == StreamInit => StreamInv
<1> SUFFICES ASSUME StreamInit PROVE StreamInv
  OBVIOUS
<1>1. /\ answer = NewAnswer /\ tracker = newTracker /\ pump = NewPump /\ ch = <<>>
      /\ turn = [at |-> "pumping", attempt |-> 0, overflowRetried |-> FALSE, emitted |-> FALSE,
                 got |-> FALSE, final |-> NoMessage]
      /\ view = [content |-> <<>>, partial |-> <<>>] /\ cancelled = FALSE
  BY DEF StreamInit
<1>2. <<>> \in Seq(BlockType) /\ <<>> \in Seq(EventType)
  BY EmptySeq
<1>3. NoMessage \in MessageType
  <2> HIDE DEF BlockType
  <2> QED BY <1>2 DEF NoMessage, MessageType
<1>4. /\ turn \in TurnType
      /\ turn.at = "pumping" /\ ~turn.got
  BY <1>1, <1>3 DEF TurnType
<1>5. /\ answer \in AnswerType
      /\ answer.blocks = <<>> /\ answer.open = 0
  <2> HIDE DEF BlockType
  <2> QED BY <1>1, <1>2 DEF NewAnswer, AnswerType
<1>6. /\ tracker \in TrackerType
      /\ tracker.content = <<>> /\ \A i \in 1..MaxBlocks : tracker.blocks[i] = 0
  <2> HIDE DEF BlockType
  <2> QED BY <1>1, <1>2 DEF newTracker, TrackerType
<1>7. pump \in PumpType /\ pump.at = "request"
  <2> DEFINE none == Event("none", 0, NoMessage)
  <2>1. none \in EventType
    BY <1>3 DEF Event, EventType
  <2> HIDE DEF none
  <2>2. NewPump = [at |-> "request", tries |-> 0, out |-> none, bound |-> TRUE]
    BY DEF NewPump, none
  <2> HIDE DEF EventType
  <2> QED BY <1>1, <2>1, <2>2 DEF PumpType, Working
<1>8. StreamTypes
  BY <1>1, <1>2, <1>4, <1>5, <1>6, <1>7 DEF StreamTypes, PumpType
<1>9. Folded
  <2>1. Known(<<>>) = <<>>
    <3>1. Len(<<>>) = 0
      OBVIOUS
    <3>2. Known(<<>>) = KnownTo(<<>>)[Len(<<>>)] /\ KnownTo(<<>>)[0] = <<>>
      BY <1>2, KnownSteps
    <3> QED BY <3>1, <3>2
  <2>2. \A i \in 1..MaxBlocks : i # 0
    BY StreamAssumption
  <2> QED BY <1>5, <1>6, <2>1, <2>2 DEF Folded
<1>10. DOMAIN ch = {} /\ Len(ch) = 0 /\ view.content = <<>> /\ view.partial = <<>> /\ Bodies(<<>>) = <<>>
  <2>1. DOMAIN <<>> = {} /\ Len(<<>>) = 0
    OBVIOUS
  <2>2. Bodies(<<>>) = <<>>
    BY <2>1 DEF Bodies
  <2> QED BY <1>1, <2>1, <2>2
<1>11. InStep
  <2>1. Chained(view.content, ch)
    BY <1>10 DEF Chained
  <2>2. After(view.content, ch, Len(ch)) = <<>>
    BY <1>10 DEF After
  <2> QED BY <1>6, <1>7, <1>10, <2>1, <2>2 DEF InStep
<1>12. Ending /\ TurnPlaced
  BY <1>4, <1>7, <1>10 DEF Ending, TurnPlaced
<1> QED BY <1>8, <1>9, <1>11, <1>12 DEF StreamInv

\* The events of all attempts of a turn (retry.go:15) add up to the Partial that
\* comes with them, and the message the turn returns is what was shown and what
\* the server sent, for any number of blocks, pieces and retries and any room of
\* the channel (provider.go:43).
THEOREM TurnsKeepWhatTheyShow == StreamInit /\ [][StreamNext]_streamVars => []ShownIsKept
<1>1. StreamInv /\ [StreamNext]_streamVars => StreamInv'
  <2> SUFFICES ASSUME StreamInv, [StreamNext]_streamVars PROVE StreamInv'
    OBVIOUS
  <2>1. CASE UNCHANGED streamVars
    BY <2>1 DEF streamVars, StreamInv, StreamTypes, Folded, InStep, Ending, TurnPlaced
  <2>2. CASE Goroutine
    BY <2>2, SendKeeps, GiveUpKeeps, RequestKeeps DEF Goroutine
  <2>3. CASE Loop
    BY <2>3, TakeKeeps, LoopStepKeeps DEF Loop
  <2>4. CASE HTTPFails \/ RequestOK \/ \E class \in {"retryable", "overflow", "fatal"} : ServerFails(class)
    BY <2>4, RequestKeeps
  <2>5. CASE Cancel
    BY <2>5, LoopStepKeeps
  <2>6. CASE MessageStart \/ \E s \in {"end_turn", "max_tokens", "tool_use", "refusal"} : MessageStop(s)
    BY <2>6, MessageKeeps
  <2>7. CASE \E kind \in Kinds : startBlock(kind)
    BY <2>7, startBlockKeeps
  <2>8. CASE \E i \in 1..MaxBlocks : stopBlock(i) \/ \E field \in {"body", "sig"} : deltaBlock(i, field)
    BY <2>8, stopBlockKeeps, deltaBlockKeeps
  <2> QED BY <2>1, <2>2, <2>3, <2>4, <2>5, <2>6, <2>7, <2>8 DEF StreamNext
<1>2. StreamInv => ShownIsKept
  BY DEF StreamInv, Folded, Ending, TurnPlaced, ShownIsKept
<1> QED BY <1>1, <1>2, StreamInvInit, PTL

----------------------------------------------------------------------------
(* Texts made of pieces, one behind the other                              *)

\* What the pieces make from each on.
IsTail(n, piece, f) == f = [i \in 1..(n + 1) |-> IF i > n THEN <<>> ELSE piece[i] \o f[i + 1]]

\* What the last k of them make is known.
TailFrom(T, n, piece, k, g) ==
  /\ g \in [1..(n + 1) -> Seq(T)]
  /\ \A i \in (n + 1 - k)..(n + 1) : g[i] = IF i > n THEN <<>> ELSE piece[i] \o g[i + 1]

\* The pieces make something, from each on.
LEMMA TailsExist ==
  ASSUME NEW T, NEW n \in Nat, NEW piece \in [1..n -> Seq(T)]
  PROVE  \E f : IsTail(n, piece, f)
<1> DEFINE S == {k \in 0..n : \E g : TailFrom(T, n, piece, k, g)}
<1>1. 0 \in S
  <2> DEFINE g == [i \in 1..(n + 1) |-> <<>>]
  <2>1. g \in [1..(n + 1) -> Seq(T)] /\ g[n + 1] = <<>>
    BY EmptySeq
  <2> HIDE DEF g
  <2>2. \A i \in (n + 1 - 0)..(n + 1) : i = n + 1 /\ i > n
    OBVIOUS
  <2>3. TailFrom(T, n, piece, 0, g)
    BY <2>1, <2>2 DEF TailFrom
  <2> QED BY <2>3
<1>2. ASSUME NEW k \in 0..n, k \in S, k < n PROVE k + 1 \in S
  <2>1. PICK g : TailFrom(T, n, piece, k, g)
    BY <1>2
  <2>2. n - k \in 1..n /\ (n - k) + 1 \in 1..(n + 1) /\ k + 1 \in 0..n
    BY <1>2
  <2> DEFINE new == piece[n - k] \o g[(n - k) + 1]
             h == [g EXCEPT ![n - k] = new]
  <2>3. new \in Seq(T)
    <3>1. piece[n - k] \in Seq(T) /\ g[(n - k) + 1] \in Seq(T)
      BY <2>1, <2>2 DEF TailFrom
    <3> QED BY <3>1, ConcatProperties
  <2>4. /\ h \in [1..(n + 1) -> Seq(T)] /\ h[n - k] = new
        /\ \A i \in 1..(n + 1) : i # n - k => h[i] = g[i]
    <3> HIDE DEF new
    <3>1. g \in [1..(n + 1) -> Seq(T)]
      BY <2>1 DEF TailFrom
    <3> QED BY <2>2, <2>3, <3>1
  <2> HIDE DEF h
  <2>5. h[(n - k) + 1] = g[(n - k) + 1]
    BY <2>2, <2>4
  <2>6. ASSUME NEW i \in (n + 1 - (k + 1))..(n + 1)
        PROVE  h[i] = IF i > n THEN <<>> ELSE piece[i] \o h[i + 1]
    <3>1. CASE i = n - k
      <4>1. ~(i > n)
        BY <2>2, <3>1
      <4> QED BY <2>4, <2>5, <3>1, <4>1
    <3>2. CASE i # n - k
      <4>1. i \in (n + 1 - k)..(n + 1) /\ i \in 1..(n + 1)
        BY <1>2, <3>2
      <4>2. h[i] = g[i] /\ (~(i > n) => h[i + 1] = g[i + 1])
        <5>1. ~(i > n) => i + 1 \in 1..(n + 1) /\ i + 1 # n - k
          BY <1>2, <4>1
        <5> QED BY <2>4, <3>2, <4>1, <5>1
      <4>3. g[i] = IF i > n THEN <<>> ELSE piece[i] \o g[i + 1]
        BY <2>1, <4>1 DEF TailFrom
      <4> QED BY <4>2, <4>3
    <3> QED BY <3>1, <3>2
  <2>7. TailFrom(T, n, piece, k + 1, h)
    BY <2>4, <2>6 DEF TailFrom
  <2> QED BY <2>2, <2>7
<1>3. n \in S
  <2> HIDE DEF S
  <2>1. \A i \in 0..n : i \in S /\ i < n => i + 1 \in S
    BY <1>2
  <2>2. \A i \in 0..n : i \in S
    BY <1>1, <2>1, UpTo
  <2>3. n \in 0..n
    OBVIOUS
  <2> QED BY <2>2, <2>3
<1>4. PICK g : TailFrom(T, n, piece, n, g)
  BY <1>3
<1>5. \A i \in 1..(n + 1) : g[i] = IF i > n THEN <<>> ELSE piece[i] \o g[i + 1]
  <2>1. n + 1 - n = 1
    OBVIOUS
  <2> QED BY <1>4, <2>1 DEF TailFrom
<1>6. g = [i \in 1..(n + 1) |-> g[i]]
  BY <1>4 DEF TailFrom
<1> QED BY <1>5, <1>6 DEF IsTail

MadeOf(T, n, piece, f) ==
  /\ \A i \in 1..(n + 1) : f[i] \in Seq(T)
  /\ f[n + 1] = <<>>
  /\ \A i \in 1..n : f[i] = piece[i] \o f[i + 1]

\* It is a text, and pieces without a character change nothing.
LEMMA TailsAre ==
  ASSUME NEW T, NEW n \in Nat, NEW piece \in [1..n -> Seq(T)], NEW f, IsTail(n, piece, f)
  PROVE  MadeOf(T, n, piece, f)
<1>0. \A i \in 1..(n + 1) : f[i] = IF i > n THEN <<>> ELSE piece[i] \o f[i + 1]
  BY DEF IsTail
<1>1. f[n + 1] = <<>>
  BY <1>0
<1>2. \A i \in 1..n : f[i] = piece[i] \o f[i + 1]
  <2>1. \A i \in 1..n : i \in 1..(n + 1) /\ ~(i > n)
    OBVIOUS
  <2> QED BY <1>0, <2>1
<1> DEFINE S == {k \in 0..n : f[n + 1 - k] \in Seq(T)}
<1>3. 0 \in S
  <2>1. n + 1 - 0 = n + 1 /\ 0 \in 0..n
    OBVIOUS
  <2> QED BY <1>1, <2>1, EmptySeq
<1>4. ASSUME NEW k \in 0..n, k \in S, k < n PROVE k + 1 \in S
  <2>1. n - k \in 1..n /\ (n - k) + 1 = n + 1 - k /\ n + 1 - (k + 1) = n - k /\ k + 1 \in 0..n
    BY <1>4
  <2>2. f[n - k] = piece[n - k] \o f[n + 1 - k]
    BY <1>2, <2>1
  <2>3. piece[n - k] \in Seq(T) /\ f[n + 1 - k] \in Seq(T)
    BY <1>4, <2>1
  <2>4. f[n - k] \in Seq(T)
    BY <2>2, <2>3, ConcatProperties
  <2> QED BY <2>1, <2>4
<1>5. \A k \in 0..n : k \in S
  <2> HIDE DEF S
  <2>1. \A i \in 0..n : i \in S /\ i < n => i + 1 \in S
    BY <1>4
  <2> QED BY <1>3, <2>1, UpTo
<1>6. ASSUME NEW i \in 1..(n + 1) PROVE f[i] \in Seq(T)
  <2>1. n + 1 - i \in 0..n /\ n + 1 - (n + 1 - i) = i
    OBVIOUS
  <2> QED BY <1>5, <2>1
<1> QED BY <1>1, <1>2, <1>6 DEF MadeOf

Void(piece, a, b) == \A i \in a..(b - 1) : piece[i] = <<>>
SameFrom(f, a, b) == f[a] = f[b]

LEMMA NothingBetween ==
  ASSUME NEW T, NEW n \in Nat, NEW piece \in [1..n -> Seq(T)], NEW f, IsTail(n, piece, f),
         NEW a \in 1..(n + 1), NEW b \in a..(n + 1), Void(piece, a, b)
  PROVE  SameFrom(f, a, b)
<1>0. /\ \A i \in 1..(n + 1) : f[i] \in Seq(T)
      /\ \A i \in 1..n : f[i] = piece[i] \o f[i + 1]
  <2>1. MadeOf(T, n, piece, f)
    BY TailsAre
  <2> QED BY <2>1 DEF MadeOf
<1> DEFINE S == {k \in 0..(b - a) : f[b - k] = f[b]}
<1>1. b - a \in Nat
  OBVIOUS
<1>2. 0 \in S
  <2>1. b - 0 = b
    OBVIOUS
  <2> QED BY <1>1, <2>1
<1>3. ASSUME NEW k \in 0..(b - a), k \in S, k < b - a PROVE k + 1 \in S
  <2>1. b - (k + 1) \in a..(b - 1) /\ b - (k + 1) \in 1..n /\ (b - (k + 1)) + 1 = b - k /\ b - k \in 1..(n + 1)
    BY <1>3
  <2>2. f[b - (k + 1)] = piece[b - (k + 1)] \o f[b - k]
    BY <1>0, <2>1
  <2>3. f[b - k] \in Seq(T)
    BY <1>0, <2>1
  <2>4. f[b - (k + 1)] = f[b - k]
    BY <2>1, <2>2, <2>3, ConcatEmptySeq DEF Void
  <2> QED BY <1>1, <1>3, <2>4
<1>4. \A k \in 0..(b - a) : k \in S
  <2> HIDE DEF S
  <2>1. \A i \in 0..(b - a) : i \in S /\ i < b - a => i + 1 \in S
    BY <1>3
  <2> QED BY <1>1, <1>2, <2>1, UpTo
<1>5. b - a \in 0..(b - a) /\ b - (b - a) = a
  OBVIOUS
<1>6. b - a \in S
  BY <1>4, <1>5
<1>7. f[b - (b - a)] = f[b]
  BY <1>6
<1> QED BY <1>5, <1>7 DEF SameFrom

LEMMA SameEnds ==
  ASSUME NEW a \in Nat, NEW b \in Nat, 1..a = 1..b
  PROVE  a = b
<1>1. a > 0 => a \in 1..b
  OBVIOUS
<1>2. b > 0 => b \in 1..a
  OBVIOUS
<1> QED BY <1>1, <1>2

\* What they make up to each.
IsHead(n, piece, f) == f = [i \in 1..n |-> IF i = 1 THEN piece[i] ELSE f[i - 1] \o piece[i]]

LEMMA HeadsExist ==
  ASSUME NEW piece, NEW n \in Nat
  PROVE  \E f : IsHead(n, piece, f)
<1> DEFINE S == {m \in 0..n : \E f : IsHead(m, piece, f)}
<1>1. 0 \in S
  <2> DEFINE f == [i \in 1..0 |-> piece[i]]
  <2>1. IsHead(0, piece, f)
    BY DEF IsHead
  <2> QED BY <2>1
<1>2. ASSUME NEW m \in 0..n, m \in S, m < n PROVE m + 1 \in S
  <2>1. PICK f : IsHead(m, piece, f)
    BY <1>2
  <2> DEFINE next(prev, i) == IF i = 1 THEN piece[i] ELSE prev \o piece[i]
             g == [i \in 1..(m + 1) |-> IF i = m + 1 THEN next(f[m], i) ELSE f[i]]
             h == [i \in 1..(m + 1) |-> IF i = 1 THEN piece[i] ELSE g[i - 1] \o piece[i]]
  <2>2. m \in Nat
    OBVIOUS
  <2>3. \A i \in 1..m : f[i] = IF i = 1 THEN piece[i] ELSE f[i - 1] \o piece[i]
    BY <2>1 DEF IsHead
  <2>4. ASSUME NEW i \in 1..(m + 1) PROVE g[i] = h[i]
    <3>1. CASE i = 1
      BY <2>2, <2>3, <3>1
    <3>2. CASE i \in 2..m
      <4>1. g[i] = f[i] /\ g[i - 1] = f[i - 1]
        BY <2>2, <3>2
      <4> QED BY <2>2, <2>3, <3>2, <4>1
    <3>3. CASE i = m + 1 /\ i # 1
      <4>0. i - 1 = m /\ m \in 1..(m + 1) /\ m # m + 1
        BY <2>2, <3>3
      <4>1. g[i] = f[m] \o piece[i]
        BY <3>3
      <4>2. g[i - 1] = f[m]
        BY <4>0
      <4> QED BY <3>3, <4>1, <4>2
    <3> QED BY <2>2, <3>1, <3>2, <3>3
  <2>5. g = h
    BY <2>4
  <2>6. IsHead(m + 1, piece, g)
    BY <2>5 DEF IsHead
  <2>7. m + 1 \in 0..n
    BY <1>2, <2>2
  <2> QED BY <2>6, <2>7
<1>3. \A i \in 0..n : i \in S
  <2> HIDE DEF S
  <2>1. \A i \in 0..n : i \in S /\ i < n => i + 1 \in S
    BY <1>2
  <2> QED BY <1>1, <2>1, UpTo
<1>4. n \in 0..n
  OBVIOUS
<1> QED BY <1>3, <1>4

\* FlattenSeq is what they make from the first on.
LEMMA Flattened ==
  ASSUME NEW T, NEW n \in Nat, NEW piece \in [1..n -> Seq(T)]
  PROVE  \E g : IsTail(n, piece, g) /\ FlattenSeq(piece) = g[1]
<1> DEFINE f == CHOOSE f : IsHead(n, piece, f)
<1>1. PICK g : IsTail(n, piece, g)
  BY TailsExist
<1>2. MadeOf(T, n, piece, g)
  BY <1>1, TailsAre
<1>3. /\ \A i \in 1..(n + 1) : g[i] \in Seq(T)
      /\ g[n + 1] = <<>>
      /\ \A i \in 1..n : g[i] = piece[i] \o g[i + 1]
  BY <1>2 DEF MadeOf
<1>4. IsHead(n, piece, f)
  <2>1. \E h : IsHead(n, piece, h)
    BY HeadsExist
  <2> QED BY <2>1
<1>5. Len(piece) = n
  <2>1. piece \in Seq(Seq(T))
    BY SeqDef
  <2>2. Len(piece) \in Nat /\ 1..Len(piece) = 1..n
    BY <2>1, LenProperties
  <2> QED BY <2>2, SameEnds
<1>6. FlattenSeq(piece) = IF n = 0 THEN piece ELSE f[n]
  BY <1>5 DEF FlattenSeq, IsHead
<1> HIDE DEF f
<1>7. \A i \in 1..n : f[i] = IF i = 1 THEN piece[i] ELSE f[i - 1] \o piece[i]
  BY <1>4 DEF IsHead
<1> DEFINE S == {k \in 0..n : k # 0 => f[k] \in Seq(T) /\ f[k] \o g[k + 1] = g[1]}
<1>8. 0 \in S
  OBVIOUS
<1>9. ASSUME NEW k \in 0..n, k \in S, k < n PROVE k + 1 \in S
  <2>1. k + 1 \in 1..n /\ k + 1 \in 1..(n + 1) /\ (k + 1) + 1 \in 1..(n + 1) /\ (k + 1) - 1 = k
    BY <1>9
  <2> DEFINE p == piece[k + 1]
             t == g[(k + 1) + 1]
  <2>2. p \in Seq(T) /\ t \in Seq(T) /\ g[k + 1] = p \o t
    BY <1>3, <2>1
  <2>3. CASE k = 0
    <3>1. f[k + 1] = p
      BY <1>7, <2>1, <2>3
    <3>0. k + 1 = 1
      BY <2>3
    <3> HIDE DEF p, t
    <3>2. g[1] = p \o t
      BY <2>2, <3>0
    <3>3. k + 1 \in 0..n /\ f[k + 1] \in Seq(T) /\ f[k + 1] \o t = g[1]
      BY <2>1, <2>2, <3>1, <3>2
    <3> QED BY <3>3 DEF t
  <2>4. CASE k # 0
    <3> DEFINE h == f[k]
    <3>1. f[k + 1] = h \o p
      <4>1. k + 1 # 1
        BY <2>4
      <4> QED BY <1>7, <2>1, <4>1
    <3>2. h \in Seq(T) /\ h \o (p \o t) = g[1]
      BY <1>9, <2>2, <2>4
    <3> HIDE DEF h, p, t
    <3>3. h \in Seq(T) /\ p \in Seq(T) /\ t \in Seq(T)
      BY <2>2, <3>2
    <3>4. (h \o p) \o t = h \o (p \o t)
      BY <3>3, ConcatAssociative
    <3>5. h \o p \in Seq(T)
      BY <3>3, ConcatProperties
    <3>6. k + 1 \in 0..n /\ f[k + 1] \in Seq(T) /\ f[k + 1] \o t = g[1]
      BY <2>1, <3>1, <3>2, <3>4, <3>5
    <3> QED BY <3>6 DEF t
  <2> QED BY <2>3, <2>4
<1>10. \A k \in 0..n : k \in S
  <2> HIDE DEF S
  <2>1. \A i \in 0..n : i \in S /\ i < n => i + 1 \in S
    BY <1>9
  <2> QED BY <1>8, <2>1, UpTo
<1>11. FlattenSeq(piece) = g[1]
  <2>1. CASE n = 0
    <3>1. piece = <<>>
      BY <2>1
    <3> QED BY <1>3, <1>6, <2>1, <3>1
  <2>2. CASE n # 0
    <3>1. n \in S
      <4>1. n \in 0..n
        OBVIOUS
      <4> QED BY <1>10, <4>1
    <3>2. f[n] \in Seq(T) /\ f[n] \o g[n + 1] = g[1]
      BY <2>2, <3>1
    <3>3. f[n] \o <<>> = f[n]
      BY <3>2, ConcatEmptySeq
    <3> QED BY <1>3, <1>6, <2>2, <3>2, <3>3
  <2> QED BY <2>1, <2>2
<1> QED BY <1>1, <1>11

LEMMA FlattenedIn ==
  ASSUME NEW T, NEW n \in Nat, NEW piece \in [1..n -> Seq(T)]
  PROVE  FlattenSeq(piece) \in Seq(T)
<1>1. PICK g : IsTail(n, piece, g) /\ FlattenSeq(piece) = g[1]
  BY Flattened
<1>2. MadeOf(T, n, piece, g)
  BY <1>1, TailsAre
<1>3. 1 \in 1..(n + 1)
  OBVIOUS
<1> QED BY <1>1, <1>2, <1>3 DEF MadeOf

\* One piece more in front.
LEMMA Prepended ==
  ASSUME NEW T, NEW n \in Nat, NEW p \in [1..n -> Seq(T)], NEW q \in [1..(n + 1) -> Seq(T)],
         \A i \in 1..n : q[i + 1] = p[i]
  PROVE  FlattenSeq(q) = q[1] \o FlattenSeq(p)
<1>1. PICK g : IsTail(n, p, g) /\ FlattenSeq(p) = g[1]
  BY Flattened
<1>2. PICK f : IsTail(n + 1, q, f) /\ FlattenSeq(q) = f[1]
  <2>1. n + 1 \in Nat
    OBVIOUS
  <2> QED BY <2>1, Flattened
<1>3. /\ \A i \in 1..(n + 1) : g[i] \in Seq(T)
      /\ g[n + 1] = <<>>
      /\ \A i \in 1..n : g[i] = p[i] \o g[i + 1]
  <2>1. MadeOf(T, n, p, g)
    BY <1>1, TailsAre
  <2> QED BY <2>1 DEF MadeOf
<1>4. /\ f[(n + 1) + 1] = <<>>
      /\ \A i \in 1..(n + 1) : f[i] = q[i] \o f[i + 1]
  <2>1. MadeOf(T, n + 1, q, f)
    <3>1. n + 1 \in Nat
      OBVIOUS
    <3> QED BY <1>2, <3>1, TailsAre
  <2> QED BY <2>1 DEF MadeOf
<1> DEFINE S == {k \in 0..n : f[(n + 1) + 1 - k] = g[n + 1 - k]}
<1>5. 0 \in S
  <2>1. (n + 1) + 1 - 0 = (n + 1) + 1 /\ n + 1 - 0 = n + 1
    OBVIOUS
  <2> QED BY <1>3, <1>4, <2>1
<1>6. ASSUME NEW k \in 0..n, k \in S, k < n PROVE k + 1 \in S
  <2> DEFINE i == n - k
  <2>0. n \in Nat /\ k \in 0..n /\ k < n
    BY <1>6
  <2>1. i \in 1..n /\ i + 1 \in 1..(n + 1) /\ k + 1 \in 0..n
    BY <2>0
  <2>2. (n + 1) + 1 - k = (i + 1) + 1 /\ n + 1 - k = i + 1
    BY <2>0
  <2>3. (n + 1) + 1 - (k + 1) = i + 1 /\ n + 1 - (k + 1) = i
    BY <2>0
  <2>4. f[(i + 1) + 1] = g[i + 1]
    BY <1>6, <2>2
  <2> HIDE DEF i
  <2>5. f[i + 1] = g[i]
    BY <1>3, <1>4, <2>1, <2>4
  <2> QED BY <2>1, <2>3, <2>5
<1>7. \A k \in 0..n : k \in S
  <2> HIDE DEF S
  <2>1. \A i \in 0..n : i \in S /\ i < n => i + 1 \in S
    BY <1>6
  <2> QED BY <1>5, <2>1, UpTo
<1>8. n \in 0..n /\ (n + 1) + 1 - n = 1 + 1 /\ n + 1 - n = 1
  OBVIOUS
<1>9. f[1 + 1] = g[1]
  BY <1>7, <1>8
<1>10. 1 \in 1..(n + 1)
  OBVIOUS
<1> QED BY <1>1, <1>2, <1>3, <1>4, <1>9, <1>10

\* The characters of a text, one behind the other, are the text.
LEMMA OneByOne ==
  ASSUME NEW T, NEW s \in Seq(T)
  PROVE  FlattenSeq([i \in DOMAIN s |-> <<s[i]>>]) = s
<1> DEFINE n == Len(s)
           one == [i \in 1..n |-> <<s[i]>>]
<1>1. n \in Nat /\ DOMAIN s = 1..n /\ \A i \in 1..n : s[i] \in T
  BY LenProperties, ElementOfSeq
<1>2. one \in [1..n -> Seq(T)]
  <2>1. \A i \in 1..n : <<s[i]>> \in Seq(T)
    BY <1>1
  <2> QED BY <2>1
<1>3. PICK g : IsTail(n, one, g) /\ FlattenSeq(one) = g[1]
  <2> HIDE DEF one
  <2> QED BY <1>1, <1>2, Flattened
<1>4. /\ g[n + 1] = <<>>
      /\ \A i \in 1..n : g[i] = <<s[i]>> \o g[i + 1]
  <2>1. MadeOf(T, n, one, g)
    BY <1>1, <1>2, <1>3, TailsAre
  <2> QED BY <2>1 DEF MadeOf
<1> HIDE DEF one
<1> DEFINE S == {k \in 0..n : g[n + 1 - k] = SubSeq(s, n + 1 - k, n)}
<1>5. 0 \in S
  <2>1. n + 1 - 0 = n + 1 /\ SubSeq(s, n + 1, n) = <<>> /\ 0 \in 0..n
    BY <1>1, SubSeqEmpty
  <2> QED BY <1>4, <2>1
<1>6. ASSUME NEW k \in 0..n, k \in S, k < n PROVE k + 1 \in S
  <2> DEFINE m == n
             i == m - k
  <2>0. m \in Nat /\ k \in 0..m /\ k < m
    BY <1>1, <1>6
  <2> HIDE DEF m
  <2>1. i \in 1..m /\ k + 1 \in 0..m /\ m + 1 - k = i + 1 /\ m + 1 - (k + 1) = i /\ m \in i..m
    BY <2>0
  <2> USE DEF m
  <2>2. g[i + 1] = SubSeq(s, i + 1, n)
    BY <1>6, <2>1
  <2> HIDE DEF i
  <2>3. SubSeq(s, i, n) = <<s[i]>> \o SubSeq(s, i + 1, n)
    BY <2>1, SubSeqRecursiveFirst
  <2>4. g[i] = SubSeq(s, i, n)
    BY <1>4, <2>1, <2>2, <2>3
  <2> QED BY <2>1, <2>4
<1>7. \A k \in 0..n : k \in S
  <2> HIDE DEF S
  <2>1. \A i \in 0..n : i \in S /\ i < n => i + 1 \in S
    BY <1>6
  <2> QED BY <1>1, <1>5, <2>1, UpTo
<1>8. n \in 0..n /\ n + 1 - n = 1
  BY <1>1
<1>9. g[1] = SubSeq(s, 1, n)
  BY <1>7, <1>8
<1>10. SubSeq(s, 1, n) = s
  BY SubSeqFull
<1> QED BY <1>1, <1>3, <1>9, <1>10 DEF one

----------------------------------------------------------------------------
(* What an edit works on                                                   *)

\* strings.ReplaceAll of a character by one.
LEMMA ReplacedIs ==
  ASSUME NEW T, NEW U, NEW s \in Seq(T), NEW c, NEW d \in U, T \ {c} \subseteq U
  PROVE  /\ Replaced(s, c, d) \in Seq(U)
         /\ Len(Replaced(s, c, d)) = Len(s)
         /\ DOMAIN Replaced(s, c, d) = 1..Len(s)
         /\ \A i \in 1..Len(s) : Replaced(s, c, d)[i] = IF s[i] = c THEN d ELSE s[i]
<1> DEFINE n == Len(s)
           r == [i \in 1..n |-> IF s[i] = c THEN d ELSE s[i]]
<1>1. n \in Nat /\ DOMAIN s = 1..n /\ \A i \in 1..n : s[i] \in T
  BY LenProperties, ElementOfSeq
<1>2. Replaced(s, c, d) = r
  BY <1>1 DEF Replaced
<1> HIDE DEF n
<1>3. r \in [1..n -> U] /\ \A i \in 1..n : r[i] = IF s[i] = c THEN d ELSE s[i]
  BY <1>1
<1> HIDE DEF r
<1>4. r \in Seq(U)
  BY <1>1, <1>3, SeqDef
<1>5. DOMAIN r = 1..Len(r) /\ DOMAIN r = 1..n /\ Len(r) \in Nat
  BY <1>3, <1>4, LenProperties, SMTT(20)
<1>6. Len(r) = n
  BY <1>1, <1>5, SameEnds
<1> QED BY <1>2, <1>3, <1>4, <1>5, <1>6 DEF n

\* The normalized form of a text is one of the same characters and "'".
LEMMA NormalizedIn ==
  ASSUME NEW T, NEW s \in Seq(T), "'" \in T
  PROVE  normalizeForMatch(s) \in Seq(T)
<1> DEFINE t == Replaced(s, "smart", "'")
           n == Len(t)
           piece == [i \in 1..n |-> IF Trailing(t, i) THEN <<>> ELSE <<t[i]>>]
<1>1. t \in Seq(T)
  BY ReplacedIs
<1> HIDE DEF t
<1>2. n \in Nat /\ DOMAIN t = 1..n /\ \A i \in 1..n : t[i] \in T
  BY <1>1, LenProperties, ElementOfSeq
<1>3. normalizeForMatch(s) = FlattenSeq(piece)
  BY <1>2 DEF normalizeForMatch, t
<1> HIDE DEF n
<1>4. piece \in [1..n -> Seq(T)]
  <2> SUFFICES ASSUME NEW i \in 1..n PROVE (IF Trailing(t, i) THEN <<>> ELSE <<t[i]>>) \in Seq(T)
    OBVIOUS
  <2>1. <<t[i]>> \in Seq(T) /\ <<>> \in Seq(T)
    BY <1>2, EmptySeq
  <2> QED BY <2>1
<1> HIDE DEF piece
<1> QED BY <1>2, <1>3, <1>4, FlattenedIn

\* So is a text without the CR of its line ends.
LEMMA StrippedIn ==
  ASSUME NEW T, NEW s \in Seq(T)
  PROVE  stripLineFormat(s) \in Seq(T)
<1> DEFINE n == Len(s)
           piece == [i \in 1..n |-> IF CRLFAt(s, i) THEN <<>> ELSE <<s[i]>>]
<1>1. n \in Nat /\ DOMAIN s = 1..n /\ \A i \in 1..n : s[i] \in T
  BY LenProperties, ElementOfSeq
<1>2. stripLineFormat(s) = FlattenSeq(piece)
  BY <1>1 DEF stripLineFormat
<1> HIDE DEF n
<1>3. piece \in [1..n -> Seq(T)]
  <2> SUFFICES ASSUME NEW i \in 1..n PROVE (IF CRLFAt(s, i) THEN <<>> ELSE <<s[i]>>) \in Seq(T)
    OBVIOUS
  <2>1. <<s[i]>> \in Seq(T) /\ <<>> \in Seq(T)
    BY <1>1, EmptySeq
  <2> QED BY <2>1
<1> HIDE DEF piece
<1> QED BY <1>1, <1>2, <1>3, FlattenedIn

\* Two texts one behind the other, taken apart again.
LEMMA Spliced ==
  ASSUME NEW T, NEW x \in Seq(T), NEW y \in Seq(T), NEW k \in 0..Len(x)
  PROVE  /\ SubSeq(x \o y, 1, k) = SubSeq(x, 1, k)
         /\ SubSeq(x \o y, Len(x) + 1, Len(x \o y)) = y
<1> DEFINE z == x \o y
<1>1. /\ Len(x) \in Nat /\ Len(y) \in Nat
      /\ \A i \in 1..Len(x) : x[i] \in T
      /\ \A i \in 1..Len(y) : y[i] \in T
  BY LenProperties, ElementOfSeq
<1>2. /\ z \in Seq(T) /\ Len(z) = Len(x) + Len(y)
      /\ \A i \in 1..(Len(x) + Len(y)) : z[i] = IF i <= Len(x) THEN x[i] ELSE y[i - Len(x)]
  BY ConcatProperties
<1> HIDE DEF z
<1>3. \A i \in 1..k : z[i] = x[i] /\ x[i] \in T
  <2>1. \A i \in 1..k : i \in 1..Len(x) /\ i \in 1..(Len(x) + Len(y)) /\ i <= Len(x)
    BY <1>1
  <2> QED BY <1>1, <1>2, <2>1
<1>4. SubSeq(z, 1, k) = SubSeq(x, 1, k)
  <2> DEFINE a == SubSeq(z, 1, k)
             b == SubSeq(x, 1, k)
  <2>0. k \in Int /\ 1 \in Int /\ k \in Nat
    BY <1>1
  <2>1. /\ a \in Seq(T) /\ Len(a) = (IF 1 <= k THEN k - 1 + 1 ELSE 0)
        /\ \A i \in 1..(k - 1 + 1) : a[i] = z[1 + i - 1]
    BY <1>3, <2>0, SubSeqProperties
  <2>2. /\ b \in Seq(T) /\ Len(b) = (IF 1 <= k THEN k - 1 + 1 ELSE 0)
        /\ \A i \in 1..(k - 1 + 1) : b[i] = x[1 + i - 1]
    BY <1>3, <2>0, SubSeqProperties
  <2> HIDE DEF a, b
  <2>3. Len(a) = k /\ Len(b) = k /\ k - 1 + 1 = k
    BY <2>0, <2>1, <2>2
  <2>4. ASSUME NEW i \in 1..k PROVE a[i] = b[i]
    <3>1. 1 + i - 1 = i /\ i \in 1..(k - 1 + 1)
      BY <2>0
    <3> QED BY <1>3, <2>1, <2>2, <3>1
  <2>5. a = b
    BY <2>1, <2>2, <2>3, <2>4, SeqEqual
  <2> QED BY <2>5 DEF a, b
<1>5. SubSeq(z, Len(x) + 1, Len(z)) = y
  <2> DEFINE m == Len(x) + 1
             n == Len(z)
             a == SubSeq(z, m, n)
  <2>0. m \in Int /\ n \in Int /\ n - m + 1 = Len(y)
    BY <1>1, <1>2
  <2>1. \A i \in m..n : z[i] \in T
    <3>1. \A i \in m..n : i \in 1..Len(z)
      BY <1>1, <1>2
    <3> QED BY <1>2, <3>1, ElementOfSeq
  <2> HIDE DEF m, n
  <2>2. /\ a \in Seq(T) /\ Len(a) = (IF m <= n THEN n - m + 1 ELSE 0)
        /\ \A i \in 1..(n - m + 1) : a[i] = z[m + i - 1]
    BY <2>0, <2>1, SubSeqProperties
  <2> HIDE DEF a
  <2>3. Len(a) = Len(y)
    BY <1>1, <2>0, <2>2
  <2>4. ASSUME NEW i \in 1..Len(y) PROVE a[i] = y[i]
    <3>1. m + i - 1 = Len(x) + i /\ m + i - 1 \in 1..(Len(x) + Len(y)) /\ ~(m + i - 1 <= Len(x)) /\ (m + i - 1) - Len(x) = i
      BY <1>1 DEF m
    <3>2. a[i] = z[m + i - 1]
      BY <2>0, <2>2
    <3>3. z[m + i - 1] = y[(m + i - 1) - Len(x)]
      BY <1>2, <3>1
    <3> QED BY <3>1, <3>2, <3>3
  <2>5. a = y
    BY <2>2, <2>3, <2>4, SeqEqual
  <2> QED BY <2>5 DEF a, m, n
<1> QED BY <1>4, <1>5 DEF z

----------------------------------------------------------------------------
(* The edits that are applied, from the back                               *)

\* The places of edits in a text of n characters.
Spans(n, m, spans) ==
  /\ DOMAIN spans = 1..m
  /\ \A e \in 1..m : spans[e].start \in 1..n /\ spans[e].end \in (spans[e].start + 1)..(n + 1)

FrontMost(spans, sub) == CHOOSE i \in sub : \A j \in sub \ {i} : Before(spans, j, i)
Put(text, span, new) == SubSeq(text, 1, span.start - 1) \o new \o SubSeq(text, span.end, Len(text))

\* The text after each set of edits (applyEdits).
AfterEdit(base, es, spans, f, sub) ==
  IF sub = {} THEN base
  ELSE Put(f[sub \ {FrontMost(spans, sub)}], spans[FrontMost(spans, sub)], es[FrontMost(spans, sub)].new)
IsApplied(base, es, spans, f) == f = [sub \in SUBSET DOMAIN spans |-> AfterEdit(base, es, spans, f, sub)]

\* Of some edits, one is applied after all others.
LEMMA FrontMostIs ==
  ASSUME NEW n \in Nat, NEW m \in Nat, NEW spans, Spans(n, m, spans),
         NEW sub \in SUBSET (1..m), sub # {}
  PROVE  /\ FrontMost(spans, sub) \in sub
         /\ \A j \in sub \ {FrontMost(spans, sub)} : Before(spans, j, FrontMost(spans, sub))
<1> DEFINE starts == {spans[e].start : e \in sub}
           s == Least(starts)
           same == {e \in sub : spans[e].start = s}
           i == Greatest(same)
<1>1. \A e \in sub : e \in 1..m /\ spans[e].start \in 1..n /\ spans[e].start \in 0..n
  BY DEF Spans
<1>2. starts \subseteq 0..n /\ starts # {}
  BY <1>1
<1> HIDE DEF starts
<1>3. s \in starts /\ \A j \in starts : s <= j
  BY <1>2, BothExist
<1> HIDE DEF s
<1>4. same \subseteq 0..m /\ same # {}
  <2>1. \A e \in sub : e \in 0..m
    OBVIOUS
  <2>2. same \subseteq 0..m
    BY <2>1
  <2>3. \E e \in sub : spans[e].start = s
    BY <1>3 DEF starts
  <2> QED BY <2>2, <2>3
<1> HIDE DEF same
<1>5. i \in same /\ \A j \in same : j <= i
  BY <1>4, BothExist
<1> HIDE DEF i
<1>6. i \in sub /\ spans[i].start = s
  BY <1>5 DEF same
<1>7. ASSUME NEW j \in sub \ {i} PROVE Before(spans, j, i)
  <2>1. s <= spans[j].start
    BY <1>3 DEF starts
  <2>2. spans[j].start \in Nat /\ s \in Nat /\ j \in Nat /\ i \in Nat
    BY <1>1, <1>2, <1>3, <1>6
  <2>3. CASE spans[j].start = s
    <3>1. j <= i
      BY <1>5, <2>3 DEF same
    <3>2. j < i
      BY <2>2, <3>1
    <3> QED BY <1>6, <2>3, <3>2 DEF Before
  <2>4. CASE spans[j].start # s
    BY <1>6, <2>1, <2>2, <2>4 DEF Before
  <2> QED BY <2>3, <2>4
<1>8. \E k \in sub : \A j \in sub \ {k} : Before(spans, j, k)
  BY <1>6, <1>7
<1> QED BY <1>8 DEF FrontMost

\* The text after up to k of the edits is known.
AppliedUpTo(base, es, spans, m, k, g) ==
  /\ g = [sub \in SUBSET (1..m) |-> g[sub]]
  /\ \A sub \in SUBSET (1..m) : Cardinality(sub) <= k => g[sub] = AfterEdit(base, es, spans, g, sub)

LEMMA OneLess ==
  ASSUME NEW n \in Nat, NEW m \in Nat, NEW spans, Spans(n, m, spans), NEW sub \in SUBSET (1..m), sub # {}
  PROVE  /\ sub \ {FrontMost(spans, sub)} \in SUBSET (1..m)
         /\ Cardinality(sub) \in Nat
         /\ Cardinality(sub \ {FrontMost(spans, sub)}) = Cardinality(sub) - 1
<1>1. FrontMost(spans, sub) \in sub
  BY FrontMostIs
<1>2. IsFiniteSet(1..m)
  BY FS_Interval
<1>3. IsFiniteSet(sub)
  BY <1>2, FS_Subset
<1>4. Cardinality(sub) \in Nat
  BY <1>3, FS_CardinalityType
<1>5. Cardinality(sub \ {FrontMost(spans, sub)}) = Cardinality(sub) - 1
  BY <1>1, <1>3, FS_RemoveElement
<1> QED BY <1>4, <1>5

LEMMA AppliedExists ==
  ASSUME NEW n \in Nat, NEW m \in Nat, NEW spans, Spans(n, m, spans), NEW base, NEW es
  PROVE  \E f : IsApplied(base, es, spans, f)
<1> DEFINE S == {k \in 0..m : \E g : AppliedUpTo(base, es, spans, m, k, g)}
<1>0. /\ IsFiniteSet(1..m) /\ Cardinality(1..m) = m
      /\ \A sub \in SUBSET (1..m) : IsFiniteSet(sub) /\ Cardinality(sub) \in Nat /\ Cardinality(sub) <= m
  <2>1. IsFiniteSet(1..m) /\ Cardinality(1..m) = m
    BY FS_Interval
  <2>2. ASSUME NEW sub \in SUBSET (1..m)
        PROVE  IsFiniteSet(sub) /\ Cardinality(sub) \in Nat /\ Cardinality(sub) <= m
    <3>1. IsFiniteSet(sub) /\ Cardinality(sub) <= m
      BY <2>1, FS_Subset
    <3> QED BY <3>1, FS_CardinalityType
  <2> QED BY <2>1, <2>2
<1>1. 0 \in S
  <2> DEFINE g == [sub \in SUBSET (1..m) |-> base]
  <2>1. ASSUME NEW sub \in SUBSET (1..m), Cardinality(sub) <= 0
        PROVE  g[sub] = AfterEdit(base, es, spans, g, sub)
    <3>1. IsFiniteSet(sub) /\ Cardinality(sub) = 0
      BY <1>0, <2>1
    <3>2. sub = {}
      BY <3>1, FS_EmptySet
    <3> QED BY <3>2 DEF AfterEdit
  <2>2. g = [sub \in SUBSET (1..m) |-> g[sub]]
    OBVIOUS
  <2> HIDE DEF g
  <2>3. AppliedUpTo(base, es, spans, m, 0, g)
    BY <2>1, <2>2 DEF AppliedUpTo
  <2> QED BY <2>3
<1>2. ASSUME NEW k \in 0..m, k \in S, k < m PROVE k + 1 \in S
  <2>1. PICK g : AppliedUpTo(base, es, spans, m, k, g)
    BY <1>2
  <2> DEFINE h == [sub \in SUBSET (1..m) |->
                     IF Cardinality(sub) <= k THEN g[sub] ELSE AfterEdit(base, es, spans, g, sub)]
  <2>2. /\ h = [sub \in SUBSET (1..m) |-> h[sub]]
        /\ \A sub \in SUBSET (1..m) :
             h[sub] = IF Cardinality(sub) <= k THEN g[sub] ELSE AfterEdit(base, es, spans, g, sub)
    OBVIOUS
  <2> HIDE DEF h
  <2>3. ASSUME NEW sub \in SUBSET (1..m), Cardinality(sub) <= k + 1
        PROVE  h[sub] = AfterEdit(base, es, spans, h, sub)
    <3>1. h[sub] = AfterEdit(base, es, spans, g, sub)
      BY <2>1, <2>2 DEF AppliedUpTo
    <3>2. CASE sub = {}
      BY <3>1, <3>2 DEF AfterEdit
    <3>3. CASE sub # {}
      <4> DEFINE rest == sub \ {FrontMost(spans, sub)}
      <4>1. rest \in SUBSET (1..m) /\ Cardinality(sub) \in Nat /\ Cardinality(rest) = Cardinality(sub) - 1
        BY <3>3, OneLess
      <4>2. Cardinality(rest) <= k
        <5> HIDE DEF rest
        <5> QED BY <2>3, <4>1
      <4>3. h[rest] = g[rest]
        BY <2>2, <4>1, <4>2
      <4> QED BY <3>1, <4>3 DEF AfterEdit
    <3> QED BY <3>2, <3>3
  <2>4. AppliedUpTo(base, es, spans, m, k + 1, h)
    BY <2>2, <2>3 DEF AppliedUpTo
  <2>5. k + 1 \in 0..m
    BY <1>2
  <2> QED BY <2>4, <2>5
<1>3. m \in S
  <2> HIDE DEF S
  <2>1. \A i \in 0..m : i \in S /\ i < m => i + 1 \in S
    BY <1>2
  <2>2. \A i \in 0..m : i \in S
    BY <1>1, <2>1, UpTo
  <2>3. m \in 0..m
    OBVIOUS
  <2> QED BY <2>2, <2>3
<1>4. PICK g : AppliedUpTo(base, es, spans, m, m, g)
  BY <1>3
<1>5. \A sub \in SUBSET (1..m) : g[sub] = AfterEdit(base, es, spans, g, sub)
  BY <1>0, <1>4 DEF AppliedUpTo
<1>6. g = [sub \in SUBSET (1..m) |-> g[sub]]
  BY <1>4 DEF AppliedUpTo
<1>7. DOMAIN spans = 1..m
  BY DEF Spans
<1>8. g = [sub \in SUBSET DOMAIN spans |-> AfterEdit(base, es, spans, g, sub)]
  BY <1>5, <1>6, <1>7
<1> QED BY <1>8 DEF IsApplied

----------------------------------------------------------------------------
(* Applied from the back, the edits come out at their places, all at once  *)

Apart(spans) == \A e, d \in DOMAIN spans : e # d => spans[e].end <= spans[d].start \/ spans[d].end <= spans[e].start

\* What comes out of place i of the text: a newText, nothing, or what is there.
PieceAt(base, es, spans, i) ==
  IF \E e \in DOMAIN spans : spans[e].start = i
  THEN es[First({e \in DOMAIN spans : spans[e].start = i})].new
  ELSE IF \E e \in DOMAIN spans : spans[e].start <= i /\ i < spans[e].end THEN <<>> ELSE <<base[i]>>
Pieces(base, es, spans) == [i \in 1..Len(base) |-> PieceAt(base, es, spans, i)]

\* The edits from place t on, and whether t is inside none.
EditsFrom(spans, t) == {e \in DOMAIN spans : spans[e].start >= t}
Outside(spans, t) == \A e \in DOMAIN spans : ~(spans[e].start < t /\ t < spans[e].end)

\* Edits of a text, f what they make of it and g what comes out of it.
Editing(T, base, m, es, spans, f, g) ==
  /\ base \in Seq(T) /\ m \in Nat
  /\ Spans(Len(base), m, spans) /\ Apart(spans)
  /\ \A e \in 1..m : es[e].new \in Seq(T)
  /\ IsApplied(base, es, spans, f)
  /\ IsTail(Len(base), Pieces(base, es, spans), g)

\* The edits from t on make of the text what comes out from t on.
MadeFrom(base, spans, f, g, t) == Outside(spans, t) => f[EditsFrom(spans, t)] = SubSeq(base, 1, t - 1) \o g[t]
NoneAt(spans, t) == \A e \in DOMAIN spans : spans[e].start # t

LEMMA PiecesAre ==
  ASSUME NEW T, NEW base \in Seq(T), NEW m \in Nat, NEW es, NEW spans,
         DOMAIN spans = 1..m, \A e \in 1..m : es[e].new \in Seq(T)
  PROVE  Pieces(base, es, spans) \in [1..Len(base) -> Seq(T)]
<1>1. \A i \in 1..Len(base) : base[i] \in T
  BY ElementOfSeq
<1>2. ASSUME NEW i \in 1..Len(base) PROVE PieceAt(base, es, spans, i) \in Seq(T)
  <2>1. CASE \E e \in DOMAIN spans : spans[e].start = i
    <3> DEFINE here == {e \in DOMAIN spans : spans[e].start = i}
    <3>1. here \subseteq 0..m /\ here # {}
      BY <1>1, <2>1
    <3>2. First(here) \in here
      <4> HIDE DEF here
      <4>1. Least(here) \in here /\ \A j \in here : Least(here) <= j
        BY <1>1, <3>1, BothExist
      <4> QED BY <4>1 DEF First
    <3>3. First(here) \in 1..m
      BY <1>1, <3>2
    <3>4. es[First(here)].new \in Seq(T)
      <4> HIDE DEF here
      <4> QED BY <3>3
    <3> QED BY <2>1, <3>4 DEF PieceAt
  <2>2. CASE ~ \E e \in DOMAIN spans : spans[e].start = i
    <3>1. <<>> \in Seq(T)
      BY EmptySeq
    <3>2. base[i] \in T
      BY <1>1
    <3>3. <<base[i]>> \in Seq(T)
      BY <3>2
    <3> QED BY <2>2, <3>1, <3>3 DEF PieceAt
  <2> QED BY <2>1, <2>2
<1> QED BY <1>2 DEF Pieces

LEMMA EditingTypes ==
  ASSUME NEW T, NEW base, NEW m, NEW es, NEW spans, NEW f, NEW g, Editing(T, base, m, es, spans, f, g)
  PROVE  /\ Len(base) \in Nat /\ DOMAIN spans = 1..m /\ m \in Nat
         /\ \A e \in 1..m : /\ spans[e].start \in Nat /\ 1 <= spans[e].start
                            /\ spans[e].end \in Nat /\ spans[e].start < spans[e].end /\ spans[e].end <= Len(base) + 1
         /\ Pieces(base, es, spans) \in [1..Len(base) -> Seq(T)]
         /\ \A i \in 1..Len(base) : Pieces(base, es, spans)[i] = PieceAt(base, es, spans, i)
         /\ MadeOf(T, Len(base), Pieces(base, es, spans), g)
<1>1. /\ base \in Seq(T) /\ m \in Nat /\ Len(base) \in Nat /\ DOMAIN spans = 1..m
      /\ \A i \in 1..Len(base) : base[i] \in T
  BY LenProperties, ElementOfSeq DEF Editing, Spans
<1>2. \A e \in 1..m : spans[e].start \in 1..Len(base) /\ spans[e].end \in (spans[e].start + 1)..(Len(base) + 1)
  BY DEF Editing, Spans
<1>3. \A e \in 1..m : /\ spans[e].start \in Nat /\ 1 <= spans[e].start
                      /\ spans[e].end \in Nat /\ spans[e].start < spans[e].end /\ spans[e].end <= Len(base) + 1
  <2> TAKE e \in 1..m
  <2>1. spans[e].start \in 1..Len(base) /\ spans[e].end \in (spans[e].start + 1)..(Len(base) + 1)
    BY <1>2
  <2> QED BY <1>1, <2>1
<1>4. Pieces(base, es, spans) \in [1..Len(base) -> Seq(T)]
  <2>1. \A e \in 1..m : es[e].new \in Seq(T)
    BY DEF Editing
  <2> QED BY <1>1, <2>1, PiecesAre
<1>5. /\ Pieces(base, es, spans) \in [1..Len(base) -> Seq(T)]
      /\ \A i \in 1..Len(base) : Pieces(base, es, spans)[i] = PieceAt(base, es, spans, i)
  BY <1>4 DEF Pieces
<1>6. MadeOf(T, Len(base), Pieces(base, es, spans), g)
  BY <1>1, <1>5, TailsAre DEF Editing
<1> QED BY <1>1, <1>3, <1>5, <1>6

\* The beginning of a beginning.
LEMMA Beginning ==
  ASSUME NEW T, NEW x \in Seq(T), NEW j \in 0..Len(x), NEW k \in 0..j
  PROVE  /\ SubSeq(x, 1, j) \in Seq(T) /\ Len(SubSeq(x, 1, j)) = j
         /\ SubSeq(SubSeq(x, 1, j), 1, k) = SubSeq(x, 1, k)
<1>1. Len(x) \in Nat /\ \A i \in 1..Len(x) : x[i] \in T
  BY LenProperties, ElementOfSeq
<1> DEFINE a == SubSeq(x, 1, j)
           b == SubSeq(x, j + 1, Len(x))
<1>2. a \in Seq(T) /\ Len(a) = j
  <2>1. j \in Int /\ 1 \in Int /\ \A i \in 1..j : x[i] \in T
    BY <1>1
  <2>2. SubSeq(x, 1, j) \in Seq(T) /\ Len(SubSeq(x, 1, j)) = (IF 1 <= j THEN j - 1 + 1 ELSE 0)
    BY <2>1, SubSeqProperties
  <2> HIDE DEF a
  <2>3. a \in Seq(T) /\ Len(a) = (IF 1 <= j THEN j - 1 + 1 ELSE 0)
    BY <2>2 DEF a
  <2>4. (IF 1 <= j THEN j - 1 + 1 ELSE 0) = j
    BY <1>1
  <2> QED BY <2>3, <2>4
<1>3. b \in Seq(T)
  <2>1. Len(x) \in Int /\ j + 1 \in Int /\ \A i \in (j + 1)..Len(x) : x[i] \in T
    BY <1>1
  <2> QED BY <2>1, SubSeqProperties
<1>4. a \o b = x
  <2>1. 1 \in 1..(Len(x) + 1) /\ j \in (1 - 1)..Len(x) /\ Len(x) \in j..Len(x)
    BY <1>1
  <2>2. SubSeq(x, 1, j) \o SubSeq(x, j + 1, Len(x)) = SubSeq(x, 1, Len(x))
    BY <2>1, ConcatAdjacentSubSeq
  <2> QED BY <2>2, SubSeqFull
<1> HIDE DEF a, b
<1>5. SubSeq(x, 1, k) = SubSeq(a, 1, k)
  <2>1. k \in 0..Len(a)
    BY <1>2
  <2> QED BY <1>2, <1>3, <1>4, <2>1, Spliced
<1> QED BY <1>2, <1>5 DEF a

\* No edit begins at t: what is there comes out.
LEMMA NoEditAt ==
  ASSUME NEW T, NEW base, NEW m, NEW es, NEW spans, NEW f, NEW g, Editing(T, base, m, es, spans, f, g),
         NEW t \in 1..Len(base), NoneAt(spans, t), MadeFrom(base, spans, f, g, t + 1)
  PROVE  MadeFrom(base, spans, f, g, t)
<1> SUFFICES ASSUME Outside(spans, t)
             PROVE  f[EditsFrom(spans, t)] = SubSeq(base, 1, t - 1) \o g[t]
  BY DEF MadeFrom
<1>1. /\ Len(base) \in Nat /\ DOMAIN spans = 1..m /\ m \in Nat
      /\ \A e \in 1..m : /\ spans[e].start \in Nat /\ 1 <= spans[e].start
                         /\ spans[e].end \in Nat /\ spans[e].start < spans[e].end /\ spans[e].end <= Len(base) + 1
      /\ \A i \in 1..Len(base) : Pieces(base, es, spans)[i] = PieceAt(base, es, spans, i)
      /\ MadeOf(T, Len(base), Pieces(base, es, spans), g)
  BY EditingTypes
<1>2. Outside(spans, t + 1)
  <2>1. ASSUME NEW e \in DOMAIN spans, spans[e].start < t + 1, t + 1 < spans[e].end PROVE FALSE
    <3>1. spans[e].start # t /\ spans[e].start \in Nat /\ spans[e].end \in Nat
      BY <1>1 DEF NoneAt
    <3>2. spans[e].start < t /\ t < spans[e].end
      BY <2>1, <3>1
    <3> QED BY <3>2 DEF Outside
  <2> QED BY <2>1 DEF Outside
<1>3. EditsFrom(spans, t) = EditsFrom(spans, t + 1)
  <2>1. ASSUME NEW e \in DOMAIN spans PROVE spans[e].start >= t <=> spans[e].start >= t + 1
    <3>1. spans[e].start # t /\ spans[e].start \in Nat
      BY <1>1 DEF NoneAt
    <3> QED BY <3>1
  <2> QED BY <2>1 DEF EditsFrom
<1>4. PieceAt(base, es, spans, t) = <<base[t]>>
  <2>1. ASSUME NEW e \in DOMAIN spans, spans[e].start <= t, t < spans[e].end PROVE FALSE
    <3>1. spans[e].start # t /\ spans[e].start \in Nat
      BY <1>1 DEF NoneAt
    <3>2. spans[e].start < t
      BY <2>1, <3>1
    <3> QED BY <2>1, <3>2 DEF Outside
  <2>2. ~ \E e \in DOMAIN spans : spans[e].start = t
    BY DEF NoneAt
  <2> QED BY <2>1, <2>2 DEF PieceAt
<1>5. g[t] = <<base[t]>> \o g[t + 1] /\ g[t + 1] \in Seq(T)
  <2>1. t + 1 \in 1..(Len(base) + 1)
    BY <1>1
  <2>2. g[t] = Pieces(base, es, spans)[t] \o g[t + 1] /\ g[t + 1] \in Seq(T)
    BY <1>1, <2>1 DEF MadeOf
  <2> QED BY <1>1, <1>4, <2>2
<1>6. base \in Seq(T) /\ base[t] \in T
  BY ElementOfSeq DEF Editing
<1>7. SubSeq(base, 1, t) = SubSeq(base, 1, t - 1) \o <<base[t]>>
  <2>1. 1 \in 1..Len(base) /\ t \in 1..Len(base)
    BY <1>1
  <2> QED BY <1>6, <2>1, SubSeqRecursiveSecond
<1>8. SubSeq(base, 1, t - 1) \in Seq(T)
  <2>1. t - 1 \in 0..Len(base) /\ 0 \in 0..(t - 1)
    BY <1>1
  <2> QED BY <1>6, <2>1, Beginning
<1>9. (t + 1) - 1 = t
  BY <1>1
<1>10. f[EditsFrom(spans, t)] = (SubSeq(base, 1, t - 1) \o <<base[t]>>) \o g[t + 1]
  BY <1>2, <1>3, <1>7, <1>9 DEF MadeFrom
<1>11. <<base[t]>> \in Seq(T)
  BY <1>6
<1> DEFINE a == SubSeq(base, 1, t - 1)
           b == <<base[t]>>
           c == g[t + 1]
<1>12. a \in Seq(T) /\ b \in Seq(T) /\ c \in Seq(T)
  BY <1>5, <1>8, <1>11
<1> HIDE DEF a, b, c
<1>13. (a \o b) \o c = a \o (b \o c)
  BY <1>12, ConcatAssociative
<1> QED BY <1>5, <1>10, <1>13 DEF a, b, c

\* Edit e is at t: its newText comes out.
LEMMA EditAt ==
  ASSUME NEW T, NEW base, NEW m, NEW es, NEW spans, NEW f, NEW g, Editing(T, base, m, es, spans, f, g),
         NEW t \in 1..Len(base), NEW e \in DOMAIN spans, spans[e].start = t,
         MadeFrom(base, spans, f, g, spans[e].end)
  PROVE  MadeFrom(base, spans, f, g, t)
<1> DEFINE u == spans[e].end
           from == EditsFrom(spans, t)
<1>1. /\ Len(base) \in Nat /\ DOMAIN spans = 1..m /\ m \in Nat
      /\ \A d \in 1..m : /\ spans[d].start \in Nat /\ 1 <= spans[d].start
                         /\ spans[d].end \in Nat /\ spans[d].start < spans[d].end /\ spans[d].end <= Len(base) + 1
      /\ Pieces(base, es, spans) \in [1..Len(base) -> Seq(T)]
      /\ \A i \in 1..Len(base) : Pieces(base, es, spans)[i] = PieceAt(base, es, spans, i)
      /\ MadeOf(T, Len(base), Pieces(base, es, spans), g)
  BY EditingTypes
<1>2. /\ base \in Seq(T) /\ Spans(Len(base), m, spans)
      /\ \A d \in 1..m : es[d].new \in Seq(T)
      /\ IsTail(Len(base), Pieces(base, es, spans), g)
  BY DEF Editing
<1>3. u \in Nat /\ t < u /\ u <= Len(base) + 1 /\ e \in 1..m
  BY <1>1
<1>4. ASSUME NEW d \in 1..m, d # e PROVE u <= spans[d].start \/ spans[d].end <= t
  BY <1>1, <1>4 DEF Editing, Apart
<1> HIDE DEF u
<1>5. Outside(spans, u)
  <2>1. ASSUME NEW d \in DOMAIN spans, spans[d].start < u, u < spans[d].end PROVE FALSE
    <3>1. spans[d].start \in Nat /\ spans[d].end \in Nat /\ d \in 1..m
      BY <1>1
    <3>2. CASE d = e
      BY <2>1, <3>1, <3>2 DEF u
    <3>3. CASE d # e
      BY <1>3, <1>4, <2>1, <3>1, <3>3
    <3> QED BY <3>2, <3>3
  <2> QED BY <2>1 DEF Outside
<1>6. \A d \in 1..m : d # e => spans[d].start # t
  <2> SUFFICES ASSUME NEW d \in 1..m, d # e, spans[d].start = t PROVE FALSE
    OBVIOUS
  <2>1. spans[d].end \in Nat /\ t < spans[d].end
    BY <1>1
  <2> QED BY <1>3, <1>4, <2>1
<1>7. from \ {e} = EditsFrom(spans, u)
  <2>1. ASSUME NEW d \in 1..m PROVE (spans[d].start >= t /\ d # e) <=> spans[d].start >= u
    <3>1. spans[d].start \in Nat /\ spans[d].end \in Nat /\ spans[d].start < spans[d].end
      BY <1>1
    <3>2. CASE d = e
      BY <1>3, <3>2
    <3>3. CASE d # e
      BY <1>3, <1>4, <3>1, <3>3
    <3> QED BY <3>2, <3>3
  <2> QED BY <1>1, <2>1 DEF EditsFrom
<1>8. from \in SUBSET (1..m) /\ e \in from /\ from # {}
  BY <1>1, <1>3 DEF EditsFrom
<1>9. FrontMost(spans, from) = e
  <2> DEFINE i == FrontMost(spans, from)
  <2>1. i \in from /\ \A j \in from \ {i} : Before(spans, j, i)
    <3> HIDE DEF from
    <3> QED BY <1>1, <1>2, <1>8, FrontMostIs
  <2> HIDE DEF i
  <2>2. i \in 1..m /\ spans[i].start >= t /\ spans[i].start \in Nat
    BY <1>1, <2>1 DEF EditsFrom
  <2>3. CASE i # e
    <3>1. Before(spans, e, i)
      BY <1>8, <2>1, <2>3
    <3>2. spans[i].start <= t
      BY <2>2, <3>1 DEF Before
    <3>3. spans[i].start = t
      BY <2>2, <3>2
    <3> QED BY <1>6, <2>2, <2>3, <3>3
  <2> QED BY <2>3 DEF i
<1>10. f[from] = Put(f[EditsFrom(spans, u)], spans[e], es[e].new)
  <2>1. f[from] = AfterEdit(base, es, spans, f, from)
    <3> HIDE DEF from
    <3>1. \A sub \in SUBSET DOMAIN spans : f[sub] = AfterEdit(base, es, spans, f, sub)
      BY DEF Editing, IsApplied
    <3> QED BY <1>1, <1>8, <3>1
  <2> HIDE DEF from
  <2> QED BY <1>7, <1>8, <1>9, <2>1 DEF AfterEdit
<1> HIDE DEF from
<1> DEFINE before == SubSeq(base, 1, u - 1)
           new == es[e].new
           tail == g[u]
           x == before \o tail
<1>11. f[EditsFrom(spans, u)] = x
  BY <1>5 DEF u, MadeFrom
<1>12. new \in Seq(T) /\ tail \in Seq(T)
  <2>1. u \in 1..(Len(base) + 1)
    BY <1>1, <1>3
  <2> QED BY <1>1, <1>2, <1>3, <2>1 DEF MadeOf
<1>13. before \in Seq(T) /\ Len(before) = u - 1 /\ SubSeq(before, 1, t - 1) = SubSeq(base, 1, t - 1)
  <2>1. u - 1 \in 0..Len(base) /\ t - 1 \in 0..(u - 1)
    BY <1>1, <1>3
  <2> QED BY <1>2, <2>1, Beginning
<1> DEFINE head == SubSeq(base, 1, t - 1)
<1>14. head \in Seq(T)
  <2>1. t - 1 \in 0..Len(base) /\ 0 \in 0..(t - 1)
    BY <1>1
  <2> QED BY <1>2, <2>1, Beginning
<1>15. SubSeq(x, 1, t - 1) = head /\ SubSeq(x, u, Len(x)) = tail
  <2> HIDE DEF before, tail
  <2>1. t - 1 \in 0..Len(before) /\ Len(before) + 1 = u
    BY <1>1, <1>3, <1>13
  <2>2. /\ SubSeq(before \o tail, 1, t - 1) = SubSeq(before, 1, t - 1)
        /\ SubSeq(before \o tail, Len(before) + 1, Len(before \o tail)) = tail
    BY <1>12, <1>13, <2>1, Spliced
  <2> QED BY <1>13, <2>1, <2>2
<1>16. f[from] = head \o new \o tail
  <2> HIDE DEF x, tail, new, head
  <2>1. f[from] = SubSeq(x, 1, spans[e].start - 1) \o new \o SubSeq(x, spans[e].end, Len(x))
    BY <1>10, <1>11 DEF Put, new
  <2> QED BY <1>15, <2>1 DEF u
<1>17. g[t] = new \o tail
  <2>1. g[t] = Pieces(base, es, spans)[t] \o g[t + 1]
    BY <1>1 DEF MadeOf
  <2>2. PieceAt(base, es, spans, t) = new
    <3>1. {d \in DOMAIN spans : spans[d].start = t} = {e}
      BY <1>1, <1>3, <1>6
    <3>2. First({e}) = e
      <4>1. e <= e
        BY <1>3
      <4> QED BY <4>1 DEF First
    <3> QED BY <3>1, <3>2 DEF PieceAt
  <2>3. ASSUME NEW i \in (t + 1)..(u - 1) PROVE Pieces(base, es, spans)[i] = <<>>
    <3>1. i \in 1..Len(base) /\ i \in Nat /\ t < i /\ i < u
      BY <1>1, <1>3
    <3>2. ASSUME NEW d \in DOMAIN spans, spans[d].start = i PROVE FALSE
      <4>1. d \in 1..m /\ d # e /\ spans[d].end \in Nat /\ spans[d].start < spans[d].end
        BY <1>1, <3>1, <3>2
      <4>2. u <= spans[d].start \/ spans[d].end <= t
        BY <1>4, <4>1
      <4> QED BY <1>3, <3>1, <3>2, <4>1, <4>2
    <3>3. \E d \in DOMAIN spans : spans[d].start <= i /\ i < spans[d].end
      <4>1. spans[e].start <= i /\ i < spans[e].end
        BY <1>1, <3>1 DEF u
      <4> QED BY <4>1
    <3>4. PieceAt(base, es, spans, i) = <<>>
      BY <3>2, <3>3 DEF PieceAt
    <3> QED BY <1>1, <3>1, <3>4
  <2>4. g[t + 1] = g[u]
    <3>1. t + 1 \in 1..(Len(base) + 1) /\ u \in (t + 1)..(Len(base) + 1)
      BY <1>1, <1>3
    <3> DEFINE pieces == Pieces(base, es, spans)
    <3>2. /\ pieces \in [1..Len(base) -> Seq(T)] /\ IsTail(Len(base), pieces, g)
          /\ \A i \in (t + 1)..(u - 1) : pieces[i] = <<>>
      BY <1>1, <1>2, <2>3
    <3> DEFINE n == Len(base)
               a == t + 1
    <3>3. n \in Nat /\ a \in 1..(n + 1) /\ u \in a..(n + 1)
      BY <1>1, <3>1
    <3>4. Void(pieces, a, u)
      BY <3>2 DEF Void
    <3>5. pieces \in [1..n -> Seq(T)] /\ IsTail(n, pieces, g)
      BY <3>2
    <3> HIDE DEF pieces, n, a
    <3>6. SameFrom(g, a, u)
      BY <3>3, <3>4, <3>5, NothingBetween
    <3> QED BY <3>6 DEF a, SameFrom
  <2> QED BY <1>1, <2>1, <2>2, <2>4
<1> HIDE DEF head, new, tail
<1>18. (head \o new) \o tail = head \o (new \o tail)
  BY <1>12, <1>14, ConcatAssociative
<1> QED BY <1>16, <1>17, <1>18 DEF head, from, MadeFrom

\* All of them.
LEMMA AppliedIsMade ==
  ASSUME NEW T, NEW base, NEW m, NEW es, NEW spans, NEW f, NEW g, Editing(T, base, m, es, spans, f, g)
  PROVE  f[DOMAIN spans] = g[1] /\ g[1] \in Seq(T)
<1> DEFINE n == Len(base)
           Good(t) == MadeFrom(base, spans, f, g, t)
           S == {k \in 0..n : \A t \in (n + 1 - k)..(n + 1) : Good(t)}
<1>1. /\ n \in Nat /\ DOMAIN spans = 1..m /\ m \in Nat
      /\ \A d \in 1..m : /\ spans[d].start \in Nat /\ 1 <= spans[d].start
                         /\ spans[d].end \in Nat /\ spans[d].start < spans[d].end /\ spans[d].end <= n + 1
      /\ MadeOf(T, n, Pieces(base, es, spans), g)
  BY EditingTypes
<1>2. base \in Seq(T)
  BY DEF Editing
<1>3. Good(n + 1)
  <2>1. EditsFrom(spans, n + 1) = {}
    <3> SUFFICES ASSUME NEW d \in 1..m PROVE ~(spans[d].start >= n + 1)
      BY <1>1 DEF EditsFrom
    <3>1. spans[d].start \in Nat /\ spans[d].end \in Nat /\ spans[d].start < spans[d].end /\ spans[d].end <= n + 1
      BY <1>1
    <3> QED BY <1>1, <3>1
  <2>2. f[{}] = base
    <3>1. \A sub \in SUBSET DOMAIN spans : f[sub] = AfterEdit(base, es, spans, f, sub)
      BY DEF Editing, IsApplied
    <3>2. f[{}] = AfterEdit(base, es, spans, f, {})
      BY <3>1
    <3> QED BY <3>2 DEF AfterEdit
  <2>3. (n + 1) - 1 = n /\ SubSeq(base, 1, n) = base
    BY <1>1, <1>2, SubSeqFull
  <2>4. g[n + 1] = <<>>
    BY <1>1 DEF MadeOf
  <2>5. base \o <<>> = base
    BY <1>2, ConcatEmptySeq
  <2> QED BY <2>1, <2>2, <2>3, <2>4, <2>5 DEF MadeFrom
<1>4. 0 \in S
  <2>1. \A t \in (n + 1 - 0)..(n + 1) : t = n + 1
    BY <1>1
  <2> HIDE DEF Good
  <2> QED BY <1>1, <1>3, <2>1
<1>5. ASSUME NEW k \in 0..n, k \in S, k < n PROVE k + 1 \in S
  <2>1. k + 1 \in 0..n /\ n + 1 - (k + 1) = n - k /\ n - k \in 1..n
    BY <1>1, <1>5
  <2>2. \A t \in (n + 1 - k)..(n + 1) : Good(t)
    BY <1>5
  <2> DEFINE t == n - k
  <2>3. t \in 1..n /\ t + 1 = n + 1 - k
    BY <1>1, <2>1
  <2> HIDE DEF t
  <2>4. Good(t)
    <3>1. CASE \E e \in DOMAIN spans : spans[e].start = t
      <4>1. PICK e \in DOMAIN spans : spans[e].start = t
        BY <3>1
      <4>2. spans[e].end \in (n + 1 - k)..(n + 1)
        BY <1>1, <2>3, <4>1
      <4>3. Good(spans[e].end)
        BY <2>2, <4>2
      <4>5. t \in 1..Len(base)
        BY <2>3
      <4> QED BY <4>1, <4>3, <4>5, EditAt
    <3>2. CASE NoneAt(spans, t)
      <4>1. t + 1 \in (n + 1 - k)..(n + 1)
        BY <1>1, <2>3
      <4>2. Good(t + 1)
        BY <2>2, <4>1
      <4>4. t \in 1..Len(base)
        BY <2>3
      <4> QED BY <3>2, <4>2, <4>4, NoEditAt
    <3> QED BY <3>1, <3>2 DEF NoneAt
  <2> HIDE DEF Good
  <2>5. ASSUME NEW i \in (n + 1 - (k + 1))..(n + 1) PROVE Good(i)
    <3>0. n \in Nat
      BY <1>1
    <3>1. i = n - k \/ i \in (n + 1 - k)..(n + 1)
      <4> HIDE DEF n
      <4> QED BY <2>1, <3>0
    <3>2. n - k = t
      BY DEF t
    <3> QED BY <2>2, <2>4, <3>1, <3>2
  <2> QED BY <2>1, <2>5
<1>6. n \in S
  <2> HIDE DEF S
  <2>1. \A i \in 0..n : i \in S /\ i < n => i + 1 \in S
    BY <1>5
  <2>2. \A i \in 0..n : i \in S
    BY <1>1, <1>4, <2>1, UpTo
  <2>3. n \in 0..n
    BY <1>1
  <2> QED BY <2>2, <2>3
<1>7. Good(1)
  <2>1. 1 \in (n + 1 - n)..(n + 1)
    BY <1>1
  <2> HIDE DEF Good
  <2> QED BY <1>6, <2>1
<1>8. Outside(spans, 1)
  <2> SUFFICES ASSUME NEW d \in 1..m PROVE ~(spans[d].start < 1)
    BY <1>1 DEF Outside
  <2>1. spans[d].start \in Nat /\ 1 <= spans[d].start
    BY <1>1
  <2> QED BY <2>1
<1>9. EditsFrom(spans, 1) = DOMAIN spans
  <2>1. \A d \in DOMAIN spans : spans[d].start >= 1
    BY <1>1
  <2> QED BY <2>1 DEF EditsFrom
<1>10. SubSeq(base, 1, 1 - 1) = <<>>
  BY SubSeqEmpty
<1>11. g[1] \in Seq(T)
  <2>1. 1 \in 1..(n + 1)
    BY <1>1
  <2> QED BY <1>1, <2>1 DEF MadeOf
<1>12. <<>> \o g[1] = g[1]
  BY <1>11, ConcatEmptySeq
<1> QED BY <1>7, <1>8, <1>9, <1>10, <1>11, <1>12 DEF MadeFrom

----------------------------------------------------------------------------
(* What the edit tool writes                                               *)

\* The characters of texts, the ones the tool itself puts in among them (the
\* provers do not know that these are strings).
Bytes == STRING \cup {"nl", "cr", "'"}

LEMMA LeastIsFirst == ASSUME NEW S PROVE First(S) = Least(S)
  BY DEF First, Least

\* The first place where one text is in another.
LEMMA FirstPlace ==
  ASSUME NEW T, NEW U, NEW s \in Seq(T), NEW t \in Seq(U), t # <<>>, Occurs(s, t) # {}
  PROVE  /\ First(Occurs(s, t)) \in Occurs(s, t)
         /\ First(Occurs(s, t)) \in 1..Len(s)
         /\ First(Occurs(s, t)) + Len(t) \in (First(Occurs(s, t)) + 1)..(Len(s) + 1)
<1> DEFINE at == Occurs(s, t)
           i == First(at)
<1>1. Len(s) \in Nat /\ Len(t) \in Nat /\ Len(t) >= 1
  <2>1. Len(t) \in Nat \ {0}
    BY EmptySeq
  <2> QED BY <2>1, LenProperties
<1>2. at \subseteq 0..Len(s)
  <2> SUFFICES ASSUME NEW k \in 1..(Len(s) - Len(t) + 1) PROVE k \in 0..Len(s)
    BY DEF Occurs
  <2> QED BY <1>1
<1>3. i \in at
  <2>1. at # {}
    OBVIOUS
  <2> HIDE DEF at
  <2>2. Least(at) \in at
    BY <1>1, <1>2, <2>1, BothExist
  <2> QED BY <2>2, LeastIsFirst
<1>4. i \in 1..(Len(s) - Len(t) + 1)
  BY <1>3 DEF Occurs
<1> HIDE DEF i, at
<1>5. i \in 1..Len(s) /\ i + Len(t) \in (i + 1)..(Len(s) + 1)
  BY <1>1, <1>4
<1> QED BY <1>3, <1>5 DEF i, at

LEMMA CountOne ==
  ASSUME NEW s, NEW t
  PROVE  /\ Count(s, t) = 0 <=> Occurs(s, t) = {}
         /\ Count(s, t) = 1 => Occurs(s, t) # {}
  BY DEF Count

\* es with the places and newTexts of edits comes out as editedAt says.
Laid(m, es, edit, place, spans) ==
  \A e \in 1..m : /\ edit[e].new = es[e].new
                  /\ spans[e].start = place[e]
                  /\ spans[e].end = place[e] + Len(es[e].old)
ComesOut(base, es, edit, place, spans) ==
  \E g : IsTail(Len(base), Pieces(base, edit, spans), g) /\ editedAt(base, es, place) = g[1]

LEMMA EditedIs ==
  ASSUME NEW T, NEW base \in Seq(T), NEW m \in Nat, NEW es, NEW edit, NEW place, NEW spans,
         DOMAIN es = 1..m, DOMAIN spans = 1..m,
         Laid(m, es, edit, place, spans),
         Pieces(base, edit, spans) \in [1..Len(base) -> Seq(T)]
  PROVE  ComesOut(base, es, edit, place, spans)
<1> DEFINE n == Len(base)
           piece == Pieces(base, edit, spans)
           out(i) == IF {e \in DOMAIN es : place[e] = i} # {}
                     THEN es[First({e \in DOMAIN es : place[e] = i})].new
                     ELSE IF \E e \in DOMAIN es : place[e] <= i /\ i < place[e] + Len(es[e].old)
                          THEN <<>> ELSE <<base[i]>>
<1>2. n \in Nat /\ DOMAIN base = 1..n
  BY LenProperties
<1>1. editedAt(base, es, place) = FlattenSeq([i \in 1..n |-> out(i)])
  BY <1>2 DEF editedAt
<1>0. \A e \in 1..m : /\ edit[e].new = es[e].new
                      /\ spans[e].start = place[e]
                      /\ spans[e].end = place[e] + Len(es[e].old)
  BY DEF Laid
<1>3. ASSUME NEW i \in 1..n PROVE piece[i] = out(i)
  <2> DEFINE here == {e \in DOMAIN es : place[e] = i}
  <2>1. piece[i] = PieceAt(base, edit, spans, i)
    BY DEF Pieces
  <2>2. here = {e \in DOMAIN spans : spans[e].start = i}
    BY <1>0
  <2>3. here # {} <=> \E e \in DOMAIN spans : spans[e].start = i
    BY <2>2
  <2>4. (\E e \in DOMAIN spans : spans[e].start <= i /\ i < spans[e].end) <=>
        (\E e \in DOMAIN es : place[e] <= i /\ i < place[e] + Len(es[e].old))
    BY <1>0
  <2>5. here # {} => edit[First(here)].new = es[First(here)].new
    <3> SUFFICES ASSUME here # {} PROVE edit[First(here)].new = es[First(here)].new
      OBVIOUS
    <3>1. here \subseteq 0..m
      OBVIOUS
    <3>2. First(here) \in here
      <4> HIDE DEF here
      <4> QED BY <3>1, BothExist, LeastIsFirst
    <3>3. First(here) \in 1..m
      BY <3>2
    <3> HIDE DEF here
    <3> QED BY <1>0, <3>3
  <2>6. out(i) = IF here # {} THEN es[First(here)].new
                 ELSE IF \E e \in DOMAIN es : place[e] <= i /\ i < place[e] + Len(es[e].old)
                      THEN <<>> ELSE <<base[i]>>
    OBVIOUS
  <2>7. PieceAt(base, edit, spans, i) =
          IF \E e \in DOMAIN spans : spans[e].start = i THEN edit[First(here)].new
          ELSE IF \E e \in DOMAIN spans : spans[e].start <= i /\ i < spans[e].end THEN <<>> ELSE <<base[i]>>
    BY <2>2 DEF PieceAt
  <2> HIDE DEF here, out, piece
  <2> QED BY <2>1, <2>3, <2>4, <2>5, <2>6, <2>7
<1> HIDE DEF out
<1>4. [i \in 1..n |-> out(i)] = piece
  <2>1. piece = [i \in 1..n |-> piece[i]]
    BY DEF Pieces
  <2> HIDE DEF piece
  <2> QED BY <1>3, <2>1
<1> HIDE DEF piece
<1>5. piece \in [1..n -> Seq(T)]
  BY DEF piece
<1>6. \E g : IsTail(n, piece, g) /\ FlattenSeq(piece) = g[1]
  <2> HIDE DEF n
  <2> QED BY <1>2, <1>5, Flattened
<1> QED BY <1>1, <1>4, <1>6 DEF piece, ComesOut

\* A line end gets its CR before it, and the rest of the text its own.
LEMMA RestoredOfNext ==
  ASSUME NEW T, "nl" \in T, "cr" \in T, NEW c \in T, NEW u \in Seq(T)
  PROVE  restoreLineFormat(<<c>> \o u, TRUE) =
           (IF c = "nl" THEN <<"cr", "nl">> ELSE <<c>>) \o restoreLineFormat(u, TRUE)
<1> DEFINE m == Len(u)
           x == <<c>> \o u
           p == [i \in 1..m |-> IF u[i] = "nl" THEN <<"cr", "nl">> ELSE <<u[i]>>]
           q == [i \in 1..(m + 1) |-> IF x[i] = "nl" THEN <<"cr", "nl">> ELSE <<x[i]>>]
<1>1. m \in Nat /\ DOMAIN u = 1..m /\ \A i \in 1..m : u[i] \in T
  BY LenProperties, ElementOfSeq
<1>2. x \in Seq(T) /\ Len(x) = m + 1 /\ x[1] = c /\ \A i \in 1..m : x[i + 1] = u[i]
  <2>1. <<c>> \in Seq(T) /\ Len(<<c>>) = 1 /\ <<c>>[1] = c
    OBVIOUS
  <2> DEFINE e == <<c>>
  <2>2. e \in Seq(T) /\ Len(e) = 1 /\ e[1] = c
    BY <2>1
  <2> HIDE DEF e
  <2>3. /\ e \o u \in Seq(T)
        /\ Len(e \o u) = Len(e) + Len(u)
        /\ \A i \in 1..(Len(e) + Len(u)) : (e \o u)[i] = IF i <= Len(e) THEN e[i] ELSE u[i - Len(e)]
    BY <2>2, ConcatProperties
  <2>4. 1 \in 1..(1 + m) /\ \A i \in 1..m : i + 1 \in 1..(1 + m) /\ ~(i + 1 <= 1) /\ (i + 1) - 1 = i
    BY <1>1
  <2>5. Len(e) + Len(u) = 1 + m
    BY <2>2
  <2> DEFINE y == e \o u
  <2>6. /\ y \in Seq(T) /\ Len(y) = 1 + m
        /\ \A i \in 1..(1 + m) : y[i] = IF i <= 1 THEN e[i] ELSE u[i - 1]
    BY <2>2, <2>3, <2>5
  <2> HIDE DEF y
  <2>7. y \in Seq(T) /\ Len(y) = m + 1 /\ y[1] = c /\ \A i \in 1..m : y[i + 1] = u[i]
    BY <1>1, <2>2, <2>4, <2>6
  <2> QED BY <2>7 DEF y, e
<1> HIDE DEF x
<1>3. /\ DOMAIN x = 1..(m + 1)
      /\ \A i \in 1..(m + 1) : x[i] \in T
  BY <1>2, LenProperties, ElementOfSeq
<1>4. <<"cr", "nl">> \in Seq(T) /\ \A d \in T : <<d>> \in Seq(T)
  OBVIOUS
<1>5. p \in [1..m -> Seq(T)] /\ q \in [1..(m + 1) -> Seq(T)]
  BY <1>1, <1>3, <1>4
<1>6. /\ q[1] = IF c = "nl" THEN <<"cr", "nl">> ELSE <<c>>
      /\ \A i \in 1..m : q[i + 1] = p[i]
  BY <1>1, <1>2
<1>7. restoreLineFormat(x, TRUE) = FlattenSeq(q) /\ restoreLineFormat(u, TRUE) = FlattenSeq(p)
  BY <1>1, <1>3 DEF restoreLineFormat
<1> HIDE DEF p, q, m
<1>8. FlattenSeq(q) = q[1] \o FlattenSeq(p)
  BY <1>1, <1>5, <1>6, Prepended
<1> QED BY <1>6, <1>7, <1>8 DEF x

\* What stripLineFormat takes from a file whose lines all end alike,
\* restoreLineFormat puts back.
LEMMA LineEndsKept ==
  ASSUME NEW T, "nl" \in T, "cr" \in T, NEW s \in Seq(T), OneLineEnd(s)
  PROVE  restoreLineFormat(stripLineFormat(s), hadCRLF(s)) = s
<1> DEFINE n == Len(s)
           p == [i \in 1..n |-> IF CRLFAt(s, i) THEN <<>> ELSE <<s[i]>>]
           R(u) == restoreLineFormat(u, TRUE)
           rest(i) == SubSeq(s, i, n)
<1>1. n \in Nat /\ DOMAIN s = 1..n /\ \A i \in 1..n : s[i] \in T
  BY LenProperties, ElementOfSeq
<1>2. stripLineFormat(s) = FlattenSeq(p)
  BY <1>1 DEF stripLineFormat
<1>3. CASE ~hadCRLF(s)
  <2>1. \A i \in 1..n : ~CRLFAt(s, i)
    BY <1>1, <1>3 DEF hadCRLF
  <2>2. p = [i \in DOMAIN s |-> <<s[i]>>]
    BY <1>1, <2>1
  <2>3. FlattenSeq([i \in DOMAIN s |-> <<s[i]>>]) = s
    BY OneByOne
  <2> HIDE DEF p
  <2>4. stripLineFormat(s) = s
    BY <1>2, <2>2, <2>3
  <2> QED BY <1>3, <2>4 DEF restoreLineFormat
<1>4. CASE hadCRLF(s)
  <2>1. \A i \in 1..n : s[i] = "nl" => i > 1 /\ s[i - 1] = "cr"
    BY <1>1, <1>4 DEF OneLineEnd
  <2>2. p \in [1..n -> Seq(T)]
    <3>1. <<>> \in Seq(T) /\ \A d \in T : <<d>> \in Seq(T)
      OBVIOUS
    <3> QED BY <1>1, <3>1
  <2>3. PICK h : IsTail(n, p, h) /\ FlattenSeq(p) = h[1]
    <3> HIDE DEF p
    <3> QED BY <1>1, <2>2, Flattened
  <2>4. /\ \A i \in 1..(n + 1) : h[i] \in Seq(T)
        /\ h[n + 1] = <<>>
        /\ \A i \in 1..n : h[i] = p[i] \o h[i + 1]
    <3>1. MadeOf(T, n, p, h)
      BY <1>1, <2>2, <2>3, TailsAre
    <3> QED BY <3>1 DEF MadeOf
  <2> DEFINE Ends(i) == i <= n /\ s[i] = "nl"
             S == {k \in 0..n : R(h[n + 1 - k]) = IF Ends(n + 1 - k) THEN <<"cr">> \o rest(n + 1 - k) ELSE rest(n + 1 - k)}
  <2>5. 0 \in S
    <3>1. n + 1 - 0 = n + 1 /\ ~Ends(n + 1) /\ 0 \in 0..n
      BY <1>1
    <3>2. rest(n + 1) = <<>>
      BY <1>1, SubSeqEmpty
    <3>3. R(<<>>) = <<>>
      BY DEF restoreLineFormat, FlattenSeq
    <3> HIDE DEF rest, Ends, R
    <3> QED BY <2>4, <3>1, <3>2, <3>3
  <2>6. ASSUME NEW k \in 0..n, k \in S, k < n PROVE k + 1 \in S
    <3> DEFINE i == n - k
    <3>0. n \in Nat /\ k \in 0..n /\ k < n
      BY <1>1, <2>6
    <3>1. /\ i \in 1..n /\ i + 1 \in 1..(n + 1) /\ (i + 1) - 1 = i /\ n \in i..n
          /\ i + 1 <= n => i + 1 \in 1..n /\ i < n
          /\ i < n => i + 1 <= n
          /\ k + 1 \in 0..n /\ n + 1 - k = i + 1 /\ n + 1 - (k + 1) = i
      <4> HIDE DEF n
      <4> QED BY <3>0
    <3>2. R(h[i + 1]) = IF Ends(i + 1) THEN <<"cr">> \o rest(i + 1) ELSE rest(i + 1)
      <4> HIDE DEF R, Ends, rest, i, n
      <4> QED BY <2>6, <3>1
    <3> HIDE DEF i
    <3>3. /\ s[i] \in T /\ h[i + 1] \in Seq(T)
          /\ rest(i) = <<s[i]>> \o rest(i + 1)
          /\ rest(i + 1) \in Seq(T)
      <4>1. rest(i) = <<s[i]>> \o rest(i + 1)
        BY <3>1, SubSeqRecursiveFirst
      <4>2. \A j \in (i + 1)..n : s[j] \in T
        BY <1>1, <3>1
      <4>3. rest(i + 1) \in Seq(T)
        BY <1>1, <3>1, <4>2, SubSeqProperties
      <4> QED BY <1>1, <2>4, <3>1, <4>1, <4>3
    <3>4. CRLFAt(s, i) <=> s[i] = "cr" /\ Ends(i + 1)
      BY <3>1 DEF CRLFAt
    <3>5. Ends(i + 1) => s[i] = "cr"
      BY <2>1, <3>1
    <3>6. p[i] = IF CRLFAt(s, i) THEN <<>> ELSE <<s[i]>>
      BY <3>1
    <3>7. Ends(i) <=> s[i] = "nl"
      BY <1>1, <3>1
    <3>8. h[i] = p[i] \o h[i + 1]
      BY <2>4, <3>1
    <3> HIDE DEF Ends, rest, R, p, n
    <3>9. CASE CRLFAt(s, i)
      <4>1. ~Ends(i) /\ Ends(i + 1) /\ s[i] = "cr"
        BY <3>4, <3>7, <3>9
      <4>2. h[i] = h[i + 1]
        BY <3>3, <3>6, <3>8, <3>9, ConcatEmptySeq
      <4>3. R(h[i]) = rest(i)
        BY <3>2, <3>3, <4>1, <4>2
      <4> QED BY <3>1, <4>1, <4>3
    <3>10. CASE ~CRLFAt(s, i)
      <4> DEFINE new == IF s[i] = "nl" THEN <<"cr", "nl">> ELSE <<s[i]>>
      <4>1. ~Ends(i + 1)
        BY <3>4, <3>5, <3>10
      <4>2. h[i] = <<s[i]>> \o h[i + 1]
        BY <3>6, <3>8, <3>10
      <4>3. R(h[i]) = new \o rest(i + 1)
        <5>1. R(<<s[i]>> \o h[i + 1]) = new \o R(h[i + 1])
          BY <3>3, RestoredOfNext DEF R
        <5> HIDE DEF new
        <5> QED BY <3>2, <4>1, <4>2, <5>1
      <4>4. new \o rest(i + 1) = IF Ends(i) THEN <<"cr">> \o rest(i) ELSE rest(i)
        <5>1. CASE s[i] = "nl"
          <6>1. new = <<"cr">> \o <<"nl">>
            BY <5>1
          <6>2. <<"cr">> \in Seq(T) /\ <<"nl">> \in Seq(T)
            OBVIOUS
          <6>3. (<<"cr">> \o <<"nl">>) \o rest(i + 1) = <<"cr">> \o (<<"nl">> \o rest(i + 1))
            BY <3>3, <6>2, ConcatAssociative
          <6>4. rest(i) = <<"nl">> \o rest(i + 1)
            BY <3>3, <5>1
          <6> HIDE DEF new
          <6> QED BY <3>7, <5>1, <6>1, <6>3, <6>4
        <5>2. CASE s[i] # "nl"
          BY <3>3, <3>7, <5>2
        <5> QED BY <5>1, <5>2
      <4> HIDE DEF new
      <4> QED BY <3>1, <4>3, <4>4
    <3> QED BY <3>9, <3>10
  <2>7. \A k \in 0..n : k \in S
    <3> HIDE DEF S
    <3>1. \A i \in 0..n : i \in S /\ i < n => i + 1 \in S
      BY <2>6
    <3> QED BY <1>1, <2>5, <3>1, UpTo
  <2>8. n \in 0..n /\ n + 1 - n = 1
    BY <1>1
  <2>9. ~Ends(1)
    <3>1. n >= 1 => 1 \in 1..n
      BY <1>1
    <3> QED BY <2>1, <3>1
  <2>10. R(h[1]) = rest(1)
    <3> HIDE DEF R, rest, Ends
    <3> QED BY <2>7, <2>8, <2>9
  <2>11. rest(1) = s
    BY SubSeqFull
  <2> HIDE DEF p
  <2> QED BY <1>2, <1>4, <2>3, <2>10, <2>11
<1> QED BY <1>3, <1>4

\* The base that edits are made to, and each edit's place in it.
Matched(content, es, exact) ==
  LET base == IF exact THEN content ELSE normalizeForMatch(content)
      needle(e) == IF exact THEN es[e].old ELSE normalizeForMatch(es[e].old)
      m == matchEdits(content, es)
  IN  /\ m.base = base /\ base \in Seq(Bytes)
      /\ DOMAIN m.spans = DOMAIN es
      /\ \A e \in DOMAIN es : /\ needle(e) \in Seq(Bytes) /\ Occurs(base, needle(e)) # {}
                              /\ m.spans[e] = Span(base, needle(e))

LEMMA MatchIs ==
  ASSUME NEW content \in Seq(Bytes), NEW es \in Seq([old : Seq(STRING), new : Seq(STRING)]),
         NEW exact, exact = \A e \in DOMAIN es : Occurs(content, es[e].old) # {},
         matchEdits(content, es).ok
  PROVE  Matched(content, es, exact)
<1> DEFINE counts == {Count(content, es[i].old) : i \in DOMAIN es}
           base == IF exact THEN content ELSE normalizeForMatch(content)
           needle(e) == IF exact THEN es[e].old ELSE normalizeForMatch(es[e].old)
           m == matchEdits(content, es)
<1>1. 0 \in counts <=> ~exact
  <2>1. 0 \in counts <=> \E e \in DOMAIN es : Count(content, es[e].old) = 0
    OBVIOUS
  <2>2. \A e \in DOMAIN es : Count(content, es[e].old) = 0 <=> Occurs(content, es[e].old) = {}
    BY CountOne
  <2> QED BY <2>1, <2>2
<1>2. base \in Seq(Bytes)
  <2>1. "'" \in Bytes
    BY DEF Bytes
  <2> QED BY <2>1, NormalizedIn
<1>3. ASSUME NEW e \in DOMAIN es PROVE needle(e) \in Seq(Bytes)
  <2>1. es[e].old \in Seq(STRING)
    <3> DEFINE Asked == [old : Seq(STRING), new : Seq(STRING)]
    <3>1. e \in 1..Len(es)
      BY LenProperties
    <3>2. es \in Seq(Asked)
      OBVIOUS
    <3> HIDE DEF Asked
    <3>3. es[e] \in Asked
      BY <3>1, <3>2, ElementOfSeq
    <3> QED BY <3>3 DEF Asked
  <2>2. STRING \subseteq Bytes /\ "'" \in Bytes
    BY DEF Bytes
  <2>3. es[e].old \in Seq(Bytes)
    BY <2>1, <2>2, SeqMonotonic
  <2>4. normalizeForMatch(es[e].old) \in Seq(Bytes)
    BY <2>2, <2>3, NormalizedIn
  <2> QED BY <2>3, <2>4
<1> DEFINE ok == 2 \notin counts /\ \A i \in DOMAIN es : Count(base, needle(i)) = 1
<1>4. m = [ok |-> ok, base |-> base, spans |-> IF ok THEN [i \in DOMAIN es |-> Span(base, needle(i))] ELSE <<>>]
  BY <1>1 DEF matchEdits
<1> HIDE DEF counts, base, needle, m
<1>5. m.ok = ok /\ m.base = base /\ (ok => m.spans = [i \in DOMAIN es |-> Span(base, needle(i))])
  <2> HIDE DEF ok
  <2> QED BY <1>4
<1>6. ok
  BY <1>5 DEF m
<1>7. \A e \in DOMAIN es : Count(base, needle(e)) = 1
  BY <1>6
<1>8. \A e \in DOMAIN es : Occurs(base, needle(e)) # {}
  BY <1>7, CountOne
<1> HIDE DEF ok
<1>9. m.spans = [i \in DOMAIN es |-> Span(base, needle(i))]
  BY <1>5, <1>6
<1>10. DOMAIN m.spans = DOMAIN es /\ \A e \in DOMAIN es : m.spans[e] = Span(base, needle(e))
  BY <1>9
<1> QED BY <1>2, <1>3, <1>5, <1>8, <1>10 DEF base, needle, m, Matched

LEMMA ApplyIs ==
  ASSUME NEW n \in Nat, NEW m \in Nat, NEW spans, Spans(n, m, spans), NEW base, NEW es
  PROVE  \E f : IsApplied(base, es, spans, f) /\ applyEdits(base, es, spans) = f[DOMAIN spans]
<1> DEFINE f == CHOOSE f : f = [sub \in SUBSET DOMAIN spans |-> AfterEdit(base, es, spans, f, sub)]
<1>1. applyEdits(base, es, spans) = f[DOMAIN spans]
  BY DEF applyEdits, AfterEdit, FrontMost, Put
<1>2. \E h : h = [sub \in SUBSET DOMAIN spans |-> AfterEdit(base, es, spans, h, sub)]
  <2>1. \E h : IsApplied(base, es, spans, h)
    BY AppliedExists
  <2> QED BY <2>1 DEF IsApplied
<1>3. f = [sub \in SUBSET DOMAIN spans |-> AfterEdit(base, es, spans, f, sub)]
  BY <1>2
<1> HIDE DEF f
<1>4. IsApplied(base, es, spans, f)
  BY <1>3 DEF IsApplied
<1> QED BY <1>1, <1>4

EditType == [old : Seq(STRING), new : Seq(STRING)]

\* What EditsInPlace says of a text, the edits and what became of it.
InPlace(text, es, out) ==
  LET content == stripLineFormat(text)
      at == Named(content, es)
      crlf == hadCRLF(text)
      base == BaseOf(content, es)
  IN  /\ OneLineEnd(text)
      /\ \A e \in DOMAIN at : at[e].old # <<>> /\ ~(crlf /\ hadCRLF(at[e].new))
      => /\ text = restoreLineFormat(content, crlf)
         /\ \E place \in PlacesIn(base, at) : out = restoreLineFormat(editedAt(base, at, place), crlf)

\* A call whose edits are found, and do not overlap, puts them in place.
LEMMA FoundInPlace ==
  ASSUME NEW text \in Seq(STRING), NEW es \in Seq(EditType),
         matchEdits(stripLineFormat(text), es).ok, validateOverlaps(matchEdits(stripLineFormat(text), es).spans)
  PROVE  InPlace(text, es, restoreLineFormat(
           applyEdits(matchEdits(stripLineFormat(text), es).base, es, matchEdits(stripLineFormat(text), es).spans),
           hadCRLF(text)))
<1> DEFINE content == stripLineFormat(text)
           exact == \A e \in DOMAIN es : Occurs(content, es[e].old) # {}
           base == IF exact THEN content ELSE normalizeForMatch(content)
           at == IF exact THEN es
                 ELSE [e \in DOMAIN es |-> [es[e] EXCEPT !.old = normalizeForMatch(@)]]
           needle(e) == IF exact THEN es[e].old ELSE normalizeForMatch(es[e].old)
           spans == matchEdits(content, es).spans
           applied == applyEdits(base, es, spans)
           m == Len(es)
           place == [e \in DOMAIN at |-> First(Occurs(base, at[e].old))]
<1>0. BaseOf(content, es) = base /\ Named(content, es) = at
  BY DEF BaseOf, Named, Exact
<1>1. content \in Seq(Bytes) /\ text \in Seq(Bytes)
  <2>1. text \in Seq(Bytes)
    <3>1. STRING \subseteq Bytes
      BY DEF Bytes
    <3> QED BY <3>1, SeqMonotonic
  <2> QED BY <2>1, StrippedIn
<1>k. OneLineEnd(text) => text = restoreLineFormat(content, hadCRLF(text))
  <2>1. "nl" \in Bytes /\ "cr" \in Bytes
    BY DEF Bytes
  <2> QED BY <1>1, <2>1, LineEndsKept
<1> HIDE DEF content
<1>2. /\ matchEdits(content, es).base = base /\ base \in Seq(Bytes)
      /\ DOMAIN spans = DOMAIN es
      /\ \A e \in DOMAIN es : /\ needle(e) \in Seq(Bytes) /\ Occurs(base, needle(e)) # {}
                              /\ spans[e] = Span(base, needle(e))
  <2>1. matchEdits(content, es).ok
    BY DEF content
  <2>2. es \in Seq([old : Seq(STRING), new : Seq(STRING)])
    BY DEF EditType
  <2>3. exact = \A e \in DOMAIN es : Occurs(content, es[e].old) # {}
    OBVIOUS
  <2> HIDE DEF exact
  <2>4. Matched(content, es, exact)
    BY <1>1, <2>1, <2>2, <2>3, MatchIs
  <2> QED BY <2>4 DEF Matched
<1>3. m \in Nat /\ DOMAIN es = 1..m /\ \A e \in 1..m : es[e] \in EditType
  BY LenProperties, ElementOfSeq
<1>4. /\ DOMAIN at = 1..m
      /\ \A e \in 1..m : at[e].old = needle(e) /\ at[e].new = es[e].new
  <2>1. CASE exact
    BY <1>3, <2>1
  <2>2. CASE ~exact
    <3>1. at = [e \in 1..m |-> [es[e] EXCEPT !.old = normalizeForMatch(@)]]
      BY <1>3, <2>2
    <3>2. ASSUME NEW e \in 1..m
          PROVE  at[e].old = normalizeForMatch(es[e].old) /\ at[e].new = es[e].new
      <4>1. at[e] = [es[e] EXCEPT !.old = normalizeForMatch(es[e].old)]
        BY <3>1
      <4>2. es[e] \in EditType
        BY <1>3
      <4> HIDE DEF at
      <4> QED BY <4>1, <4>2 DEF EditType
    <3>3. DOMAIN at = 1..m
      BY <3>1
    <3> QED BY <2>2, <3>2, <3>3
  <2> QED BY <2>1, <2>2
<1>5. \A e \in 1..m : es[e].new \in Seq(Bytes)
  <2> TAKE e \in 1..m
  <2>1. es[e].new \in Seq(STRING)
    BY <1>3 DEF EditType
  <2>2. STRING \subseteq Bytes
    BY DEF Bytes
  <2> QED BY <2>1, <2>2, SeqMonotonic
<1> HIDE DEF exact
<1>6. matchEdits(stripLineFormat(text), es).base = base /\ matchEdits(stripLineFormat(text), es).spans = spans
  BY <1>2 DEF content
<1> HIDE DEF at, base, spans, needle
<1>7. validateOverlaps(spans)
  BY <1>6
<1>8. SUFFICES ASSUME \A e \in DOMAIN at : at[e].old # <<>>
               PROVE  \E p \in PlacesIn(base, at) : applied = editedAt(base, at, p)
  <2> DEFINE out == restoreLineFormat(applied, hadCRLF(text))
  <2> HIDE DEF applied
  <2>1. ASSUME NEW p \in PlacesIn(base, at), applied = editedAt(base, at, p)
        PROVE  out = restoreLineFormat(editedAt(base, at, p), hadCRLF(text))
    BY <2>1
  <2>2. (\A e \in DOMAIN at : at[e].old # <<>>) =>
        \E p \in PlacesIn(base, at) : out = restoreLineFormat(editedAt(base, at, p), hadCRLF(text))
    BY <1>8, <2>1
  <2> HIDE DEF out
  <2>3. InPlace(text, es, out)
    BY <1>0, <1>k, <2>2 DEF InPlace, content
  <2> QED BY <1>6, <2>3 DEF out, applied
<1>9. ASSUME NEW e \in 1..m
      PROVE  /\ place[e] \in Occurs(base, at[e].old)
             /\ place[e] \in 1..Len(base)
             /\ spans[e].start = place[e] /\ spans[e].end = place[e] + Len(at[e].old)
             /\ spans[e].end \in (spans[e].start + 1)..(Len(base) + 1)
  <2> DEFINE t == needle(e)
  <2>1. t \in Seq(Bytes) /\ Occurs(base, t) # {} /\ spans[e] = Span(base, t) /\ at[e].old = t /\ t # <<>>
    BY <1>2, <1>3, <1>4, <1>8
  <2> HIDE DEF t
  <2>2. /\ First(Occurs(base, t)) \in Occurs(base, t)
        /\ First(Occurs(base, t)) \in 1..Len(base)
        /\ First(Occurs(base, t)) + Len(t) \in (First(Occurs(base, t)) + 1)..(Len(base) + 1)
    BY <1>2, <2>1, FirstPlace
  <2>3. place[e] = First(Occurs(base, t))
    BY <1>4, <2>1
  <2>4. spans[e].start = First(Occurs(base, t)) /\ spans[e].end = First(Occurs(base, t)) + Len(t)
    BY <2>1 DEF Span
  <2> HIDE DEF place
  <2> QED BY <2>1, <2>2, <2>3, <2>4
<1>10. DOMAIN spans = 1..m
  BY <1>2, <1>3
<1>11. Len(base) \in Nat
  BY <1>2, LenProperties
<1>12. Spans(Len(base), m, spans)
  <2> HIDE DEF place
  <2> QED BY <1>9, <1>10 DEF Spans
<1>13. \A e \in 1..m : spans[e].start \in Nat /\ spans[e].end \in Nat
  <2> TAKE e \in 1..m
  <2>1. spans[e].start \in 1..Len(base) /\ spans[e].end \in (spans[e].start + 1)..(Len(base) + 1)
    BY <1>12 DEF Spans
  <2> QED BY <1>11, <2>1
<1>14. Apart(spans)
  <2>1. ASSUME NEW e \in 1..m, NEW d \in 1..m, e # d
        PROVE  spans[e].end <= spans[d].start \/ spans[d].end <= spans[e].start
    <3>1. ~(spans[e].start < spans[d].end /\ spans[d].start < spans[e].end)
      <4>1. e < d \/ d < e
        BY <1>3, <2>1
      <4> QED BY <1>7, <1>10, <4>1 DEF validateOverlaps
    <3>2. spans[e].start \in Nat /\ spans[e].end \in Nat /\ spans[d].start \in Nat /\ spans[d].end \in Nat
      BY <1>13
    <3> QED BY <3>1, <3>2
  <2> QED BY <1>10, <2>1 DEF Apart
<1>15. PICK f : IsApplied(base, es, spans, f) /\ applied = f[DOMAIN spans]
  BY <1>3, <1>11, <1>12, ApplyIs
<1>16. Pieces(base, es, spans) \in [1..Len(base) -> Seq(Bytes)]
  BY <1>2, <1>3, <1>5, <1>10, PiecesAre
<1>17. PICK g : IsTail(Len(base), Pieces(base, es, spans), g) /\ editedAt(base, at, place) = g[1]
  <2> HIDE DEF place
  <2>1. Laid(m, at, es, place, spans)
    BY <1>4, <1>9 DEF Laid
  <2>2. ComesOut(base, at, es, place, spans)
    BY <1>2, <1>3, <1>4, <1>10, <1>16, <2>1, EditedIs
  <2> QED BY <2>2 DEF ComesOut
<1>18. Editing(Bytes, base, m, es, spans, f, g)
  BY <1>2, <1>3, <1>5, <1>12, <1>14, <1>15, <1>17 DEF Editing
<1>19. applied = g[1] /\ applied \in Seq(Bytes)
  <2> HIDE DEF applied
  <2>1. f[DOMAIN spans] = g[1] /\ g[1] \in Seq(Bytes)
    BY <1>18, AppliedIsMade
  <2> QED BY <1>15, <2>1
<1> HIDE DEF applied
<1>22. applied = editedAt(base, at, place)
  <2> HIDE DEF place
  <2> QED BY <1>17, <1>19
<1>23. place \in [DOMAIN at -> 1..(Len(base) + 1)]
  <2>1. \A e \in DOMAIN at : First(Occurs(base, at[e].old)) \in 1..(Len(base) + 1)
    <3> TAKE e \in DOMAIN at
    <3>1. place[e] \in 1..Len(base) /\ place[e] = First(Occurs(base, at[e].old))
      BY <1>4, <1>9
    <3> HIDE DEF place
    <3> QED BY <1>11, <3>1
  <2> QED BY <2>1
<1>24. \A e, d \in DOMAIN at : e # d => (place[e] + Len(at[e].old) <= place[d] \/ place[d] + Len(at[d].old) <= place[e])
  <2> HIDE DEF place
  <2>1. \A e \in 1..m : spans[e].start = place[e] /\ spans[e].end = place[e] + Len(at[e].old)
    BY <1>9
  <2> QED BY <1>4, <1>10, <1>14, <2>1 DEF Apart
<1>25. \A e \in DOMAIN at : place[e] \in Occurs(base, at[e].old)
  BY <1>4, <1>9
<1> HIDE DEF place
<1>26. place \in PlacesIn(base, at)
  BY <1>23, <1>24, <1>25 DEF PlacesIn
<1> QED BY <1>22, <1>26

\* A call that succeeds puts every newText where its oldText was, all at once,
\* and keeps every other byte, if the lines of the file all end alike, no
\* oldText is nothing once it is normalized, and no newText brings CR LF into a
\* file that has them (matchEdits, applyEdits, restoreLineFormat).
THEOREM EditsMadeInPlace == EditInit /\ [][EditNext]_editVars => []EditsInPlace
<1> DEFINE I == file \in Files /\ EditsInPlace
<1>1. EditInit => I
  BY DEF EditInit, EditsInPlace, Failed
<1>2. I /\ [EditNext]_editVars => I'
  <2> SUFFICES ASSUME I, [EditNext]_editVars PROVE I'
    OBVIOUS
  <2>1. CASE UNCHANGED editVars
    <3>1. file' = file /\ edits' = edits /\ result' = result
      BY <2>1 DEF editVars
    <3>2. result.ok => InPlace(file, edits, result.text)
      BY DEF EditsInPlace, InPlace
    <3>3. result'.ok => InPlace(file', edits', result'.text)
      BY <3>1, <3>2
    <3>4. EditsInPlace'
      BY <3>3 DEF EditsInPlace, InPlace
    <3> QED BY <3>1, <3>4
  <2>2. CASE Edit
    <3>1. file' = file /\ file \in Files /\ edits' \in EditLists
      BY <2>2 DEF Edit
    <3>2. file \in Seq(STRING) /\ edits' \in Seq(EditType)
      BY <3>1, TextsAssumption DEF EditType
    <3> DEFINE m == matchEdits(stripLineFormat(file), edits')
               out == restoreLineFormat(applyEdits(m.base, edits', m.spans), hadCRLF(file))
    <3>3. result' = IF m.ok /\ validateOverlaps(m.spans) THEN [ok |-> TRUE, text |-> out] ELSE Failed
      BY <2>2 DEF Edit
    <3>4. m.ok /\ validateOverlaps(m.spans) => InPlace(file, edits', out)
      BY <3>2, FoundInPlace
    <3> HIDE DEF m, out
    <3>5. result'.ok => result'.text = out /\ m.ok /\ validateOverlaps(m.spans)
      BY <3>3 DEF Failed
    <3>6. result'.ok => InPlace(file', edits', result'.text)
      BY <3>1, <3>4, <3>5
    <3>7. EditsInPlace'
      BY <3>6 DEF EditsInPlace, InPlace
    <3> QED BY <3>1, <3>7
  <2> QED BY <2>1, <2>2 DEF EditNext
<1>3. I => EditsInPlace
  OBVIOUS
<1> QED BY <1>1, <1>2, <1>3, PTL
=============================================================================
