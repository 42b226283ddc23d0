---------------------------- MODULE SessionStore ----------------------------
(***************************************************************************)
(* The disk-backed session: src/internal/session/store.go, loader.go and   *)
(* lock.go.  One session path is shared by several processes: the Creator  *)
(* starts with the deferred store NewJSONL returns, any process may open   *)
(* the path (Manager.Open, ContinueRecent), and each system call is a step *)
(* of its own, so that processes interleave and die between any two.       *)
(*                                                                         *)
(* A file is a sequence of chunks, one per line a process tried to write:  *)
(* "full" with its newline, "bare" complete but for the newline, "torn"    *)
(* with a part of its bytes.  What follows a chunk that is not full is     *)
(* glued to it and is the same line to the loader.                         *)
(***************************************************************************)
EXTENDS SessionIndex, FiniteSets

CONSTANTS Procs,        \* processes, one store each at a time
          Creator,      \* the process whose NewJSONL chose the path
          NoProc,       \* owner of a lock nobody holds
          AppendKinds,  \* the kinds of entries callers append
          MaxEntries,   \* bound: Append calls that assign an identity
          MaxFiles,     \* bound: files created at the path, one after another
          Fsync,        \* Options.Fsync
          Faults        \* what may go wrong

ASSUME CreatorAssumption == Creator \in Procs /\ NoProc \notin Procs
ASSUME AppendKindsAssumption == AppendKinds \subseteq EntryKinds
ASSUME BoundsAssumption == MaxEntries \in Nat /\ MaxFiles \in Nat
ASSUME FsyncAssumption == Fsync \in BOOLEAN
ASSUME FaultsAssumption == Faults \subseteq {"kill", "power", "write", "sync"}

VARIABLES path,      \* the file the path names, or NoFile
          created,   \* how many files have been created at the path
          content,   \* chunks of each file, as every process reads them
          durable,   \* how many chunks of each file a sync has put on disk
          owner,     \* who holds the flock of each file
          phase,     \* where each process stands in its store's life
          fd,        \* the file each process has open
          pending,   \* jsonlStore.pending: entries buffered before the file
          index,     \* jsonlStore.idx.ordered; the leaf is replayed from it
          inflight,  \* the message a first write is carrying
          nextID,    \* the identity the next entry gets
          owed,      \* identities of the written entries Append has acknowledged
          synced,    \* of those, the ones a sync has covered
          scan       \* where a read-only open stands in its file

disk == <<path, created, content, durable>>
vars == <<path, created, content, durable, owner, phase, fd, pending, index, inflight, nextID, owed, synced, scan>>
ghosts == <<owed, synced>>

NoFile == 0
Files == 1 .. MaxFiles
EntryIDs == 1 .. MaxEntries
Header == [id |-> 0, parent |-> Root, kind |-> "header", target |-> Root]
Entry == [id : EntryIDs, parent : EntryIDs \cup {Root},
          kind : EntryKinds, target : EntryIDs \cup {Root}]
Chunk == [entry : Entry \cup {Header}, part : {"full", "bare", "torn"}]

\* The life of a store: "deferred" has no file yet, "created" .. "flushed"
\* are the system calls of createAndFlush, "syncing" the sync at the end of
\* Append, "opened" and "loading" OpenJSONL before and under its lock,
\* "reading" a read-only one before it returns.
Phases == {"none", "deferred", "created", "locked", "undo", "flushed",
           "ready", "syncing", "opened", "loading", "reading", "reader"}
HasFile == {"flushed", "ready", "syncing"}
Locking == HasFile \cup {"locked", "loading"}
----------------------------------------------------------------------------
(* The file format: what load makes of the chunks of a file.               *)

Piece(e, part) == [entry |-> e, part |-> part]
Full(entries) == [i \in DOMAIN entries |-> Piece(entries[i], "full")]
EntriesOf(chunks) == [i \in DOMAIN chunks |-> chunks[i].entry]
Whole(c) == {i \in DOMAIN c : c[i].part = "full"}

\* How many chunks load keeps: the complete lines, and the last one when
\* only its newline is missing and nothing is glued to it.
Kept(c) ==
  LET lines == Cardinality(Whole(c))
  IN  IF Len(c) = lines + 1 /\ c[Len(c)].part = "bare" THEN lines + 1 ELSE lines

\* load succeeds: a header that parses, and no complete line that does not,
\* which is one that something torn or bare was glued in front of.
Readable(c) ==
  /\ \A i \in Whole(c) : \A j \in 1 .. i : c[j].part = "full"
  /\ Kept(c) >= 1

\* The file as load leaves it: the tail truncated, its newline repaired.
Recovered(c) == [i \in 1 .. Kept(c) |-> Piece(c[i].entry, "full")]
Loaded(c) == Tail(EntriesOf(Recovered(c)))

\* The outcomes of a write of lines that is cut short anywhere, and what a
\* crash leaves of lines that were not synced.
CutShort(lines) ==
  {SubSeq(lines, 1, n) : n \in 0 .. (Len(lines) - 1)}
    \cup {Append(SubSeq(lines, 1, n - 1), Piece(lines[n].entry, "torn")) : n \in DOMAIN lines}
    \cup {Append(SubSeq(lines, 1, n - 1), Piece(lines[n].entry, "bare")) : n \in Whole(lines)}
----------------------------------------------------------------------------
\* A reader in its file: the chunks it has behind it, what it has read of the
\* next one, and whether it has taken a line for one that is not in the file.
NoLine == Piece(Header, "none")
Start == [at |-> 0, begun |-> NoLine, spliced |-> FALSE]

Init == /\ path = NoFile
        /\ created = 0
        /\ content = [f \in Files |-> <<>>]
        /\ durable = [f \in Files |-> 0]
        /\ owner = [f \in Files |-> NoProc]
        /\ phase = [p \in Procs |-> IF p = Creator THEN "deferred" ELSE "none"]
        /\ fd = [p \in Procs |-> NoFile]
        /\ pending = [p \in Procs |-> <<>>]
        /\ index = [p \in Procs |-> <<>>]
        /\ inflight = [p \in Procs |-> Header]
        /\ nextID = 1
        /\ owed = {}
        /\ synced = {}
        /\ scan = [p \in Procs |-> Start]

\* fillBase: a fresh identity, the current leaf as parent; a leaf entry
\* names a target SetLeaf has validated.
NewEntry(p, kind, target) ==
  [id |-> nextID, parent |-> LeafOf(index[p]), kind |-> kind, target |-> target]
NewEntries(p) == {NewEntry(p, kind, Root) : kind \in AppendKinds \ {"leaf"}}
  \cup {NewEntry(p, kind, target) : kind \in AppendKinds \cap {"leaf"}, target \in ChainIds(index[p])}

Index(p, e) == index' = [index EXCEPT ![p] = Append(@, e)]
Enter(p, ph) == phase' = [phase EXCEPT ![p] = ph]
Write(f, chunks) == content' = [content EXCEPT ![f] = @ \o chunks]

\* Append returns nil with e written, after a sync or without one: the
\* session now owes every entry of the index.
Acknowledge(p, e) == /\ owed' = owed \cup Ids(index[p]) \cup {e.id}
                     /\ UNCHANGED synced
Owe(p) == /\ owed' = owed \cup Ids(index[p])
          /\ synced' = synced \cup Ids(index[p])

\* The process lets its file and its lock go (a close, or its death).
LetGo(p) ==
  /\ owner' = [f \in Files |-> IF owner[f] = p THEN NoProc ELSE owner[f]]
  /\ fd' = [fd EXCEPT ![p] = NoFile]

\* Append before the first message: buffered and indexed, nothing on disk.
AppendDeferred(p) ==
  /\ phase[p] = "deferred"
  /\ nextID \in EntryIDs
  /\ \E e \in NewEntries(p) :
       /\ e.kind # "message"
       /\ pending' = [pending EXCEPT ![p] = Append(@, e)]
       /\ Index(p, e)
  /\ nextID' = nextID + 1
  /\ UNCHANGED <<disk, owner, phase, fd, inflight, ghosts, scan>>

\* Append of the first message: createAndFlush creates the file.  Where the
\* path exists already O_EXCL fails, and Append takes the buffered line back
\* and returns the error.
CreateFile(p) ==
  /\ phase[p] = "deferred"
  /\ path = NoFile
  /\ nextID \in EntryIDs
  /\ created < MaxFiles
  /\ created' = created + 1
  /\ path' = created'
  /\ fd' = [fd EXCEPT ![p] = created']
  /\ inflight' = [inflight EXCEPT ![p] = NewEntry(p, "message", Root)]
  /\ nextID' = nextID + 1
  /\ Enter(p, "created")
  /\ UNCHANGED <<content, durable, owner, pending, index, ghosts, scan>>

\* createAndFlush's lockFile.  On contention the file is closed and stays.
LockCreated(p) ==
  /\ phase[p] = "created"
  /\ IF owner[fd[p]] = NoProc
     THEN /\ owner' = [owner EXCEPT ![fd[p]] = p]
          /\ Enter(p, "locked")
          /\ UNCHANGED <<fd, inflight>>
     ELSE /\ fd' = [fd EXCEPT ![p] = NoFile]
          /\ inflight' = [inflight EXCEPT ![p] = Header]
          /\ Enter(p, "deferred")
          /\ UNCHANGED owner
  /\ UNCHANGED <<disk, pending, index, nextID, ghosts, scan>>

FirstLines(p) == Full(<<Header>> \o pending[p] \o <<inflight[p]>>)

\* createAndFlush's write of the header and everything buffered.
FirstWrite(p) ==
  /\ phase[p] = "locked"
  /\ Write(fd[p], FirstLines(p))
  /\ pending' = [pending EXCEPT ![p] = <<>>]
  /\ IF Fsync
     THEN Enter(p, "flushed") /\ UNCHANGED <<index, inflight, ghosts>>
     ELSE /\ Index(p, inflight[p])
          /\ inflight' = [inflight EXCEPT ![p] = Header]
          /\ Enter(p, "ready")
          /\ Acknowledge(p, inflight[p])
  /\ UNCHANGED <<path, created, durable, owner, fd, nextID, scan>>

\* The write failed: release and close come first ...
FirstWriteFails(p) ==
  /\ phase[p] = "locked"
  /\ "write" \in Faults
  /\ \E chunks \in CutShort(FirstLines(p)) : Write(fd[p], chunks)
  /\ LetGo(p)
  /\ Enter(p, "undo")
  /\ UNCHANGED <<path, created, durable, pending, index, inflight, nextID, ghosts, scan>>

\* ... then os.Remove unlinks the path, and Append drops the message.
RemoveFile(p) ==
  /\ phase[p] = "undo"
  /\ path' = NoFile
  /\ inflight' = [inflight EXCEPT ![p] = Header]
  /\ Enter(p, "deferred")
  /\ UNCHANGED <<created, content, durable, owner, fd, pending, index, nextID, ghosts, scan>>

\* Mutant: the message is not indexed after the sync.
FirstSync_SkipsIndex(p) ==
  /\ phase[p] = "flushed"
  /\ durable' = [durable EXCEPT ![fd[p]] = Len(content[fd[p]])]
  /\ inflight' = [inflight EXCEPT ![p] = Header]
  /\ Enter(p, "syncing")
  /\ UNCHANGED <<path, created, content, owner, fd, pending, index, nextID, ghosts, scan>>

\* createAndFlush's sync, then Append indexes the message and syncs again.
FirstSync(p) ==
  /\ phase[p] = "flushed"
  /\ durable' = [durable EXCEPT ![fd[p]] = Len(content[fd[p]])]
  /\ Index(p, inflight[p])
  /\ inflight' = [inflight EXCEPT ![p] = Header]
  /\ Enter(p, "syncing")
  /\ UNCHANGED <<path, created, content, owner, fd, pending, nextID, ghosts, scan>>

\* The first sync failed: Append shortens pending, which createAndFlush has
\* set to nil already, and panics before it indexes the message.
FirstSyncFails(p) ==
  /\ phase[p] = "flushed"
  /\ "sync" \in Faults
  /\ inflight' = [inflight EXCEPT ![p] = Header]
  /\ Enter(p, "ready")
  /\ UNCHANGED <<disk, owner, fd, pending, index, nextID, ghosts, scan>>

\* Append with the file open: write the line, index the entry; a message
\* goes on to the sync when Fsync is set.
AppendLine(p) ==
  /\ phase[p] = "ready"
  /\ nextID \in EntryIDs
  /\ \E e \in NewEntries(p) :
       /\ Write(fd[p], Full(<<e>>))
       /\ Index(p, e)
       /\ IF Fsync /\ e.kind = "message"
          THEN Enter(p, "syncing") /\ UNCHANGED ghosts
          ELSE UNCHANGED phase /\ Acknowledge(p, e)
  /\ nextID' = nextID + 1
  /\ UNCHANGED <<path, created, durable, owner, fd, pending, inflight, scan>>

\* Mutant: the entry is indexed before it is persisted.
AppendLineFails_IndexFirst(p) ==
  /\ phase[p] = "ready"
  /\ "write" \in Faults
  /\ nextID \in EntryIDs
  /\ \E e \in NewEntries(p), left \in {"", "bare", "torn"} :
       /\ Write(fd[p], IF left = "" THEN <<>> ELSE <<Piece(e, left)>>)
       /\ Index(p, e)
  /\ nextID' = nextID + 1
  /\ UNCHANGED <<path, created, durable, owner, phase, fd, pending, inflight, ghosts, scan>>

\* writeLine fails, with some of the line's bytes in the file or none.
AppendLineFails(p) ==
  /\ phase[p] = "ready"
  /\ "write" \in Faults
  /\ nextID \in EntryIDs
  /\ \E e \in NewEntries(p) : \E chunks \in CutShort(Full(<<e>>)) : Write(fd[p], chunks)
  /\ nextID' = nextID + 1
  /\ UNCHANGED <<path, created, durable, owner, phase, fd, pending, index, inflight, ghosts, scan>>

\* The sync at the end of Append; its failure is returned, and the entry
\* stays written and indexed.
SyncLine(p) ==
  /\ phase[p] = "syncing"
  /\ durable' = [durable EXCEPT ![fd[p]] = Len(content[fd[p]])]
  /\ Owe(p)
  /\ Enter(p, "ready")
  /\ UNCHANGED <<path, created, content, owner, fd, pending, index, inflight, nextID, scan>>

SyncLineFails(p) ==
  /\ phase[p] = "syncing"
  /\ "sync" \in Faults
  /\ Enter(p, "ready")
  /\ UNCHANGED <<disk, owner, fd, pending, index, inflight, nextID, ghosts, scan>>
----------------------------------------------------------------------------
(* OpenJSONL                                                               *)

OpenFile(p) ==
  /\ phase[p] = "none"
  /\ path # NoFile
  /\ fd' = [fd EXCEPT ![p] = path]
  /\ Enter(p, "opened")
  /\ UNCHANGED <<disk, owner, pending, index, inflight, nextID, ghosts, scan>>

\* Mutant: a writer opens without the lock, as a read-only open does.
LockOpened_NoLock(p) ==
  /\ phase[p] = "opened"
  /\ Enter(p, "loading")
  /\ UNCHANGED <<disk, owner, fd, pending, index, inflight, nextID, ghosts, scan>>

\* OpenJSONL's lockFile; refused, the file is closed again.
LockOpened(p) ==
  /\ phase[p] = "opened"
  /\ IF owner[fd[p]] = NoProc
     THEN /\ owner' = [owner EXCEPT ![fd[p]] = p]
          /\ Enter(p, "loading")
          /\ UNCHANGED fd
     ELSE /\ fd' = [fd EXCEPT ![p] = NoFile]
          /\ Enter(p, "none")
          /\ UNCHANGED owner
  /\ UNCHANGED <<disk, pending, index, inflight, nextID, ghosts, scan>>

\* Mutant: the partial tail is skipped but stays in the file.
Load_NoTruncate(p) ==
  /\ phase[p] = "loading"
  /\ Readable(content[fd[p]])
  /\ index' = [index EXCEPT ![p] = Loaded(content[fd[p]])]
  /\ Enter(p, "ready")
  /\ UNCHANGED <<disk, owner, fd, pending, inflight, nextID, ghosts, scan>>

\* load, with the lock held: index the entries, repair the tail.
Load(p) ==
  /\ phase[p] = "loading"
  /\ Readable(content[fd[p]])
  /\ content' = [content EXCEPT ![fd[p]] = Recovered(@)]
  /\ durable' = [durable EXCEPT ![fd[p]] = IF @ < Kept(content[fd[p]]) THEN @ ELSE Kept(content[fd[p]])]
  /\ index' = [index EXCEPT ![p] = Loaded(content[fd[p]])]
  /\ Enter(p, "ready")
  /\ UNCHANGED <<path, created, owner, fd, pending, inflight, nextID, ghosts, scan>>

\* load fails on a file it cannot read, or whose tail it cannot repair.
LoadFails(p) ==
  /\ phase[p] = "loading"
  /\ \/ ~Readable(content[fd[p]])
     \/ "write" \in Faults /\ Recovered(content[fd[p]]) # content[fd[p]]
  /\ LetGo(p)
  /\ Enter(p, "none")
  /\ UNCHANGED <<disk, pending, index, inflight, nextID, ghosts, scan>>

\* OpenJSONL, read-only: the path is opened, and no lock is taken.
OpenReadOnly(p) ==
  /\ phase[p] = "none"
  /\ path # NoFile
  /\ fd' = [fd EXCEPT ![p] = path]
  /\ index' = [index EXCEPT ![p] = <<>>]
  /\ scan' = [scan EXCEPT ![p] = Start]
  /\ Enter(p, "reading")
  /\ UNCHANGED <<disk, owner, pending, inflight, nextID, ghosts>>

\* The rest of the file, from the chunk that p is about to read or has begun.
Ahead(p) == SubSeq(content[fd[p]], scan[p].at + 1, Len(content[fd[p]]))

\* A writer has repaired the file since p began the line, and cut it off.
Overtaken(p) == /\ scan[p].begun # NoLine
                /\ Ahead(p) # <<>> => Head(Ahead(p)).entry # scan[p].begun.entry

\* loadLine: the first line is the header, and every other an entry.
Takes(p, e) == IF scan[p].at = 0 THEN UNCHANGED index ELSE Index(p, e)

\* A read brings the end of the next line.
ReadLine(p) ==
  /\ phase[p] = "reading"
  /\ Ahead(p) # <<>>
  /\ ~Overtaken(p)
  /\ Head(Ahead(p)).part = "full"
  /\ Takes(p, Head(Ahead(p)).entry)
  /\ scan' = [scan EXCEPT ![p].at = @ + 1, ![p].begun = NoLine]
  /\ UNCHANGED <<disk, owner, phase, fd, pending, inflight, nextID, ghosts>>

\* A read ends inside the next line: the buffer is full, or a writer has
\* written no more of it yet, or will never.
ReadPart(p) ==
  /\ phase[p] = "reading"
  /\ Ahead(p) # <<>>
  /\ ~Overtaken(p)
  /\ scan[p].begun.part # "bare"
  /\ \E part \in {"torn", "bare"} :
       /\ part = "bare" => Head(Ahead(p)).part # "torn"
       /\ scan' = [scan EXCEPT ![p].begun = Piece(Head(Ahead(p)).entry, part)]
  /\ UNCHANGED <<disk, owner, phase, fd, pending, index, inflight, nextID, ghosts>>

\* A read goes on where the line that was begun is no longer: either the new
\* line begins with the same bytes, or the bytes begun are joined to the end
\* of a line k further on, and that may read as an entry.  Texts are left out,
\* so what tells it from the entry cut off is only that no file has it.
ReadSplice(p) ==
  /\ phase[p] = "reading"
  /\ Overtaken(p)
  /\ Ahead(p) # <<>>
  /\ \/ /\ scan[p].begun.part = "torn"
        /\ scan' = [scan EXCEPT ![p].begun = Piece(Head(Ahead(p)).entry, "torn")]
        /\ UNCHANGED index
     \/ \E k \in DOMAIN Ahead(p) :
          /\ Ahead(p)[k].part # "torn"
          /\ Takes(p, scan[p].begun.entry)
          /\ scan' = [scan EXCEPT ![p] = [at |-> @.at + k, begun |-> NoLine, spliced |-> TRUE]]
  /\ UNCHANGED <<disk, owner, phase, fd, pending, inflight, nextID, ghosts>>

\* A read finds nothing more, and the line begun has all but its newline.
AtEOF(p) == /\ Whole(Ahead(p)) = {}
            /\ Ahead(p) # <<>> => Overtaken(p) \/ Head(Ahead(p)) = scan[p].begun
LastParses(p) == scan[p].begun.part = "bare" /\ Len(Ahead(p)) <= 1

\* Mutant: the partial last line is shown too.
ReadEnd_ShowsTail(p) ==
  /\ phase[p] = "reading"
  /\ AtEOF(p)
  /\ scan[p].at > 0 \/ LastParses(p)
  /\ IF scan[p].begun # NoLine THEN Takes(p, scan[p].begun.entry) ELSE UNCHANGED index
  /\ scan' = [scan EXCEPT ![p] = [Start EXCEPT !.spliced = scan[p].spliced \/ (LastParses(p) /\ Overtaken(p))]]
  /\ Enter(p, "reader")
  /\ UNCHANGED <<disk, owner, fd, pending, inflight, nextID, ghosts>>

\* The end of a read-only load: a partial last line is left alone.
ReadEnd(p) ==
  /\ phase[p] = "reading"
  /\ AtEOF(p)
  /\ scan[p].at > 0 \/ LastParses(p)
  /\ IF LastParses(p) THEN Takes(p, scan[p].begun.entry) ELSE UNCHANGED index
  /\ scan' = [scan EXCEPT ![p] = [Start EXCEPT !.spliced = scan[p].spliced \/ (LastParses(p) /\ Overtaken(p))]]
  /\ Enter(p, "reader")
  /\ UNCHANGED <<disk, owner, fd, pending, inflight, nextID, ghosts>>
----------------------------------------------------------------------------
(* Close, and the death of processes.                                      *)

Forget(p) ==
  /\ pending' = [pending EXCEPT ![p] = <<>>]
  /\ index' = [index EXCEPT ![p] = <<>>]
  /\ inflight' = [inflight EXCEPT ![p] = Header]
  /\ scan' = [scan EXCEPT ![p] = Start]
  /\ Enter(p, "none")

\* A read-only load fails: a complete line does not parse, or the file ends
\* without a header.
ReadFails(p) ==
  /\ phase[p] = "reading"
  /\ \/ /\ Whole(Ahead(p)) # {}
        /\ Overtaken(p) \/ Head(Ahead(p)).part # "full"
     \/ /\ scan[p].at = 0
        /\ AtEOF(p)
        /\ ~LastParses(p)
  /\ LetGo(p)
  /\ Forget(p)
  /\ UNCHANGED <<disk, nextID, ghosts>>

\* jsonlStore.Close; entries still pending are dropped with the session.
Close(p) ==
  /\ phase[p] \in {"deferred", "ready", "reader"}
  /\ LetGo(p)
  /\ Forget(p)
  /\ UNCHANGED <<disk, nextID, ghosts>>

\* kill -9 at any point; the process may open the session again.
Kill(p) ==
  /\ "kill" \in Faults
  /\ phase[p] # "none"
  /\ LetGo(p)
  /\ Forget(p)
  /\ UNCHANGED <<disk, nextID, ghosts>>

\* kill -9 inside a write: the bytes so far are in the file.
KillInWrite(p) ==
  /\ "kill" \in Faults
  /\ \/ /\ phase[p] = "locked"
        /\ \E chunks \in CutShort(FirstLines(p)) : Write(fd[p], chunks)
        /\ UNCHANGED nextID
     \/ /\ phase[p] = "ready"
        /\ nextID \in EntryIDs
        /\ \E e \in NewEntries(p) : \E chunks \in CutShort(Full(<<e>>)) : Write(fd[p], chunks)
        /\ nextID' = nextID + 1
  /\ LetGo(p)
  /\ Forget(p)
  /\ UNCHANGED <<path, created, durable, ghosts>>

\* The machine stops: every process dies, and the file at the path keeps
\* what was synced and any part of what was written after it.  Only synced
\* entries are owed from here on.
PowerLoss ==
  /\ "power" \in Faults
  /\ IF path = NoFile THEN UNCHANGED content
     ELSE LET onDisk == SubSeq(content[path], 1, durable[path])
              rest == SubSeq(content[path], durable[path] + 1, Len(content[path]))
          IN  \E kept \in {rest} \cup CutShort(rest) :
                content' = [content EXCEPT ![path] = onDisk \o kept]
  /\ owner' = [f \in Files |-> NoProc]
  /\ fd' = [p \in Procs |-> NoFile]
  /\ pending' = [p \in Procs |-> <<>>]
  /\ index' = [p \in Procs |-> <<>>]
  /\ scan' = [p \in Procs |-> Start]
  /\ inflight' = [p \in Procs |-> Header]
  /\ phase' = [p \in Procs |-> "none"]
  /\ owed' = synced
  /\ UNCHANGED <<path, created, durable, nextID, synced>>

Step(p) ==
  \/ AppendDeferred(p)
  \/ CreateFile(p)
  \/ LockCreated(p)
  \/ FirstWrite(p)
  \/ FirstWriteFails(p)
  \/ RemoveFile(p)
  \/ FirstSync(p)
  \/ FirstSyncFails(p)
  \/ AppendLine(p)
  \/ AppendLineFails(p)
  \/ SyncLine(p)
  \/ SyncLineFails(p)
  \/ OpenFile(p)
  \/ LockOpened(p)
  \/ Load(p)
  \/ LoadFails(p)
  \/ OpenReadOnly(p)
  \/ ReadLine(p)
  \/ ReadPart(p)
  \/ ReadSplice(p)
  \/ ReadEnd(p)
  \/ ReadFails(p)
  \/ Close(p)
  \/ Kill(p)
  \/ KillInWrite(p)

Next == PowerLoss \/ \E p \in Procs : Step(p)

Spec == Init /\ [][Next]_vars
----------------------------------------------------------------------------
\* The types of the disk, of the locks and of each process's store.
TypeOK ==
  /\ path \in Files \cup {NoFile}
  /\ created \in 0 .. MaxFiles
  /\ content \in [Files -> Seq(Chunk)]
  /\ durable \in [Files -> Nat]
  /\ owner \in [Files -> Procs \cup {NoProc}]
  /\ phase \in [Procs -> Phases]
  /\ fd \in [Procs -> Files \cup {NoFile}]
  /\ pending \in [Procs -> Seq(Entry)]
  /\ index \in [Procs -> Seq(Entry)]
  /\ inflight \in [Procs -> Entry \cup {Header}]
  /\ nextID \in 1 .. (MaxEntries + 1)
  /\ owed \subseteq EntryIDs
  /\ synced \subseteq EntryIDs
  /\ scan \in [Procs -> [at : Nat, begun : Chunk \cup {NoLine}, spliced : BOOLEAN]]

\* Whoever is about to write a file, or may at any time, holds its lock: the
\* deferred create, the open, the undo and every death keep it so.
WritersHoldLock ==
  \A p \in Procs : phase[p] \in Locking =>
                      fd[p] \in Files /\ owner[fd[p]] = p

\* Two processes never write one file at a time (lock.go, session locking of
\* README.md:19).
WritersExclude ==
  \A p, q \in Procs : /\ phase[p] \in Locking
                      /\ phase[q] \in Locking
                      /\ fd[p] = fd[q]
                      => p = q

\* Whatever fails, an entry on disk hangs from an entry that is on disk
\* before it ("later appends would chain off an entry a reload will never
\* see", store.go:67).
ChainOnDisk ==
  \A f \in Files : \A i \in Whole(content[f]) :
    LET e == content[f][i].entry
        Before(id) == \E j \in Whole(content[f]) :
          /\ j < i
          /\ content[f][j].entry.id = id
          /\ content[f][j].entry.kind \notin OffChain
    IN  e # Header => /\ e.parent = Root \/ Before(e.parent)
                      /\ e.kind = "leaf" => Before(e.target)

\* Between calls the tree in memory is the one a reload would rebuild from the
\* file (store_test.go TestReloadRebuildsTree).
MemoryMatchesDisk ==
  \A p \in Procs : phase[p] \in {"ready", "syncing"} =>
    /\ Readable(content[fd[p]])
    /\ index[p] = Loaded(content[fd[p]])

\* The entries a fresh open of the path would find.
SessionLogNow == IF path # NoFile /\ Readable(content[path]) THEN Loaded(content[path]) ELSE <<>>

\* No acknowledged entry is lost: a fresh open of the path finds it ("a kill
\* -9 mid-write is recovered on load", README.md:247), and what a sync covered
\* survives the machine too, with what precedes it (storage.go:25).
OwedSurvive == owed \subseteq Ids(SessionLogNow)

\* A read-only store shows the beginning of the session, and so far does one
\* that is still reading: nothing it shows is gone from a later open, whatever
\* is appended or repaired between its reads, unless it has joined what it had
\* of a line that a repair cut off to bytes written later (loader.go:77).
ReaderSeesPast ==
  \A p \in Procs : phase[p] \in {"reading", "reader"} /\ ~scan[p].spliced =>
    /\ Len(index[p]) <= Len(SessionLogNow)
    /\ index[p] = SubSeq(SessionLogNow, 1, Len(index[p]))

\* What the journal of the replay says of a read-only open: "no flock, no
\* truncate, safe concurrent access" (260605-phase-13-observability-replay.md:26),
\* that is: whatever it shows is in the session.
ReadersShowSession ==
  \A p \in Procs : phase[p] = "reader" => Ids(index[p]) \subseteq Ids(SessionLogNow)

\* The store implements the promise of SessionLog.
Log == INSTANCE SessionLog WITH log <- SessionLogNow, promised <- owed, kept <- synced
ImplementsLog == Log!Spec
=============================================================================
