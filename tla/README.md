# TLA+ models of mixi-agent

`mixi` is a coding agent in one Go binary: it keeps a conversation in a session
file, streams turns from a model provider, runs the tools the model asks for
under a permission engine, compacts what the model is shown, and takes further
tools from MCP servers and extensions. These modules model the parts of it whose
correctness depends on order, failure or boundaries. TLC checks them on small
instances and TLAPS proves central invariants for all.

Paths below are under `src/internal/` unless they begin with `cmd/`.

## The system

| Part | State | Operations | Hard because |
| --- | --- | --- | --- |
| session tree (`session/tree.go`, `memstore.go`) | entries by identity and in order, current leaf | Append, SetLeaf, PathToRoot, CommonAncestor, Fork | leaf kept incrementally, recomputed on reload; SetLeaf validates and appends under two locks |
| session store (`session/store.go`, `loader.go`, `lock.go`) | file, flock, deferred lines, index | NewJSONL, Append, OpenJSONL, Close | crashes inside writes, two processes, failing writes and syncs, deferred creation |
| agent run (`agent/agent.go`, `loop.go`, `queue.go`, `retry.go`) | running flag, context, conversation, two bounded queues, the loop's locals | Prompt, Continue, Steer, FollowUp, Abort, the loop | callers race the loop; aborts, retries and compaction retries of half-done turns; panics |
| tool dispatch (`agent/toolexec.go`, `hooks.go`) | one batch: jobs and results | prepare, invoke, finish | one goroutine per tool, results in source order, abort at any point |
| request projection (`agent/messages.go`, `ai/anthropic/convert.go`) | none | ToLLM, convertMessages | histories of broken-off turns must still pair every call with a result |
| provider stream (`ai/anthropic/`, `ai/partialjson/`) | channel, tracker's blocks, retry counts, a call's input so far | Stream, emit, startBlock, deltaBlock, stopBlock, ParsePartial | a goroutine over a bounded channel, two layers of retries, aborts; inputs cut anywhere |
| event bus (`agent/events.go`) | subscribers, bounded channels | Publish, Subscribe, cancel, CloseAll | slow consumers, drop policy, disconnection under a publisher's wait |
| permissions (`perm/`) | mode, rules, grants | Decide, Ask, SetMode | asks wait on a user while the run is aborted; the mode changes without a lock |
| terminal UI (`tui/`) and modes (`modes/`, `cmd/mixi/`) | running, modal, queue of asks, context of the run | submit, interrupt, modal keys, quit, bridge, runDoneMsg | asks come by the bus and the end of a run by a goroutine of its own |
| tools: files (`tools/mutqueue.go`, `write.go`, `edit.go`, `editmatch.go`) | lock table with reference counts | lock, write, edit, matchEdits, applyEdits | parallel calls on paths that appear while they wait; several replacements with shifting offsets |
| tools: shell (`tools/bash.go`, `bash_bg.go`, `job_table.go`, `accumulator.go`, `procgroup_unix.go`) | process group, rolling tail, spill file, cursor, job table | bash, bash_output, kill_bash, KillAll | output that outgrows memory while it is read; kills that meet exits |
| compaction (`compact/`) and builder (`workset/builder.go`) | mirror of the conversation, covered prefix, flags | OnMessage, BeforeRequest, AfterTurn, overflow, /compact, LoadHistory | indices mapped between session and conversation; compactions overlap |
| working set (`workset/workset.go`) | a stamp per file, dirty flag | ObserveRead, ObserveWrite, Stale, Snapshot, Restore | parallel observers, files changed by others between access and stat |
| MCP (`mcp/client.go`, `manager.go`, `supervisor.go`, `stdio.go`) | per server: state, client, catalog, strikes; per client: pending calls | Start, supervise, call, relist, Reconnect, Close | server crashes, hangs and changes; timeouts race answers; Close races Reconnect |
| extension host (`ext/`) | per extension: process, queue, pending answers, strikes; the tool registry | deliverBlocking, enqueue, drain, adopt, runOnce, Bind, Close | late answers, restarts, overflow, parallel handshakes, Bind against everything |
| schemas, configuration, logging, prompts, line framing | - | - | parsing and rendering, sequential |

How they interact: the UI starts `Agent.Prompt` in a goroutine. The loop calls
the provider through a channel, tools through goroutines, permissions and
extensions through filters, and gives every message to `Hooks.OnMessage`, which
is the compaction controller's mirror and the session store's Append. Compaction
shortens what the loop sends through `TransformContext`, where the builder also
asks the working set what has changed. The event bus carries events to the TUI,
the printers and the extension host, and permission asks to the TUI, which
answers on a channel of the ask. MCP and extension tools appear in the tool
registry and are called by the loop. One store is used by several goroutines,
one session file by several processes.

What makes each part correct is stated in the modules' properties; the hazards
in `PROJECT.json` name the lines where each could go wrong.

## Modules

| Module | Models | Run |
| --- | --- | --- |
| `SessionIndex`, `SessionTree` | `tree.go` and Fork's copy on a log of entries; the in-memory tree and its callers | `turn` |
| `SessionStore`, `SessionLog` | the JSONL store, one system call per step, several processes; what a session promises (abstract) | `store_*` |
| `AgentLoop` | Agent, runLoop, retries, tool batches, queues, request projection | `agent_loop`, `agent_panic` |
| `ModelStream` | streamTurn and pumpStream over the provider's goroutine | `turn` |
| `FileMutation` | write and edit under per-file locks | `turn` |
| `Jobs` | one shell command, foreground or background | `turn` |
| `Compaction` | the controller, the planning of cuts, the builder's projection | `context` |
| `WorkingSet` | the stamp of one file | `context` |
| `PartialJSON` | ParsePartial of a call's input as it arrives | `context` |
| `EditText` | the text of an edit: matching, overlaps, replacing, line ends | `context` |
| `EventBus` | the bus, with print mode's consumer | `event_bus` |
| `Permission`, `Frontend` | the decision of a call; the UI and the runs around it | `frontend` |
| `McpServer` | one supervised MCP server, its client, the manager's operations | `mcp_server` |
| `ExtHost` | the host with several extensions | `ext_host` |
| `SessionTree_proofs`, `SessionStore_proofs`, `Turn_proofs`, `EventBus_proofs`, `McpServer_proofs`, `ExtHost_proofs`, `AgentLoop_proofs`, `Frontend_proofs` | theorems | - |
| `MC*` | values for TLC; `MCTurn` and `MCContext` put modules that share no state side by side, one per behaviour (`scene`) | - |

Definitions named `X_Something` next to a definition `X` are mutants: `X` as a
plausible bug would have it. No specification uses them; each makes one
property of a run fail, which shows that the property speaks about the code.

### SessionIndex and SessionTree

A log is a sequence of entries `[id, parent, kind, target]`; entry kinds that
the tree treats alike share a name ("twig" for labels and session names,
"chain" for on-chain entries other than messages). `LeafOf` is the replay load
does, `Moved` the incremental update of `index.add`. `AppendEntry` is
`memStore.Append`; `SetLeaf` is two actions, because it drops the mutex between
validation and append. Identities are counters: `newEntryID` draws from the
random tail of a UUID and checks for collisions, which the counter abstracts to
"fresh", and the mutant `Filled_Collides` takes back. `jsonlStore` shares
`SetLeaf`'s shape, so the result covers it too.

### SessionStore and SessionLog

The file at the path is a sequence of chunks, one per line somebody tried to
write: "full", "bare" (only the newline is missing) or "torn". A chunk that
follows one that is not full is glued to it and becomes part of the same line
for the loader, which makes `Readable` and `Kept` short. `phase` is the place
of each process in `createAndFlush`, `Append`, `OpenJSONL` or none of them. Each
system call is an action, except that a load under the lock reads in one step,
since nobody else writes then; and so is each failure:

- `Kill` and `KillInWrite`: the process dies between calls or inside a write,
  any prefix of which is in the file. Its lock goes with it.
- `PowerLoss`: the machine stops; what no sync covered is lost from the end of
  the file, at any byte.
- `AppendLineFails`, `FirstWriteFails`: a write reports an error after any part
  of its bytes; `FirstSyncFails`, `SyncLineFails`: a sync does.

A read-only open takes no lock, so its reads are steps of their own (`ReadLine`,
`ReadPart`, `ReadEnd`, `ReadFails`), and writers truncate, repair and append
between any two. `scan` is where it stands: the lines behind it, and what it has
of the next one. A read may end anywhere inside a line. When a writer has cut
off a line the reader had begun (`Overtaken`), `ReadSplice` is what follows: the
read goes on at its old offset, either inside a line that begins with the same
bytes, or joining what it had to the end of another line. Entries begin alike
and have identities and times of one length, so such a line may parse; `spliced`
remembers that one did.

Files are numbered because `os.Remove` after a failed first write unlinks the
path while another process may hold the file open. Directory entries are taken
to be durable with the file, and a process opens a session one at a time.

`owed` and `synced` are history: the identities in the index when Append
returned nil, and when it returned nil after a sync. `SessionLog` states the
promise: the log grows at its end with chained entries, and never loses an
entry it owes, where a power loss leaves only the synced ones owed.
`ImplementsLog` is the refinement: the log is what a fresh open would find.

### AgentLoop

The conversation is `messages \o newMsgs`. `pc` follows runLoop: `inject`,
`stream`, `sleep` (the retry delay), `tools`, `turnEnd`, `ended`. A stream ends
in any way a provider's can: done with 0..MaxCalls calls, an error of each class
`classifyError` tells apart, with content shown or not, or on a cancelled
context. A failed reply may hold calls nobody will run ("failed") or be empty
("blank"); `WireOf` is what `convertMessages` does about them. A batch is
sequential or parallel; each call is prepared in source order, invoked and
finished by a step of its own, so parallel calls end in any order. `Inject` takes
the prompt, the follow-ups and the drained steering in one step: what arrives
between the two calls in the code is as if it came before or after.
`LoopPanics` exists only in `SpecPanicking`, the specification of run
`agent_panic`. TransformContext is the identity here (it is Compaction's), the
overflow hook succeeds or fails freely, and the inside of a stream is
ModelStream's.

### ModelStream and PartialJSON

`ModelStream` opens one turn. The server's answer is a sequence of blocks, some
of a kind the tracker does not know, whose pieces arrive as events; it may end
early, fail, or fall silent. The provider's goroutine connects (with its HTTP
retries), folds events into `tracker`, and puts snapshots into a channel of room
`Cap`; `Loop` is pumpStream with the retries of streamTurn above it. `view` is
what a consumer of the events has been shown. Prices, usage and the lines of the
SSE format are left out; the server sends one block after another.

`PartialJSON` is an algorithm on sequences of byte classes: `Repair`, `complete`
(the recursive-descent parser of `partial_json.go`) and `Valid`, which stands for
`json.Valid`. Each is a recursive function of places, and what it does at one
place is an operator of its own (`RepairFrom`, `valueFrom` and `itemsFrom`,
`ValueEndFrom` and `ItemsEndFrom`). The input arrives a byte at a time, so every
cut is reached. `DocsAssumption` says what a model sends: an object, malformed
in its strings at most, which is what `repair.go:3` is for. Nothing is claimed of
other garbage, for which `{}` may be shown.

### FileMutation and EditText

`FileMutation`: paths are missing, files or links, a file's text is the sequence
of mutations it shows. Each call takes `mutKey`, registers with an entry,
acquires it, reads, writes and releases, a step each, and a write may fail.
Matching is a choice there; `EditText` is the text itself, as classes of
characters that normalization and line ends tell apart, a CR LF being two of
them. `stripLineFormat`, `matchEdits`, `validateOverlaps`, `applyEdits` and
`restoreLineFormat` are the code's, while the property compares their result
with the replacement of all edits at once (`editedAt`), at places it looks for
by itself.

### Jobs

One command in the foreground or as a job. `acc` is the accumulator with its
rolling tail, the spill file and `fileErr`; `job.cursor` is what bash_output has
passed; calls of bash_output and kill_bash run beside it, and KillAll at the
end. A group may ignore SIGTERM; a process may leave it and hold the pipes.

### Compaction and WorkingSet

`Compaction`: the session's path is a sequence of entries, the controller's
`mirror` a sequence of messages with the entries they became, and `builder` what
the summary covers and how many messages it hides. OnMessage is two halves (the
append, then the mirror), a compaction three (plan, append, install), and
/compact runs beside the loop's own. An estimate is one unit per message, and
"over the threshold" a choice. `Restart` is LoadHistory on the path.

`WorkingSet` is one file's stamp: reads and writes observe it in two steps (stat,
then record), Stale in three, and a user changes, touches or removes the file at
any time. `slipped` is history: a change fell between an access and its stat.

### EventBus

A publisher takes its snapshot, delivers to each subscriber under that
subscriber's lock, and keeps the lock only over the grace period; it then cuts
the subscriber in two steps, as cancel does. `Printer` is print mode's consumer,
others may stall for ever. `last` is history: the last lifecycle event of each
publisher a subscriber was due.

### Permission and Frontend

A call is what decides it: its category, the rule lists that match it, whether
it is dangerous or suspicious, the grant "always" would leave and the grants
that cover it. `mode` has two words, as Go's strings do: a read between the two
writes of a switch sees neither mode. `Screens` and `Default` are the engine's
two looks at it. The asker is the UI's, or print mode's, which answers at once.
`Frontend` composes it with the runs: `Submit`, `Interrupt`, `Quit`, the modal
and the asks behind it, and the two ways news comes back, the bus (`bus`) and
runDoneMsg (`returns`).

### McpServer

One server: the supervisor's place (`sup`), its strikes, `server.state`,
`client` and `current`, and each connection it ever opened with its pending
calls. The server process answers requests in any order, changes its catalog (a
number) with a `list_changed`, and exits at any time. A connection and its
process end apart: `conns` says which connections are open, `running` which
processes live. `ConnectionEnds` is EOF on the server's output, which a server
that closes its output gives and lives on; only the transport's Close kills it
(`Killed`), and the supervisor calls it when the handshake fails, when the
manager closes and when a connection is lost (`ReadyLost`). What Close's
escalation does in its graces, and a process that SIGKILL does not end, are left
out. Initialize and ListTools are one request. `HandshakeDone` and
`AdoptAndReady` are separate because relists may use the client between them.
`callTool` and `relist` read the client under the server's lock and send later.
Reconnect is split at its check of the context. `leaving` counts supervisors
that have ended their loop and not yet called `wg.Done`. Timeouts are
nondeterministic: they may fire whenever the code has a timer.

### ExtHost

Extensions are numbered as in `h.order`. `sup` is the place of each supervisor in
runOnce, `proc` and `inc` the processes they started. A request (the gate or a
tool call) is registered in `pending` and answered, timed out, aborted or failed;
`queue` holds events, and a drain takes what it finds, without the lock. An
enqueue is the three selects of `extension.go:170`: `TrySend`, and when the queue
is full `PopOldest` and `PushNewest`, with `enqueuing` as the mutex that keeps
other enqueues out (`Locked`) while drains go on. Its callers look first and
enqueue later: runOnce at `h.api`, fanOut at the state. A process may close its
output and live on (`ClosesOutput`), until stopProc kills it. `binding` is Bind's
progress. `Scenes` are bounds: each says which extensions, requests and stimuli
a behaviour has, so that every pair of hazards meets in some scene.

## Runs

| Run | Instance | States | Shows |
| --- | --- | --- | --- |
| `store_crash` | 2 processes, 4 entries, 1 file, kills and power loss, Fsync on | 76 k | memory equals disk between calls, readers see a prefix unless they spliced a line, refinement of SessionLog (nothing owed is lost) |
| `store_faults` | 2 processes, 3 entries, 2 files, kills, failing writes and syncs | 483 k | writers of one file exclude each other; what is on disk hangs together |
| `agent_loop` | 2 runs, 3 inputs, 2 self-ending streams, batches of up to 2, queue capacity 2, cap of 2 turns, 1 retry | 236 k | no input lost, doubled or reordered; results in source order, one per call; requests paired; done means answered; an aborted run ends |
| `mcp_server` | 1 strike allowed, 1 call, 1 change, 1 reconnect, 1 stable connection | 438 k | no stranded call, channels of capacity one never block, one connection and one process and neither after Close, Close and WaitInitial return |
| `ext_host` | 2 extensions, 2 requests, queue and buffer of 1, 1 strike, one backoff | 730 k | answers go to their own request, nobody waits on a dead process, a queue loses its oldest events only and counts them, the action buffer loses only what it may, tool owners do not depend on timing, Close leaves nothing |
| `event_bus` | 2 publishers (2 and 1 events), 2 subscribers, channels of 1 | 451 k | lifecycle events whole or the channel ends; every Publish and cancel returns, print mode too |
| `frontend` | 2 runs, 2 calls out of 7 kinds, 2 mode changes, print mode or the UI | 1.1 M | nothing is allowed that neither policy nor user allowed; every prompt gets its run and its end |
| `turn` | an answer of 3 blocks of 2 pieces with a retry of each layer; 3 mutations of 2 files; a command of 4 pieces with 2 calls; 2 callers of a tree of 5 entries | 453 k | what was shown is what is kept, turns and kills end, no edit is lost, output is shown once and in order; the tree stays chained, the leaf is its replay, common ancestors are branch points, forks keep the conversation |
| `context` | a path of 7 entries, 2 kept; 2 batches of 2 tools and 2 changes of a file; inputs of up to 2 members; files of 3 characters, with LF, with CR LF and with both, and 2 edits | 2.0 M | what a request leaves out is covered, calls keep their results, changes are noticed, inputs and edits come out right |
| `store_glue` | violation | | a short write poisons the session |
| `store_reader` | violation | | a reader without a lock shows a line no file has |
| `agent_panic` | violation | | EvAgentEnd misses what a panicking run recorded |

Bounds. Five entries give two branches with a leaf move between them and
appends on both, and a fork in each position. Four appends give a deferred
entry, a first message, a torn one and the one that follows the recovery. A
second process suffices for lock and reader interleavings since each pair of
processes is symmetric; two files are needed for the unlink. In the agent, three
inputs overfill a queue of two; two runs let a leftover steer and a broken-off
turn be seen by the next run; a batch of two is the smallest with an order; the
stream bound counts only streams that end by themselves. In MCP, one strike and
its excess exercise both sides of the limit, one reconnect the second
supervisor, one stable connection the reset. In the host, two extensions order
the handshakes, and a queue and a buffer of one overflow with two events. In the
bus, a channel of one is full after one event, and two publishers wait in turn
for one subscriber. In the UI, two runs let the return of the first meet the
second, and two calls let a stale modal cover the next ask. Three blocks put an
unknown one between two known ones. Three mutations of two files have one that
waits for an entry while another drops it. A command of four pieces with one
shown at a time overflows the tail, spills and is read on both sides of the
spill. A path of seven entries holds two compactions with a call and its result
between them. Arguments reach nested arrays and objects with every class of
escape; files of three characters hold two edits that touch each other, with
lines that all end in LF or all in CR LF, and some more files have both, or a CR
of its own; a newText may bring a CR LF.

Deadlock checking is off everywhere: all of these systems may rest (an idle
agent, a closed store, a closed manager), and a bound ends every behaviour.

Fairness. `AgentLoop` assumes weak fairness of the loop's steps only while its
context is cancelled: then providers, tools, filters and sleepCtx return because
they watch the context. A tool that ignores its context would break it. Nothing
is assumed of a run that is not aborted. `ModelStream` assumes that goroutines
run and that a request with an ended context fails, and of the server nothing:
it may be silent until the abort. `Jobs` assumes that timers fire, pipes that
are closed end, and a killed group exits, not that a command ends. `McpServer`
assumes fairness of the supervisor, whose waits all have a timer or watch the
manager's context; `ExtHost` of supervisors, of the killers (kill after a grace
time), of fanOut and of the steps of an enqueue; neither assumes anything of the
child process. `EventBus` assumes that a Publish and a cancel that began go on,
that a grace period ends, and that print mode's consumer reads; other consumers
may stall for ever.
`Frontend` assumes the agent and the UI go on, and that the user answers what is
shown: there is deliberately no timeout (`tui/approval.go:22`). The session
modules, `Compaction` and the algorithms have no liveness properties.

## Proofs

`SessionTree_proofs` proves for any callers and any MaxEntries that `TypeOK`,
`TreeChained` and `LeafIsReplay` are invariants. `LeafIsReplay` is not
inductive alone: SetLeaf appends with a target validated earlier, so the
invariant `IInv` adds that every validated target is still on the chain, and a
new entry's parent is on the chain only because the leaf is. The lemmas are
that the replay of an appended log is one incremental move (`LeafOfAppend`,
which needs that a finite set of positions has a greatest, `MaxExists`), and
that appending a chained entry keeps a log chained (`ChainGrows`).

`AncestorIsBranchPoint` and `ForkKeepsConversation` follow from `IInv` with facts
about paths in a chained log. The walk from an entry to its root is a recursive
function, and what it computes is had by an induction of its own over
positions: a set of naturals below a bound has a least element, so what holds at
the first position and goes on from the earlier to the next holds at each
(`UpTo`). It makes a path the only sequence that begins at an entry without a
parent, goes from parent to child and ends at the given entry (`IsPath`,
`PathUnique`). So the part of a path up to an entry is that entry's path
(`PathOfPart`), two paths agree up to a last common entry and nowhere after it,
and what a fork copies is a path in the new log.

`SessionStore_proofs` proves `WritersExclude` for any processes, files, entries
and faults. The strengthening is `LockInv`: the types of the locks, phases and
descriptors, and `WritersHoldLock`, that whoever may write a file holds its
lock. Mutual exclusion follows because a lock has one owner. Steps fall into
groups (phase moves, taking a lock, letting go, opening, being refused) with a
lemma each.

It also proves `ChainOnDisk`, under every fault. That an entry on disk hangs from
an earlier one on disk is not inductive: the entry came from a tree in memory,
which may be ahead of the file. `DiskInv` adds what memory may rely on: before
the first write the tree is what is pending, and chained; from then on every
on-chain entry of the tree, and every leaf target in it, itself stands in the
file (`StoreSupported`). It speaks of the chunks after a broken one
too (`Hangs`), since a power loss or a short write breaks a chunk in the middle
and later appends follow it. A file shrinks only when Load cuts its tail, and
`LockInv` keeps every other store away from it then.

For the rest it assumes `OnlyCrashes`: processes die at any step and the machine
stops, but no write and no sync fails. The assumption is not for convenience:
with a write that stops short, memory and file disagree, and acknowledged
entries are lost (`store_glue`, the first of the known disagreements). Under it,
`MemoryMatchesDisk`, `OwedSurvive`, `ReaderSeesPast` and the refinement
`ImplementsLog` are proved. The invariant is `CrashInv`: a file is damaged in its
last line at most, what was synced is complete, and only the file at the path is
ever written (`FilesInv`); a store between calls holds exactly its file, and one
that has made its first write holds it but for the message in flight
(`StoreMatches`); what is owed is among the lines a load keeps, and what was
synced among those a sync covered (`GhostsInv`). Each step of a process is shown
to extend what a fresh open finds (`Grows`: the old session is a beginning of
the new one, and a step that syncs changes nothing in it), and a power loss to
leave a beginning of it that has every synced entry (`Shrinks`). With
`DiskStaysChained` these are the steps of `SessionLog`. The same `Grows` keeps
what a reader has read, line by line or whole, a beginning of the session
(`ReaderInv`: what it has behind it are the first lines of its file, and the line
it has begun is the next one or was cut off by a repair), and a kill inside
a write is what makes it more than bookkeeping: the bytes left may or may not
become a line, and the load that repairs them must change nothing that an open
has shown (`CutShown`, `GrownKept`, `RecoveredHolds`).

`Turn_proofs` has a part for each component a turn runs through. It proves
`NoLostEdit` for any calls, paths and texts, on file systems without links
(`Disks \subseteq Plain`, the assumption of its theorems; with links it is
false, see below). The invariant says that an entry's count is the number of its
users (`Counted`), that its users find it in the table under their key
(`InTable`), and that who is past the lock holds it (`Held`); a lock is then
never split (`LocksNotSplit`), and what an edit read is still there when it
writes. Counting needs the cardinality of a set with one element more or less.

`OutputOnce` is proved for any size of a result and any output. Output is
numbered, so what memory and the file hold are runs of numbers: memory has the
end of the output, and since it is cut only beyond twice what a result shows,
all of it or more than a result shows (`AccInv`); the file has the beginning, all
of it while it is written. What is read from a cursor is then either everything
since, or too long for a result, which says so (`DeltaRun`, `ResultFollows`), and
appended to what was shown it leaves no gap untold (`Tells`, `TellsMore`).

`ChangesNoticed` is proved for any number of tools, batches, changes and
restarts. The invariant `SetInv` is about every copy of a stamp there is (the
current one, the saved one, the one a pass of Stale has copied) and every call
between its access and its record: the text of each is one the agent has seen,
and its time is either past for good or the file's, with a text the agent has
seen (`Told`). Times only grow, so a change makes every time told of a past one.

`NothingForgotten` and `PairsKept` are proved for any path, token estimates,
number of calls, failed appends, restarts and compactions, with /compact beside
the loop's. What makes them true is a property of a single cut, not of an order
of compactions: the summary covers every message before the cut, and the first
message from the cut on is no result (`Cut`). `PlanIsCut` shows it of what
planCut returns, from the cut of the last compaction on the path; it stays true
while the path grows (`CutGrows`), so a plan made before another compaction was
appended may still be appended after it. `ContextInv` adds what ties the
controller's mirror to the path: it has the path's messages in order, but for
the one that OnMessage has saved and not mirrored yet (`Mirrored`), and the
builder goes on at a cut of the mirror, or at its end when the message of the
cut is the one under way (`Shows`, `KeptAtCut`). After a restart the mirror is
what LoadHistory's loop takes from the path (`HistoryLoaded`).

`ShownIsKept` is proved for any number of blocks, pieces and retries of either
layer, and any room of the channel. No history of the events is needed: each
event carries a snapshot of the tracker, so it is enough that every event on its
way takes a reader from the snapshot before it to its own (`Chained`), the first
from what the reader has. The tracker has the server's known blocks in order,
and only its last one can grow (`Folded`, which is why an ignored block between
two others does no harm), Done and Error are the last events and carry all of it
(`Ending`), and a turn that is tried again has shown nothing (`TurnPlaced`).

`EditsInPlace` is proved for any file and edits, under its own three conditions:
the file's lines all end alike, no oldText is nothing once normalized, and no
newText brings CR LF into a file that has them. The edits are applied from the
back, so the ones that are in are those from some place of the text on: from there
on the text is what comes out of the pieces between and in the edits, and before it
untouched (`MadeFrom`), which `EditAt` and `NoEditAt` carry one place or one edit
towards the front. That the edits can be applied at all, the recursion over sets
of edits, is an induction over their number (`AppliedExists`). What is taken out
of CR LFs for the matching is what is put back: `LineEndsKept` shows it for every
text whose lines all end alike, one character after the other (`RestoredOfNext`),
from what the library's FlattenSeq makes of pieces (`Flattened`).

`EventBus_proofs` proves the action property `WholeOrCut` for any publishers,
subscribers, capacity and quotas. The invariant relates what each open
subscriber was last given to what each publisher has published: they agree
except for the event that publisher is still bringing round (`Reached`), and a
publisher in its grace period holds the lock without which nobody closes the
channel (`Waiters`), so it cannot send on a closed one. A subscriber that was
cut needs no clause for its gap: its publisher publishes nothing until it has
closed it, which is why the cut is inside Publish.

`McpServer_proofs` proves `NoCallStranded`, `ChannelsNeverFull` and the open
connections of `OneProcess` together as parts of `McpInv`, since each needs the
others; the processes of `OneProcess` follow from it with `Kept`: a process
starts with a connection, where none runs, and the supervisor goes on to the
next connection only through a Close of this one. A call is served or ended
because its connection is either supervised, on its way to being so, or dead
with its calls' ends under way (`Supervised`, `Connected`), and a channel of one
place is never full because whoever waits on it has been given at most one
message (`CallsWait`, and `HandshakeWaits`, `RelistsWait` for the handshake and
the relists). `Bounded` counts connections by the strikes spent, so
`ConnectionsBounded` shows that the model's bound on connections is never what
stops the supervisor: it gives up by itself.

`ExtHost_proofs` has one invariant per mechanism. `QueueInv`: what is queued is
the newest of what was enqueued, the drops account for the rest, and while an
enqueue has popped and not pushed its queue has room, which is why the third
select never refuses (`Keeps`): only drains come between, and they make more.
`Callers`, in `BindInv`: an enqueue under way has its caller waiting. `OwnerInv`:
the owner of a tool is the first offer in the extensions' order among those
whose handshake is done. `BindInv` and `ActsInv`: an extension that serves has
been bound or Bind is still on its way to it, and an action is in one place.
`RequestInv` for `AnswersOwnRequest` and `NoRequestStranded`: the ids in use by a
process are distinct and below its next (`Slots`), so an answer on the pipe has
the request's token or nobody waits for it (`Spoken`), and the
process in use is the one the supervisor's stage says it is (`Procs`), so a
process that ended with requests in its table has failPending before it.

`AgentLoop_proofs` proves `NothingLostOrTwice`, `ResultsPaired`, `MirrorAgrees`
and `DoneMeansAnswered` from `LoopInv`. It adds where a turn's pending messages
may be (`PendingPlaced`), which queue holds which kind (`QueueKinds`), that the
batch in execution is that of the last reply and its results fill in by index
(`BatchInv`), and that a turn about to end by itself has a reply without calls
(`AnswerInv`). Places are counted through sets of positions, not by recursion
over the queues: a message accepted is in one place because every step takes a
prefix from one place and appends it to the next (`TakenAndLeft`, `MovedApart`).

`RequestPaired` is proved for the same runs, for conversations of any length and
calls of any number. `LoopInv` says that replies are followed by their results;
`Answering` adds that every result is one that a reply asked for, so that leaving
out blank replies separates no call from its results (`LLMPaired`). The request
is a concatenation of one or two turns per message. Each piece is paired by
itself (`WirePiece`), and so is what pieces make when put one behind the other:
the lemmas about FlattenSeq find the piece of each position by the same induction
over positions.

`Frontend_proofs` proves `AllowedRightly` for the engine composed with the UI.
The strengthening follows a call through its decision: which mode it read
(`StageInv`), that a reply on its channel is the answer to its own ask
(`ReplyInv`), that grants were given by an answer (`GrantsInv`), and that an ask
is in one place of the UI's line (`LineInv`, listed as `AsksShownOnce`).

Its second part is about what the UI shows of a call that streams:
`ArgumentsFollowText` proves `ArgsFollowText` for arguments of any length and
nesting, cut anywhere. The grammar, the repair and the parser are recursive over
the bytes of a text, and what they compute is had by an induction over places
from the end of the text, written out for sets of numbers (`FromTheEnd`,
`Recursion`). The argument:

- `RepairGrows`: the repair of a beginning is a beginning of the repair of the
  whole, so what is cut can be compared with what will have been sent.
- `Read`: each part of a text that is a beginning of a valid one is, to the
  parser, whole, cut, or not begun; one that is not repaired may also break off
  at a backslash that the repair doubles. `AllAreRead` shows it for every part
  and `WholeIsRead` for the text: the completion is valid, follows what has
  arrived and makes up nothing but null and what closes.
- `ValidIsKept`: Repair leaves what is valid as it is; and completing the text
  before it is repaired is valid only when there is nothing to repair
  (`ValidCompletionIsPlain`). So whichever form ParsePartial takes first, it is
  the completion of the repaired text, or all of it (`FormTaken`, `CutIsShown`).

What the proofs assume is in the modules: bounds are naturals (`MaxCalls` too),
the creator is a process, NoProc is not one, "free" is no publisher, files and
edits are texts (`TextsAssumption`, no more than their types), and
`DocsAssumption`, which restricts the texts of arguments as said above. Every
invariant and every safety property of the passing runs has its theorem. What
stays with TLC are the liveness properties (`AbortEnds`, `WaitsReturn`,
`WaitsEnd`, `EveryoneReturns`, `RunsEnd`, `TurnEnds`, `KillsEnd`): the prover
has no rule for fairness and ENABLED.

## Known disagreements

Where the code and what is said of it part, or a property had to step around a
case. The first three are runs that TLC finds violated.

- `session/store.go:133`: a short write leaves its bytes in the file and the
  next append is glued to them (run `store_glue`).
- `session/loader.go:56`: a read-only open, of replay or of Fork, that has begun
  a torn line when a writer cuts it off joins it to later bytes: it shows an
  entry no file has (run `store_reader`) or refuses a healthy session, where
  replay is said to be safe beside a writer. `ReaderSeesPast` leaves such a
  reader out.
- `agent/agent.go:253`: EvAgentEnd after a recovered panic misses what the run
  recorded, against `events.go:37` (run `agent_panic`).
- `session/store.go:77`: when the first write succeeds and its sync fails, the
  pending slice is already empty: the next step panics, with the message on disk
  and not in the index. `store_faults` therefore does not claim that memory
  equals disk.
- `session/loader.go:60` refuses lines over 10 MiB, which Append may write.
- `mcp/supervisor.go:139`: a list_changed before the client is set is dropped,
  and relists adopted out of order leave an old catalog.
- `mcp/manager.go:185`: Reconnect checks the context before it starts a
  supervisor; after Close it starts one that ends at once (and its wg.Add races
  wg.Wait). `OneProcess` claims only that it starts no process.
- `ai/anthropic/provider.go:99`: emit gives up without any event when the
  context ends, though `ai/events.go:5` promises exactly one terminal event;
  pumpStream makes up an empty aborted message, so an aborted turn may lose text
  it showed.
- A call cut at max_tokens is executed with its input closed up by ParsePartial;
  an input with `\u` and no hex digits turns into `{}` as a whole.
- `tools/edit.go:105`: a file with both kinds of line ends is rewritten with CR LF
  only, where `edit.go:90` speaks of a restoration "byte-exact", and a newText with
  CR LF gets a second CR in a file that has them. An oldText of spaces only is
  nothing after normalization. `EditsInPlace` leaves the three aside.
- `tools/editmatch.go:71`: an oldText must match exactly once (`edit.go:20`), but
  strings.Count does not see matches that overlap, "aa" in "aaa": the first is
  edited, which is what `EditsInPlace` then asks for: a place of the oldText.
- `tools/mutqueue.go:52`: keys resolve links before the lock, and an atomic write
  replaces a link by a file: with links two calls on one file may hold different
  locks, and an edit is lost. `NoLostEdit` is about file systems without links.
- `tools/bash.go:107`: a process that left the group and holds the pipes keeps
  timeouts, aborts and kills waiting; `KillsEnd` excludes it. After a failed spill
  write the file is incomplete and reads of it fail, against
  `accumulator.go:48`. KillAll does not stop a job added later.
- `workset/workset.go:60`: the stat follows the access, and a change in between is
  never noticed; neither is one that keeps time and size. Snapshot clears `dirty`
  before the append that may fail.
- `workset/builder.go` calls its budget hard, and `hooks.go:66` falls back to the
  whole conversation when Build fails. Messages whose append failed are cut
  without being summarized.
- `agent/events.go:217` says publish never blocks unsubscribe: cancel waits for a
  subscriber's lock, which a publisher keeps over its grace period. A cut TUI
  never sees the next permission ask.
- `perm/engine.go:72`: the mode is read and written without a lock. In plan mode a
  write outside the working directory is asked for, and allow rules and grants
  permit writes, though `docs/codebase-summary.md:56` calls plan read-only. The
  properties say what the policy's code says.
- Text submitted after a run's end and before its runDoneMsg is queued for a run
  that is not there. Quitting aborts no run; only the end of the process does.

## Not modelled

Field-by-field encodings (session entries, MCP and extension messages), the SSE
decoder's lines, usage and prices, token estimates and the prose of summaries,
tool-argument schemas, the parsing and matching of permission rules,
configuration, logging, the layout of the UI, read-only tools, line framing and
the system prompt: sequential transformations or I/O, where tests reach further
than these models. Windows locking and process groups, and the creation and
choice of session files by the manager, are file-system I/O. Of the builder,
trimming of old tool results (it changes no order) is left out.

## Plan

1. `SessionLog` as the store of `Compaction`: append failures there are a choice.
2. Arguments with white space, and several publishers with a quota of two in the
   bus, when the time of a run allows.
