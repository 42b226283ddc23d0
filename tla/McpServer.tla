----------------------------- MODULE McpServer -----------------------------
(***************************************************************************)
(* One MCP server as mixi keeps it: the supervisor of                      *)
(* src/internal/mcp/supervisor.go, the manager's Close, Reconnect and      *)
(* callTool (manager.go), and the client's calls and reader (client.go).   *)
(*                                                                         *)
(* The server is a process at the other end of a pipe: it answers requests *)
(* in any order, changes its tools and says so, exits, or closes its       *)
(* output and lives on: a connection and its process end apart.  A catalog *)
(* of tools is the number of the change that made it; registry and schemas *)
(* are left out.  Initialize and ListTools are one request.                *)
(***************************************************************************)
EXTENDS Integers, Sequences, FiniteSets

CONSTANTS MaxStrikes,     \* maxStrikes
          Calls,          \* tool calls, each made at most once
          MaxChanges,     \* bound: times the server changes its tools
          MaxReconnects,  \* bound: calls of Reconnect
          MaxResets       \* bound: connections that last stableAfter

ASSUME BoundsAssumption == {MaxStrikes, MaxChanges, MaxReconnects, MaxResets} \subseteq Nat

VARIABLES ctxDone,      \* the manager's context is cancelled
          closing,      \* Manager.Close: "no", "waiting" for wg, "returned"
          reconnecting, \* a Reconnect has found the context alive
          sup,          \* where the supervisor stands
          leaving,      \* supervisors that have ended but not called wg.Done
          strikes,      \* consecutive failures
          state,        \* server.state
          client,       \* server.client: a connection, or NoConn
          current,      \* server.current: a catalog, 0 before the first
          settled,      \* server.settled is closed
          conns,        \* each connection so far: "open" or "closed"
          running,      \* connections whose server process runs
          inbox,        \* per connection: requests the server has
          pipe,         \* per connection: what the server has written
          pending,      \* per connection: Client.pending
          outcome,      \* per requester: what is in its channel
          relists,      \* per relist goroutine: its state and its connection
          calls,        \* per tool call: its state and its connection
          catalog,      \* the tools the server has now
          reconnects, resets   \* counters for the bounds

manager == <<ctxDone, closing, reconnecting, leaving, reconnects>>
supervisor == <<sup, strikes, resets>>
shared == <<state, client, current, settled>>
wire == <<conns, inbox, pipe, pending, outcome>>
vars == <<manager, supervisor, shared, wire, running, relists, calls, catalog>>

NoConn == 0
MaxConns == (MaxStrikes + 1) * (MaxReconnects + MaxResets + 1)
Conns == 1 .. MaxConns
Conn == Len(conns)      \* the connection of the running supervisor
Handshake == <<"handshake", 0>>
Relists == 1 .. MaxChanges
Requesters == {Handshake} \cup {<<"relist", r>> : r \in Relists} \cup {<<"call", k>> : k \in Calls}
NoOutcome == [kind |-> "none", catalog |-> 0]
Changed == [kind |-> "list_changed", to |-> Handshake, catalog |-> 0]
Answer(q) == [kind |-> "answer", to |-> q, catalog |-> catalog]

Init == /\ ctxDone = FALSE
        /\ closing = "no"
        /\ reconnecting = FALSE
        /\ sup = "top"
        /\ leaving = 0
        /\ strikes = 0
        /\ state = "configured"
        /\ client = NoConn
        /\ current = 0
        /\ settled = FALSE
        /\ conns = <<>>
        /\ running = {}
        /\ inbox = [c \in Conns |-> {}]
        /\ pipe = [c \in Conns |-> <<>>]
        /\ pending = [c \in Conns |-> {}]
        /\ outcome = [q \in Requesters |-> NoOutcome]
        /\ relists = [r \in Relists |-> [st |-> "none", conn |-> NoConn]]
        /\ calls = [k \in Calls |-> [st |-> "none", conn |-> NoConn]]
        /\ catalog = 1
        /\ reconnects = 0
        /\ resets = 0
----------------------------------------------------------------------------
(* The client                                                              *)

\* Mutant: a call does not look at closed.
IsOpen_Always(c) == TRUE

\* Client.call checks closed under the mutex that failAll sets it under.
IsOpen(c) == conns[c] = "open"

\* Client.call of q on connection c up to the wait.
Send(c, q) == /\ pending' = [pending EXCEPT ![c] = @ \cup {q}]
              /\ inbox' = [inbox EXCEPT ![c] = @ \cup {q}]
              /\ UNCHANGED <<conns, pipe, outcome>>

\* The wait of q is over and its channel is abandoned: its outcome was
\* taken, its timer fired, or its context is done.
Forgotten(c, q) == /\ pending' = [pending EXCEPT ![c] = @ \ {q}]
                   /\ outcome' = [outcome EXCEPT ![q] = NoOutcome]

\* failAll, and nothing on the pipe matters any more.
Shut(c) == /\ conns' = [conns EXCEPT ![c] = "closed"]
           /\ inbox' = [inbox EXCEPT ![c] = {}]
           /\ pipe' = [pipe EXCEPT ![c] = <<>>]
           /\ pending' = [pending EXCEPT ![c] = {}]

\* The transport's Close returns when the process has exited, by itself or
\* killed; it is the only thing that kills one.
Killed(c) == running' = running \ {c}

FailAll(c) == [q \in Requesters |-> IF q \in pending[c] THEN [kind |-> "closed", catalog |-> 0] ELSE outcome[q]]

\* The reader reaches EOF, of a process that exited or that closed its
\* output, or gives up over malformed lines (then ServerExits comes first:
\* the reader closes the transport itself).
ConnectionEnds(c) ==
  /\ IsOpen(c)
  /\ Shut(c)
  /\ outcome' = FailAll(c)
  /\ UNCHANGED <<manager, supervisor, shared, relists, calls, catalog, running>>

\* Mutant: the pending entry stays when its answer is routed.
Routed_Kept(c, q) == pending

\* route takes the entry out before it sends.
Routed(c, q) == [pending EXCEPT ![c] = @ \ {q}]

\* readLoop with the next line: an answer goes to the call that waits for it,
\* an unknown one is dropped, list_changed starts a relist of its own (there
\* is one for each change).
ReadLine(c) ==
  /\ IsOpen(c)
  /\ pipe[c] # <<>>
  /\ pipe' = [pipe EXCEPT ![c] = Tail(@)]
  /\ LET line == Head(pipe[c])
     IN  \/ /\ line.kind = "list_changed"
            /\ \E x \in Relists : relists[x].st = "none"
            /\ LET r == CHOOSE x \in Relists : relists[x].st = "none"
               IN  relists' = [relists EXCEPT ![r].st = "start"]
            /\ UNCHANGED <<pending, outcome>>
         \/ /\ line.kind = "answer"
            /\ line.to \in pending[c]
            /\ pending' = Routed(c, line.to)
            /\ outcome' = [outcome EXCEPT ![line.to] = [kind |-> "answer", catalog |-> line.catalog]]
            /\ UNCHANGED relists
         \/ /\ line.kind = "answer"
            /\ line.to \notin pending[c]
            /\ UNCHANGED <<pending, outcome, relists>>
  /\ UNCHANGED <<manager, supervisor, shared, conns, inbox, calls, catalog, running>>
----------------------------------------------------------------------------
(* The server                                                              *)

\* The process crashes, or ends as it pleases.
ServerExits(c) ==
  /\ c \in running
  /\ running' = running \ {c}
  /\ UNCHANGED <<manager, supervisor, shared, wire, relists, calls, catalog>>

ServerAnswers(c, q) ==
  /\ IsOpen(c)
  /\ c \in running
  /\ q \in inbox[c]
  /\ inbox' = [inbox EXCEPT ![c] = @ \ {q}]
  /\ pipe' = [pipe EXCEPT ![c] = Append(@, Answer(q))]
  /\ UNCHANGED <<manager, supervisor, shared, conns, pending, outcome, relists, calls, catalog, running>>

ServerChanges ==
  /\ catalog <= MaxChanges
  /\ catalog' = catalog + 1
  /\ pipe' = [c \in Conns |-> IF c \in running /\ conns[c] = "open" THEN Append(pipe[c], Changed) ELSE pipe[c]]
  /\ UNCHANGED <<manager, supervisor, shared, conns, inbox, pending, outcome, relists, calls, running>>
----------------------------------------------------------------------------
(* The supervisor                                                          *)

Leave == sup' = "none" /\ leaving' = leaving + 1
Fail == state' = "failed" /\ settled' = TRUE /\ Leave

\* The top of the loop: closed, failed for good, or a new connection.
SuperviseTop ==
  /\ sup = "top"
  /\ \/ /\ ctxDone
        /\ state' = "closed"
        /\ settled' = TRUE
        /\ Leave
        /\ UNCHANGED <<wire, running>>
     \/ /\ ~ctxDone
        /\ Fail
        /\ UNCHANGED <<wire, running>>
     \/ /\ ~ctxDone
        /\ state' = "initializing"
        /\ sup' = "handshake"
        /\ conns' = Append(conns, "open")
        /\ running' = running \cup {Conn + 1}
        /\ pending' = [pending EXCEPT ![Conn + 1] = {Handshake}]
        /\ inbox' = [inbox EXCEPT ![Conn + 1] = {Handshake}]
        /\ UNCHANGED <<pipe, outcome, settled, leaving>>
  /\ UNCHANGED <<ctxDone, closing, reconnecting, reconnects, strikes, resets, client, current, relists, calls, catalog>>

Restart == state' = "restarting" /\ sup' = "sleep" /\ UNCHANGED leaving

\* n failures in a row: the server is disabled, or comes back after a delay.
Struck(n, settles) == IF n > MaxStrikes THEN Fail ELSE Restart /\ settled' = settles

\* The handshake is answered: relists may use the client from here on ...
HandshakeDone ==
  /\ sup = "handshake"
  /\ outcome[Handshake].kind = "answer"
  /\ client' = Conn
  /\ sup' = "adopt"
  /\ UNCHANGED <<manager, strikes, resets, state, current, settled, wire, relists, calls, catalog, running>>

\* ... and the tools are adopted, before the server is ready.
AdoptAndReady ==
  /\ sup = "adopt"
  /\ current' = outcome[Handshake].catalog
  /\ outcome' = [outcome EXCEPT ![Handshake] = NoOutcome]
  /\ state' = "ready"
  /\ settled' = TRUE
  /\ sup' = "ready"
  /\ UNCHANGED <<manager, strikes, resets, client, conns, inbox, pipe, pending, relists, calls, catalog, running>>

\* The handshake failed, timed out or was cancelled: the connection is
\* closed, its process killed, and whoever waits for the first handshake goes
\* on.
HandshakeFails ==
  /\ sup = "handshake"
  /\ Shut(Conn)
  /\ Killed(Conn)
  /\ outcome' = [FailAll(Conn) EXCEPT ![Handshake] = NoOutcome]
  /\ strikes' = strikes + 1
  /\ Struck(strikes + 1, TRUE)
  /\ UNCHANGED <<ctxDone, closing, reconnecting, reconnects, resets, client, current, relists, calls, catalog>>

\* sleepBackoff
SleepEnds ==
  /\ sup = "sleep"
  /\ sup' = "top"
  /\ UNCHANGED <<manager, strikes, resets, shared, wire, relists, calls, catalog, running>>

SleepCancelled ==
  /\ sup = "sleep"
  /\ ctxDone
  /\ state' = "closed"
  /\ Leave
  /\ UNCHANGED <<ctxDone, closing, reconnecting, reconnects, strikes, resets, client, current, settled, wire, relists, calls, catalog, running>>

\* Mutant: only the end of the connection is waited for.
ReadyClosed_WaitsForServer ==
  /\ sup = "ready"
  /\ ctxDone
  /\ ~IsOpen(Conn)
  /\ state' = "closed"
  /\ Leave
  /\ UNCHANGED <<ctxDone, closing, reconnecting, reconnects, strikes, resets, client, current, settled, wire, relists, calls, catalog, running>>

\* READY, and the manager closes.
ReadyClosed ==
  /\ sup = "ready"
  /\ ctxDone
  /\ Shut(Conn)
  /\ Killed(Conn)
  /\ outcome' = FailAll(Conn)
  /\ state' = "closed"
  /\ Leave
  /\ UNCHANGED <<ctxDone, closing, reconnecting, reconnects, strikes, resets, client, current, settled, relists, calls, catalog>>

\* Mutant: a process whose connection ended is taken for dead.
ReadyLost_NoClose ==
  /\ sup = "ready"
  /\ ~IsOpen(Conn)
  /\ client' = NoConn
  /\ \E stable \in BOOLEAN :
       /\ stable => resets < MaxResets
       /\ resets' = resets + (IF stable THEN 1 ELSE 0)
       /\ strikes' = (IF stable THEN 0 ELSE strikes) + 1
  /\ Struck(strikes', settled)
  /\ UNCHANGED <<ctxDone, closing, reconnecting, reconnects, current, wire, relists, calls, catalog, running>>

\* READY, and the connection is gone: Close kills a process that is not.  A
\* connection that was stable starts the count of strikes again.
ReadyLost ==
  /\ sup = "ready"
  /\ ~IsOpen(Conn)
  /\ Killed(Conn)
  /\ client' = NoConn
  /\ \E stable \in BOOLEAN :
       /\ stable => resets < MaxResets
       /\ resets' = resets + (IF stable THEN 1 ELSE 0)
       /\ strikes' = (IF stable THEN 0 ELSE strikes) + 1
  /\ Struck(strikes', settled)
  /\ UNCHANGED <<ctxDone, closing, reconnecting, reconnects, current, wire, relists, calls, catalog>>

\* The deferred wg.Done.
SupervisorDone ==
  /\ leaving > 0
  /\ leaving' = leaving - 1
  /\ UNCHANGED <<ctxDone, closing, reconnecting, reconnects, supervisor, shared, wire, relists, calls, catalog, running>>

Supervise == \/ SuperviseTop
             \/ HandshakeDone
             \/ AdoptAndReady
             \/ HandshakeFails
             \/ SleepEnds
             \/ SleepCancelled
             \/ ReadyClosed
             \/ ReadyLost
             \/ SupervisorDone
----------------------------------------------------------------------------
(* The manager                                                             *)

CloseManager ==
  /\ closing = "no"
  /\ ctxDone' = TRUE
  /\ closing' = "waiting"
  /\ UNCHANGED <<reconnecting, leaving, reconnects, supervisor, shared, wire, relists, calls, catalog, running>>

\* wg.Wait returns.
CloseReturns ==
  /\ closing = "waiting"
  /\ sup = "none"
  /\ leaving = 0
  /\ closing' = "returned"
  /\ UNCHANGED <<ctxDone, reconnecting, leaving, reconnects, supervisor, shared, wire, relists, calls, catalog, running>>

\* Reconnect up to server.mu: the context is alive.
ReconnectChecks ==
  /\ ~ctxDone
  /\ ~reconnecting
  /\ reconnects < MaxReconnects
  /\ reconnecting' = TRUE
  /\ reconnects' = reconnects + 1
  /\ UNCHANGED <<ctxDone, closing, leaving, supervisor, shared, wire, relists, calls, catalog, running>>

\* Reconnect under server.mu: a failed server gets a new supervisor.
ReconnectStarts ==
  /\ reconnecting
  /\ reconnecting' = FALSE
  /\ IF state = "failed"
     THEN state' = "restarting" /\ sup' = "top" /\ strikes' = 0
     ELSE UNCHANGED <<state, sup, strikes>>
  /\ UNCHANGED <<ctxDone, closing, leaving, reconnects, resets, client, current, settled, wire, relists, calls, catalog, running>>

Step(r, st) == relists' = [relists EXCEPT ![r].st = st]

\* relist up to the wait for the answer.
RelistSends(r) ==
  /\ relists[r].st = "start"
  /\ IF client # NoConn /\ IsOpen(client)
     THEN /\ relists' = [relists EXCEPT ![r] = [st |-> "waiting", conn |-> client]]
          /\ Send(client, <<"relist", r>>)
     ELSE Step(r, "done") /\ UNCHANGED wire
  /\ UNCHANGED <<manager, supervisor, shared, calls, catalog, running>>

\* relist with its answer: adoptTools, whatever has happened since.
RelistAdopts(r) ==
  /\ relists[r].st = "waiting"
  /\ outcome[<<"relist", r>>].kind = "answer"
  /\ current' = outcome[<<"relist", r>>].catalog
  /\ Step(r, "done")
  /\ Forgotten(relists[r].conn, <<"relist", r>>)
  /\ UNCHANGED <<manager, supervisor, state, client, settled, conns, inbox, pipe, calls, catalog, running>>

\* The relist's connection closed, its time is over, or the manager closes.
RelistFails(r) ==
  /\ relists[r].st = "waiting"
  /\ Step(r, "done")
  /\ Forgotten(relists[r].conn, <<"relist", r>>)
  /\ UNCHANGED <<manager, supervisor, shared, conns, inbox, pipe, calls, catalog, running>>

\* callTool under server.mu: a server that is not READY, or no longer offers
\* the tool, answers the call itself.
CallChecks(k) ==
  /\ calls[k].st = "none"
  /\ \/ calls' = [calls EXCEPT ![k].st = "done"]
     \/ /\ state = "ready"
        /\ client # NoConn
        /\ calls' = [calls EXCEPT ![k] = [st |-> "checked", conn |-> client]]
  /\ UNCHANGED <<manager, supervisor, shared, wire, relists, catalog, running>>

\* callTool goes on with the client it has read.
CallSends(k) ==
  /\ calls[k].st = "checked"
  /\ IF IsOpen(calls[k].conn)
     THEN calls' = [calls EXCEPT ![k].st = "waiting"] /\ Send(calls[k].conn, <<"call", k>>)
     ELSE calls' = [calls EXCEPT ![k].st = "done"] /\ UNCHANGED wire
  /\ UNCHANGED <<manager, supervisor, shared, relists, catalog, running>>

\* The answer, the end of the connection, the timeout or the caller's abort.
CallEnds(k) ==
  /\ calls[k].st = "waiting"
  /\ calls' = [calls EXCEPT ![k].st = "done"]
  /\ Forgotten(calls[k].conn, <<"call", k>>)
  /\ UNCHANGED <<manager, supervisor, shared, conns, inbox, pipe, relists, catalog, running>>

Next == \/ Supervise
        \/ \E c \in DOMAIN conns : ConnectionEnds(c)
        \/ \E c \in DOMAIN conns : ServerExits(c)
        \/ \E c \in DOMAIN conns : ReadLine(c)
        \/ \E c \in DOMAIN conns, q \in Requesters : ServerAnswers(c, q)
        \/ ServerChanges
        \/ CloseManager
        \/ CloseReturns
        \/ ReconnectChecks
        \/ ReconnectStarts
        \/ \E r \in Relists : RelistSends(r) \/ RelistAdopts(r) \/ RelistFails(r)
        \/ \E k \in Calls : CallChecks(k) \/ CallSends(k) \/ CallEnds(k)

\* The supervisor's goroutine runs, and its timers fire; nothing else has to
\* happen for it to go on.
Spec == /\ Init
        /\ [][Next]_vars
        /\ WF_vars(Supervise)
        /\ WF_vars(CloseReturns)
----------------------------------------------------------------------------
Open == {c \in DOMAIN conns : conns[c] = "open"}

\* No call waits on a connection that is gone: whatever the interleaving of
\* calls with the end of the connection, each is refused or failed (client.go).
NoCallStranded ==
  /\ \A c \in DOMAIN conns \ Open : pending[c] = {}
  /\ \A k \in Calls : calls[k].st = "waiting" =>
       <<"call", k>> \in pending[calls[k].conn] \/ outcome[<<"call", k>>].kind # "none"

\* Each channel of one outcome is sent to once, so that neither route nor
\* failAll ever blocks with the client's mutex held ("a late route/failAll
\* never blocks on an abandoned call", client.go:194).
ChannelsNeverFull ==
  \A c \in DOMAIN conns : \A q \in pending[c] : outcome[q].kind = "none"

\* One process per server: over restarts and reconnects no connection and no
\* process is left behind when the next one is started, whether the process
\* or its output ended first, and when Close has returned there is none, a
\* late Reconnect or not (supervisor.go, manager.go Close).
OneProcess == Cardinality(Open \cup running) <= IF closing = "returned" THEN 0 ELSE 1

\* Close returns, wherever it finds the supervisor, and WaitInitial returns:
\* the first handshake is settled, whether the server answers, fails, hangs
\* or is closed (manager.go Close, WaitInitial).
WaitsReturn ==
  /\ closing = "waiting" ~> closing = "returned"
  /\ <>settled
=============================================================================
