--------------------------- MODULE McpServer_proofs ---------------------------
(***************************************************************************)
(* One connection and one process per MCP server, and no call left on a    *)
(* dead connection, for any number of calls, relists, strikes and          *)
(* reconnects.  Whoever is in a connection's pending map waits on that     *)
(* connection with an empty channel; only the latest connection can be     *)
(* open or have a process, and only while the supervisor attends to it.    *)
(***************************************************************************)
EXTENDS McpServer, FiniteSetTheorems, TLAPS

Sups == {"top", "handshake", "adopt", "ready", "sleep", "none"}
Line == [kind : {"answer", "list_changed"}, to : Requesters, catalog : Nat]
Result == [kind : {"none", "answer", "closed"}, catalog : Nat]
Attended == sup \in {"handshake", "adopt", "ready"}

Types ==
  /\ ctxDone \in BOOLEAN /\ reconnecting \in BOOLEAN
  /\ closing \in {"no", "waiting", "returned"}
  /\ sup \in Sups
  /\ {leaving, strikes, resets, reconnects, current, catalog} \subseteq Nat
  /\ conns \in Seq({"open", "closed"})
  /\ client \in 0 .. Len(conns)
  /\ inbox \in [Conns -> SUBSET Requesters]
  /\ pipe \in [Conns -> Seq(Line)]
  /\ pending \in [Conns -> SUBSET Requesters]
  /\ outcome \in [Requesters -> Result]
  /\ relists \in [Relists -> [st : {"none", "start", "waiting", "done"}, conn : Nat]]
  /\ calls \in [Calls -> [st : {"none", "checked", "waiting", "done"}, conn : Nat]]

\* Each connection costs a strike, and strikes are forgiven by a reconnect or
\* a stable connection only.
Forgiven == reconnects - (IF reconnecting THEN 1 ELSE 0) + resets
Bounded ==
  /\ reconnects <= MaxReconnects /\ resets <= MaxResets
  /\ reconnecting => reconnects > 0
  /\ strikes <= MaxStrikes + 1
  /\ sup # "none" \/ state = "closed" => strikes <= MaxStrikes
  /\ Len(conns) <= (MaxStrikes + 1) * Forgiven + strikes + (IF Attended \/ state = "closed" THEN 1 ELSE 0)

\* Where the supervisor can be while the manager closes or a server has failed.
Supervised ==
  /\ state \in {"failed", "closed"} => sup = "none"
  /\ closing # "no" => ctxDone
  /\ closing = "returned" => sup \in {"none", "top"}
  /\ Attended => Len(conns) > 0

\* Only the latest connection can be open, and a closed one has no waiters.
Connected ==
  /\ \A c \in 1 .. Len(conns) : conns[c] = "open" => c = Len(conns) /\ Attended
  /\ \A c \in Conns : c > Len(conns) => pending[c] = {}
  /\ \A c \in 1 .. Len(conns) : conns[c] = "closed" => pending[c] = {}

\* Who is pending on a connection waits for it, with an empty channel; and a
\* channel is filled only for who waits.
HandshakeWaits ==
  /\ \A c \in Conns : Handshake \in pending[c] =>
       c = Len(conns) /\ sup = "handshake" /\ outcome[Handshake].kind = "none"
  /\ outcome[Handshake].kind # "none" => sup \in {"handshake", "adopt"}
RelistsWait == \A r \in Relists :
  /\ \A c \in Conns : <<"relist", r>> \in pending[c] =>
       relists[r].st = "waiting" /\ relists[r].conn = c /\ outcome[<<"relist", r>>].kind = "none"
  /\ outcome[<<"relist", r>>].kind # "none" => relists[r].st = "waiting"
  /\ relists[r].st = "waiting" => relists[r].conn \in 1 .. Len(conns)
CallsWait == \A k \in Calls :
  /\ \A c \in Conns : <<"call", k>> \in pending[c] =>
       calls[k].st = "waiting" /\ calls[k].conn = c /\ outcome[<<"call", k>>].kind = "none"
  /\ outcome[<<"call", k>>].kind # "none" => calls[k].st = "waiting"
  /\ calls[k].st \in {"checked", "waiting"} => calls[k].conn \in 1 .. Len(conns)
  /\ calls[k].st = "waiting" => \/ <<"call", k>> \in pending[calls[k].conn]
                                \/ outcome[<<"call", k>>].kind # "none"

\* Inductive.
McpInv == Types /\ Bounded /\ Supervised /\ Connected /\ HandshakeWaits /\ RelistsWait /\ CallsWait
----------------------------------------------------------------------------
LEMMA TimesMonotone == ASSUME NEW k \in Nat, NEW a \in Int, NEW b \in Int, a <= b PROVE k * a <= k * b
OBVIOUS

LEMMA TimesNext == ASSUME NEW k \in Nat, NEW a \in Int PROVE k * (a + 1) = k * a + k /\ k * a \in Int
OBVIOUS

\* Every connection, and the next one, has its place in Conns.
LEMMA RoomForConns ==
  ASSUME McpInv
  PROVE  /\ Len(conns) \in Nat /\ Len(conns) <= MaxConns /\ MaxConns \in Nat
         /\ sup = "top" => Len(conns) + 1 <= MaxConns
<1>1. /\ MaxStrikes + 1 \in Nat /\ MaxStrikes \in Nat /\ MaxReconnects \in Nat /\ MaxResets \in Nat
  BY BoundsAssumption
<1>2. /\ Forgiven \in Int /\ Forgiven + 1 <= MaxReconnects + MaxResets + 1
  <2>1. reconnects \in Nat /\ resets \in Nat
    BY DEF McpInv, Types
  <2>2. reconnects <= MaxReconnects /\ resets <= MaxResets
    BY DEF McpInv, Bounded
  <2> QED
    BY <2>1, <2>2, <1>1 DEF Forgiven
<1>3. /\ (MaxStrikes + 1) * (Forgiven + 1) <= MaxConns
      /\ (MaxStrikes + 1) * (Forgiven + 1) = (MaxStrikes + 1) * Forgiven + (MaxStrikes + 1)
      /\ (MaxStrikes + 1) * Forgiven \in Int /\ MaxConns \in Nat
  BY <1>1, <1>2, TimesMonotone, TimesNext DEF MaxConns
<1>4. Len(conns) \in Nat
  BY DEF McpInv, Types
<1>5. strikes \in Nat /\ strikes <= MaxStrikes + 1
      /\ (sup # "none" \/ state = "closed" => strikes <= MaxStrikes)
  BY DEF McpInv, Types, Bounded
<1>6. state = "closed" => sup = "none"
  BY DEF McpInv, Supervised
<1> QED
  BY <1>1, <1>3, <1>4, <1>5, <1>6 DEF McpInv, Bounded, Attended

LEMMA McpInvInit == ASSUME Init PROVE McpInv
<1>1. NoOutcome \in Result /\ NoOutcome.kind = "none" /\ Handshake \in Requesters
  BY DEF NoOutcome, Result, Requesters
<1>2. conns = <<>> /\ Len(conns) = 0 /\ conns \in Seq({"open", "closed"})
  BY DEF Init
<1>3. Types
  <2>1. /\ {leaving, strikes, resets, reconnects, current, catalog} \subseteq Nat
        /\ client \in 0 .. Len(conns)
    BY <1>2 DEF Init, NoConn
  <2>2. /\ relists \in [Relists -> [st : {"none", "start", "waiting", "done"}, conn : Nat]]
        /\ calls \in [Calls -> [st : {"none", "checked", "waiting", "done"}, conn : Nat]]
    BY DEF Init, NoConn
  <2>3. /\ inbox \in [Conns -> SUBSET Requesters] /\ pipe \in [Conns -> Seq(Line)]
        /\ pending \in [Conns -> SUBSET Requesters] /\ outcome \in [Requesters -> Result]
    BY <1>1 DEF Init
  <2> QED
    BY <1>2, <2>1, <2>2, <2>3 DEF Init, Types, Sups
<1>4. Bounded /\ Supervised
  BY <1>2, BoundsAssumption, TimesNext DEF Init, Bounded, Supervised, Attended, Forgiven
<1>5. Connected /\ HandshakeWaits
  BY <1>1, <1>2 DEF Init, Connected, HandshakeWaits
<1>6. RelistsWait /\ CallsWait
  BY <1>1 DEF Init, RelistsWait, CallsWait, Requesters
<1> QED
  BY <1>3, <1>4, <1>5, <1>6 DEF McpInv
----------------------------------------------------------------------------
\* What the relists and calls rely on, when only the handshake moves.
LEMMA OthersKeep ==
  ASSUME McpInv, UNCHANGED <<relists, calls>>, Len(conns') \in Nat, Len(conns') >= Len(conns),
         \A c \in Conns, q \in Requesters \ {Handshake} : q \in pending'[c] <=> q \in pending[c],
         \A q \in Requesters \ {Handshake} : outcome'[q] = outcome[q]
  PROVE  RelistsWait' /\ CallsWait'
<1>1. \A r \in Relists : <<"relist", r>> \in Requesters \ {Handshake}
  BY DEF Requesters, Handshake
<1>2. \A k \in Calls : <<"call", k>> \in Requesters \ {Handshake}
  BY DEF Requesters, Handshake
<1>3. Len(conns) \in Nat /\ Len(conns) <= MaxConns /\ MaxConns \in Nat
  BY RoomForConns
<1>4. \A d \in 1 .. Len(conns) : d \in Conns /\ d \in 1 .. Len(conns')
  BY <1>3 DEF Conns
<1>5. RelistsWait'
  <2> SUFFICES ASSUME NEW r \in Relists
               PROVE  /\ \A c \in Conns : <<"relist", r>> \in pending'[c] =>
                           relists[r].st = "waiting" /\ relists[r].conn = c /\ outcome'[<<"relist", r>>].kind = "none"
                      /\ outcome'[<<"relist", r>>].kind # "none" => relists[r].st = "waiting"
                      /\ relists[r].st = "waiting" => relists[r].conn \in 1 .. Len(conns')
    BY DEF RelistsWait
  <2> DEFINE q == <<"relist", r>>
  <2>1. /\ q \in Requesters \ {Handshake} /\ outcome'[q] = outcome[q]
        /\ \A c \in Conns : q \in pending'[c] <=> q \in pending[c]
    BY <1>1
  <2>2. /\ \A c \in Conns : q \in pending[c] =>
             relists[r].st = "waiting" /\ relists[r].conn = c /\ outcome[q].kind = "none"
        /\ outcome[q].kind # "none" => relists[r].st = "waiting"
        /\ relists[r].st = "waiting" => relists[r].conn \in 1 .. Len(conns)
    BY DEF McpInv, RelistsWait
  <2> HIDE DEF q
  <2>3. relists[r].st = "waiting" => relists[r].conn \in 1 .. Len(conns')
    BY <2>2, <1>4
  <2>4. /\ \A c \in Conns : q \in pending'[c] =>
             relists[r].st = "waiting" /\ relists[r].conn = c /\ outcome'[q].kind = "none"
        /\ outcome'[q].kind # "none" => relists[r].st = "waiting"
    BY <2>1, <2>2
  <2> QED
    BY <2>3, <2>4 DEF q
<1>6. \A k \in Calls : calls[k].st = "waiting" => calls[k].conn \in Conns
  BY <1>4 DEF McpInv, CallsWait
<1>7. CallsWait'
  BY <1>2, <1>4, <1>6 DEF McpInv, CallsWait
<1> QED
  BY <1>5, <1>7

\* A connection ends: everyone pending on it is told.
LEMMA ShutKeeps ==
  ASSUME McpInv, NEW c \in 1 .. Len(conns), Shut(c), UNCHANGED <<relists, calls>>,
         \A q \in Requesters \ {Handshake} : outcome'[q] = FailAll(c)[q]
  PROVE  /\ RelistsWait' /\ CallsWait'
         /\ conns' \in Seq({"open", "closed"}) /\ Len(conns') = Len(conns)
         /\ conns'[c] = "closed" /\ \A d \in 1 .. Len(conns) : d # c => conns'[d] = conns[d]
         /\ inbox' \in [Conns -> SUBSET Requesters] /\ pipe' \in [Conns -> Seq(Line)]
         /\ pending' \in [Conns -> SUBSET Requesters]
         /\ pending'[c] = {} /\ \A d \in Conns : d # c => pending'[d] = pending[d]
<1>0. Len(conns) \in Nat /\ Len(conns) <= MaxConns /\ MaxConns \in Nat
  BY RoomForConns
<1>1. c \in Conns /\ \A d \in 1 .. Len(conns) : d \in Conns
  BY <1>0 DEF Conns
<1>2. /\ inbox' \in [Conns -> SUBSET Requesters] /\ pipe' \in [Conns -> Seq(Line)]
      /\ pending' \in [Conns -> SUBSET Requesters]
      /\ pending'[c] = {} /\ \A d \in Conns : d # c => pending'[d] = pending[d]
  BY <1>1 DEF Shut, McpInv, Types
<1>3. /\ conns' \in Seq({"open", "closed"}) /\ Len(conns') = Len(conns)
      /\ conns'[c] = "closed" /\ \A d \in 1 .. Len(conns) : d # c => conns'[d] = conns[d]
  BY <1>1 DEF Shut, McpInv, Types
<1>4. \A q \in Requesters \ {Handshake} :
        /\ q \in pending[c] => outcome'[q].kind = "closed"
        /\ q \notin pending[c] => outcome'[q] = outcome[q]
  BY DEF FailAll
<1>5. \A r \in Relists : <<"relist", r>> \in Requesters \ {Handshake}
  BY DEF Requesters, Handshake
<1>6. \A k \in Calls : <<"call", k>> \in Requesters \ {Handshake}
  BY DEF Requesters, Handshake
<1>7. RelistsWait'
  <2> SUFFICES ASSUME NEW r \in Relists
               PROVE  /\ \A d \in Conns : <<"relist", r>> \in pending'[d] =>
                           /\ relists[r].st = "waiting" /\ relists[r].conn = d
                           /\ outcome'[<<"relist", r>>].kind = "none"
                      /\ outcome'[<<"relist", r>>].kind # "none" => relists[r].st = "waiting"
                      /\ relists[r].st = "waiting" => relists[r].conn \in 1 .. Len(conns)
    BY <1>3 DEF RelistsWait
  <2>1. CASE <<"relist", r>> \in pending[c]
    <3>1. /\ relists[r].st = "waiting" /\ relists[r].conn = c
          /\ \A d \in Conns : <<"relist", r>> \in pending[d] => d = c
      BY <2>1, <1>1 DEF McpInv, RelistsWait
    <3> QED
      BY <2>1, <3>1, <1>1, <1>2, <1>4, <1>5
  <2>2. CASE <<"relist", r>> \notin pending[c]
    BY <2>2, <1>1, <1>2, <1>4, <1>5 DEF McpInv, RelistsWait
  <2> QED
    BY <2>1, <2>2
<1>8. CallsWait'
  <2> SUFFICES ASSUME NEW k \in Calls
               PROVE  /\ \A d \in Conns : <<"call", k>> \in pending'[d] =>
                           /\ calls[k].st = "waiting" /\ calls[k].conn = d
                           /\ outcome'[<<"call", k>>].kind = "none"
                      /\ outcome'[<<"call", k>>].kind # "none" => calls[k].st = "waiting"
                      /\ calls[k].st \in {"checked", "waiting"} => calls[k].conn \in 1 .. Len(conns)
                      /\ calls[k].st = "waiting" => \/ <<"call", k>> \in pending'[calls[k].conn]
                                                    \/ outcome'[<<"call", k>>].kind # "none"
    BY <1>3 DEF CallsWait
  <2>1. CASE <<"call", k>> \in pending[c]
    <3>1. /\ calls[k].st = "waiting" /\ calls[k].conn = c
          /\ \A d \in Conns : <<"call", k>> \in pending[d] => d = c
      BY <2>1, <1>1 DEF McpInv, CallsWait
    <3> QED
      BY <2>1, <3>1, <1>1, <1>2, <1>4, <1>6
  <2>2. CASE <<"call", k>> \notin pending[c]
    <3>1. calls[k].st = "waiting" => calls[k].conn \in Conns
      BY <1>1 DEF McpInv, CallsWait
    <3> QED
      BY <3>1, <2>2, <1>1, <1>2, <1>4, <1>6 DEF McpInv, CallsWait
  <2> QED
    BY <2>1, <2>2
<1> QED
  BY <1>2, <1>3, <1>7, <1>8
----------------------------------------------------------------------------
\* The supervisor goes on without a strike, and keeps a connection's count.
LEMMA CountKeeps ==
  ASSUME McpInv, UNCHANGED <<conns, reconnects, reconnecting, resets, strikes>>,
         Attended \/ state = "closed" => Attended' \/ state' = "closed",
         sup' # "none" \/ state' = "closed" => sup # "none" \/ state = "closed"
  PROVE  Bounded'
<1>1. Forgiven' = Forgiven
  BY DEF Forgiven
<1>2. Len(conns) \in Nat /\ strikes \in Nat
  BY DEF McpInv, Types
<1>3. Forgiven \in Int /\ MaxStrikes + 1 \in Nat /\ (MaxStrikes + 1) * Forgiven \in Int
  <2>1. reconnects \in Nat /\ resets \in Nat
    BY DEF McpInv, Types
  <2>2. Forgiven \in Int /\ MaxStrikes + 1 \in Nat
    BY <2>1, BoundsAssumption DEF Forgiven
  <2> QED
    BY <2>2, TimesNext
<1>4. UNCHANGED ((MaxStrikes + 1) * Forgiven + strikes)
  BY <1>1
<1> QED
  BY <1>2, <1>3, <1>4 DEF McpInv, Bounded

\* Nothing is sent, answered or closed; the supervisor leaves a connection
\* only when it is closed.
LEMMA QuietKeeps ==
  ASSUME McpInv, UNCHANGED <<wire, relists, calls>>,
         Types', Bounded', Supervised',
         Attended /\ ~Attended' /\ Len(conns) > 0 => conns[Len(conns)] = "closed",
         Attended => sup' # "handshake" \/ sup = "handshake",
         \/ sup' = sup
         \/ outcome[Handshake].kind # "none" /\ sup = "handshake" /\ sup' = "adopt"
         \/ sup \notin {"handshake", "adopt"}
  PROVE  McpInv'
<1>1. UNCHANGED <<conns, pending, outcome>>
  BY DEF wire
<1>2. Len(conns) \in Nat
  BY DEF McpInv, Types
<1>3. RelistsWait' /\ CallsWait'
  BY <1>1, <1>2, OthersKeep
<1>4. \A c \in 1 .. Len(conns) : conns[c] = "open" => c = Len(conns) /\ Attended
  BY DEF McpInv, Connected
<1>5. Connected'
  BY <1>1, <1>2, <1>4 DEF McpInv, Connected
<1>6. HandshakeWaits'
  BY <1>1 DEF McpInv, HandshakeWaits
<1> QED
  BY <1>3, <1>5, <1>6 DEF McpInv

LEMMA QuietSupervisorKeeps ==
  ASSUME McpInv, \/ SuperviseTop /\ UNCHANGED wire
                 \/ HandshakeDone \/ SleepEnds \/ SleepCancelled \/ SupervisorDone
  PROVE  McpInv'
<1>1. CASE SuperviseTop /\ UNCHANGED wire
  <2>0. /\ sup = "top" /\ sup' = "none" /\ state' \in {"failed", "closed"} /\ leaving' = leaving + 1
        /\ UNCHANGED <<ctxDone, closing, reconnecting, reconnects, strikes, resets, client, current, relists, calls, catalog>>
    <3>1. CASE conns' = Append(conns, "open")
      BY <1>1, <3>1 DEF wire, McpInv, Types
    <3>2. CASE conns' # Append(conns, "open")
      BY <1>1, <3>2 DEF SuperviseTop, Fail, Leave
    <3> QED
      BY <3>1, <3>2
  <2>1. Types'
    BY <1>1, <2>0 DEF wire, McpInv, Types, Sups
  <2>4. state # "closed"
    BY <2>0 DEF McpInv, Supervised
  <2>2. Bounded'
    BY <1>1, <2>0, <2>4, CountKeeps DEF wire, Attended
  <2>3. Supervised'
    BY <1>1, <2>0 DEF McpInv, Supervised, Attended
  <2> QED
    BY <1>1, <2>0, <2>1, <2>2, <2>3, QuietKeeps DEF Attended
<1>2. CASE HandshakeDone
  <2>0. /\ sup = "handshake" /\ sup' = "adopt" /\ client' = Len(conns) /\ outcome[Handshake].kind = "answer"
        /\ UNCHANGED <<manager, strikes, resets, state, current, settled, wire, relists, calls, catalog>>
    BY <1>2 DEF HandshakeDone, Conn
  <2>1. Types'
    BY <2>0 DEF wire, manager, McpInv, Types, Sups
  <2>2. Bounded'
    BY <2>0, CountKeeps DEF wire, manager, Attended
  <2>3. Supervised'
    BY <2>0 DEF wire, manager, McpInv, Supervised, Attended
  <2> QED
    BY <2>0, <2>1, <2>2, <2>3, QuietKeeps DEF Attended
<1>3. CASE SleepEnds
  <2>0. /\ sup = "sleep" /\ sup' = "top"
        /\ UNCHANGED <<manager, strikes, resets, shared, wire, relists, calls, catalog>>
    BY <1>3 DEF SleepEnds
  <2>1. Types'
    BY <2>0 DEF wire, manager, shared, McpInv, Types, Sups
  <2>2. Bounded'
    BY <2>0, CountKeeps DEF wire, manager, shared, Attended
  <2>3. Supervised'
    BY <2>0 DEF wire, manager, shared, McpInv, Supervised, Attended
  <2> QED
    BY <2>0, <2>1, <2>2, <2>3, QuietKeeps DEF Attended
<1>4. CASE SleepCancelled
  <2>0. /\ sup = "sleep" /\ sup' = "none" /\ state' = "closed" /\ leaving' = leaving + 1
        /\ UNCHANGED <<ctxDone, closing, reconnecting, reconnects, strikes, resets, client, current, settled, wire, relists, calls, catalog>>
    BY <1>4 DEF SleepCancelled, Leave
  <2>1. Types'
    BY <2>0 DEF wire, McpInv, Types, Sups
  <2>2. Bounded'
    BY <2>0, CountKeeps DEF wire, Attended
  <2>3. Supervised'
    BY <2>0 DEF wire, McpInv, Supervised, Attended
  <2> QED
    BY <2>0, <2>1, <2>2, <2>3, QuietKeeps DEF Attended
<1>5. CASE SupervisorDone
  <2>0. /\ leaving > 0 /\ leaving' = leaving - 1
        /\ UNCHANGED <<ctxDone, closing, reconnecting, reconnects, supervisor, shared, wire, relists, calls, catalog>>
    BY <1>5 DEF SupervisorDone
  <2>1. Types'
    BY <2>0 DEF wire, supervisor, shared, McpInv, Types, Sups
  <2>2. Bounded'
    BY <2>0, CountKeeps DEF wire, supervisor, shared, Attended
  <2>3. Supervised'
    BY <2>0 DEF wire, supervisor, shared, McpInv, Supervised, Attended
  <2> QED
    BY <2>0, <2>1, <2>2, <2>3, QuietKeeps DEF Attended, supervisor
<1> QED
  BY <1>1, <1>2, <1>3, <1>4, <1>5

LEMMA AdoptKeeps == ASSUME McpInv, AdoptAndReady PROVE McpInv'
<1>1. /\ sup = "adopt" /\ sup' = "ready" /\ state' = "ready"
      /\ current' = outcome[Handshake].catalog /\ outcome' = [outcome EXCEPT ![Handshake] = NoOutcome]
      /\ UNCHANGED <<ctxDone, closing, reconnecting, leaving, reconnects, strikes, resets, client,
                     conns, inbox, pipe, pending, relists, calls, catalog>>
  BY DEF AdoptAndReady, manager
<1>2. /\ Handshake \in Requesters /\ NoOutcome \in Result /\ NoOutcome.kind = "none"
      /\ outcome \in [Requesters -> Result]
  BY DEF Requesters, NoOutcome, Result, McpInv, Types
<1>3. /\ outcome' \in [Requesters -> Result] /\ outcome'[Handshake] = NoOutcome
      /\ \A q \in Requesters \ {Handshake} : outcome'[q] = outcome[q]
  BY <1>1, <1>2
<1>4. current' \in Nat /\ Len(conns) \in Nat
  BY <1>1, <1>2 DEF Result, McpInv, Types
<1>5. Types'
  BY <1>1, <1>3, <1>4 DEF McpInv, Types, Sups
<1>6. Bounded'
  BY <1>1, CountKeeps DEF Attended
<1>7. Supervised' /\ Connected'
  BY <1>1 DEF McpInv, Supervised, Connected, Attended
<1>8. HandshakeWaits'
  BY <1>1, <1>2, <1>3 DEF McpInv, HandshakeWaits
<1>9. RelistsWait' /\ CallsWait'
  BY <1>1, <1>3, <1>4, OthersKeep
<1> QED
  BY <1>5, <1>6, <1>7, <1>8, <1>9 DEF McpInv

\* A new connection has the handshake pending and nobody else.
LEMMA ConnectKeeps == ASSUME McpInv, SuperviseTop, ~UNCHANGED wire PROVE McpInv'
<1>1. /\ sup = "top" /\ ~ctxDone /\ sup' = "handshake" /\ state' = "initializing"
      /\ conns' = Append(conns, "open")
      /\ pending' = [pending EXCEPT ![Len(conns) + 1] = {Handshake}]
      /\ inbox' = [inbox EXCEPT ![Len(conns) + 1] = {Handshake}]
      /\ UNCHANGED <<ctxDone, closing, reconnecting, leaving, reconnects, strikes, resets, client, current,
                     pipe, outcome, relists, calls, catalog>>
  BY DEF SuperviseTop, Conn
<1>2. /\ Len(conns) \in Nat /\ Len(conns) + 1 \in Conns /\ conns \in Seq({"open", "closed"})
      /\ Handshake \in Requesters
  <2>1. Len(conns) \in Nat /\ Len(conns) + 1 <= MaxConns /\ MaxConns \in Nat
    BY <1>1, RoomForConns
  <2> QED
    BY <2>1 DEF Conns, McpInv, Types, Requesters
<1>3. /\ conns' \in Seq({"open", "closed"}) /\ Len(conns') = Len(conns) + 1
      /\ \A c \in 1 .. Len(conns) : conns'[c] = conns[c]
      /\ conns'[Len(conns) + 1] = "open"
  BY <1>1, <1>2
<1>4. /\ pending' \in [Conns -> SUBSET Requesters] /\ inbox' \in [Conns -> SUBSET Requesters]
      /\ pending'[Len(conns) + 1] = {Handshake}
      /\ \A c \in Conns : c # Len(conns) + 1 => pending'[c] = pending[c]
  BY <1>1, <1>2 DEF McpInv, Types
<1>5. Types'
  <2>1. client \in 0 .. Len(conns')
    BY <1>2, <1>3 DEF McpInv, Types
  <2> QED
    BY <1>1, <1>3, <1>4, <2>1 DEF McpInv, Types, Sups
<1>6. Bounded'
  <2>1. Forgiven' = Forgiven /\ Attended' /\ ~Attended
    BY <1>1 DEF Forgiven, Attended
  <2>2. Forgiven \in Int /\ MaxStrikes + 1 \in Nat /\ strikes \in Nat
    BY BoundsAssumption, SMTT(30) DEF Forgiven, McpInv, Types
  <2>3. (MaxStrikes + 1) * Forgiven \in Int /\ UNCHANGED ((MaxStrikes + 1) * Forgiven + strikes)
    BY <1>1, <2>1, <2>2, TimesNext
  <2>4. state # "closed"
    BY <1>1 DEF McpInv, Supervised
  <2> QED
    BY <1>1, <1>2, <1>3, <2>1, <2>2, <2>3, <2>4 DEF McpInv, Bounded
<1>7. Supervised'
  BY <1>1, <1>2, <1>3 DEF McpInv, Supervised, Attended
<1>8. \A c \in Conns : pending[c] = {} \/ (c \in 1 .. Len(conns) /\ conns[c] = "open")
  <2>1. \A c \in 1 .. Len(conns) : conns[c] \in {"open", "closed"}
    BY <1>2
  <2>2. \A c \in Conns : c \in 1 .. Len(conns) \/ c > Len(conns)
    BY <1>2 DEF Conns
  <2> QED
    BY <2>1, <2>2 DEF McpInv, Connected
<1>9. \A c \in 1 .. Len(conns) : conns[c] = "closed"
  BY <1>1, <1>2 DEF McpInv, Connected, Attended, Types
<1>10. \A c \in Conns : pending[c] = {}
  BY <1>8, <1>9
<1>11. Connected'
  <2>1. \A c \in 1 .. Len(conns') : c = Len(conns') \/ (c \in 1 .. Len(conns) /\ conns'[c] = "closed")
    BY <1>2, <1>3, <1>9
  <2>2. \A c \in Conns : c > Len(conns') => c # Len(conns) + 1
    BY <1>2, <1>3
  <2>3. \A c \in 1 .. Len(conns') : conns'[c] = "closed" => c \in 1 .. Len(conns)
    BY <1>2, <1>3
  <2>4. \A c \in 1 .. Len(conns) : c \in Conns /\ c # Len(conns) + 1
    BY <1>2, RoomForConns DEF Conns
  <2> QED
    BY <1>1, <1>4, <1>10, <2>1, <2>2, <2>3, <2>4 DEF Connected, Attended
<1>12. HandshakeWaits'
  BY <1>1, <1>2, <1>3, <1>4, <1>10 DEF McpInv, HandshakeWaits
<1>13. RelistsWait' /\ CallsWait'
  <2>1. \A c \in Conns, q \in Requesters \ {Handshake} : q \in pending'[c] <=> q \in pending[c]
    BY <1>4, <1>10
  <2> QED
    BY <1>1, <1>2, <1>3, <2>1, OthersKeep
<1> QED
  BY <1>5, <1>6, <1>7, <1>11, <1>12, <1>13 DEF McpInv
----------------------------------------------------------------------------
\* A strike is counted when its connection is given up.
LEMMA StrikeKeeps ==
  ASSUME McpInv, Attended, UNCHANGED <<reconnects, reconnecting>>, Len(conns') = Len(conns),
         \/ strikes' = strikes + 1 /\ resets' = resets
         \/ strikes' = 1 /\ resets' = resets + 1 /\ resets' <= MaxResets,
         IF strikes' > MaxStrikes THEN sup' = "none" /\ state' = "failed" ELSE sup' = "sleep" /\ state' = "restarting"
  PROVE  /\ Bounded' /\ strikes' \in Nat /\ resets' \in Nat
         /\ ~Attended' /\ sup' \in Sups /\ (state' \in {"failed", "closed"} => sup' = "none")
<1>1. /\ reconnects \in Nat /\ resets \in Nat /\ strikes \in Nat /\ Len(conns) \in Nat
      /\ MaxStrikes \in Nat /\ MaxStrikes + 1 \in Nat
  BY BoundsAssumption DEF McpInv, Types
<1>2. /\ sup # "none" /\ state # "closed" /\ strikes <= MaxStrikes
      /\ Len(conns) <= (MaxStrikes + 1) * Forgiven + strikes + 1
  BY DEF McpInv, Bounded, Supervised, Attended
<1>3. /\ Forgiven \in Int /\ (MaxStrikes + 1) * Forgiven \in Int
      /\ (MaxStrikes + 1) * (Forgiven + 1) = (MaxStrikes + 1) * Forgiven + (MaxStrikes + 1)
  <2>1. Forgiven \in Int
    BY <1>1 DEF Forgiven
  <2> QED
    BY <1>1, <2>1, TimesNext
<1>4. /\ ~Attended' /\ sup' \in Sups /\ state' # "closed"
      /\ (state' \in {"failed", "closed"} => sup' = "none")
      /\ (sup' # "none" => ~(strikes' > MaxStrikes))
  BY DEF Attended, Sups
<1>5. Len(conns') <= (MaxStrikes + 1) * Forgiven' + strikes'
  <2>1. CASE strikes' = strikes + 1 /\ resets' = resets
    <3>1. Forgiven' = Forgiven
      BY <2>1 DEF Forgiven
    <3> QED
      BY <1>1, <1>2, <1>3, <2>1, <3>1
  <2>2. CASE strikes' = 1 /\ resets' = resets + 1
    <3>1. Forgiven' = Forgiven + 1
      BY <1>1, <2>2 DEF Forgiven
    <3>2. (MaxStrikes + 1) * Forgiven' = (MaxStrikes + 1) * Forgiven + (MaxStrikes + 1)
      BY <1>3, <3>1
    <3> QED
      BY <1>1, <1>2, <1>3, <2>2, <3>2
  <2> QED
    BY <2>1, <2>2
<1>6. (MaxStrikes + 1) * Forgiven' \in Int
  <2>1. Forgiven' \in Int
    BY <1>1 DEF Forgiven
  <2> QED
    BY <1>1, <2>1, TimesNext
<1>7. strikes' \in Nat /\ resets' \in Nat /\ strikes' <= MaxStrikes + 1 /\ resets' <= MaxResets
  BY <1>1, <1>2 DEF McpInv, Bounded
<1>8. reconnects' <= MaxReconnects /\ (reconnecting' => reconnects' > 0)
  BY DEF McpInv, Bounded
<1>9. Bounded'
  <2>1. (sup' # "none" \/ state' = "closed") => strikes' <= MaxStrikes
    BY <1>1, <1>4, <1>7
  <2>2. Len(conns') <= (MaxStrikes + 1) * Forgiven' + strikes' + 0
    BY <1>1, <1>5, <1>6, <1>7
  <2> QED
    BY <1>4, <1>7, <1>8, <2>1, <2>2 DEF Bounded
<1> QED
  BY <1>4, <1>7, <1>9

\* What failAll leaves is an outcome for each requester.
LEMMA FailAllType == ASSUME McpInv, NEW c \in Conns PROVE FailAll(c) \in [Requesters -> Result]
BY DEF FailAll, McpInv, Types, Result

\* The handshake fails, and its connection with it.
LEMMA HandshakeFailsKeeps == ASSUME McpInv, HandshakeFails PROVE McpInv'
<1>1. /\ sup = "handshake" /\ Shut(Len(conns)) /\ outcome' = [FailAll(Len(conns)) EXCEPT ![Handshake] = NoOutcome]
      /\ strikes' = strikes + 1 /\ Struck(strikes', TRUE)
      /\ UNCHANGED <<ctxDone, closing, reconnecting, reconnects, resets, client, current, relists, calls, catalog>>
  BY DEF HandshakeFails, Conn
<1>2. /\ Len(conns) \in Nat /\ Len(conns) \in 1 .. Len(conns) /\ Len(conns) \in Conns
      /\ \A d \in 1 .. Len(conns) : d \in Conns
  <2>1. Len(conns) \in Nat /\ Len(conns) > 0
    BY <1>1 DEF McpInv, Supervised, Attended, Types
  <2>2. Len(conns) <= MaxConns /\ MaxConns \in Nat
    BY RoomForConns
  <2> QED
    BY <2>1, <2>2 DEF Conns
<1>3. /\ Handshake \in Requesters /\ NoOutcome \in Result /\ NoOutcome.kind = "none"
      /\ FailAll(Len(conns)) \in [Requesters -> Result]
  BY <1>2, FailAllType DEF Requesters, NoOutcome, Result
<1>4. /\ outcome' \in [Requesters -> Result] /\ outcome'[Handshake] = NoOutcome
      /\ \A q \in Requesters \ {Handshake} : outcome'[q] = FailAll(Len(conns))[q]
  BY <1>1, <1>3
<1>5. /\ RelistsWait' /\ CallsWait'
      /\ conns' \in Seq({"open", "closed"}) /\ Len(conns') = Len(conns)
      /\ conns'[Len(conns)] = "closed" /\ \A d \in 1 .. Len(conns) : d # Len(conns) => conns'[d] = conns[d]
      /\ inbox' \in [Conns -> SUBSET Requesters] /\ pipe' \in [Conns -> Seq(Line)]
      /\ pending' \in [Conns -> SUBSET Requesters]
      /\ pending'[Len(conns)] = {} /\ \A d \in Conns : d # Len(conns) => pending'[d] = pending[d]
  BY <1>1, <1>2, <1>4, ShutKeeps
<1>6. /\ Attended
      /\ IF strikes' > MaxStrikes THEN sup' = "none" /\ state' = "failed" ELSE sup' = "sleep" /\ state' = "restarting"
      /\ leaving' \in Nat
  BY <1>1 DEF Attended, Struck, Fail, Restart, Leave, McpInv, Types
<1>7. /\ Bounded' /\ strikes' \in Nat /\ resets' \in Nat
      /\ ~Attended' /\ sup' \in Sups /\ (state' \in {"failed", "closed"} => sup' = "none")
  BY <1>1, <1>5, <1>6, StrikeKeeps
<1>8. Types'
  BY <1>1, <1>4, <1>5, <1>6, <1>7 DEF McpInv, Types
<1>9. Supervised'
  BY <1>1, <1>7 DEF McpInv, Supervised
<1>10. \A d \in 1 .. Len(conns) : conns'[d] = "closed"
  <2>1. \A d \in 1 .. Len(conns) : conns'[d] \in {"open", "closed"}
    BY <1>5
  <2>2. \A d \in 1 .. Len(conns) : d # Len(conns) => conns[d] # "open"
    BY DEF McpInv, Connected
  <2> QED
    BY <1>5, <2>1, <2>2
<1>11. Connected'
  BY <1>2, <1>5, <1>10 DEF McpInv, Connected
<1>12. HandshakeWaits'
  BY <1>3, <1>4, <1>5 DEF McpInv, HandshakeWaits
<1> QED
  BY <1>5, <1>7, <1>8, <1>9, <1>11, <1>12 DEF McpInv

\* A connection that ends, or is ended after READY, strands nobody.
LEMMA EndKeeps ==
  ASSUME McpInv, NEW c \in 1 .. Len(conns), Shut(c), outcome' = FailAll(c),
         UNCHANGED <<ctxDone, closing, reconnecting, reconnects, strikes, resets, client, current, relists, calls, catalog>>,
         \/ UNCHANGED <<sup, state, leaving>>
         \/ sup = "ready" /\ c = Len(conns) /\ ctxDone /\ sup' = "none" /\ state' = "closed" /\ leaving' = leaving + 1
  PROVE  McpInv'
<1>1. Len(conns) \in Nat /\ c \in Conns /\ \A d \in 1 .. Len(conns) : d \in Conns
  <2>1. Len(conns) \in Nat /\ Len(conns) <= MaxConns /\ MaxConns \in Nat
    BY RoomForConns
  <2> QED
    BY <2>1 DEF Conns
<1>2. /\ outcome' \in [Requesters -> Result] /\ Handshake \in Requesters
      /\ \A q \in Requesters \ {Handshake} : outcome'[q] = FailAll(c)[q]
  BY <1>1, FailAllType DEF Requesters
<1>3. /\ RelistsWait' /\ CallsWait'
      /\ conns' \in Seq({"open", "closed"}) /\ Len(conns') = Len(conns)
      /\ conns'[c] = "closed" /\ \A d \in 1 .. Len(conns) : d # c => conns'[d] = conns[d]
      /\ inbox' \in [Conns -> SUBSET Requesters] /\ pipe' \in [Conns -> Seq(Line)]
      /\ pending' \in [Conns -> SUBSET Requesters]
      /\ pending'[c] = {} /\ \A d \in Conns : d # c => pending'[d] = pending[d]
  BY <1>2, ShutKeeps
<1>4. leaving' \in Nat /\ sup' \in Sups
  BY DEF McpInv, Types, Sups
<1>5. Types'
  BY <1>2, <1>3, <1>4 DEF McpInv, Types
<1>6. Bounded'
  <2>1. Forgiven' = Forgiven /\ strikes \in Nat
    BY DEF Forgiven, McpInv, Types
  <2>2. Attended \/ state = "closed" <=> Attended' \/ state' = "closed"
    BY DEF McpInv, Supervised, Attended
  <2>3. sup' # "none" \/ state' = "closed" => sup # "none" \/ state = "closed"
    BY DEF McpInv, Supervised
  <2> QED
    BY <1>3, <2>1, <2>2, <2>3 DEF McpInv, Bounded
<1>7. Supervised'
  BY <1>3 DEF McpInv, Supervised, Attended
<1>8. Connected'
  <2>1. \A d \in 1 .. Len(conns) : conns'[d] = "open" => d # c /\ conns[d] = "open"
    BY <1>3
  <2>2. \A d \in 1 .. Len(conns) : conns'[d] = "open" => d = Len(conns) /\ Attended'
    BY <2>1 DEF McpInv, Connected, Attended
  <2> QED
    BY <1>1, <1>3, <2>2 DEF McpInv, Connected
<1>9. HandshakeWaits'
  <2>1. Handshake \in pending[c] => sup = "handshake" /\ UNCHANGED sup
    BY <1>1 DEF McpInv, HandshakeWaits
  <2>2. Handshake \notin pending[c] => outcome'[Handshake] = outcome[Handshake]
    BY <1>2 DEF FailAll
  <2>3. sup \in {"handshake", "adopt"} => UNCHANGED sup
    OBVIOUS
  <2> QED
    BY <1>1, <1>3, <2>1, <2>2, <2>3 DEF McpInv, HandshakeWaits
<1> QED
  BY <1>3, <1>5, <1>6, <1>7, <1>8, <1>9 DEF McpInv

LEMMA ConnectionEndsKeeps ==
  ASSUME McpInv, ReadyClosed \/ \E c \in DOMAIN conns : ConnectionEnds(c)
  PROVE  McpInv'
<1>1. CASE ReadyClosed
  <2>1. Len(conns) \in 1 .. Len(conns)
    BY <1>1 DEF ReadyClosed, McpInv, Supervised, Attended, Types
  <2> QED
    BY <1>1, <2>1, EndKeeps DEF ReadyClosed, Conn, Leave
<1>2. ASSUME NEW c \in DOMAIN conns, ConnectionEnds(c) PROVE McpInv'
  <2>1. c \in 1 .. Len(conns)
    BY DEF McpInv, Types
  <2> QED
    BY <1>2, <2>1, EndKeeps DEF ConnectionEnds, manager, supervisor, shared
<1> QED
  BY <1>1, <1>2

\* The supervisor finds its connection gone.
LEMMA ReadyLostKeeps == ASSUME McpInv, ReadyLost PROVE McpInv'
<1>1. /\ sup = "ready" /\ conns[Len(conns)] # "open" /\ client' = 0
      /\ UNCHANGED <<ctxDone, closing, reconnecting, reconnects, current, wire, relists, calls, catalog>>
      /\ Struck(strikes', settled)
  BY DEF ReadyLost, IsOpen, Conn, NoConn
<1>2. Attended /\ Len(conns') = Len(conns) /\ strikes \in Nat /\ resets \in Nat
  BY <1>1 DEF Attended, wire, McpInv, Types
<1>3. \/ strikes' = strikes + 1 /\ resets' = resets
      \/ strikes' = 1 /\ resets' = resets + 1 /\ resets' <= MaxResets
  <2>1. PICK stable \in BOOLEAN : /\ stable => resets < MaxResets
                                  /\ resets' = resets + (IF stable THEN 1 ELSE 0)
                                  /\ strikes' = (IF stable THEN 0 ELSE strikes) + 1
    BY DEF ReadyLost
  <2> QED
    BY <1>2, <2>1, BoundsAssumption
<1>4. IF strikes' > MaxStrikes THEN sup' = "none" /\ state' = "failed" ELSE sup' = "sleep" /\ state' = "restarting"
  BY <1>1 DEF Struck, Fail, Restart, Leave
<1>5. leaving' \in Nat
  BY <1>1 DEF Struck, Fail, Restart, Leave, McpInv, Types
<1>6. /\ Bounded' /\ strikes' \in Nat /\ resets' \in Nat
      /\ ~Attended' /\ sup' \in Sups /\ (state' \in {"failed", "closed"} => sup' = "none")
  BY <1>1, <1>2, <1>3, <1>4, StrikeKeeps
<1>7. Types'
  BY <1>1, <1>5, <1>6 DEF wire, McpInv, Types
<1>8. Supervised'
  BY <1>1, <1>6 DEF McpInv, Supervised
<1>9. conns \in Seq({"open", "closed"}) /\ (Len(conns) > 0 => conns[Len(conns)] = "closed")
  BY <1>1 DEF McpInv, Types
<1> QED
  BY <1>1, <1>4, <1>6, <1>7, <1>8, <1>9, QuietKeeps
----------------------------------------------------------------------------
LEMMA ManagerKeeps ==
  ASSUME McpInv, CloseManager \/ CloseReturns \/ ReconnectChecks \/ ReconnectStarts
  PROVE  McpInv'
<1>1. CASE CloseManager
  <2>0. /\ ctxDone' = TRUE /\ closing' = "waiting"
        /\ UNCHANGED <<reconnecting, leaving, reconnects, supervisor, shared, wire, relists, calls, catalog>>
    BY <1>1 DEF CloseManager
  <2>1. Types'
    BY <2>0 DEF wire, supervisor, shared, McpInv, Types
  <2>2. Bounded'
    BY <2>0, CountKeeps DEF wire, supervisor, shared, Attended
  <2>3. Supervised'
    BY <2>0 DEF wire, supervisor, shared, McpInv, Supervised, Attended
  <2> QED
    BY <2>0, <2>1, <2>2, <2>3, QuietKeeps DEF Attended, supervisor
<1>2. CASE CloseReturns
  <2>0. /\ closing = "waiting" /\ sup = "none" /\ closing' = "returned"
        /\ UNCHANGED <<ctxDone, reconnecting, leaving, reconnects, supervisor, shared, wire, relists, calls, catalog>>
    BY <1>2 DEF CloseReturns
  <2>1. Types'
    BY <2>0 DEF wire, supervisor, shared, McpInv, Types
  <2>2. Bounded'
    BY <2>0, CountKeeps DEF wire, supervisor, shared, Attended
  <2>3. Supervised'
    BY <2>0 DEF wire, supervisor, shared, McpInv, Supervised, Attended
  <2> QED
    BY <2>0, <2>1, <2>2, <2>3, QuietKeeps DEF Attended, supervisor
<1>3. CASE ReconnectChecks
  <2>0. /\ ~reconnecting /\ reconnects < MaxReconnects /\ reconnecting' = TRUE /\ reconnects' = reconnects + 1
        /\ UNCHANGED <<ctxDone, closing, leaving, supervisor, shared, wire, relists, calls, catalog>>
    BY <1>3 DEF ReconnectChecks
  <2>1. reconnects \in Nat /\ resets \in Nat /\ MaxReconnects \in Nat
    BY BoundsAssumption DEF McpInv, Types
  <2>2. Types'
    BY <2>0, <2>1 DEF wire, supervisor, shared, McpInv, Types
  <2>3. Bounded'
    <3>1. Forgiven' = Forgiven
      BY <2>0, <2>1 DEF Forgiven, supervisor
    <3>2. reconnects' <= MaxReconnects /\ reconnects' > 0
      BY <2>0, <2>1
    <3> QED
      BY <2>0, <3>1, <3>2 DEF McpInv, Bounded, Attended, supervisor, shared, wire
  <2>4. Supervised'
    BY <2>0 DEF wire, supervisor, shared, McpInv, Supervised, Attended
  <2> QED
    BY <2>0, <2>2, <2>3, <2>4, QuietKeeps DEF Attended, supervisor
<1>4. CASE ReconnectStarts /\ state = "failed"
  <2>0. /\ reconnecting /\ reconnecting' = FALSE /\ state' = "restarting" /\ sup' = "top" /\ strikes' = 0
        /\ UNCHANGED <<ctxDone, closing, leaving, reconnects, resets, client, current, settled, wire, relists, calls, catalog>>
    BY <1>4 DEF ReconnectStarts
  <2>1. /\ reconnects \in Nat /\ resets \in Nat /\ strikes \in Nat /\ Len(conns) \in Nat /\ sup = "none"
        /\ MaxStrikes \in Nat /\ MaxStrikes + 1 \in Nat
    BY <1>4, BoundsAssumption DEF McpInv, Types, Supervised
  <2>2. Types'
    <3>1. sup' \in Sups /\ strikes' \in Nat /\ reconnecting' \in BOOLEAN
      BY <2>0 DEF Sups
    <3> QED
      BY <2>0, <3>1 DEF wire, McpInv, Types
  <2>3. Bounded'
    <3>1. Forgiven' = Forgiven + 1 /\ Forgiven \in Int
      BY <2>0, <2>1 DEF Forgiven
    <3>2. /\ (MaxStrikes + 1) * Forgiven' = (MaxStrikes + 1) * Forgiven + (MaxStrikes + 1)
          /\ (MaxStrikes + 1) * Forgiven \in Int
      BY <2>1, <3>1, TimesNext
    <3>3. Len(conns) <= (MaxStrikes + 1) * Forgiven + strikes /\ strikes <= MaxStrikes + 1
      BY <1>4, <2>1, <3>2 DEF McpInv, Bounded, Attended
    <3>4. Len(conns) <= (MaxStrikes + 1) * Forgiven' + 0
      BY <2>1, <3>2, <3>3
    <3>5. ~Attended' /\ state' # "closed"
      BY <2>0 DEF Attended
    <3> QED
      BY <2>0, <2>1, <3>2, <3>4, <3>5 DEF McpInv, Bounded, wire
  <2>4. Supervised'
    BY <2>0 DEF wire, McpInv, Supervised, Attended
  <2> QED
    BY <2>0, <2>1, <2>2, <2>3, <2>4, QuietKeeps DEF Attended
<1>5. CASE ReconnectStarts /\ state # "failed"
  <2>0. /\ reconnecting /\ reconnecting' = FALSE
        /\ UNCHANGED <<ctxDone, closing, leaving, reconnects, supervisor, shared, wire, relists, calls, catalog>>
    BY <1>5 DEF ReconnectStarts, supervisor, shared
  <2>1. /\ reconnects \in Nat /\ resets \in Nat /\ strikes \in Nat /\ Len(conns) \in Nat
        /\ MaxStrikes \in Nat /\ MaxStrikes + 1 \in Nat
    BY BoundsAssumption DEF McpInv, Types
  <2>2. Types'
    BY <2>0 DEF wire, supervisor, shared, McpInv, Types
  <2>3. Bounded'
    <3>1. Forgiven' = Forgiven + 1 /\ Forgiven \in Int
      BY <2>0, <2>1 DEF Forgiven, supervisor
    <3>2. /\ (MaxStrikes + 1) * Forgiven' = (MaxStrikes + 1) * Forgiven + (MaxStrikes + 1)
          /\ (MaxStrikes + 1) * Forgiven \in Int
      BY <2>1, <3>1, TimesNext
    <3>3. Attended' = Attended /\ UNCHANGED <<conns, strikes, state, sup, resets, reconnects>>
      BY <2>0 DEF Attended, supervisor, shared, wire
    <3>4. Len(conns) <= (MaxStrikes + 1) * Forgiven' + strikes + (IF Attended \/ state = "closed" THEN 1 ELSE 0)
      BY <2>1, <3>2 DEF McpInv, Bounded
    <3> QED
      BY <2>0, <3>3, <3>4 DEF McpInv, Bounded
  <2>4. Supervised'
    BY <2>0 DEF wire, supervisor, shared, McpInv, Supervised, Attended
  <2> QED
    BY <2>0, <2>2, <2>3, <2>4, QuietKeeps DEF Attended, supervisor
<1> QED
  BY <1>1, <1>2, <1>3, <1>4, <1>5
----------------------------------------------------------------------------
\* The server and the reader move lines; nobody starts or stops waiting.
LEMMA LinesKeep ==
  ASSUME McpInv, UNCHANGED <<manager, supervisor, shared, conns, pending, outcome, calls>>,
         \A r \in Relists : relists'[r] = relists[r] \/ (relists[r].st = "none" /\ relists'[r].st = "start"),
         catalog' \in Nat, inbox' \in [Conns -> SUBSET Requesters], pipe' \in [Conns -> Seq(Line)],
         relists' \in [Relists -> [st : {"none", "start", "waiting", "done"}, conn : Nat]]
  PROVE  McpInv'
<1>1. Types'
  BY DEF manager, supervisor, shared, McpInv, Types
<1>2. Bounded'
  BY CountKeeps DEF manager, supervisor, shared, Attended
<1>3. Supervised' /\ Connected' /\ HandshakeWaits'
  BY DEF manager, supervisor, shared, McpInv, Supervised, Connected, HandshakeWaits, Attended
<1>4. CallsWait'
  BY DEF McpInv, CallsWait
<1>5. RelistsWait'
  <2> SUFFICES ASSUME NEW r \in Relists
               PROVE  /\ \A c \in Conns : <<"relist", r>> \in pending[c] =>
                           relists'[r].st = "waiting" /\ relists'[r].conn = c /\ outcome[<<"relist", r>>].kind = "none"
                      /\ outcome[<<"relist", r>>].kind # "none" => relists'[r].st = "waiting"
                      /\ relists'[r].st = "waiting" => relists'[r].conn \in 1 .. Len(conns)
    BY DEF RelistsWait
  <2>1. CASE relists'[r] = relists[r]
    BY <2>1 DEF McpInv, RelistsWait
  <2>2. CASE relists[r].st = "none"
    BY <2>2 DEF McpInv, RelistsWait
  <2> QED
    BY <2>1, <2>2
<1> QED
  BY <1>1, <1>2, <1>3, <1>4, <1>5 DEF McpInv

LEMMA ServerKeeps ==
  ASSUME McpInv, ServerChanges \/ \E c \in DOMAIN conns, q \in Requesters : ServerAnswers(c, q)
  PROVE  McpInv'
<1>1. CASE ServerChanges
  <2>1. Changed \in Line
    BY DEF Changed, Line, Requesters
  <2>2. pipe' = [c \in Conns |-> IF c \in running /\ conns[c] = "open" THEN Append(pipe[c], Changed) ELSE pipe[c]]
    BY <1>1 DEF ServerChanges
  <2>3. \A c \in Conns : pipe[c] \in Seq(Line) /\ Append(pipe[c], Changed) \in Seq(Line)
    BY <2>1 DEF McpInv, Types
  <2>4. pipe' \in [Conns -> Seq(Line)]
    BY <2>2, <2>3
  <2>5. /\ UNCHANGED <<manager, supervisor, shared, conns, pending, outcome, calls, inbox, relists>>
        /\ catalog' = catalog + 1
    BY <1>1 DEF ServerChanges
  <2>6. /\ catalog' \in Nat /\ inbox' \in [Conns -> SUBSET Requesters]
        /\ relists' \in [Relists -> [st : {"none", "start", "waiting", "done"}, conn : Nat]]
    BY <2>5 DEF McpInv, Types
  <2>7. \A r \in Relists : relists'[r] = relists[r]
    BY <2>5
  <2> QED
    BY <2>4, <2>5, <2>6, <2>7, LinesKeep
<1>2. ASSUME NEW c \in DOMAIN conns, NEW q \in Requesters, ServerAnswers(c, q) PROVE McpInv'
  <2>1. Answer(q) \in Line
    BY DEF Answer, Line, McpInv, Types
  <2>2. /\ inbox' = [inbox EXCEPT ![c] = @ \ {q}] /\ pipe' = [pipe EXCEPT ![c] = Append(@, Answer(q))]
        /\ UNCHANGED <<manager, supervisor, shared, conns, pending, outcome, relists, calls, catalog>>
    BY <1>2 DEF ServerAnswers
  <2>3. \A d \in Conns : pipe[d] \in Seq(Line) /\ Append(pipe[d], Answer(q)) \in Seq(Line)
    BY <2>1 DEF McpInv, Types
  <2>4. inbox' \in [Conns -> SUBSET Requesters] /\ pipe' \in [Conns -> Seq(Line)]
    BY <2>2, <2>3 DEF McpInv, Types
  <2> QED
    BY <2>2, <2>4, LinesKeep DEF McpInv, Types
<1> QED
  BY <1>1, <1>2

\* route: the answer goes to whoever is pending, and only once.
LEMMA RouteKeeps ==
  ASSUME McpInv, NEW c \in 1 .. Len(conns), NEW q \in pending[c],
         pending' = [pending EXCEPT ![c] = @ \ {q}], NEW n \in Nat,
         outcome' = [outcome EXCEPT ![q] = [kind |-> "answer", catalog |-> n]],
         pipe' \in [Conns -> Seq(Line)],
         UNCHANGED <<manager, supervisor, shared, conns, inbox, relists, calls, catalog>>
  PROVE  McpInv'
<1>1. Len(conns) \in Nat /\ c \in Conns /\ \A d \in 1 .. Len(conns) : d \in Conns
  <2>1. Len(conns) \in Nat /\ Len(conns) <= MaxConns /\ MaxConns \in Nat
    BY RoomForConns
  <2> QED
    BY <2>1 DEF Conns
<1>2. q \in Requesters
  BY <1>1 DEF McpInv, Types
<1>3. /\ outcome' \in [Requesters -> Result] /\ outcome'[q].kind = "answer"
      /\ \A p \in Requesters : p # q => outcome'[p] = outcome[p]
  <2>1. [kind |-> "answer", catalog |-> n] \in Result
    BY DEF Result
  <2> QED
    BY <1>2, <2>1 DEF McpInv, Types
<1>4. /\ pending' \in [Conns -> SUBSET Requesters]
      /\ pending'[c] = pending[c] \ {q} /\ \A d \in Conns : d # c => pending'[d] = pending[d]
  BY <1>1 DEF McpInv, Types
<1>5. Types'
  BY <1>3, <1>4 DEF manager, supervisor, shared, McpInv, Types
<1>6. Bounded'
  BY CountKeeps DEF manager, supervisor, shared, Attended
<1>7. Supervised' /\ Connected'
  BY <1>1, <1>4 DEF manager, supervisor, shared, McpInv, Supervised, Connected, Attended
<1>8. HandshakeWaits'
  <2>1. UNCHANGED <<sup, conns>> /\ Handshake \in Requesters
    BY DEF supervisor, Requesters
  <2>2. q = Handshake => sup = "handshake" /\ Handshake \notin pending'[c] /\ \A d \in Conns : d # c => Handshake \notin pending[d]
    BY <1>1, <1>4 DEF McpInv, HandshakeWaits
  <2> QED
    BY <1>1, <1>3, <1>4, <2>1, <2>2 DEF McpInv, HandshakeWaits
<1>9. RelistsWait'
  <2> SUFFICES ASSUME NEW r \in Relists
               PROVE  /\ \A d \in Conns : <<"relist", r>> \in pending'[d] =>
                           relists[r].st = "waiting" /\ relists[r].conn = d /\ outcome'[<<"relist", r>>].kind = "none"
                      /\ outcome'[<<"relist", r>>].kind # "none" => relists[r].st = "waiting"
                      /\ relists[r].st = "waiting" => relists[r].conn \in 1 .. Len(conns)
    BY DEF RelistsWait
  <2>1. <<"relist", r>> \in Requesters
    BY DEF Requesters
  <2>2. CASE q = <<"relist", r>>
    BY <2>1, <2>2, <1>1, <1>3, <1>4 DEF McpInv, RelistsWait
  <2>3. CASE q # <<"relist", r>>
    BY <2>1, <2>3, <1>1, <1>3, <1>4 DEF McpInv, RelistsWait
  <2> QED
    BY <2>2, <2>3
<1>10. CallsWait'
  <2> SUFFICES ASSUME NEW k \in Calls
               PROVE  /\ \A d \in Conns : <<"call", k>> \in pending'[d] =>
                           calls[k].st = "waiting" /\ calls[k].conn = d /\ outcome'[<<"call", k>>].kind = "none"
                      /\ outcome'[<<"call", k>>].kind # "none" => calls[k].st = "waiting"
                      /\ calls[k].st \in {"checked", "waiting"} => calls[k].conn \in 1 .. Len(conns)
                      /\ calls[k].st = "waiting" => \/ <<"call", k>> \in pending'[calls[k].conn]
                                                    \/ outcome'[<<"call", k>>].kind # "none"
    BY DEF CallsWait
  <2>1. <<"call", k>> \in Requesters
    BY DEF Requesters
  <2>2. CASE q = <<"call", k>>
    BY <2>1, <2>2, <1>1, <1>3, <1>4 DEF McpInv, CallsWait
  <2>3. CASE q # <<"call", k>>
    <3>1. calls[k].st = "waiting" => calls[k].conn \in Conns
      BY <1>1 DEF McpInv, CallsWait
    <3> QED
      BY <3>1, <2>1, <2>3, <1>1, <1>3, <1>4 DEF McpInv, CallsWait
  <2> QED
    BY <2>2, <2>3
<1> QED
  BY <1>5, <1>6, <1>7, <1>8, <1>9, <1>10 DEF McpInv

LEMMA ReadLineKeeps == ASSUME McpInv, NEW c \in DOMAIN conns, ReadLine(c) PROVE McpInv'
<1>1. /\ pipe[c] # <<>> /\ pipe' = [pipe EXCEPT ![c] = Tail(@)]
      /\ UNCHANGED <<manager, supervisor, shared, conns, inbox, calls, catalog>>
  BY DEF ReadLine
<1>2. c \in 1 .. Len(conns) /\ c \in Conns
  <2>1. Len(conns) \in Nat /\ Len(conns) <= MaxConns /\ MaxConns \in Nat
    BY RoomForConns
  <2> QED
    BY <2>1 DEF Conns, McpInv, Types
<1>3. pipe' \in [Conns -> Seq(Line)] /\ Head(pipe[c]) \in Line
  <2>1. pipe[c] \in Seq(Line) /\ Tail(pipe[c]) \in Seq(Line) /\ Head(pipe[c]) \in Line
    BY <1>1, <1>2 DEF McpInv, Types
  <2> QED
    BY <1>1, <2>1 DEF McpInv, Types
<1>4. ASSUME NEW r \in Relists, relists[r].st = "none", relists' = [relists EXCEPT ![r].st = "start"],
             UNCHANGED <<pending, outcome>>
      PROVE  McpInv'
  BY <1>1, <1>3, <1>4, LinesKeep DEF McpInv, Types
<1>5. ASSUME UNCHANGED <<pending, outcome, relists>> PROVE McpInv'
  BY <1>1, <1>3, <1>5, LinesKeep DEF McpInv, Types
<1>6. ASSUME NEW q \in pending[c], NEW n \in Nat, pending' = [pending EXCEPT ![c] = @ \ {q}],
             outcome' = [outcome EXCEPT ![q] = [kind |-> "answer", catalog |-> n]], UNCHANGED relists
      PROVE  McpInv'
  BY <1>1, <1>2, <1>3, <1>6, RouteKeeps
<1>7. \/ \E r \in Relists : relists[r].st = "none" /\ relists' = [relists EXCEPT ![r].st = "start"] /\ UNCHANGED <<pending, outcome>>
      \/ UNCHANGED <<pending, outcome, relists>>
      \/ \E q \in pending[c], n \in Nat : /\ pending' = [pending EXCEPT ![c] = @ \ {q}]
                                          /\ outcome' = [outcome EXCEPT ![q] = [kind |-> "answer", catalog |-> n]]
                                          /\ UNCHANGED relists
  <2>1. Head(pipe[c]).catalog \in Nat
    BY <1>3 DEF Line
  <2> QED
    BY <2>1 DEF ReadLine, Routed
<1> QED
  BY <1>4, <1>5, <1>6, <1>7
----------------------------------------------------------------------------
\* What a relist or a call does to the wire for itself alone.
LEMMA OwnMove ==
  ASSUME McpInv, NEW q \in Requesters, q # Handshake, NEW e \in Conns,
         \/ pending' = [pending EXCEPT ![e] = @ \cup {q}] /\ outcome' = outcome /\ conns[e] = "open" /\ e <= Len(conns)
         \/ pending' = [pending EXCEPT ![e] = @ \ {q}] /\ outcome' = [outcome EXCEPT ![q] = NoOutcome]
         \/ UNCHANGED <<pending, outcome>>,
         inbox' \in [Conns -> SUBSET Requesters],
         relists' \in [Relists -> [st : {"none", "start", "waiting", "done"}, conn : Nat]],
         calls' \in [Calls -> [st : {"none", "checked", "waiting", "done"}, conn : Nat]],
         current' \in Nat,
         UNCHANGED <<manager, supervisor, state, client, settled, conns, pipe, catalog>>
  PROVE  /\ Types' /\ Bounded' /\ Supervised' /\ Connected' /\ HandshakeWaits'
         /\ \A c \in Conns, p \in Requesters \ {q} : p \in pending'[c] <=> p \in pending[c]
         /\ \A p \in Requesters \ {q} : outcome'[p] = outcome[p]
<1>1. NoOutcome \in Result /\ NoOutcome.kind = "none" /\ Handshake \in Requesters
  BY DEF NoOutcome, Result, Requesters
<1>2. pending \in [Conns -> SUBSET Requesters] /\ outcome \in [Requesters -> Result]
  BY DEF McpInv, Types
<1>3. /\ pending' \in [Conns -> SUBSET Requesters] /\ outcome' \in [Requesters -> Result]
      /\ \A c \in Conns : c # e => pending'[c] = pending[c]
      /\ pending'[e] \subseteq pending[e] \cup {q} /\ pending[e] \subseteq pending'[e] \cup {q}
      /\ pending'[e] \subseteq pending[e] \/ (conns[e] = "open" /\ e <= Len(conns))
      /\ \A p \in Requesters \ {q} : outcome'[p] = outcome[p]
  <2>1. CASE pending' = [pending EXCEPT ![e] = @ \cup {q}] /\ outcome' = outcome /\ conns[e] = "open" /\ e <= Len(conns)
    BY <1>2, <2>1
  <2>2. CASE pending' = [pending EXCEPT ![e] = @ \ {q}] /\ outcome' = [outcome EXCEPT ![q] = NoOutcome]
    BY <1>1, <1>2, <2>2
  <2>3. CASE UNCHANGED <<pending, outcome>>
    BY <1>2, <2>3
  <2> QED
    BY <2>1, <2>2, <2>3
<1>4. /\ \A c \in Conns, p \in Requesters \ {q} : p \in pending'[c] <=> p \in pending[c]
      /\ \A p \in Requesters \ {q} : outcome'[p] = outcome[p]
      /\ \A c \in Conns : pending'[c] # {} => pending[c] # {} \/ (conns[c] = "open" /\ c <= Len(conns))
  BY <1>3
<1>5. Types'
  BY <1>3 DEF manager, supervisor, McpInv, Types
<1>6. Bounded'
  BY CountKeeps DEF manager, supervisor, Attended
<1>7. Supervised'
  BY DEF manager, supervisor, McpInv, Supervised, Attended
<1>8. Connected'
  <2>1. Len(conns) \in Nat /\ \A c \in 1 .. Len(conns) : c \in Conns
    <3>1. Len(conns) \in Nat /\ Len(conns) <= MaxConns /\ MaxConns \in Nat
      BY RoomForConns
    <3> QED
      BY <3>1 DEF Conns
  <2>2. \A c \in Conns : c > Len(conns) => pending'[c] = {}
    BY <1>4, <2>1 DEF McpInv, Connected, Conns
  <2>3. \A c \in 1 .. Len(conns) : conns[c] = "closed" => pending'[c] = {}
    BY <1>4, <2>1 DEF McpInv, Connected
  <2> QED
    BY <2>2, <2>3 DEF supervisor, McpInv, Connected, Attended
<1>9. HandshakeWaits'
  BY <1>1, <1>4 DEF supervisor, McpInv, HandshakeWaits
<1> QED
  BY <1>4, <1>5, <1>6, <1>7, <1>8, <1>9

\* What holds of one relist, of one call.
RelistWaits(r) ==
  /\ \A c \in Conns : <<"relist", r>> \in pending[c] =>
       relists[r].st = "waiting" /\ relists[r].conn = c /\ outcome[<<"relist", r>>].kind = "none"
  /\ outcome[<<"relist", r>>].kind # "none" => relists[r].st = "waiting"
  /\ relists[r].st = "waiting" => relists[r].conn \in 1 .. Len(conns)
CallWaits(k) ==
  /\ \A c \in Conns : <<"call", k>> \in pending[c] =>
       calls[k].st = "waiting" /\ calls[k].conn = c /\ outcome[<<"call", k>>].kind = "none"
  /\ outcome[<<"call", k>>].kind # "none" => calls[k].st = "waiting"
  /\ calls[k].st \in {"checked", "waiting"} => calls[k].conn \in 1 .. Len(conns)
  /\ calls[k].st = "waiting" => \/ <<"call", k>> \in pending[calls[k].conn]
                                \/ outcome[<<"call", k>>].kind # "none"

\* A move of relist r leaves every other relist, and every call, as it was.
LEMMA OtherRelists ==
  ASSUME McpInv, NEW r \in Relists, UNCHANGED <<conns, calls>>,
         \A s \in Relists : s # r => relists'[s] = relists[s],
         \A c \in Conns, p \in Requesters \ {<<"relist", r>>} : p \in pending'[c] <=> p \in pending[c],
         \A p \in Requesters \ {<<"relist", r>>} : outcome'[p] = outcome[p],
         RelistWaits(r)'
  PROVE  RelistsWait' /\ CallsWait'
<1>1. \A s \in Relists : s # r => <<"relist", s>> \in Requesters \ {<<"relist", r>>}
  BY DEF Requesters
<1>2. \A k \in Calls : <<"call", k>> \in Requesters \ {<<"relist", r>>}
  BY DEF Requesters
<1>3. ASSUME NEW s \in Relists, s # r PROVE RelistWaits(s)'
  BY <1>1, <1>3 DEF RelistWaits, McpInv, RelistsWait
<1>4. ASSUME NEW k \in Calls PROVE CallWaits(k)'
  <2>1. calls[k].st = "waiting" => calls[k].conn \in Conns
    <3>1. Len(conns) \in Nat /\ Len(conns) <= MaxConns /\ MaxConns \in Nat
      BY RoomForConns
    <3>2. \A c \in 1 .. Len(conns) : c \in Conns
      BY <3>1 DEF Conns
    <3> QED
      BY <3>2 DEF McpInv, CallsWait
  <2> QED
    BY <1>2, <2>1 DEF CallWaits, McpInv, CallsWait
<1> QED
  BY <1>3, <1>4 DEF RelistWaits, CallWaits, RelistsWait, CallsWait

\* A move of call k leaves every other call, and every relist, as it was.
LEMMA OtherCalls ==
  ASSUME McpInv, NEW k \in Calls, UNCHANGED <<conns, relists>>,
         \A j \in Calls : j # k => calls'[j] = calls[j],
         \A c \in Conns, p \in Requesters \ {<<"call", k>>} : p \in pending'[c] <=> p \in pending[c],
         \A p \in Requesters \ {<<"call", k>>} : outcome'[p] = outcome[p],
         CallWaits(k)'
  PROVE  RelistsWait' /\ CallsWait'
<1>1. \A r \in Relists : <<"relist", r>> \in Requesters \ {<<"call", k>>}
  BY DEF Requesters
<1>2. \A j \in Calls : j # k => <<"call", j>> \in Requesters \ {<<"call", k>>}
  BY DEF Requesters
<1>3. ASSUME NEW r \in Relists PROVE RelistWaits(r)'
  BY <1>1 DEF RelistWaits, McpInv, RelistsWait
<1>4. ASSUME NEW j \in Calls, j # k PROVE CallWaits(j)'
  <2>1. calls[j].st = "waiting" => calls[j].conn \in Conns
    <3>1. Len(conns) \in Nat /\ Len(conns) <= MaxConns /\ MaxConns \in Nat
      BY RoomForConns
    <3>2. \A c \in 1 .. Len(conns) : c \in Conns
      BY <3>1 DEF Conns
    <3> QED
      BY <3>2 DEF McpInv, CallsWait
  <2> QED
    BY <1>2, <1>4, <2>1 DEF CallWaits, McpInv, CallsWait
<1> QED
  BY <1>3, <1>4 DEF RelistWaits, CallWaits, RelistsWait, CallsWait

\* Each conn of a waiting relist or call is one of Conns.
LEMMA ConnsHold == ASSUME McpInv PROVE Len(conns) \in Nat /\ 1 .. Len(conns) \subseteq Conns
<1>1. Len(conns) \in Nat /\ Len(conns) <= MaxConns /\ MaxConns \in Nat
  BY RoomForConns
<1> QED
  BY <1>1 DEF Conns

LEMMA RelistKeeps ==
  ASSUME McpInv, NEW r \in Relists, RelistSends(r) \/ RelistAdopts(r) \/ RelistFails(r)
  PROVE  McpInv'
<1> DEFINE q == <<"relist", r>>
<1>1. /\ q \in Requesters /\ q # Handshake /\ NoOutcome.kind = "none" /\ RelistWaits(r)
      /\ relists \in [Relists -> [st : {"none", "start", "waiting", "done"}, conn : Nat]]
      /\ pending \in [Conns -> SUBSET Requesters] /\ inbox \in [Conns -> SUBSET Requesters]
      /\ outcome \in [Requesters -> Result]
  BY DEF Requesters, Handshake, NoOutcome, McpInv, RelistsWait, RelistWaits, Types
<1>2. Len(conns) \in Nat /\ 1 .. Len(conns) \subseteq Conns
  BY ConnsHold
<1>3. CASE RelistSends(r) /\ client # NoConn /\ IsOpen(client)
  <2>1. /\ relists[r].st = "start" /\ conns[client] = "open"
        /\ relists' = [relists EXCEPT ![r] = [st |-> "waiting", conn |-> client]]
        /\ pending' = [pending EXCEPT ![client] = @ \cup {q}] /\ inbox' = [inbox EXCEPT ![client] = @ \cup {q}]
        /\ UNCHANGED <<conns, pipe, outcome, manager, supervisor, shared, calls, catalog>>
    BY <1>3 DEF RelistSends, Send, IsOpen
  <2>2. client \in 1 .. Len(conns) /\ client \in Conns /\ client <= Len(conns) /\ client \in Nat
    BY <1>2, <1>3 DEF NoConn, McpInv, Types
  <2>3. /\ inbox' \in [Conns -> SUBSET Requesters]
        /\ relists' \in [Relists -> [st : {"none", "start", "waiting", "done"}, conn : Nat]]
        /\ relists'[r].st = "waiting" /\ relists'[r].conn = client
        /\ \A s \in Relists : s # r => relists'[s] = relists[s]
    BY <1>1, <2>1, <2>2
  <2>4. /\ Types' /\ Bounded' /\ Supervised' /\ Connected' /\ HandshakeWaits'
        /\ \A c \in Conns, p \in Requesters \ {q} : p \in pending'[c] <=> p \in pending[c]
        /\ \A p \in Requesters \ {q} : outcome'[p] = outcome[p]
    BY <1>1, <2>1, <2>2, <2>3, OwnMove DEF shared, McpInv, Types
  <2>5. outcome[q].kind = "none" /\ \A c \in Conns : q \notin pending[c]
    BY <1>1, <2>1 DEF RelistWaits
  <2>6. RelistWaits(r)'
    BY <1>1, <2>1, <2>2, <2>3, <2>5 DEF RelistWaits
  <2>7. RelistsWait' /\ CallsWait'
    BY <2>1, <2>3, <2>4, <2>6, OtherRelists
  <2> QED
    BY <2>4, <2>7 DEF McpInv
<1>4. CASE RelistSends(r) /\ ~(client # NoConn /\ IsOpen(client))
  <2>1. /\ relists[r].st = "start" /\ relists' = [relists EXCEPT ![r].st = "done"]
        /\ UNCHANGED <<conns, inbox, pending, pipe, outcome, manager, supervisor, shared, calls, catalog>>
    BY <1>4 DEF RelistSends, Step, wire
  <2>2. /\ relists' \in [Relists -> [st : {"none", "start", "waiting", "done"}, conn : Nat]]
        /\ relists'[r].st = "done" /\ \A s \in Relists : s # r => relists'[s] = relists[s]
    BY <1>1, <2>1
  <2>3. Types' /\ Bounded' /\ Supervised' /\ Connected' /\ HandshakeWaits'
    <3>1. Types'
      BY <2>1, <2>2 DEF manager, supervisor, shared, McpInv, Types
    <3>2. Bounded'
      BY <2>1, CountKeeps DEF manager, supervisor, shared, Attended
    <3> QED
      BY <2>1, <3>1, <3>2 DEF manager, supervisor, shared, McpInv, Supervised, Connected, HandshakeWaits, Attended
  <2>4. RelistWaits(r)'
    BY <1>1, <2>1, <2>2 DEF RelistWaits
  <2>5. RelistsWait' /\ CallsWait'
    BY <2>1, <2>2, <2>4, OtherRelists
  <2> QED
    BY <2>3, <2>5 DEF McpInv
<1>5. CASE RelistAdopts(r) \/ RelistFails(r)
  <2>1. /\ relists[r].st = "waiting" /\ relists' = [relists EXCEPT ![r].st = "done"]
        /\ pending' = [pending EXCEPT ![relists[r].conn] = @ \ {q}] /\ outcome' = [outcome EXCEPT ![q] = NoOutcome]
        /\ current' \in {current, outcome[q].catalog}
        /\ UNCHANGED <<conns, inbox, pipe, manager, supervisor, state, client, settled, calls, catalog>>
    BY <1>5 DEF RelistAdopts, RelistFails, Step, Forgotten, shared
  <2>2. /\ relists' \in [Relists -> [st : {"none", "start", "waiting", "done"}, conn : Nat]]
        /\ relists'[r].st = "done" /\ \A s \in Relists : s # r => relists'[s] = relists[s]
    BY <1>1, <2>1
  <2>3. current' \in Nat
    BY <1>1, <2>1 DEF McpInv, Types, Result
  <2>4. relists[r].conn \in Conns
    BY <1>1, <1>2, <2>1 DEF RelistWaits
  <2>5. /\ Types' /\ Bounded' /\ Supervised' /\ Connected' /\ HandshakeWaits'
        /\ \A c \in Conns, p \in Requesters \ {q} : p \in pending'[c] <=> p \in pending[c]
        /\ \A p \in Requesters \ {q} : outcome'[p] = outcome[p]
    BY <1>1, <2>1, <2>2, <2>3, <2>4, OwnMove DEF McpInv, Types
  <2>6. outcome'[q].kind = "none" /\ \A c \in Conns : q \notin pending'[c]
    BY <1>1, <2>1, <2>4 DEF RelistWaits
  <2>7. RelistWaits(r)'
    BY <2>2, <2>6 DEF RelistWaits
  <2>8. RelistsWait' /\ CallsWait'
    BY <2>1, <2>2, <2>5, <2>7, OtherRelists
  <2> QED
    BY <2>5, <2>8 DEF McpInv
<1> QED
  BY <1>3, <1>4, <1>5

LEMMA CallKeeps ==
  ASSUME McpInv, NEW k \in Calls, CallChecks(k) \/ CallSends(k) \/ CallEnds(k)
  PROVE  McpInv'
<1> DEFINE q == <<"call", k>>
<1>1. /\ q \in Requesters /\ q # Handshake /\ NoOutcome.kind = "none" /\ CallWaits(k)
      /\ calls \in [Calls -> [st : {"none", "checked", "waiting", "done"}, conn : Nat]]
      /\ pending \in [Conns -> SUBSET Requesters] /\ inbox \in [Conns -> SUBSET Requesters]
      /\ outcome \in [Requesters -> Result]
  BY DEF Requesters, Handshake, NoOutcome, McpInv, CallsWait, CallWaits, Types
<1>2. Len(conns) \in Nat /\ 1 .. Len(conns) \subseteq Conns
  BY ConnsHold
<1>3. \* The call moves without touching the wire.
      ASSUME UNCHANGED <<conns, inbox, pending, pipe, outcome, manager, supervisor, shared, relists, catalog>>,
             calls[k].st \in {"none", "checked"}, calls'[k].st \in {"done", "checked"},
             calls' \in [Calls -> [st : {"none", "checked", "waiting", "done"}, conn : Nat]],
             \A j \in Calls : j # k => calls'[j] = calls[j],
             calls'[k].st = "checked" => calls'[k].conn \in 1 .. Len(conns)
      PROVE  McpInv'
  <2>1. Types'
    BY <1>3 DEF manager, supervisor, shared, McpInv, Types
  <2>2. Bounded'
    BY <1>3, CountKeeps DEF manager, supervisor, shared, Attended
  <2>3. Supervised' /\ Connected' /\ HandshakeWaits'
    BY <1>3 DEF manager, supervisor, shared, McpInv, Supervised, Connected, HandshakeWaits, Attended
  <2>4. CallWaits(k)'
    BY <1>1, <1>3 DEF CallWaits
  <2>5. RelistsWait' /\ CallsWait'
    BY <1>3, <2>4, OtherCalls
  <2> QED
    BY <2>1, <2>2, <2>3, <2>5 DEF McpInv
<1>4. CASE CallChecks(k)
  <2>1. /\ calls[k].st = "none"
        /\ UNCHANGED <<conns, inbox, pending, pipe, outcome, manager, supervisor, shared, relists, catalog>>
    BY <1>4 DEF CallChecks, wire
  <2>2. CASE calls' = [calls EXCEPT ![k].st = "done"]
    BY <1>1, <1>3, <2>1, <2>2
  <2>3. CASE client # NoConn /\ calls' = [calls EXCEPT ![k] = [st |-> "checked", conn |-> client]]
    <3>1. client \in Nat /\ client \in 1 .. Len(conns)
      BY <2>3, <1>2 DEF NoConn, McpInv, Types
    <3>2. /\ calls' \in [Calls -> [st : {"none", "checked", "waiting", "done"}, conn : Nat]]
          /\ calls'[k].st = "checked" /\ calls'[k].conn = client /\ \A j \in Calls : j # k => calls'[j] = calls[j]
      BY <1>1, <2>3, <3>1
    <3> QED
      BY <1>3, <2>1, <3>1, <3>2
  <2> QED
    BY <1>4, <2>2, <2>3 DEF CallChecks
<1>5. CASE CallSends(k)
  <2>1. calls[k].st = "checked" /\ calls[k].conn \in 1 .. Len(conns) /\ calls[k].conn \in Conns
    BY <1>1, <1>2, <1>5 DEF CallSends, CallWaits
  <2>2. CASE ~IsOpen(calls[k].conn)
    <3>1. /\ calls' = [calls EXCEPT ![k].st = "done"]
          /\ UNCHANGED <<conns, inbox, pending, pipe, outcome, manager, supervisor, shared, relists, catalog>>
      BY <1>5, <2>2 DEF CallSends, wire
    <3> QED
      BY <1>1, <1>3, <2>1, <3>1
  <2>3. CASE IsOpen(calls[k].conn)
    <3>1. /\ calls' = [calls EXCEPT ![k].st = "waiting"] /\ conns[calls[k].conn] = "open"
          /\ pending' = [pending EXCEPT ![calls[k].conn] = @ \cup {q}]
          /\ inbox' = [inbox EXCEPT ![calls[k].conn] = @ \cup {q}]
          /\ UNCHANGED <<conns, pipe, outcome, manager, supervisor, shared, relists, catalog>>
      BY <1>5, <2>3 DEF CallSends, Send, IsOpen
    <3>2. /\ calls' \in [Calls -> [st : {"none", "checked", "waiting", "done"}, conn : Nat]]
          /\ calls'[k].st = "waiting" /\ calls'[k].conn = calls[k].conn
          /\ \A j \in Calls : j # k => calls'[j] = calls[j]
          /\ inbox' \in [Conns -> SUBSET Requesters]
      BY <1>1, <2>1, <3>1
    <3>3. calls[k].conn <= Len(conns)
      BY <1>2, <2>1
    <3>4. /\ Types' /\ Bounded' /\ Supervised' /\ Connected' /\ HandshakeWaits'
          /\ \A c \in Conns, p \in Requesters \ {q} : p \in pending'[c] <=> p \in pending[c]
          /\ \A p \in Requesters \ {q} : outcome'[p] = outcome[p]
      BY <1>1, <2>1, <3>1, <3>2, <3>3, OwnMove DEF shared, McpInv, Types
    <3>5. outcome[q].kind = "none" /\ \A c \in Conns : q \notin pending[c]
      BY <1>1, <2>1 DEF CallWaits
    <3>6. CallWaits(k)'
      BY <1>1, <2>1, <3>1, <3>2, <3>5 DEF CallWaits
    <3>7. RelistsWait' /\ CallsWait'
      BY <3>1, <3>2, <3>4, <3>6, OtherCalls
    <3> QED
      BY <3>4, <3>7 DEF McpInv
  <2> QED
    BY <2>2, <2>3
<1>6. CASE CallEnds(k)
  <2>1. /\ calls[k].st = "waiting" /\ calls' = [calls EXCEPT ![k].st = "done"]
        /\ pending' = [pending EXCEPT ![calls[k].conn] = @ \ {q}] /\ outcome' = [outcome EXCEPT ![q] = NoOutcome]
        /\ UNCHANGED <<conns, inbox, pipe, manager, supervisor, shared, relists, catalog>>
    BY <1>6 DEF CallEnds, Forgotten
  <2>2. /\ calls' \in [Calls -> [st : {"none", "checked", "waiting", "done"}, conn : Nat]]
        /\ calls'[k].st = "done" /\ \A j \in Calls : j # k => calls'[j] = calls[j]
    BY <1>1, <2>1
  <2>3. calls[k].conn \in Conns
    BY <1>1, <1>2, <2>1 DEF CallWaits
  <2>4. /\ Types' /\ Bounded' /\ Supervised' /\ Connected' /\ HandshakeWaits'
        /\ \A c \in Conns, p \in Requesters \ {q} : p \in pending'[c] <=> p \in pending[c]
        /\ \A p \in Requesters \ {q} : outcome'[p] = outcome[p]
    BY <1>1, <2>1, <2>2, <2>3, OwnMove DEF shared, McpInv, Types
  <2>5. outcome'[q].kind = "none" /\ \A c \in Conns : q \notin pending'[c]
    BY <1>1, <2>1, <2>3 DEF CallWaits
  <2>6. CallWaits(k)'
    BY <2>2, <2>5 DEF CallWaits
  <2>7. RelistsWait' /\ CallsWait'
    BY <2>1, <2>2, <2>4, <2>6, OtherCalls
  <2> QED
    BY <2>4, <2>7 DEF McpInv
<1> QED
  BY <1>4, <1>5, <1>6
----------------------------------------------------------------------------
LEMMA McpInvNext == ASSUME McpInv, [Next]_vars PROVE McpInv'
<1>1. CASE UNCHANGED vars
  <2>1. UNCHANGED <<manager, supervisor, shared, conns, inbox, pipe, pending, outcome, relists, calls, catalog>>
    BY <1>1 DEF vars, wire
  <2> QED
    BY <2>1, LinesKeep DEF McpInv, Types
<1>2. CASE Supervise
  <2>1. CASE SuperviseTop
    BY <2>1, ConnectKeeps, QuietSupervisorKeeps
  <2> QED
    BY <1>2, <2>1, QuietSupervisorKeeps, AdoptKeeps, HandshakeFailsKeeps, ConnectionEndsKeeps, ReadyLostKeeps
    DEF Supervise
<1>3. ASSUME NEW c \in DOMAIN conns, ServerExits(c) PROVE McpInv'
  <2>1. UNCHANGED <<manager, supervisor, shared, conns, inbox, pipe, pending, outcome, relists, calls, catalog>>
    BY <1>3 DEF ServerExits, wire
  <2> QED
    BY <2>1, LinesKeep DEF McpInv, Types
<1> QED
  BY <1>1, <1>2, <1>3, ConnectionEndsKeeps, ReadLineKeeps, ServerKeeps, ManagerKeeps, RelistKeeps, CallKeeps DEF Next

LEMMA McpInvHolds == Spec => []McpInv
<1>1. Init => McpInv
  BY McpInvInit
<1>2. McpInv /\ [Next]_vars => McpInv'
  BY McpInvNext
<1> QED
  BY <1>1, <1>2, PTL DEF Spec

\* Whatever calls, relists and timeouts race with the end of a connection,
\* no call waits on a connection that is gone: failAll has answered it, or
\* it was refused (client.go call, failAll).
THEOREM CallsNeverStranded == Spec => []NoCallStranded
<1>1. McpInv => NoCallStranded
  <2> SUFFICES ASSUME McpInv PROVE NoCallStranded
    OBVIOUS
  <2>1. DOMAIN conns = 1 .. Len(conns) /\ \A c \in 1 .. Len(conns) : conns[c] \in {"open", "closed"}
    BY SMTT(20) DEF McpInv, Types
  <2>2. \A c \in DOMAIN conns \ Open : pending[c] = {}
    BY <2>1 DEF Open, McpInv, Connected
  <2> QED
    BY <2>2 DEF NoCallStranded, McpInv, CallsWait
<1> QED
  BY <1>1, McpInvHolds, PTL

\* route and failAll find room in the channel of everyone who is pending:
\* they send with the mutex held and never block (client.go:194).
THEOREM RouteNeverBlocks == Spec => []ChannelsNeverFull
<1>1. McpInv => ChannelsNeverFull
  <2> SUFFICES ASSUME McpInv, NEW c \in DOMAIN conns, NEW q \in pending[c] PROVE outcome[q].kind = "none"
    BY DEF ChannelsNeverFull
  <2>1. c \in Conns
    <3>1. 1 .. Len(conns) \subseteq Conns
      BY ConnsHold
    <3>2. DOMAIN conns = 1 .. Len(conns)
      BY DEF McpInv, Types
    <3> QED
      BY <3>1, <3>2
  <2>2. q \in Requesters
    BY <2>1 DEF McpInv, Types
  <2>3. CASE q = Handshake
    BY <2>1, <2>3 DEF McpInv, HandshakeWaits
  <2>4. ASSUME NEW r \in Relists, q = <<"relist", r>> PROVE outcome[q].kind = "none"
    BY <2>1, <2>4 DEF McpInv, RelistsWait
  <2>5. ASSUME NEW k \in Calls, q = <<"call", k>> PROVE outcome[q].kind = "none"
    BY <2>1, <2>5 DEF McpInv, CallsWait
  <2> QED
    BY <2>2, <2>3, <2>4, <2>5 DEF Requesters
<1> QED
  BY <1>1, McpInvHolds, PTL

\* A process runs on the latest connection only, and only while the supervisor
\* attends to it, whether that connection is open or not.
Kept == /\ running \subseteq Nat
        /\ \A c \in running : c = Len(conns) /\ Attended

\* A process starts with a connection, from the top of the loop, where none
\* runs; the supervisor never leaves a connection without killing its process.
LEMMA KeptNext == ASSUME McpInv, Kept, [Next]_vars PROVE Kept'
<1>0. Len(conns) \in Nat /\ conns \in Seq({"open", "closed"})
  BY DEF McpInv, Types
<1>1. ASSUME running' \subseteq running, Len(conns') = Len(conns), Attended => Attended'
      PROVE  Kept'
  BY <1>1 DEF Kept
<1>2. ASSUME running' \subseteq running, ~Attended PROVE Kept'
  BY <1>2 DEF Kept
<1>3. ASSUME Killed(Conn) PROVE Kept'
  BY <1>3 DEF Kept, Killed, Conn
<1>4. ASSUME UNCHANGED <<conns, sup>>, running' \subseteq running PROVE Kept'
  BY <1>1, <1>4 DEF Attended
<1>5. CASE UNCHANGED vars
  BY <1>4, <1>5 DEF vars, wire, supervisor
<1>6. CASE SuperviseTop
  <2>1. CASE UNCHANGED running
    BY <1>2, <1>6, <2>1 DEF SuperviseTop, Attended
  <2>2. CASE ~UNCHANGED running
    <3>1. /\ sup = "top" /\ sup' = "handshake" /\ conns' = Append(conns, "open")
          /\ running' = running \cup {Len(conns) + 1}
      BY <1>6, <2>2 DEF SuperviseTop, Conn
    <3>2. running = {}
      BY <3>1 DEF Kept, Attended
    <3> QED
      BY <1>0, <3>1, <3>2 DEF Kept, Attended
  <2> QED
    BY <2>1, <2>2
<1>7. CASE HandshakeDone \/ AdoptAndReady
  <2>1. UNCHANGED <<conns, running>> /\ sup' \in {"adopt", "ready"}
    BY <1>7 DEF HandshakeDone, AdoptAndReady, wire
  <2> QED
    BY <1>1, <2>1 DEF Attended
<1>8. CASE HandshakeFails \/ ReadyClosed \/ ReadyLost
  BY <1>3, <1>8 DEF HandshakeFails, ReadyClosed, ReadyLost
<1>9. CASE SleepEnds \/ SleepCancelled
  BY <1>2, <1>9 DEF SleepEnds, SleepCancelled, Attended
<1>10. CASE SupervisorDone \/ CloseManager \/ CloseReturns \/ ReconnectChecks
  BY <1>4, <1>10 DEF SupervisorDone, CloseManager, CloseReturns, ReconnectChecks, supervisor, wire
<1>11. CASE ReconnectStarts
  <2>1. UNCHANGED <<conns, running>>
    BY <1>11 DEF ReconnectStarts, wire
  <2>2. CASE state = "failed"
    BY <1>2, <2>1, <2>2 DEF McpInv, Supervised, Attended
  <2>3. CASE state # "failed"
    BY <1>4, <1>11, <2>1, <2>3 DEF ReconnectStarts
  <2> QED
    BY <2>2, <2>3
<1>12. ASSUME NEW c \in DOMAIN conns, ConnectionEnds(c) PROVE Kept'
  <2>1. UNCHANGED <<sup, running>> /\ Len(conns') = Len(conns)
    BY <1>0, <1>12 DEF ConnectionEnds, Shut, supervisor
  <2> QED
    BY <1>1, <2>1 DEF Attended
<1>13. ASSUME NEW c \in DOMAIN conns, ServerExits(c) PROVE Kept'
  BY <1>4, <1>13 DEF ServerExits, wire, supervisor
<1>14. ASSUME NEW c \in DOMAIN conns, ReadLine(c) PROVE Kept'
  BY <1>4, <1>14 DEF ReadLine, supervisor
<1>15. ASSUME NEW c \in DOMAIN conns, NEW q \in Requesters, ServerAnswers(c, q) PROVE Kept'
  BY <1>4, <1>15 DEF ServerAnswers, supervisor
<1>16. CASE ServerChanges
  BY <1>4, <1>16 DEF ServerChanges, supervisor
<1>17. ASSUME NEW r \in Relists, RelistSends(r) \/ RelistAdopts(r) \/ RelistFails(r) PROVE Kept'
  BY <1>4, <1>17 DEF RelistSends, RelistAdopts, RelistFails, Send, supervisor, wire
<1>18. ASSUME NEW k \in Calls, CallChecks(k) \/ CallSends(k) \/ CallEnds(k) PROVE Kept'
  BY <1>4, <1>18 DEF CallChecks, CallSends, CallEnds, Send, supervisor, wire
<1> QED
  BY <1>5, <1>6, <1>7, <1>8, <1>9, <1>10, <1>11, <1>12, <1>13, <1>14, <1>15, <1>16, <1>17, <1>18
  DEF Next, Supervise

\* At most one connection is open and one process runs, that connection's,
\* and neither once Close has returned, however often a server is restarted
\* and reconnected, and whether its process or its output ends first
\* (supervisor.go supervise, manager.go Close).
THEOREM OneServerProcess == Spec => []OneProcess
<1>1. Init => Kept
  BY DEF Init, Kept
<1>2. Spec => []Kept
  BY <1>1, KeptNext, McpInvHolds, PTL DEF Spec
<1>3. McpInv /\ Kept => OneProcess
  <2> SUFFICES ASSUME McpInv, Kept PROVE OneProcess
    OBVIOUS
  <2> DEFINE Left == Open \cup running
  <2>1. \A c \in Left : c = Len(conns) /\ Attended
    <3>1. \A c \in Open : c = Len(conns) /\ Attended
      BY DEF Open, McpInv, Types, Connected
    <3>2. \A c \in running : c = Len(conns) /\ Attended
      BY DEF Kept
    <3> QED
      BY <3>1, <3>2
  <2>2. CASE Left = {}
    <3>1. Cardinality(Left) = 0
      BY <2>2, FS_EmptySet
    <3> QED
      BY <3>1 DEF OneProcess
  <2>3. CASE Left # {}
    <3>1. Left = {Len(conns)}
      BY <2>1, <2>3
    <3>2. Cardinality(Left) = 1
      BY <3>1, FS_Singleton
    <3>3. closing # "returned"
      BY <2>1, <2>3 DEF Attended, McpInv, Supervised
    <3> QED
      BY <3>2, <3>3 DEF OneProcess
  <2> QED
    BY <2>2, <2>3
<1> QED
  BY <1>2, <1>3, McpInvHolds, PTL

\* The supervisor gives up in time: over any behaviour it makes at most
\* MaxStrikes + 1 connections for each reconnect and each stable connection,
\* so the bound on connections is never met (supervisor.go fail, maxStrikes).
THEOREM ConnectionsBounded == Spec => [](Len(conns) <= MaxConns)
<1>1. McpInv => Len(conns) <= MaxConns
  BY RoomForConns
<1> QED
  BY <1>1, McpInvHolds, PTL
=============================================================================
