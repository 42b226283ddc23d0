------------------------------ MODULE Frontend ------------------------------
(***************************************************************************)
(* The terminal interface around the agent and the permission engine       *)
(* (src/internal/tui, model.go, model_keys.go, approval.go, bridge.go):    *)
(* runs started and interrupted from the keyboard, the modal and the queue *)
(* of asks, and the two ways news of a run comes back in any order: its    *)
(* asks, by the bus and the bridge, and the return of Agent.Prompt, by a   *)
(* goroutine of its own.                                                   *)
(*                                                                         *)
(* The agent (agent.go, run) is one run at a time; what a run does is to   *)
(* make tool calls.  In print mode there is one run, nobody is asked, and  *)
(* a signal interrupts it.  The events that are only displayed, and input  *)
(* for the run that is under way (AgentLoop), are not here.                *)
(***************************************************************************)
EXTENDS Permission

CONSTANT MaxRuns   \* bound: prompts submitted to start a run

Runs == 1..MaxRuns

VARIABLES run,       \* each Agent.Prompt and its context
          active,    \* Agent.running: the run there is, or 0
          running,   \* rootModel.running
          cancelRun, \* rootModel.cancelRun: the run it cancels, or 0
          modal,     \* rootModel.modal: its ask, or 0
          asks,      \* rootModel.asks
          open,      \* the program of the interface runs
          returns    \* runDoneMsg on their way

uiVars == <<running, cancelRun, modal, asks, open>>
vars == <<permVars, run, active, uiVars, returns>>

Init == /\ PermInit
        /\ run = [r \in Runs |-> [st |-> "none", ctx |-> "live"]]
        /\ active = 0
        /\ running = FALSE
        /\ cancelRun = 0
        /\ modal = 0
        /\ asks = <<>>
        /\ open = TRUE
        /\ returns = {}
----------------------------------------------------------------------------
\* Agent.Prompt, in a goroutine of its own: refused while a run is active.
Prompt(r) ==
  /\ run[r].st = "called"
  /\ run' = [run EXCEPT ![r].st = IF active = 0 THEN "running" ELSE "refused"]
  /\ active' = IF active = 0 THEN r ELSE active
  /\ returns' = IF active = 0 THEN returns ELSE returns \cup {r}
  /\ UNCHANGED <<permVars, uiVars>>

\* A tool call is prepared, unless the run is cancelled.
Call(r, c) ==
  /\ active = r /\ run[r].st = "running" /\ run[r].ctx = "live"
  /\ Begin(c)
  /\ UNCHANGED <<run, active, uiVars, returns>>

\* The decision of the call goes on.
Decide ==
  /\ \/ Screens \/ Default \/ Answered
     \/ active # 0 /\ run[active].ctx # "live" /\ Cancelled
  /\ UNCHANGED <<run, active, uiVars, returns>>

\* The loop is done, and Prompt returns.
RunReturns(r) ==
  /\ active = r /\ run[r].st = "running"
  /\ dec.st \in {"idle", "settled"}
  /\ run' = [run EXCEPT ![r].st = "returned"]
  /\ active' = 0
  /\ returns' = returns \cup {r}
  /\ UNCHANGED <<permVars, uiVars>>
----------------------------------------------------------------------------
\* submit and startRun: only with no modal open, and no run under way that
\* the interface knows of.  Print mode prompts once.
Submit(r) ==
  /\ asker # "notify" => r = 1
  /\ open /\ modal = 0 /\ ~running
  /\ run[r].st = "none" /\ \A s \in 1..(r - 1) : run[s].st # "none"
  /\ run' = [run EXCEPT ![r].st = "called"]
  /\ running' = TRUE
  /\ cancelRun' = r
  /\ UNCHANGED <<permVars, active, modal, asks, open, returns>>

\* interrupt: Esc with no modal open, or the first signal.
Interrupt ==
  /\ open /\ modal = 0 /\ running /\ cancelRun # 0
  /\ run[cancelRun].ctx = "live"
  /\ run' = [run EXCEPT ![cancelRun].ctx = "interrupted"]
  /\ UNCHANGED <<permVars, active, uiVars, returns>>

\* /mode: the keyboard is the modal's while one is open.
Switch ==
  /\ \/ open /\ modal = 0 /\ \E m \in Modes : SwitchStarts(m)
     \/ SwitchEnds
  /\ UNCHANGED <<run, active, uiVars, returns>>

\* Mutant: the first ask of the queue is dropped with the modal.
Queued_Dropped(q) == IF q = <<>> THEN q ELSE Tail(q)

\* The asks a closing modal leaves.
Queued(q) == q

\* The user answers the modal, and closeModal shows the next ask.  SetMode
\* runs in the same goroutine: it is over.
Answer(a) ==
  /\ open /\ modal # 0 /\ mode.now = mode.to
  /\ reply' = [reply EXCEPT ![Chan(modal)] = a]
  /\ asked' = [asked EXCEPT ![modal].answer = a]
  /\ LET q == Queued(asks)
     IN  IF q = <<>> THEN modal' = 0 /\ asks' = q
                     ELSE modal' = Head(q) /\ asks' = Tail(q)
  /\ UNCHANGED <<mode, switches, grants, dec, made, asker, bus, run, active, running, cancelRun, open, returns>>

\* runBridge and applyAgentEvent: an ask opens the modal or queues behind it,
\* whether anybody still waits for its answer or not.
Receive ==
  /\ open /\ bus # <<>> /\ mode.now = mode.to
  /\ bus' = Tail(bus)
  /\ IF modal = 0 THEN modal' = Head(bus) /\ UNCHANGED asks
                  ELSE asks' = Append(asks, Head(bus)) /\ UNCHANGED modal
  /\ UNCHANGED <<mode, switches, grants, dec, made, asked, reply, asker, run, active, running, cancelRun, open, returns>>

\* runDoneMsg: the interface releases the context it holds, whichever run's
\* that is by now.
Returned(r) ==
  /\ open /\ r \in returns /\ mode.now = mode.to
  /\ returns' = returns \ {r}
  /\ running' = FALSE
  /\ cancelRun' = 0
  /\ run' = IF cancelRun # 0 /\ run[cancelRun].ctx = "live"
            THEN [run EXCEPT ![cancelRun].ctx = "released"] ELSE run
  /\ UNCHANGED <<permVars, active, modal, asks, open>>

\* Two ctrl+c, or ctrl+d with no modal open: an open modal is answered, and
\* the asks behind it are not.  The model is gone with what it held, and the
\* run goes on until the process ends.
Quit ==
  /\ asker = "notify"
  /\ open /\ mode.now = mode.to
  /\ open' = FALSE /\ modal' = 0 /\ asks' = <<>> /\ running' = FALSE /\ cancelRun' = 0
  /\ IF modal = 0 THEN UNCHANGED <<reply, asked>>
     ELSE /\ reply' = [reply EXCEPT ![Chan(modal)] = "deny"]
          /\ asked' = [asked EXCEPT ![modal].answer = "deny"]
  /\ UNCHANGED <<mode, switches, grants, dec, made, asker, bus, run, active, returns>>

Agent == Decide \/ \E r \in Runs : Prompt(r) \/ RunReturns(r)
Interface == Receive \/ \E r \in Runs : Returned(r)

Next == \/ Agent \/ Interface \/ Switch \/ Interrupt \/ Quit
        \/ \E r \in Runs : Submit(r) \/ \E c \in Calls : Call(r, c)
        \/ \E a \in Answers : Answer(a)

\* The agent and the interface go on, and the user answers what is shown:
\* there is deliberately no timeout (approval.go:22).
Spec == /\ Init /\ [][Next]_vars
        /\ WF_vars(Agent) /\ WF_vars(Interface) /\ WF_vars(Switch /\ SwitchEnds)
        /\ WF_vars(\E a \in Answers : Answer(a))
----------------------------------------------------------------------------
\* Every prompt that is submitted starts a run and sees its end, and nothing
\* but Esc cuts it short: whatever modals were left open by cancelled asks,
\* and in whatever order asks and returns came, no ask is forgotten behind
\* another (model.go:167-183), no prompt meets the run before it, and the
\* context that runDoneMsg releases is not the next run's (model.go:116).
RunsEnd ==
  /\ \A r \in Runs : run[r].st = "called" ~> (run[r].st = "returned" \/ ~open)
  /\ [](\A r \in Runs : run[r].ctx = "released" => run[r].st = "returned")
=============================================================================
