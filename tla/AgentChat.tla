------------------------------- MODULE AgentChat -------------------------------
(***************************************************************************)
(* The chat loop: AgentManager.StreamChat and StopChat (agent/agent.go),   *)
(* Session.SetCancel and Stop (agent/session.go), AgentSend and            *)
(* AgentStopSend (services/agent_service.go), driven by the one composer   *)
(* of the frontend (useAgentComposer.ts, useAgentEvents.ts,                *)
(* AiAgentPanel.tsx).                                                      *)
(*                                                                         *)
(* A run is one execution of StreamChat.  There is one AgentManager and    *)
(* one Session object for all chat sessions, so two runs share the fields  *)
(* activeCancel and cancelFunc.  ToolBus.Invoke appears as what module     *)
(* ToolBus promises of it: it acts, or first waits for the user until an   *)
(* answer or the cancellation.                                             *)
(***************************************************************************)
EXTENDS Integers

CONSTANTS
  Runs,        \* executions of StreamChat
  Sessions,    \* chat sessions of the user interface
  SessionOf,   \* the session a run belongs to
  MaxTurns,    \* StreamChat's maxTurns (50 in the code)
  MaxCalls,    \* bound: tool calls the model asks for in one turn
  None         \* no run

ASSUME SessionAssumption == SessionOf \in [Runs -> Sessions]
ASSUME BoundsAssumption == MaxTurns \in Nat \ {0} /\ MaxCalls \in Nat \ {0}
ASSUME NoneAssumption == None \notin Runs

VARIABLES
  pc,            \* where each run is
  turn,          \* its current turn
  calls,         \* tool calls of this turn still to be made
  cancelled,     \* its context was cancelled while it still mattered
  result,        \* how StreamChat returned
  activeCancel,  \* AgentManager.activeCancel: whose cancel function
  cancelFunc,    \* Session.cancelFunc: whose cancel function
  stop,          \* StopChat in progress: [at, session, targets]
  active,        \* composer: the session on screen
  generating,    \* composer: isGenerating
  card,          \* panel: the confirmation card on screen (pendingHitl)
  lateModel,     \* history: model calls begun after the cancellation
  lateTools,     \* history: tool calls begun after the cancellation
  crowded        \* history: another run was in flight during this one

runVars == <<pc, turn, calls, cancelled, result>>
uiVars == <<active, generating, card>>
history == <<lateModel, lateTools, crowded>>
vars == <<runVars, activeCancel, cancelFunc, stop, uiVars, history>>

-----------------------------------------------------------------------------
RunStates == {"idle", "resolve", "setSession", "setActive", "turn", "model", "recv",
              "tools", "invoke", "asking", "running", "return", "emit", "done"}

InFlight == RunStates \ {"idle", "done"}

(* Where StreamChat still looks at its context.                            *)
Looping == {"setActive", "turn", "model", "recv", "tools", "invoke", "asking", "running"}

TypeOK ==
  /\ pc \in [Runs -> RunStates]
  /\ turn \in [Runs -> 0 .. MaxTurns + 1]
  /\ calls \in [Runs -> 0 .. MaxCalls]
  /\ cancelled \in [Runs -> BOOLEAN]
  /\ result \in [Runs -> {"none", "answer", "stopped", "error"}]
  /\ activeCancel \in Runs \cup {None}
  /\ cancelFunc \in Runs \cup {None}
  /\ stop \in [at : {"none", "session"}, session : Sessions, targets : SUBSET Runs]
  /\ active \in Sessions
  /\ generating \in BOOLEAN
  /\ card \in Runs \cup {None}
  /\ lateModel \in [Runs -> Nat]
  /\ lateTools \in [Runs -> Nat]
  /\ crowded \in [Runs -> BOOLEAN]

Init ==
  /\ pc = [r \in Runs |-> "idle"]
  /\ turn = [r \in Runs |-> 0]
  /\ calls = [r \in Runs |-> 0]
  /\ cancelled = [r \in Runs |-> FALSE]
  /\ result = [r \in Runs |-> "none"]
  /\ activeCancel = None
  /\ cancelFunc = None
  /\ active \in Sessions
  /\ stop = [at |-> "none", session |-> active, targets |-> {}]
  /\ generating = FALSE
  /\ card = None
  /\ lateModel = [r \in Runs |-> 0]
  /\ lateTools = [r \in Runs |-> 0]
  /\ crowded = [r \in Runs |-> FALSE]

-----------------------------------------------------------------------------
(* StreamChat                                                              *)

goto(r, l) == pc' = [pc EXCEPT ![r] = l]

leave(r, res) == goto(r, "return") /\ result' = [result EXCEPT ![r] = res]

(* handleSend: one send at a time as far as the composer knows.            *)
Send(r) ==
  /\ pc[r] = "idle" /\ SessionOf[r] = active /\ ~generating
  /\ goto(r, "resolve")
  /\ generating' = TRUE
  /\ LET others == {q \in Runs \ {r} : pc[q] \in InFlight}
     IN  crowded' = [q \in Runs |-> crowded[q] \/ (others # {} /\ q \in others \cup {r})]
  /\ UNCHANGED <<turn, calls, cancelled, result, activeCancel, cancelFunc, stop,
                 active, card, lateModel, lateTools>>

(* Router.Resolve: without a model the send fails before anything is set.  *)
ResolveModel(r) ==
  /\ pc[r] = "resolve"
  /\ \/ goto(r, "setSession") /\ UNCHANGED result
     \/ goto(r, "emit") /\ result' = [result EXCEPT ![r] = "error"]
  /\ UNCHANGED <<turn, calls, cancelled, activeCancel, cancelFunc, stop, uiVars, history>>

(* MUTANT: only the first chat registers with the session object.          *)
SetCancelOnce(r) ==
  /\ pc[r] = "setSession"
  /\ cancelFunc' = IF cancelFunc = None THEN r ELSE cancelFunc
  /\ goto(r, "setActive")
  /\ UNCHANGED <<turn, calls, cancelled, result, activeCancel, stop, uiVars, history>>

(* sess.SetCancel, then m.activeCancel: two locks, two steps.              *)
SetCancel(r) ==
  /\ pc[r] = "setSession"
  /\ cancelFunc' = r
  /\ goto(r, "setActive")
  /\ UNCHANGED <<turn, calls, cancelled, result, activeCancel, stop, uiVars, history>>

SetActiveCancel(r) ==
  /\ pc[r] = "setActive"
  /\ activeCancel' = r
  /\ turn' = [turn EXCEPT ![r] = 1]
  /\ goto(r, "turn")
  /\ UNCHANGED <<calls, cancelled, result, cancelFunc, stop, uiVars, history>>

(* MUTANT: a new turn begins without looking at the context.               *)
BeginTurnUnchecked(r) ==
  /\ pc[r] = "turn"
  /\ \/ turn[r] > MaxTurns /\ leave(r, "answer")
     \/ turn[r] <= MaxTurns /\ goto(r, "model") /\ UNCHANGED result
  /\ UNCHANGED <<turn, calls, cancelled, activeCancel, cancelFunc, stop, uiVars, history>>

(* MUTANT: the loop runs once more than its limit.                         *)
BeginTurnOffByOne(r) ==
  /\ pc[r] = "turn"
  /\ \/ turn[r] > MaxTurns + 1 /\ leave(r, "answer")
     \/ turn[r] <= MaxTurns + 1 /\ cancelled[r] /\ leave(r, "stopped")
     \/ turn[r] <= MaxTurns + 1 /\ ~cancelled[r] /\ goto(r, "model") /\ UNCHANGED result
  /\ UNCHANGED <<turn, calls, cancelled, activeCancel, cancelFunc, stop, uiVars, history>>

(* The loop head: turn limit, then the context.                            *)
BeginTurn(r) ==
  /\ pc[r] = "turn"
  /\ \/ turn[r] > MaxTurns /\ leave(r, "answer")
     \/ turn[r] <= MaxTurns /\ cancelled[r] /\ leave(r, "stopped")
     \/ turn[r] <= MaxTurns /\ ~cancelled[r] /\ goto(r, "model") /\ UNCHANGED result
  /\ UNCHANGED <<turn, calls, cancelled, activeCancel, cancelFunc, stop, uiVars, history>>

(* model.Stream (external): opens a stream, or fails.                      *)
OpenStream(r) ==
  /\ pc[r] = "model"
  /\ lateModel' = [lateModel EXCEPT ![r] = @ + (IF cancelled[r] THEN 1 ELSE 0)]
  /\ \/ goto(r, "recv") /\ UNCHANGED result
     \/ leave(r, IF cancelled[r] THEN "stopped" ELSE "error")
  /\ UNCHANGED <<turn, calls, cancelled, activeCancel, cancelFunc, stop, uiVars,
                 lateTools, crowded>>

(* The receive loop ends by the context, an error or the end of the        *)
(* stream, and the context is looked at first; no tool call means the      *)
(* model has answered.                                                     *)
EndStream(r) ==
  /\ pc[r] = "recv"
  /\ \/ cancelled[r] /\ leave(r, "stopped") /\ UNCHANGED calls
     \/ ~cancelled[r] /\ leave(r, "error") /\ UNCHANGED calls
     \/ ~cancelled[r] /\ leave(r, "answer") /\ UNCHANGED calls
     \/ /\ ~cancelled[r]
        /\ \E n \in 1 .. MaxCalls : calls' = [calls EXCEPT ![r] = n]
        /\ goto(r, "tools") /\ UNCHANGED result
  /\ UNCHANGED <<turn, cancelled, activeCancel, cancelFunc, stop, uiVars, history>>

(* MUTANT: a stop between two tool calls ends the run as an answer.        *)
NextToolAnswers(r) ==
  /\ pc[r] = "tools"
  /\ \/ /\ calls[r] = 0
        /\ turn' = [turn EXCEPT ![r] = @ + 1]
        /\ goto(r, "turn") /\ UNCHANGED result
     \/ calls[r] > 0 /\ cancelled[r] /\ leave(r, "answer") /\ UNCHANGED turn
     \/ calls[r] > 0 /\ ~cancelled[r] /\ goto(r, "invoke") /\ UNCHANGED <<turn, result>>
  /\ UNCHANGED <<calls, cancelled, activeCancel, cancelFunc, stop, uiVars, history>>

(* The head of the loop over the collected tool calls.                     *)
NextTool(r) ==
  /\ pc[r] = "tools"
  /\ \/ /\ calls[r] = 0
        /\ turn' = [turn EXCEPT ![r] = @ + 1]
        /\ goto(r, "turn") /\ UNCHANGED result
     \/ calls[r] > 0 /\ cancelled[r] /\ leave(r, "stopped") /\ UNCHANGED turn
     \/ calls[r] > 0 /\ ~cancelled[r] /\ goto(r, "invoke") /\ UNCHANGED <<turn, result>>
  /\ UNCHANGED <<calls, cancelled, activeCancel, cancelFunc, stop, uiVars, history>>

(* ToolBus.Invoke begins; a confirmation takes the panel's only place.     *)
InvokeTool(r) ==
  /\ pc[r] = "invoke"
  /\ lateTools' = [lateTools EXCEPT ![r] = @ + (IF cancelled[r] THEN 1 ELSE 0)]
  /\ \/ goto(r, "running") /\ UNCHANGED card
     \/ goto(r, "asking") /\ card' = r
  /\ UNCHANGED <<turn, calls, cancelled, result, activeCancel, cancelFunc, stop,
                 active, generating, lateModel, crowded>>

(* Invoke returns; its result is appended to the history whatever it is.   *)
toolDone(r) == goto(r, "tools") /\ calls' = [calls EXCEPT ![r] = @ - 1]

ToolReturns(r) ==
  /\ pc[r] = "running"
  /\ toolDone(r)
  /\ UNCHANGED <<turn, cancelled, result, activeCancel, cancelFunc, stop, uiVars, history>>

(* MUTANT: the wait for the user is deaf to the context.                   *)
AskInterruptedNever(r) == pc[r] = "asking" /\ cancelled[r] /\ UNCHANGED vars

(* RequestApproval's ctx.Done branch.                                      *)
AskInterrupted(r) ==
  /\ pc[r] = "asking" /\ cancelled[r]
  /\ toolDone(r)
  /\ UNCHANGED <<turn, cancelled, result, activeCancel, cancelFunc, stop, uiVars, history>>

(* The deferred functions: activeCancel is cleared whoever set it.         *)
Return(r) ==
  /\ pc[r] = "return"
  /\ activeCancel' = None
  /\ goto(r, "emit")
  /\ UNCHANGED <<turn, calls, cancelled, result, cancelFunc, stop, uiVars, history>>

(* AgentSend: Done or Error.  The frontend drops the card if the event is  *)
(* of the session on screen, and the finally of handleSend clears          *)
(* isGenerating in any case.                                               *)
EmitTerminal(r) ==
  /\ pc[r] = "emit"
  /\ goto(r, "done")
  /\ generating' = FALSE
  /\ card' = IF SessionOf[r] = active THEN None ELSE card
  /\ UNCHANGED <<turn, calls, cancelled, result, activeCancel, cancelFunc, stop,
                 active, history>>

RunStep(r) ==
  \/ ResolveModel(r) \/ SetCancel(r) \/ SetActiveCancel(r) \/ BeginTurn(r)
  \/ OpenStream(r) \/ EndStream(r) \/ NextTool(r) \/ InvokeTool(r)
  \/ ToolReturns(r) \/ AskInterrupted(r) \/ Return(r) \/ EmitTerminal(r)

-----------------------------------------------------------------------------
(* StopChat(sessionID): the id is not used.                                *)

cancel(r) == IF r # None /\ pc[r] \in Looping THEN [cancelled EXCEPT ![r] = TRUE] ELSE cancelled

(* handleStop -> AgentStopSend -> StopChat, its first half.                *)
StopActive ==
  /\ stop.at = "none" /\ generating
  /\ cancelled' = cancel(activeCancel)
  /\ activeCancel' = None
  /\ stop' = [at |-> "session", session |-> active,
              targets |-> {r \in Runs : SessionOf[r] = active /\ pc[r] \in Looping \ {"setActive"}}]
  /\ UNCHANGED <<pc, turn, calls, result, cancelFunc, uiVars, history>>

(* Session.Stop, and the composer is free again.                           *)
StopSession ==
  /\ stop.at = "session"
  /\ cancelled' = cancel(cancelFunc)
  /\ stop' = [stop EXCEPT !.at = "none", !.targets = {}]
  /\ generating' = FALSE
  /\ UNCHANGED <<pc, turn, calls, result, activeCancel, cancelFunc, active, card, history>>

-----------------------------------------------------------------------------
(* The rest of the user interface.                                         *)

(* handleResolveHitl: answer the card on screen, whose request may be gone *)
(* by now, then show another pending request if there is one.              *)
AnswerCard(r) ==
  /\ card = r
  /\ LET rest == {q \in Runs \ {r} : pc[q] = "asking"}
     IN  IF rest = {} THEN card' = None ELSE \E q \in rest : card' = q
  /\ \/ pc[r] = "asking" /\ goto(r, "running") /\ UNCHANGED calls
     \/ pc[r] = "asking" /\ toolDone(r)
     \/ pc[r] # "asking" /\ UNCHANGED <<pc, calls>>
  /\ UNCHANGED <<turn, cancelled, result, activeCancel, cancelFunc, stop, active,
                 generating, history>>

(* Reset generation state on active session change.                        *)
SwitchSession(s) ==
  /\ s # active
  /\ active' = s
  /\ generating' = FALSE
  /\ UNCHANGED <<runVars, activeCancel, cancelFunc, stop, card, history>>

(* The composer's 120 s watchdog.                                          *)
Watchdog ==
  /\ generating
  /\ generating' = FALSE
  /\ UNCHANGED <<runVars, activeCancel, cancelFunc, stop, active, card, history>>

(* The panel is opened again: fresh state, pending approvals are fetched.  *)
OpenPanel ==
  /\ generating' = FALSE
  /\ LET asking == {q \in Runs : pc[q] = "asking"}
     IN  IF asking = {} THEN card' = None ELSE \E q \in asking : card' = q
  /\ UNCHANGED <<runVars, activeCancel, cancelFunc, stop, active, history>>

User ==
  \/ \E r \in Runs : Send(r) \/ AnswerCard(r)
  \/ StopActive
  \/ StopSession
  \/ \E s \in Sessions : SwitchSession(s)
  \/ Watchdog
  \/ OpenPanel

Next == (\E r \in Runs : RunStep(r)) \/ User

Spec == Init /\ [][Next]_vars

(* Goroutines run, the model and the tools answer or give up when their    *)
(* context is cancelled, and StopChat does not stop half way.              *)
Fairness ==
  /\ \A r \in Runs : WF_vars(RunStep(r))
  /\ WF_vars(StopSession)

FairSpec == Spec /\ Fairness

-----------------------------------------------------------------------------
(* Properties.                                                             *)

(* After its context is cancelled a run begins at most one more model call *)
(* and at most one more tool call, never both: the stop overtakes it       *)
(* between the check and the call, and the next check ends it.             *)
AtMostOneLateStep ==
  \A r \in Runs : lateModel[r] + lateTools[r] <= 1

(* A run that was cancelled inside its loop reports "stopped" or an error, *)
(* never an answer; the exception in the code is a stop during the tool    *)
(* calls of the last turn, after which the context is not looked at.       *)
StopIsReported ==
  \A r \in Runs : cancelled[r] /\ result[r] = "answer" => turn[r] > MaxTurns

(* A run that never shared the agent with another one can be stopped: both *)
(* fields hold its cancel function as long as it has not been cancelled.   *)
LoneRunIsStoppable ==
  \A r \in Runs :
    ~crowded[r] /\ ~cancelled[r] /\ pc[r] \in Looping \ {"setActive"}
      => activeCancel = r /\ cancelFunc = r

(* AgentStopSend(sessionID) stops the chat of that session: every run of   *)
(* the session on screen that was registered when the stop began is        *)
(* cancelled or over when the stop returns.                                *)
StopReachesItsSession ==
  [][StopSession => \A r \in stop.targets : pc'[r] \in Looping => cancelled'[r]]_vars

(* A cancelled run ends, even one that waits for the user.                 *)
CancelledEnds ==
  \A r \in Runs : cancelled[r] ~> pc[r] = "done"
=============================================================================
