--------------------------- MODULE AgentChat_proofs ---------------------------
(***************************************************************************)
(* Theorems about AgentChat: for any number of runs, sessions, turns and   *)
(* tool calls a stopped run begins at most one more call and does not      *)
(* report an answer, and a run that is alone can be stopped.               *)
(***************************************************************************)
EXTENDS AgentChat, TLAPS

(* Where the turn and the calls of a run stand.                            *)
InTurn == {"model", "recv", "tools", "invoke", "asking", "running"}

ControlInv ==
  \A r \in Runs :
    /\ pc[r] \in InTurn => turn[r] <= MaxTurns
    /\ pc[r] \in {"invoke", "asking", "running"} => calls[r] > 0

(* Whoever has begun a call late is past the checks that would let it      *)
(* begin another one.                                                      *)
LateInv ==
  \A r \in Runs :
    /\ lateModel[r] + lateTools[r] <= 1
    /\ ~cancelled[r] => lateModel[r] + lateTools[r] = 0
    /\ pc[r] \in {"model", "invoke"} => lateModel[r] + lateTools[r] = 0

(* There is no result before the loop is left.                             *)
ReportInv ==
  \A r \in Runs :
    /\ pc[r] \notin {"return", "emit", "done"} => result[r] = "none"
    /\ cancelled[r] /\ result[r] = "answer" => turn[r] > MaxTurns

(* Two runs in flight have noticed each other, and a run alone is in both  *)
(* fields as soon as it has set them.                                      *)
LoneInv ==
  /\ \A q, r \in Runs : q # r /\ pc[q] \in InFlight /\ pc[r] \in InFlight => crowded[r]
  /\ \A r \in Runs : ~crowded[r] /\ pc[r] \in Looping => cancelFunc = r
  /\ LoneRunIsStoppable

(* Every step keeps the types.                                             *)
LEMMA TypeStep ==
  ASSUME TypeOK, ControlInv, [Next]_vars
  PROVE  TypeOK'
<1> USE DEF TypeOK, ControlInv, InTurn, RunStates
<1>1. ASSUME NEW r \in Runs, Send(r) PROVE TypeOK'
  BY <1>1 DEF Send, goto
<1>2. ASSUME NEW r \in Runs, ResolveModel(r) PROVE TypeOK'
  BY <1>2 DEF ResolveModel, goto, uiVars, history
<1>3. ASSUME NEW r \in Runs, SetCancel(r) PROVE TypeOK'
  BY <1>3 DEF SetCancel, goto, uiVars, history
<1>4. ASSUME NEW r \in Runs, SetActiveCancel(r) PROVE TypeOK'
  BY <1>4, BoundsAssumption DEF SetActiveCancel, goto, uiVars, history
<1>5. ASSUME NEW r \in Runs, BeginTurn(r) PROVE TypeOK'
  BY <1>5 DEF BeginTurn, goto, leave, uiVars, history
<1>6. ASSUME NEW r \in Runs, OpenStream(r) PROVE TypeOK'
  BY <1>6 DEF OpenStream, goto, leave, uiVars
<1>7. ASSUME NEW r \in Runs, EndStream(r) PROVE TypeOK'
  BY <1>7, BoundsAssumption DEF EndStream, goto, leave, uiVars, history
<1>8. ASSUME NEW r \in Runs, NextTool(r) PROVE TypeOK'
  BY <1>8, BoundsAssumption DEF NextTool, goto, leave, uiVars, history
<1>9. ASSUME NEW r \in Runs, InvokeTool(r) PROVE TypeOK'
  BY <1>9 DEF InvokeTool, goto
<1>10. ASSUME NEW r \in Runs, ToolReturns(r) PROVE TypeOK'
  BY <1>10, BoundsAssumption DEF ToolReturns, toolDone, goto, uiVars, history
<1>11. ASSUME NEW r \in Runs, AskInterrupted(r) PROVE TypeOK'
  BY <1>11, BoundsAssumption
  DEF AskInterrupted, toolDone, goto, uiVars, history
<1>12. ASSUME NEW r \in Runs, Return(r) PROVE TypeOK'
  BY <1>12 DEF Return, goto, uiVars, history
<1>13. ASSUME NEW r \in Runs, EmitTerminal(r) PROVE TypeOK'
  BY <1>13 DEF EmitTerminal, goto, history
<1>14. ASSUME NEW r \in Runs, AnswerCard(r) PROVE TypeOK'
  BY <1>14, BoundsAssumption DEF AnswerCard, goto, toolDone, history
<1>15. ASSUME NEW s \in Sessions, SwitchSession(s) PROVE TypeOK'
  BY <1>15 DEF SwitchSession, runVars, history
<1>16. CASE StopActive
  BY <1>16 DEF StopActive, uiVars, history, cancel
<1>17. CASE StopSession
  BY <1>17 DEF StopSession, history, cancel
<1>18. CASE Watchdog
  BY <1>18 DEF Watchdog, runVars, history
<1>19. CASE OpenPanel
  BY <1>19 DEF OpenPanel, runVars, history
<1>20. CASE UNCHANGED vars
  BY <1>20 DEF vars, runVars, uiVars, history
<1>21. QED
  BY <1>1, <1>2, <1>3, <1>4, <1>5, <1>6, <1>7, <1>8, <1>9, <1>10, <1>11,
     <1>12, <1>13, <1>14, <1>15, <1>16, <1>17, <1>18, <1>19, <1>20
  DEF Next, RunStep, User

(* Every step keeps the turn within its limit inside a turn.               *)
LEMMA ControlStep ==
  ASSUME TypeOK, ControlInv, [Next]_vars
  PROVE  ControlInv'
<1> USE DEF TypeOK, ControlInv, InTurn, RunStates
<1>1. ASSUME NEW r \in Runs, Send(r) PROVE ControlInv'
  BY <1>1 DEF Send, goto
<1>2. ASSUME NEW r \in Runs, ResolveModel(r) PROVE ControlInv'
  BY <1>2 DEF ResolveModel, goto, uiVars, history
<1>3. ASSUME NEW r \in Runs, SetCancel(r) PROVE ControlInv'
  BY <1>3 DEF SetCancel, goto, uiVars, history
<1>4. ASSUME NEW r \in Runs, SetActiveCancel(r) PROVE ControlInv'
  BY <1>4, BoundsAssumption DEF SetActiveCancel, goto, uiVars, history
<1>5. ASSUME NEW r \in Runs, BeginTurn(r) PROVE ControlInv'
  BY <1>5 DEF BeginTurn, goto, leave, uiVars, history
<1>6. ASSUME NEW r \in Runs, OpenStream(r) PROVE ControlInv'
  BY <1>6 DEF OpenStream, goto, leave, uiVars
<1>7. ASSUME NEW r \in Runs, EndStream(r) PROVE ControlInv'
  BY <1>7, BoundsAssumption DEF EndStream, goto, leave, uiVars, history
<1>8. ASSUME NEW r \in Runs, NextTool(r) PROVE ControlInv'
  BY <1>8 DEF NextTool, goto, leave, uiVars, history
<1>9. ASSUME NEW r \in Runs, InvokeTool(r) PROVE ControlInv'
  BY <1>9 DEF InvokeTool, goto
<1>10. ASSUME NEW r \in Runs, ToolReturns(r) PROVE ControlInv'
  BY <1>10 DEF ToolReturns, toolDone, goto, uiVars, history
<1>11. ASSUME NEW r \in Runs, AskInterrupted(r) PROVE ControlInv'
  BY <1>11 DEF AskInterrupted, toolDone, goto, uiVars, history
<1>12. ASSUME NEW r \in Runs, Return(r) PROVE ControlInv'
  BY <1>12 DEF Return, goto, uiVars, history
<1>13. ASSUME NEW r \in Runs, EmitTerminal(r) PROVE ControlInv'
  BY <1>13 DEF EmitTerminal, goto, history
<1>14. ASSUME NEW r \in Runs, AnswerCard(r) PROVE ControlInv'
  BY <1>14 DEF AnswerCard, goto, toolDone, history
<1>15. ASSUME NEW s \in Sessions, SwitchSession(s) PROVE ControlInv'
  BY <1>15 DEF SwitchSession, runVars, history
<1>16. CASE StopActive
  BY <1>16 DEF StopActive, uiVars, history, cancel
<1>17. CASE StopSession
  BY <1>17 DEF StopSession, history, cancel
<1>18. CASE Watchdog
  BY <1>18 DEF Watchdog, runVars, history
<1>19. CASE OpenPanel
  BY <1>19 DEF OpenPanel, runVars, history
<1>20. CASE UNCHANGED vars
  BY <1>20 DEF vars, runVars, uiVars, history
<1>21. QED
  BY <1>1, <1>2, <1>3, <1>4, <1>5, <1>6, <1>7, <1>8, <1>9, <1>10, <1>11,
     <1>12, <1>13, <1>14, <1>15, <1>16, <1>17, <1>18, <1>19, <1>20
  DEF Next, RunStep, User

(* Every step keeps the count of late calls.                               *)
LEMMA LateStep ==
  ASSUME TypeOK, LateInv, [Next]_vars
  PROVE  LateInv'
<1> USE DEF TypeOK, LateInv, RunStates
<1>1. ASSUME NEW r \in Runs, Send(r) PROVE LateInv'
  BY <1>1 DEF Send, goto
<1>2. ASSUME NEW r \in Runs, ResolveModel(r) PROVE LateInv'
  BY <1>2 DEF ResolveModel, goto, uiVars, history
<1>3. ASSUME NEW r \in Runs, SetCancel(r) PROVE LateInv'
  BY <1>3 DEF SetCancel, goto, uiVars, history
<1>4. ASSUME NEW r \in Runs, SetActiveCancel(r) PROVE LateInv'
  BY <1>4 DEF SetActiveCancel, goto, uiVars, history
<1>5. ASSUME NEW r \in Runs, BeginTurn(r) PROVE LateInv'
  BY <1>5 DEF BeginTurn, goto, leave, uiVars, history
<1>6. ASSUME NEW r \in Runs, OpenStream(r) PROVE LateInv'
  BY <1>6 DEF OpenStream, goto, leave, uiVars
<1>7. ASSUME NEW r \in Runs, EndStream(r) PROVE LateInv'
  BY <1>7 DEF EndStream, goto, leave, uiVars, history
<1>8. ASSUME NEW r \in Runs, NextTool(r) PROVE LateInv'
  BY <1>8 DEF NextTool, goto, leave, uiVars, history
<1>9. ASSUME NEW r \in Runs, InvokeTool(r) PROVE LateInv'
  BY <1>9 DEF InvokeTool, goto
<1>10. ASSUME NEW r \in Runs, ToolReturns(r) PROVE LateInv'
  BY <1>10 DEF ToolReturns, toolDone, goto, uiVars, history
<1>11. ASSUME NEW r \in Runs, AskInterrupted(r) PROVE LateInv'
  BY <1>11 DEF AskInterrupted, toolDone, goto, uiVars, history
<1>12. ASSUME NEW r \in Runs, Return(r) PROVE LateInv'
  BY <1>12 DEF Return, goto, uiVars, history
<1>13. ASSUME NEW r \in Runs, EmitTerminal(r) PROVE LateInv'
  BY <1>13 DEF EmitTerminal, goto, history
<1>14. ASSUME NEW r \in Runs, AnswerCard(r) PROVE LateInv'
  BY <1>14 DEF AnswerCard, goto, toolDone, history
<1>15. ASSUME NEW s \in Sessions, SwitchSession(s) PROVE LateInv'
  BY <1>15 DEF SwitchSession, runVars, history
<1>16. CASE StopActive
  BY <1>16 DEF StopActive, uiVars, history, cancel
<1>17. CASE StopSession
  BY <1>17 DEF StopSession, history, cancel
<1>18. CASE Watchdog
  BY <1>18 DEF Watchdog, runVars, history
<1>19. CASE OpenPanel
  BY <1>19 DEF OpenPanel, runVars, history
<1>20. CASE UNCHANGED vars
  BY <1>20 DEF vars, runVars, uiVars, history
<1>21. QED
  BY <1>1, <1>2, <1>3, <1>4, <1>5, <1>6, <1>7, <1>8, <1>9, <1>10, <1>11,
     <1>12, <1>13, <1>14, <1>15, <1>16, <1>17, <1>18, <1>19, <1>20
  DEF Next, RunStep, User

(* Every step keeps what a cancelled run may report.                       *)
LEMMA ReportStep ==
  ASSUME TypeOK, ControlInv, ReportInv, [Next]_vars
  PROVE  ReportInv'
<1> USE DEF TypeOK, ControlInv, ReportInv, InTurn, RunStates, Looping
<1>1. ASSUME NEW r \in Runs, Send(r) PROVE ReportInv'
  BY <1>1 DEF Send, goto
<1>2. ASSUME NEW r \in Runs, ResolveModel(r) PROVE ReportInv'
  BY <1>2 DEF ResolveModel, goto, uiVars, history
<1>3. ASSUME NEW r \in Runs, SetCancel(r) PROVE ReportInv'
  BY <1>3 DEF SetCancel, goto, uiVars, history
<1>4. ASSUME NEW r \in Runs, SetActiveCancel(r) PROVE ReportInv'
  BY <1>4 DEF SetActiveCancel, goto, uiVars, history
<1>5. ASSUME NEW r \in Runs, BeginTurn(r) PROVE ReportInv'
  BY <1>5 DEF BeginTurn, goto, leave, uiVars, history
<1>6. ASSUME NEW r \in Runs, OpenStream(r) PROVE ReportInv'
  BY <1>6 DEF OpenStream, goto, leave, uiVars
<1>7. ASSUME NEW r \in Runs, EndStream(r) PROVE ReportInv'
  BY <1>7 DEF EndStream, goto, leave, uiVars, history
<1>8. ASSUME NEW r \in Runs, NextTool(r) PROVE ReportInv'
  BY <1>8 DEF NextTool, goto, leave, uiVars, history
<1>9. ASSUME NEW r \in Runs, InvokeTool(r) PROVE ReportInv'
  BY <1>9 DEF InvokeTool, goto
<1>10. ASSUME NEW r \in Runs, ToolReturns(r) PROVE ReportInv'
  BY <1>10 DEF ToolReturns, toolDone, goto, uiVars, history
<1>11. ASSUME NEW r \in Runs, AskInterrupted(r) PROVE ReportInv'
  BY <1>11 DEF AskInterrupted, toolDone, goto, uiVars, history
<1>12. ASSUME NEW r \in Runs, Return(r) PROVE ReportInv'
  BY <1>12 DEF Return, goto, uiVars, history
<1>13. ASSUME NEW r \in Runs, EmitTerminal(r) PROVE ReportInv'
  BY <1>13 DEF EmitTerminal, goto, history
<1>14. ASSUME NEW r \in Runs, AnswerCard(r) PROVE ReportInv'
  BY <1>14 DEF AnswerCard, goto, toolDone, history
<1>15. ASSUME NEW s \in Sessions, SwitchSession(s) PROVE ReportInv'
  BY <1>15 DEF SwitchSession, runVars, history
<1>16. CASE StopActive
  BY <1>16 DEF StopActive, uiVars, history, cancel
<1>17. CASE StopSession
  BY <1>17 DEF StopSession, history, cancel
<1>18. CASE Watchdog
  BY <1>18 DEF Watchdog, runVars, history
<1>19. CASE OpenPanel
  BY <1>19 DEF OpenPanel, runVars, history
<1>20. CASE UNCHANGED vars
  BY <1>20 DEF vars, runVars, uiVars, history
<1>21. QED
  BY <1>1, <1>2, <1>3, <1>4, <1>5, <1>6, <1>7, <1>8, <1>9, <1>10, <1>11,
     <1>12, <1>13, <1>14, <1>15, <1>16, <1>17, <1>18, <1>19, <1>20
  DEF Next, RunStep, User

(* Every step keeps a run that is alone within reach of a stop.            *)
LEMMA LoneStep ==
  ASSUME TypeOK, LoneInv, [Next]_vars
  PROVE  LoneInv'
<1> USE DEF TypeOK, LoneInv, LoneRunIsStoppable, Looping, InFlight, RunStates
<1>1. ASSUME NEW r \in Runs, Send(r) PROVE LoneInv'
  <2> DEFINE others == {q \in Runs \ {r} : pc[q] \in InFlight}
  <2>1. /\ pc' = [pc EXCEPT ![r] = "resolve"]
        /\ crowded' = [q \in Runs |->
                        crowded[q] \/ (others # {} /\ q \in others \cup {r})]
        /\ UNCHANGED <<cancelled, activeCancel, cancelFunc>>
    BY <1>1 DEF Send, goto
  <2> HIDE DEF others
  <2>2. \A q \in Runs : q # r => pc'[q] = pc[q]
    BY <2>1
  <2>3. pc'[r] = "resolve"
    BY <2>1
  <2>4. \A q \in Runs : crowded[q] => crowded'[q]
    BY <2>1
  <2>5. ASSUME NEW p \in Runs, NEW q \in Runs, p # q,
               pc'[p] \in InFlight, pc'[q] \in InFlight
        PROVE  crowded'[q]
    <3>1. CASE p # r /\ q # r
      BY <2>2, <2>4, <2>5, <3>1
    <3>2. CASE p = r
      <4>1. q \in others
        BY <2>2, <2>5, <3>2 DEF others
      <4>2. QED
        BY <2>1, <4>1
    <3>3. CASE q = r
      <4>1. p \in others
        BY <2>2, <2>5, <3>3 DEF others
      <4>2. QED
        BY <2>1, <3>3, <4>1
    <3>4. QED
      BY <3>1, <3>2, <3>3
  <2>6. \A q \in Runs : ~crowded'[q] /\ pc'[q] \in Looping => cancelFunc' = q
    BY <2>1, <2>2, <2>3, <2>4
  <2>7. LoneRunIsStoppable'
    BY <2>1, <2>2, <2>3, <2>4
  <2>8. QED
    BY <2>5, <2>6, <2>7
<1>2. ASSUME NEW r \in Runs, ResolveModel(r) PROVE LoneInv'
  BY <1>2 DEF ResolveModel, goto, uiVars, history
<1>3. ASSUME NEW r \in Runs, SetCancel(r) PROVE LoneInv'
  BY <1>3 DEF SetCancel, goto, uiVars, history
<1>4. ASSUME NEW r \in Runs, SetActiveCancel(r) PROVE LoneInv'
  BY <1>4 DEF SetActiveCancel, goto, uiVars, history
<1>5. ASSUME NEW r \in Runs, BeginTurn(r) PROVE LoneInv'
  BY <1>5 DEF BeginTurn, goto, leave, uiVars, history
<1>6. ASSUME NEW r \in Runs, OpenStream(r) PROVE LoneInv'
  BY <1>6 DEF OpenStream, goto, leave, uiVars
<1>7. ASSUME NEW r \in Runs, EndStream(r) PROVE LoneInv'
  BY <1>7 DEF EndStream, goto, leave, uiVars, history
<1>8. ASSUME NEW r \in Runs, NextTool(r) PROVE LoneInv'
  BY <1>8 DEF NextTool, goto, leave, uiVars, history
<1>9. ASSUME NEW r \in Runs, InvokeTool(r) PROVE LoneInv'
  BY <1>9 DEF InvokeTool, goto
<1>10. ASSUME NEW r \in Runs, ToolReturns(r) PROVE LoneInv'
  BY <1>10 DEF ToolReturns, toolDone, goto, uiVars, history
<1>11. ASSUME NEW r \in Runs, AskInterrupted(r) PROVE LoneInv'
  BY <1>11 DEF AskInterrupted, toolDone, goto, uiVars, history
<1>12. ASSUME NEW r \in Runs, Return(r) PROVE LoneInv'
  BY <1>12 DEF Return, goto, uiVars, history
<1>13. ASSUME NEW r \in Runs, EmitTerminal(r) PROVE LoneInv'
  BY <1>13 DEF EmitTerminal, goto, history
<1>14. ASSUME NEW r \in Runs, AnswerCard(r) PROVE LoneInv'
  BY <1>14 DEF AnswerCard, goto, toolDone, history
<1>15. ASSUME NEW s \in Sessions, SwitchSession(s) PROVE LoneInv'
  BY <1>15 DEF SwitchSession, runVars, history
<1>16. CASE StopActive
  BY <1>16 DEF StopActive, uiVars, history, cancel
<1>17. CASE StopSession
  BY <1>17 DEF StopSession, history, cancel
<1>18. CASE Watchdog
  BY <1>18 DEF Watchdog, runVars, history
<1>19. CASE OpenPanel
  BY <1>19 DEF OpenPanel, runVars, history
<1>20. CASE UNCHANGED vars
  BY <1>20 DEF vars, runVars, uiVars, history
<1>21. QED
  BY <1>1, <1>2, <1>3, <1>4, <1>5, <1>6, <1>7, <1>8, <1>9, <1>10, <1>11,
     <1>12, <1>13, <1>14, <1>15, <1>16, <1>17, <1>18, <1>19, <1>20
  DEF Next, RunStep, User

Inv == TypeOK /\ ControlInv /\ LateInv /\ ReportInv /\ LoneInv

(* The inductive invariant of the chat loop holds in every state.          *)
THEOREM ChatInvariant == Spec => []Inv
<1>1. ASSUME Init PROVE Inv
  <2>1. TypeOK
    <3>1. stop \in [at : {"none", "session"}, session : Sessions, targets : SUBSET Runs]
      BY <1>1 DEF Init
    <3>2. turn \in [Runs -> 0 .. MaxTurns + 1] /\ calls \in [Runs -> 0 .. MaxCalls]
      BY <1>1, BoundsAssumption DEF Init
    <3>3. lateModel \in [Runs -> Nat] /\ lateTools \in [Runs -> Nat]
      BY <1>1 DEF Init
    <3>4. pc \in [Runs -> RunStates]
      BY <1>1 DEF Init, RunStates
    <3>5. cancelled \in [Runs -> BOOLEAN] /\ crowded \in [Runs -> BOOLEAN]
      BY <1>1, Zenon DEF Init
    <3>6. result \in [Runs -> {"none", "answer", "stopped", "error"}]
      BY <1>1 DEF Init
    <3>7. generating \in BOOLEAN
      BY <1>1, Zenon DEF Init
    <3>8. QED
      BY <1>1, <3>1, <3>2, <3>3, <3>4, <3>5, <3>6, <3>7 DEF Init, TypeOK
  <2>2. ControlInv
    BY <1>1 DEF Init, ControlInv, InTurn
  <2>3. LateInv
    <3>1. \A r \in Runs : lateModel[r] = 0 /\ lateTools[r] = 0
      BY <1>1 DEF Init
    <3>2. ASSUME NEW r \in Runs PROVE lateModel[r] + lateTools[r] = 0
      BY <3>1
    <3>3. ASSUME NEW r \in Runs PROVE lateModel[r] + lateTools[r] <= 1
      BY <3>2
    <3>4. QED
      BY <3>2, <3>3, Zenon DEF LateInv
  <2>4. ReportInv
    BY <1>1 DEF Init, ReportInv
  <2>5. LoneInv
    BY <1>1 DEF Init, LoneInv, LoneRunIsStoppable, InFlight, Looping
  <2>6. QED
    BY <2>1, <2>2, <2>3, <2>4, <2>5 DEF Inv
<1>2. Inv /\ [Next]_vars => Inv'
  BY TypeStep, ControlStep, LateStep, ReportStep, LoneStep DEF Inv
<1>3. QED
  BY <1>1, <1>2, PTL DEF Spec

(* The state of the chats is well formed, and no run goes past its last    *)
(* turn but to find that out (StreamChat's loop over maxTurns).            *)
THEOREM ChatTypeCorrect == Spec => []TypeOK
<1>1. Inv => TypeOK
  BY DEF Inv
<1>2. QED
  BY <1>1, ChatInvariant, PTL

(* A cancelled run begins at most one more model or tool call, however the *)
(* stop falls between the checks of StreamChat and its calls.              *)
THEOREM StopIsPrompt == Spec => []AtMostOneLateStep
<1>1. Inv => AtMostOneLateStep
  BY DEF Inv, LateInv, AtMostOneLateStep
<1>2. QED
  BY <1>1, ChatInvariant, PTL

(* A cancelled run never reports an answer, but for a stop during the tool *)
(* calls of the last turn (StreamChat's results).                          *)
THEOREM StopIsNoAnswer == Spec => []StopIsReported
<1>1. Inv => StopIsReported
  BY DEF Inv, ReportInv, StopIsReported
<1>2. QED
  BY <1>1, ChatInvariant, PTL

(* StopChat reaches a run that never ran beside another one, although both *)
(* cancel fields are shared by all chats and set one after the other.      *)
THEOREM LoneRunCanBeStopped == Spec => []LoneRunIsStoppable
<1>1. Inv => LoneRunIsStoppable
  BY DEF Inv, LoneInv
<1>2. QED
  BY <1>1, ChatInvariant, PTL
=============================================================================
