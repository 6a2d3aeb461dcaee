---------------------------- MODULE ToolBus_proofs ----------------------------
(***************************************************************************)
(* Proofs about ToolBus for every set of calls, requests and settings.     *)
(*                                                                         *)
(* The approval theorems need more than they say: that an answer given on  *)
(* a card reaches the call the card was shown for follows from ids that    *)
(* are never shared (IdsDistinct), a pending table that holds exactly the  *)
(* waiting calls under their ids (PendingSound, PendingComplete) and cards *)
(* that carry the id of their call (CardsSound).  AnswerInv ties slot,     *)
(* decision and the user's answers together.                               *)
(***************************************************************************)
EXTENDS ToolBus, TLAPS

(* Before RequestApproval a call has no id.                                *)
IdsBounded ==
  \A c \in Calls :
    /\ rid[c] <= clock
    /\ pc[c] \in {"idle", "audit", "rule", "ask"} => rid[c] = 0
    /\ pc[c] \in Registered => rid[c] > 0

IdsDistinct ==
  \A c, d \in Calls : c # d /\ rid[c] = rid[d] => rid[c] = 0

PendingSound ==
  \A e \in pending : rid[e.call] = e.id /\ pc[e.call] \in Registered

PendingComplete ==
  \A c \in Calls : pc[c] \in Registered => [id |-> rid[c], call |-> c] \in pending

CardsSound ==
  \A k \in cards : rid[k.call] = k.id /\ k.id > 0

(* Where an answer can be, and that it is one the user gave.               *)
AnswerInv ==
  \A c \in Calls :
    /\ slot[c] # "none" => slot[c] \in said[c]
    /\ decision[c] # "none" => decision[c] \in said[c]
    /\ decision[c] # "none" => decision[c] = firstAck[c]
    /\ decision[c] = "none" => slot[c] = firstAck[c]
    /\ pc[c] \in {"idle", "audit", "rule", "ask", "emit", "waiting"} => decision[c] = "none"
    /\ pc[c] = "answered" => decision[c] # "none"
    /\ pc[c] \in {"exec", "running"} /\ lvl[c] = "confirm" => decision[c] = "approve"
    /\ pc[c] \in {"idle", "audit", "rule", "ask"} => said[c] = {}

ApprovalInv ==
  /\ IdsBounded
  /\ IdsDistinct
  /\ PendingSound
  /\ PendingComplete
  /\ CardsSound
  /\ AnswerInv

-----------------------------------------------------------------------------
(* Every audit answers with a level.                                       *)
LEMMA RuleLevelType ==
  ASSUME NEW t, NEW i, NEW b \in BOOLEAN
  PROVE  RuleLevel(t, i, b) \in Levels
  BY Zenon DEF RuleLevel, auditShellCommand, auditSQLText, auditContainerExecCommand,
        AuditShellAST, auditDockerCommand, auditDockerOrchestrate,
        auditKubectlCommand, auditK8sOrchestrate, auditApiManager, DefaultLevel,
        Levels

(* Every variable keeps its type.                                          *)
LEMMA TypeInductive == TypeOK /\ [Next]_vars => TypeOK'
<1> SUFFICES ASSUME TypeOK, [Next]_vars
             PROVE  TypeOK'
  OBVIOUS
<1> USE RequestsAssumption, ConfigsAssumption
<1>1. ASSUME NEW c \in Calls, Invoke(c)
      PROVE  TypeOK'
  BY <1>1 DEF TypeOK, Invoke, goto, settingVars, hitlVars, userVars, CallStates, Results
<1>2. ASSUME NEW c \in Calls, AuditEnabled(c)
      PROVE  TypeOK'
  <2>1. CASE ~enableGuard
    BY <1>2, <2>1 DEF TypeOK, AuditEnabled, goto, settingVars, hitlVars, userVars,
                      CallStates, Levels
  <2>2. CASE enableGuard /\ lvl' = [lvl EXCEPT ![c] = "forbidden"] /\ finish(c, "forbidden")
    BY <1>2, <2>2 DEF TypeOK, AuditEnabled, goto, finish, settingVars, hitlVars, userVars,
                      CallStates, Results, Levels
  <2>3. CASE goto(c, "rule") /\ UNCHANGED <<lvl, result>>
    BY <1>2, <2>3 DEF TypeOK, AuditEnabled, goto, settingVars, hitlVars, userVars,
                      CallStates
  <2> QED
    BY <1>2, <2>1, <2>2, <2>3, Zenon DEF AuditEnabled, TypeOK
<1>3. ASSUME NEW c \in Calls, AuditRule(c)
      PROVE  TypeOK'
  <2>1. RuleLevel(req[c].tool, req[c].input, blockHighRisk) \in Levels
    BY RuleLevelType DEF TypeOK
  <2> DEFINE l == RuleLevel(req[c].tool, req[c].input, blockHighRisk)
  <2>2. /\ lvl' = [lvl EXCEPT ![c] = l]
        /\ UNCHANGED <<settingVars, req, cancelled, hitlVars, userVars, relaxed>>
        /\ \/ finish(c, "forbidden")
           \/ (goto(c, "ask") \/ goto(c, "exec")) /\ UNCHANGED result
    BY <1>3 DEF AuditRule
  <2> HIDE DEF l
  <2>3. pc' \in [Calls -> CallStates] /\ result' \in [Calls -> Results]
    <3>1. CASE finish(c, "forbidden")
      BY <3>1 DEF TypeOK, goto, finish, CallStates, Results
    <3>2. CASE goto(c, "ask") /\ UNCHANGED result
      BY <3>2 DEF TypeOK, goto, CallStates
    <3>3. CASE goto(c, "exec") /\ UNCHANGED result
      BY <3>3 DEF TypeOK, goto, CallStates
    <3> QED
      BY <2>2, <3>1, <3>2, <3>3
  <2> QED
    BY <2>1, <2>2, <2>3 DEF TypeOK, l, settingVars, hitlVars, userVars
<1>4. ASSUME NEW c \in Calls, RequestApproval(c)
      PROVE  TypeOK'
  BY <1>4 DEF TypeOK, RequestApproval, ConfirmIDs, store, goto, settingVars, userVars,
              CallStates
<1>5. ASSUME NEW c \in Calls, EmitConfirm(c) \/ Receive(c) \/ ContextDone(c)
      PROVE  TypeOK'
  <2>1. CASE EmitConfirm(c)
    BY <2>1 DEF TypeOK, EmitConfirm, goto, settingVars, userVars, CallStates
  <2>2. CASE Receive(c)
    BY <2>2 DEF TypeOK, Receive, goto, settingVars, userVars, CallStates
  <2>3. CASE ContextDone(c)
    BY <2>3 DEF TypeOK, ContextDone, goto, settingVars, hitlVars, userVars, CallStates
  <2> QED
    BY <1>5, <2>1, <2>2, <2>3
<1>6. ASSUME NEW c \in Calls, ReturnDecision(c)
      PROVE  TypeOK'
  <2>1. /\ pending' = delete(pending, rid[c])
        /\ UNCHANGED <<settingVars, req, cancelled, lvl, rid, clock, slot, decision,
                       cards, userVars, relaxed>>
        /\ \/ finish(c, "interrupted")
           \/ finish(c, "rejected")
           \/ goto(c, "exec") /\ UNCHANGED result
    BY <1>6 DEF ReturnDecision
  <2>2. pc' \in [Calls -> CallStates] /\ result' \in [Calls -> Results]
    <3>1. CASE finish(c, "interrupted")
      BY <3>1 DEF TypeOK, goto, finish, CallStates, Results
    <3>2. CASE finish(c, "rejected")
      BY <3>2 DEF TypeOK, goto, finish, CallStates, Results
    <3>3. CASE goto(c, "exec") /\ UNCHANGED result
      BY <3>3 DEF TypeOK, goto, CallStates
    <3> QED
      BY <2>1, <3>1, <3>2, <3>3
  <2> QED
    BY <2>1, <2>2 DEF TypeOK, delete, settingVars, userVars
<1>7. ASSUME NEW c \in Calls, ExecuteTool(c) \/ HandlerReturns(c)
      PROVE  TypeOK'
  BY <1>7 DEF TypeOK, ExecuteTool, HandlerReturns, goto, finish, settingVars, hitlVars,
              userVars, CallStates, Results
<1>8. ASSUME NEW card \in cards, NEW v \in Verdicts, ResolveApproval(card, v)
      PROVE  TypeOK'
  BY <1>8 DEF TypeOK, ResolveApproval, settingVars, Verdicts
<1>9. ASSUME NEW c \in Calls, CancelContext(c)
      PROVE  TypeOK'
  BY <1>9 DEF TypeOK, CancelContext, settingVars, hitlVars, userVars
<1>10. ASSUME NEW cfg \in Configs, SetEnableGuard(cfg)
       PROVE  TypeOK'
  BY <1>10 DEF TypeOK, SetEnableGuard, noteRelaxed, hitlVars, userVars, Settings
<1>11. CASE SetBlockHighRiskCommands
  BY <1>11 DEF TypeOK, SetBlockHighRiskCommands, noteRelaxed, hitlVars, userVars, Settings
<1>12. CASE UpdateWebSearch
  BY <1>12 DEF TypeOK, UpdateWebSearch, hitlVars, userVars, AllTools, AllowTools
<1>13. CASE ListPending
  BY <1>13 DEF TypeOK, ListPending, settingVars, userVars
<1>14. CASE UNCHANGED vars
  BY <1>14 DEF TypeOK, vars, settingVars, hitlVars, userVars
<1> QED
  BY <1>1, <1>2, <1>3, <1>4, <1>5, <1>6, <1>7, <1>8, <1>9, <1>10, <1>11, <1>12, <1>13, <1>14
     DEF Next, CallStep, Environment

(* The state of the bus, the pending table and the settings is well formed *)
(* in every reachable state.                                               *)
THEOREM TypeCorrect == Spec => []TypeOK
<1>1. Init => TypeOK
  BY RequestsAssumption DEF Init, TypeOK, CallStates, Levels, Results, Verdicts, Settings
<1> QED
  BY <1>1, TypeInductive, PTL DEF Spec

-----------------------------------------------------------------------------
(* Every step keeps the approval invariant, provided no two ids are equal. *)
LEMMA ApprovalInductive ==
  StrictClock /\ TypeOK /\ ApprovalInv /\ [Next]_vars => ApprovalInv'
<1> SUFFICES ASSUME StrictClock, TypeOK, ApprovalInv, [Next]_vars
             PROVE  ApprovalInv'
  OBVIOUS
<1> USE DEF ApprovalInv, Registered
<1>1. ASSUME NEW c \in Calls, Invoke(c)
      PROVE  ApprovalInv'
  <2>1. IdsBounded' /\ IdsDistinct' /\ CardsSound'
    BY <1>1 DEF TypeOK, IdsBounded, IdsDistinct, CardsSound, Invoke, goto, settingVars, hitlVars, userVars
  <2>2. PendingSound' /\ PendingComplete'
    BY <1>1 DEF TypeOK, PendingSound, PendingComplete, Invoke, goto, settingVars, hitlVars, userVars
  <2>3. AnswerInv'
    BY <1>1 DEF TypeOK, AnswerInv, Invoke, goto, settingVars, hitlVars, userVars
  <2> QED
    BY <2>1, <2>2, <2>3
<1>2. ASSUME NEW c \in Calls, AuditEnabled(c)
      PROVE  ApprovalInv'
  <2>1. IdsBounded' /\ IdsDistinct' /\ CardsSound'
    BY <1>2 DEF TypeOK, IdsBounded, IdsDistinct, CardsSound, AuditEnabled, goto, finish, settingVars, hitlVars, userVars
  <2>2. PendingSound' /\ PendingComplete'
    BY <1>2 DEF TypeOK, PendingSound, PendingComplete, AuditEnabled, goto, finish, settingVars, hitlVars, userVars
  <2>3. AnswerInv'
    BY <1>2 DEF TypeOK, AnswerInv, AuditEnabled, goto, finish, settingVars, hitlVars, userVars
  <2> QED
    BY <2>1, <2>2, <2>3
<1>3. ASSUME NEW c \in Calls, AuditRule(c)
      PROVE  ApprovalInv'
  <2>1. IdsBounded' /\ IdsDistinct' /\ CardsSound'
    BY <1>3 DEF TypeOK, IdsBounded, IdsDistinct, CardsSound, AuditRule, goto, finish, settingVars, hitlVars, userVars
  <2>2. PendingSound' /\ PendingComplete'
    BY <1>3 DEF TypeOK, PendingSound, PendingComplete, AuditRule, goto, finish, settingVars, hitlVars, userVars
  <2>3. AnswerInv'
    BY <1>3 DEF TypeOK, AnswerInv, AuditRule, goto, finish, settingVars, hitlVars, userVars
  <2> QED
    BY <2>1, <2>2, <2>3
<1>4. ASSUME NEW c \in Calls, RequestApproval(c)
      PROVE  ApprovalInv'
  <2>1. IdsBounded'
    BY <1>4 DEF TypeOK, IdsBounded, RequestApproval, ConfirmIDs, store, goto, settingVars, hitlVars, userVars
  <2>2. IdsDistinct'
    BY <1>4 DEF TypeOK, IdsDistinct, IdsBounded, RequestApproval, ConfirmIDs, store, goto, settingVars, hitlVars, userVars
  <2>3. PendingSound'
    BY <1>4 DEF TypeOK, PendingSound, RequestApproval, ConfirmIDs, store, goto, settingVars, hitlVars, userVars
  <2>4. PendingComplete'
    BY <1>4 DEF TypeOK, PendingComplete, IdsBounded, RequestApproval, ConfirmIDs, store,
                goto, settingVars, userVars
  <2>5. CardsSound'
    BY <1>4 DEF TypeOK, CardsSound, IdsBounded, RequestApproval, goto
  <2>6. AnswerInv'
    BY <1>4 DEF TypeOK, AnswerInv, RequestApproval, ConfirmIDs, store, goto, settingVars, hitlVars, userVars
  <2> QED
    BY <2>1, <2>2, <2>3, <2>4, <2>5, <2>6
<1>5. ASSUME NEW c \in Calls, EmitConfirm(c)
      PROVE  ApprovalInv'
  <2>1. IdsBounded' /\ IdsDistinct' /\ CardsSound'
    BY <1>5 DEF TypeOK, IdsBounded, IdsDistinct, CardsSound, EmitConfirm, goto, settingVars, hitlVars, userVars
  <2>2. PendingSound' /\ PendingComplete'
    BY <1>5 DEF TypeOK, PendingSound, PendingComplete, EmitConfirm, goto, settingVars, hitlVars, userVars
  <2>3. AnswerInv'
    BY <1>5 DEF TypeOK, AnswerInv, EmitConfirm, goto, settingVars, hitlVars, userVars
  <2> QED
    BY <2>1, <2>2, <2>3
<1>6. ASSUME NEW c \in Calls, Receive(c)
      PROVE  ApprovalInv'
  <2>1. IdsBounded' /\ IdsDistinct' /\ CardsSound'
    BY <1>6 DEF TypeOK, IdsBounded, IdsDistinct, CardsSound, Receive, goto, settingVars, hitlVars, userVars
  <2>2. PendingSound' /\ PendingComplete'
    BY <1>6 DEF TypeOK, PendingSound, PendingComplete, Receive, goto, settingVars, hitlVars, userVars
  <2>3. AnswerInv'
    BY <1>6 DEF TypeOK, AnswerInv, Receive, goto, settingVars, hitlVars, userVars
  <2> QED
    BY <2>1, <2>2, <2>3
<1>7. ASSUME NEW c \in Calls, ContextDone(c)
      PROVE  ApprovalInv'
  <2>1. IdsBounded' /\ IdsDistinct' /\ CardsSound'
    BY <1>7 DEF TypeOK, IdsBounded, IdsDistinct, CardsSound, ContextDone, goto, settingVars, hitlVars, userVars
  <2>2. PendingSound' /\ PendingComplete'
    BY <1>7 DEF TypeOK, PendingSound, PendingComplete, ContextDone, goto, settingVars, hitlVars, userVars
  <2>3. AnswerInv'
    BY <1>7 DEF TypeOK, AnswerInv, ContextDone, goto, settingVars, hitlVars, userVars
  <2> QED
    BY <2>1, <2>2, <2>3
<1>8. ASSUME NEW c \in Calls, ReturnDecision(c)
      PROVE  ApprovalInv'
  <2>1. IdsBounded'
    BY <1>8 DEF TypeOK, IdsBounded, ReturnDecision, delete, goto, finish, settingVars, hitlVars, userVars
  <2>2. IdsDistinct'
    BY <1>8 DEF TypeOK, IdsDistinct, IdsBounded, ReturnDecision, delete, goto, finish, settingVars, hitlVars, userVars
  <2>3. PendingSound'
    BY <1>8 DEF TypeOK, PendingSound, ReturnDecision, delete, goto, finish, settingVars, hitlVars, userVars
  <2>4. PendingComplete'
    <3> SUFFICES ASSUME NEW d \in Calls, pc'[d] \in Registered
                 PROVE  [id |-> rid'[d], call |-> d] \in pending'
      BY DEF PendingComplete
    <3>1. d # c /\ pc[d] \in Registered
      BY <1>8 DEF TypeOK, ReturnDecision, goto, finish
    <3>2. rid[d] # rid[c]
      BY <1>8, <3>1 DEF IdsBounded, IdsDistinct, ReturnDecision
    <3> QED
      BY <1>8, <3>1, <3>2 DEF PendingComplete, ReturnDecision, delete
  <2>5. CardsSound'
    BY <1>8 DEF TypeOK, CardsSound, ReturnDecision, delete, goto, finish, settingVars, hitlVars, userVars
  <2>6. AnswerInv'
    <3>1. /\ UNCHANGED <<lvl, slot, decision, said, firstAck>>
          /\ \/ pc' = [pc EXCEPT ![c] = "done"]
             \/ /\ pc[c] = "answered" /\ decision[c] = "approve"
                /\ pc' = [pc EXCEPT ![c] = "exec"]
      BY <1>8 DEF ReturnDecision, goto, finish, userVars
    <3> QED
      BY <3>1 DEF TypeOK, AnswerInv
  <2> QED
    BY <2>1, <2>2, <2>3, <2>4, <2>5, <2>6
<1>9. ASSUME NEW c \in Calls, ExecuteTool(c)
      PROVE  ApprovalInv'
  <2>1. IdsBounded' /\ IdsDistinct' /\ CardsSound'
    BY <1>9 DEF TypeOK, IdsBounded, IdsDistinct, CardsSound, ExecuteTool, goto, settingVars, hitlVars, userVars
  <2>2. PendingSound' /\ PendingComplete'
    BY <1>9 DEF TypeOK, PendingSound, PendingComplete, ExecuteTool, goto, settingVars, hitlVars, userVars
  <2>3. AnswerInv'
    BY <1>9 DEF TypeOK, AnswerInv, ExecuteTool, goto, settingVars, hitlVars, userVars
  <2> QED
    BY <2>1, <2>2, <2>3
<1>10. ASSUME NEW c \in Calls, HandlerReturns(c)
      PROVE  ApprovalInv'
  <2>1. IdsBounded' /\ IdsDistinct' /\ CardsSound'
    BY <1>10 DEF TypeOK, IdsBounded, IdsDistinct, CardsSound, HandlerReturns, goto, finish, settingVars, hitlVars, userVars
  <2>2. PendingSound' /\ PendingComplete'
    BY <1>10 DEF TypeOK, PendingSound, PendingComplete, HandlerReturns, goto, finish, settingVars, hitlVars, userVars
  <2>3. AnswerInv'
    BY <1>10 DEF TypeOK, AnswerInv, HandlerReturns, goto, finish, settingVars, hitlVars, userVars
  <2> QED
    BY <2>1, <2>2, <2>3
<1>11. ASSUME NEW card \in cards, NEW v \in Verdicts, ResolveApproval(card, v)
      PROVE  ApprovalInv'
  <2>1. IdsBounded'
    BY <1>11 DEF TypeOK, IdsBounded, ResolveApproval, settingVars, hitlVars, userVars
  <2>2. IdsDistinct'
    BY <1>11 DEF TypeOK, IdsDistinct, IdsBounded, ResolveApproval, settingVars, hitlVars, userVars
  <2>3. PendingSound'
    BY <1>11 DEF TypeOK, PendingSound, ResolveApproval, settingVars, hitlVars, userVars
  <2>4. PendingComplete'
    BY <1>11 DEF TypeOK, PendingComplete, ResolveApproval, settingVars, hitlVars, userVars
  <2>5. CardsSound'
    BY <1>11 DEF TypeOK, CardsSound, ResolveApproval, settingVars, hitlVars, userVars
  <2>6. AnswerInv'
    <3> DEFINE hit == {e \in pending : e.id = card.id}
               owner == CHOOSE c \in Calls : \E e \in hit : e.call = c
               accepted == hit # {} /\ slot[owner] = "none"
    <3>1. hit # {} => owner = card.call
      <4> SUFFICES ASSUME hit # {}
                   PROVE  owner = card.call
        OBVIOUS
      <4>1. \A e \in hit : e.call \in Calls /\ rid[e.call] = rid[card.call] /\ rid[e.call] # 0
        BY DEF TypeOK, PendingSound, CardsSound
      <4>2. \A e \in hit : e.call = card.call
        BY <4>1 DEF TypeOK, IdsDistinct
      <4>3. owner \in Calls /\ \E e \in hit : e.call = owner
        BY <4>1
      <4> QED
        BY <4>2, <4>3
    <3>2. /\ said' = [said EXCEPT ![card.call] = @ \cup {v}]
          /\ slot' = IF accepted THEN [slot EXCEPT ![owner] = v] ELSE slot
          /\ firstAck' = IF accepted /\ firstAck[card.call] = "none"
                           THEN [firstAck EXCEPT ![card.call] = v] ELSE firstAck
          /\ UNCHANGED <<pc, decision, lvl>>
      BY <1>11, Zenon DEF ResolveApproval
    <3>3. card.call \in Calls /\ pc[card.call] \notin {"idle", "audit", "rule", "ask"}
      BY DEF TypeOK, CardsSound, IdsBounded
    <3>4. CASE accepted
      <4>1. /\ slot[card.call] = "none"
            /\ slot' = [slot EXCEPT ![card.call] = v]
        BY <3>1, <3>2, <3>4, Zenon
      <4>2. firstAck' = IF firstAck[card.call] = "none"
                          THEN [firstAck EXCEPT ![card.call] = v] ELSE firstAck
        BY <3>2, <3>4, Zenon
      <4>3. said' = [said EXCEPT ![card.call] = @ \cup {v}] /\ UNCHANGED <<pc, decision, lvl>>
        BY <3>2
      <4> HIDE DEF accepted, hit, owner
      <4> QED
        BY <4>1, <4>2, <4>3, <3>3 DEF TypeOK, AnswerInv, Verdicts
    <3>5. CASE ~accepted
      <4>1. /\ said' = [said EXCEPT ![card.call] = @ \cup {v}]
            /\ UNCHANGED <<pc, decision, lvl, slot, firstAck>>
        BY <3>2, <3>5, Zenon
      <4> HIDE DEF accepted, hit, owner
      <4> QED
        BY <4>1, <3>3 DEF TypeOK, AnswerInv
    <3> QED
      BY <3>4, <3>5
  <2> QED
    BY <2>1, <2>2, <2>3, <2>4, <2>5, <2>6
<1>12. ASSUME NEW c \in Calls, CancelContext(c)
      PROVE  ApprovalInv'
  BY <1>12 DEF TypeOK, IdsBounded, IdsDistinct, PendingSound, PendingComplete, CardsSound, AnswerInv, CancelContext, settingVars, hitlVars, userVars
<1>13. ASSUME NEW cfg \in Configs, SetEnableGuard(cfg)
      PROVE  ApprovalInv'
  BY <1>13 DEF TypeOK, IdsBounded, IdsDistinct, PendingSound, PendingComplete, CardsSound, AnswerInv, SetEnableGuard, settingVars, hitlVars, userVars
<1>14. ASSUME SetBlockHighRiskCommands
      PROVE  ApprovalInv'
  BY <1>14 DEF TypeOK, IdsBounded, IdsDistinct, PendingSound, PendingComplete, CardsSound, AnswerInv, SetBlockHighRiskCommands, settingVars, hitlVars, userVars
<1>15. ASSUME UpdateWebSearch
      PROVE  ApprovalInv'
  BY <1>15 DEF TypeOK, IdsBounded, IdsDistinct, PendingSound, PendingComplete, CardsSound, AnswerInv, UpdateWebSearch, settingVars, hitlVars, userVars
<1>16. ASSUME ListPending
      PROVE  ApprovalInv'
  <2>1. PICK e \in pending : cards' = cards \cup {e}
    BY <1>16 DEF ListPending
  <2>2. rid[e.call] = e.id /\ e.id > 0
    BY <2>1 DEF TypeOK, IdsBounded, PendingSound
  <2>3. CardsSound'
    BY <1>16, <2>1, <2>2 DEF CardsSound, ListPending
  <2> QED
    BY <1>16, <2>3 DEF TypeOK, IdsBounded, IdsDistinct, PendingSound, PendingComplete, AnswerInv, ListPending, settingVars, userVars
<1>17. ASSUME UNCHANGED vars
      PROVE  ApprovalInv'
  BY <1>17 DEF TypeOK, IdsBounded, IdsDistinct, PendingSound, PendingComplete, CardsSound, AnswerInv, vars, settingVars, hitlVars, userVars
<1> QED
  BY <1>1, <1>2, <1>3, <1>4, <1>5, <1>6, <1>7, <1>8, <1>9, <1>10, <1>11, <1>12, <1>13, <1>14, <1>15, <1>16, <1>17
     DEF Next, CallStep, Environment

(* The approval invariant holds throughout.                                *)
THEOREM ApprovalInvariant == StrictClock => (Spec => [](TypeOK /\ ApprovalInv))
<1> SUFFICES ASSUME StrictClock
             PROVE  Spec => [](TypeOK /\ ApprovalInv)
  OBVIOUS
<1>1. Init => ApprovalInv
  BY DEF Init, ApprovalInv, IdsBounded, IdsDistinct, PendingSound, PendingComplete,
         CardsSound, AnswerInv, Registered
<1>2. TypeOK /\ ApprovalInv /\ [Next]_vars => ApprovalInv'
  BY ApprovalInductive
<1> QED
  BY <1>1, <1>2, TypeCorrect, PTL DEF Spec

(* No confirmable call acts without the user's approval on its own card,   *)
(* if ids are distinct.                                                    *)
THEOREM NoActionWithoutApproval == StrictClock => (Spec => []ConfirmedBeforeRunning)
<1> SUFFICES ASSUME StrictClock
             PROVE  Spec => []ConfirmedBeforeRunning
  OBVIOUS
<1>1. TypeOK /\ ApprovalInv => ConfirmedBeforeRunning
  BY DEF ApprovalInv, AnswerInv, ConfirmedBeforeRunning
<1> QED
  BY <1>1, ApprovalInvariant, PTL

(* The answer a call obeys is the first one ResolveApproval accepted.      *)
THEOREM FirstAnswerIsObeyed == StrictClock => (Spec => []FirstAnswerWins)
<1> SUFFICES ASSUME StrictClock
             PROVE  Spec => []FirstAnswerWins
  OBVIOUS
<1>1. TypeOK /\ ApprovalInv => FirstAnswerWins
  BY DEF ApprovalInv, AnswerInv, FirstAnswerWins
<1> QED
  BY <1>1, ApprovalInvariant, PTL

(* The pending table holds exactly the calls inside RequestApproval.       *)
THEOREM PendingTableExact == StrictClock => (Spec => []PendingExact)
<1> SUFFICES ASSUME StrictClock
             PROVE  Spec => []PendingExact
  OBVIOUS
<1>1. TypeOK /\ ApprovalInv => PendingExact
  BY DEF ApprovalInv, PendingSound, PendingComplete, PendingExact, TypeOK
<1> QED
  BY <1>1, ApprovalInvariant, PTL

-----------------------------------------------------------------------------
(* High-risk arguments.                                                    *)

InFlight == CallStates \ {"idle", "done"}

HighRisk(c) == req[c].tool \in ShellTools \cup SQLTools /\ "danger" \in req[c].input

(* A call in flight remembers a relaxed policy as long as one is in force; *)
(* past the audit, a high-risk call has met one.                           *)
RiskInv ==
  \A c \in Calls :
    /\ pc[c] \in InFlight /\ ~(enableGuard /\ blockHighRisk) => relaxed[c]
    /\ pc[c] \in InFlight \ {"audit", "rule"} /\ HighRisk(c) => relaxed[c]

(* While blocking is on, both the shell and the SQL audit refuse an        *)
(* argument with a high-risk statement, whatever else it contains.         *)
LEMMA HighRiskRefused ==
  ASSUME NEW c \in Calls, HighRisk(c)
  PROVE  RuleLevel(req[c].tool, req[c].input, TRUE) = "forbidden"
<1>1. auditSingleStatement("danger", TRUE) = "forbidden"
  BY DEF auditSingleStatement
<1>2. auditSQLText(req[c].input, TRUE) = "forbidden"
  <2>1. "forbidden" \in {auditSingleStatement(s, TRUE) : s \in req[c].input}
    BY <1>1 DEF HighRisk
  <2> QED
    BY <2>1 DEF auditSQLText
<1>3. auditShellCommand(req[c].input, TRUE) = "forbidden"
  BY <1>1, Zenon DEF auditShellCommand, AuditShellAST, HighRisk
<1>4. CASE req[c].tool \in ShellTools
  <2>1. req[c].tool \notin AllowTools /\ req[c].tool \notin ConfirmTools
    BY <1>4 DEF ShellTools, AllowTools, ConfirmTools
  <2>2. req[c].tool \notin SQLTools \cup ContainerTools
        /\ req[c].tool \notin {"docker_execute", "docker_orchestrate",
              "k8s_kubectl_execute", "k8s_orchestrate", "api_manager"}
    BY <1>4 DEF ShellTools, SQLTools, ContainerTools
  <2> QED
    BY <1>3, <1>4, <2>1, <2>2 DEF RuleLevel
<1>5. CASE req[c].tool \in SQLTools
  <2>1. req[c].tool \notin AllowTools /\ req[c].tool \notin ConfirmTools
    BY <1>5 DEF SQLTools, AllowTools, ConfirmTools
  <2>2. req[c].tool \notin ShellTools \cup ContainerTools
        /\ req[c].tool \notin {"docker_execute", "docker_orchestrate",
              "k8s_kubectl_execute", "k8s_orchestrate", "api_manager"}
    BY <1>5 DEF ShellTools, SQLTools, ContainerTools
  <2> QED
    BY <1>2, <1>5, <2>1, <2>2 DEF RuleLevel
<1> QED
  BY <1>4, <1>5 DEF HighRisk

(* Every step keeps RiskInv; only the two audit steps and the settings     *)
(* need an argument.                                                       *)
LEMMA RiskInductive == TypeOK /\ RiskInv /\ [Next]_vars => RiskInv'
<1> SUFFICES ASSUME TypeOK, RiskInv, [Next]_vars
             PROVE  RiskInv'
  OBVIOUS
<1> USE DEF InFlight, HighRisk
<1>1. ASSUME NEW c \in Calls, Invoke(c) \/ AuditEnabled(c)
      PROVE  RiskInv'
  <2>1. CASE Invoke(c)
    <3>1. /\ pc[c] = "idle"
          /\ \E l \in {"done", "audit"} : pc' = [pc EXCEPT ![c] = l]
          /\ relaxed' = [relaxed EXCEPT ![c] = ~(enableGuard /\ blockHighRisk)]
          /\ UNCHANGED <<enableGuard, blockHighRisk, req>>
      BY <2>1 DEF Invoke, goto, settingVars
    <3> SUFFICES ASSUME NEW d \in Calls
                 PROVE  /\ pc'[d] \in InFlight /\ ~(enableGuard' /\ blockHighRisk') => relaxed'[d]
                        /\ pc'[d] \in InFlight \ {"audit", "rule"} /\ HighRisk(d)' => relaxed'[d]
      BY DEF RiskInv
    <3>2. CASE d = c
      <4>1. pc'[d] \in {"done", "audit"} /\ relaxed'[d] = ~(enableGuard /\ blockHighRisk)
        BY <3>1, <3>2 DEF TypeOK
      <4> QED
        BY <3>1, <4>1
    <3>3. CASE d # c
      <4>1. pc'[d] = pc[d] /\ relaxed'[d] = relaxed[d]
        BY <3>1, <3>3 DEF TypeOK
      <4> QED
        BY <3>1, <4>1 DEF RiskInv
    <3> QED
      BY <3>2, <3>3
  <2>2. CASE AuditEnabled(c)
    <3>1. /\ pc[c] = "audit"
          /\ \/ ~enableGuard /\ pc' = [pc EXCEPT ![c] = "exec"]
             \/ \E l \in {"done", "rule"} : pc' = [pc EXCEPT ![c] = l]
          /\ UNCHANGED <<enableGuard, blockHighRisk, req, relaxed>>
      BY <2>2 DEF AuditEnabled, goto, finish, settingVars
    <3> QED
      BY <3>1 DEF TypeOK, RiskInv, CallStates
  <2> QED
    BY <1>1, <2>1, <2>2
<1>2. ASSUME NEW c \in Calls, AuditRule(c)
      PROVE  RiskInv'
  <2>1. blockHighRisk /\ HighRisk(c) => pc' = [pc EXCEPT ![c] = "done"]
    <3> SUFFICES ASSUME blockHighRisk, HighRisk(c)
                 PROVE  pc' = [pc EXCEPT ![c] = "done"]
      OBVIOUS
    <3>1. RuleLevel(req[c].tool, req[c].input, blockHighRisk) = "forbidden"
      BY HighRiskRefused DEF TypeOK
    <3> QED
      BY <1>2, <3>1 DEF AuditRule, finish, goto
  <2>2. /\ \E l \in {"done", "ask", "exec"} : pc' = [pc EXCEPT ![c] = l]
        /\ pc[c] = "rule"
        /\ UNCHANGED <<enableGuard, blockHighRisk, req, relaxed>>
    BY <1>2 DEF AuditRule, finish, goto, settingVars
  <2> QED
    BY <2>1, <2>2 DEF TypeOK, RiskInv, CallStates
<1>3. ASSUME NEW c \in Calls, RequestApproval(c) \/ EmitConfirm(c) \/ Receive(c) \/ ContextDone(c)
      PROVE  RiskInv'
  BY <1>3 DEF TypeOK, RiskInv, RequestApproval, EmitConfirm, Receive, ContextDone, goto,
              CallStates, settingVars
<1>4. ASSUME NEW c \in Calls, ReturnDecision(c)
      PROVE  RiskInv'
  BY <1>4 DEF TypeOK, RiskInv, ReturnDecision, goto, finish, CallStates, settingVars
<1>5. ASSUME NEW c \in Calls, ExecuteTool(c) \/ HandlerReturns(c)
      PROVE  RiskInv'
  BY <1>5 DEF TypeOK, RiskInv, ExecuteTool, HandlerReturns, goto, finish, CallStates,
              settingVars
<1>6. CASE \/ \E card \in cards, v \in Verdicts : ResolveApproval(card, v)
           \/ \E c \in Calls : CancelContext(c)
           \/ ListPending
           \/ UpdateWebSearch
           \/ UNCHANGED vars
  <2>1. UNCHANGED <<enableGuard, blockHighRisk, pc, req, relaxed>>
    BY <1>6 DEF ResolveApproval, CancelContext, ListPending, UpdateWebSearch, vars, settingVars
  <2> QED
    BY <2>1 DEF RiskInv
<1>7. CASE \/ \E cfg \in Configs : SetEnableGuard(cfg)
           \/ SetBlockHighRiskCommands
  <2>1. /\ relaxed' = [c \in Calls |-> relaxed[c] \/ (pc[c] \notin {"idle", "done"}
                                        /\ ~(enableGuard' /\ blockHighRisk'))]
        /\ UNCHANGED <<pc, req>>
    BY <1>7 DEF SetEnableGuard, SetBlockHighRiskCommands, noteRelaxed
  <2> QED
    BY <2>1 DEF TypeOK, RiskInv
<1> QED
  BY <1>1, <1>2, <1>3, <1>4, <1>5, <1>6, <1>7 DEF Next, CallStep, Environment

(* A high-risk shell or SQL argument is executed only if the policy in     *)
(* force at some moment of the call permitted it, however the settings are *)
(* changed meanwhile.                                                      *)
THEOREM HighRiskIsBlocked == Spec => []HighRiskNeedsRelaxedGuard
<1>1. Init => RiskInv
  BY DEF Init, RiskInv, InFlight
<1>2. TypeOK /\ RiskInv => HighRiskNeedsRelaxedGuard
  BY DEF RiskInv, InFlight, CallStates, HighRisk, HighRiskNeedsRelaxedGuard
<1> QED
  BY <1>1, <1>2, RiskInductive, TypeCorrect, PTL DEF Spec

-----------------------------------------------------------------------------
(* Refinement.                                                             *)

(* Each step of the bus is a step of the abstract gate or leaves it alone. *)
LEMMA GateStep ==
  TypeOK /\ ApprovalInv /\ [Next]_vars => [Gate!GateNext]_(Gate!gateVars)
<1> SUFFICES ASSUME TypeOK, ApprovalInv, [Next]_vars
             PROVE  Gate!GateNext \/ UNCHANGED Gate!gateVars
  OBVIOUS
<1> DEFINE st == [c \in Calls |-> StageOf(pc[c])]
<1>1. ASSUME NEW c \in Calls, NEW l, pc' = [pc EXCEPT ![c] = l], said' = said
      PROVE  st' = [st EXCEPT ![c] = StageOf(l)] /\ st[c] = StageOf(pc[c])
  BY <1>1 DEF TypeOK
<1>2. ASSUME NEW c \in Calls, CallStep(c)
      PROVE  \/ \E l \in CallStates :
                  /\ pc' = [pc EXCEPT ![c] = l] /\ said' = said
                  /\ \/ StageOf(l) = StageOf(pc[c])
                     \/ StageOf(pc[c]) = "new" /\ StageOf(l) \in {"cleared", "asking", "closed"}
                     \/ StageOf(pc[c]) = "asking" /\ StageOf(l) = "closed"
                     \/ /\ StageOf(pc[c]) = "asking" /\ StageOf(l) = "cleared"
                        /\ "approve" \in said[c]
                     \/ StageOf(pc[c]) = "cleared" /\ StageOf(l) = "acting"
                     \/ StageOf(pc[c]) = "acting" /\ StageOf(l) = "closed"
  <2> USE DEF StageOf, Registered, CallStates, userVars, goto, finish
  <2>1. CASE Invoke(c) \/ AuditEnabled(c)
    BY <2>1 DEF Invoke, AuditEnabled
  <2>2. CASE AuditRule(c)
    BY <2>2 DEF AuditRule
  <2>3. CASE RequestApproval(c) \/ EmitConfirm(c) \/ Receive(c) \/ ContextDone(c)
    BY <2>3 DEF RequestApproval, EmitConfirm, Receive, ContextDone
  <2>4. CASE ReturnDecision(c)
    <3>1. decision[c] = "approve" => "approve" \in said[c]
      BY DEF ApprovalInv, AnswerInv
    <3> QED
      BY <2>4, <3>1 DEF ReturnDecision
  <2>5. CASE ExecuteTool(c) \/ HandlerReturns(c)
    BY <2>5 DEF ExecuteTool, HandlerReturns
  <2> QED
    BY <1>2, <2>1, <2>2, <2>3, <2>4, <2>5 DEF CallStep
<1>3. ASSUME NEW c \in Calls, CallStep(c)
      PROVE  Gate!GateNext \/ UNCHANGED Gate!gateVars
  <2>1. PICK l \in CallStates :
           /\ pc' = [pc EXCEPT ![c] = l] /\ said' = said
           /\ \/ StageOf(l) = StageOf(pc[c])
              \/ StageOf(pc[c]) = "new" /\ StageOf(l) \in {"cleared", "asking", "closed"}
              \/ StageOf(pc[c]) = "asking" /\ StageOf(l) = "closed"
              \/ /\ StageOf(pc[c]) = "asking" /\ StageOf(l) = "cleared"
                 /\ "approve" \in said[c]
              \/ StageOf(pc[c]) = "cleared" /\ StageOf(l) = "acting"
              \/ StageOf(pc[c]) = "acting" /\ StageOf(l) = "closed"
    BY <1>2, <1>3
  <2>2. st' = [st EXCEPT ![c] = StageOf(l)] /\ st[c] = StageOf(pc[c])
    BY <1>1, <2>1
  <2>3. CASE StageOf(l) = StageOf(pc[c])
    <3>1. st' = st
      BY <2>2, <2>3
    <3> QED
      BY <2>1, <3>1 DEF Gate!gateVars
  <2>4. CASE StageOf(l) # StageOf(pc[c])
    <3> HIDE DEF st
    <3>1. \/ Gate!Clear(c) \/ Gate!Ask(c) \/ Gate!Grant(c) \/ Gate!Refuse(c)
          \/ Gate!Act(c) \/ Gate!Close(c)
      BY <2>1, <2>2, <2>4
         DEF Gate!Clear, Gate!Ask, Gate!Grant, Gate!Refuse, Gate!Act, Gate!Close,
             Gate!moves, st
    <3> QED
      BY <3>1 DEF Gate!GateNext
  <2> QED
    BY <2>3, <2>4
<1>4. ASSUME NEW card \in cards, NEW v \in Verdicts, ResolveApproval(card, v)
      PROVE  Gate!GateNext
  <2>1. card.call \in Calls /\ pc[card.call] \notin {"idle", "audit", "rule"}
    BY DEF TypeOK, ApprovalInv, CardsSound, IdsBounded
  <2>2. st[card.call] # "new"
    BY <2>1 DEF TypeOK, StageOf
  <2>3. said' = [said EXCEPT ![card.call] = @ \cup {v}] /\ UNCHANGED st
    BY <1>4 DEF ResolveApproval
  <2>4. Gate!Answer(card.call)
    BY <2>2, <2>3 DEF Gate!Answer, Verdicts
  <2> QED
    BY <2>1, <2>4 DEF Gate!GateNext
<1>5. CASE \/ \E c \in Calls : CancelContext(c)
           \/ ListPending
           \/ \E cfg \in Configs : SetEnableGuard(cfg)
           \/ SetBlockHighRiskCommands
           \/ UpdateWebSearch
           \/ UNCHANGED vars
  <2>1. UNCHANGED <<pc, said>>
    BY <1>5 DEF CancelContext, ListPending, SetEnableGuard, SetBlockHighRiskCommands, UpdateWebSearch,
                vars, userVars
  <2> QED
    BY <2>1 DEF Gate!gateVars
<1> QED
  BY <1>3, <1>4, <1>5 DEF Next, Environment

(* Under distinct ids the tool bus implements the approval gate: nothing   *)
(* that was put before the user acts before the user approved it.          *)
THEOREM BusImplementsGate == StrictClock => (Spec => ImplementsGate)
<1> SUFFICES ASSUME StrictClock
             PROVE  Spec => ImplementsGate
  OBVIOUS
<1>1. Init => Gate!GateInit
  <2> SUFFICES ASSUME Init
               PROVE  Gate!GateInit
    OBVIOUS
  <2>1. \A c \in Calls : StageOf(pc[c]) = "new"
    BY DEF Init, StageOf, Registered
  <2>2. [c \in Calls |-> StageOf(pc[c])] = [c \in Calls |-> "new"]
    BY <2>1
  <2> QED
    BY <2>2 DEF Init, Gate!GateInit
<1> QED
  BY <1>1, GateStep, ApprovalInvariant, PTL DEF Spec, ImplementsGate, Gate!GateSpec
=============================================================================
