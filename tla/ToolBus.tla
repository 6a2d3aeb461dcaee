-------------------------------- MODULE ToolBus --------------------------------
(***************************************************************************)
(* ToolBus.Invoke (agent/tools/bus.go) with PolicyGuard.Audit and the      *)
(* HitlManager rendezvous (agent/guard/guard.go), run by several callers   *)
(* at once: chats, and the parallel steps of a plan.  Meanwhile the user   *)
(* answers confirmation cards (any card ever shown, more than once, late), *)
(* contexts are cancelled, and InitOrUpdate (agent/runtime.go) changes the *)
(* guard settings one field at a time.                                     *)
(*                                                                         *)
(* A call in Calls is one execution of Invoke.  Its program counter:       *)
(*   idle -> audit -> rule -> ask -> emit -> waiting -> answered | ctxdone *)
(*        -> exec -> running -> done                                       *)
(***************************************************************************)
EXTENDS PolicyGuard, Integers, FiniteSets

CONSTANTS
  Calls,        \* the executions of ToolBus.Invoke
  Requests,     \* what a caller may ask for: [tool, input, planning]
  Configs,      \* the settings the user may save: [guard, block, web]
  StrictClock   \* TRUE: two reads of time.Now().UnixNano() always differ

ASSUME RequestsAssumption ==
  Requests \subseteq [tool : AllTools, input : Inputs, planning : BOOLEAN]

Settings == [guard : BOOLEAN, block : BOOLEAN, web : BOOLEAN]

ASSUME ConfigsAssumption == Configs \subseteq Settings

ASSUME ClockAssumption == StrictClock \in BOOLEAN

VARIABLES
  enableGuard,    \* PolicyGuard.enableGuard
  blockHighRisk,  \* PolicyGuard.blockHighRiskCommands
  tools,          \* names registered on the bus
  update,         \* the InitOrUpdate in progress: [at, cfg]
  pc,             \* where each call is
  req,            \* its tool name, argument and planning mode
  cancelled,      \* whether its context is cancelled
  lvl,            \* the level Audit gave it
  rid,            \* its ConfirmID, 0 before RequestApproval
  clock,          \* the last timestamp handed out
  pending,        \* HitlManager.pending: [id, call] entries, one per id
  slot,           \* HitlRequest.ResponseCh, a channel of capacity 1
  decision,       \* what the caller received from it
  cards,          \* the confirmation cards the frontend has got: [id, call]
  result,         \* how the call returned
  said,           \* history: what the user has answered on the call's card
  firstAck,       \* history: the first answer ResolveApproval accepted there
  relaxed         \* history: guard or blocking was off at some time in the call

settingVars == <<enableGuard, blockHighRisk, tools, update>>
hitlVars == <<rid, clock, pending, slot, decision, cards>>
userVars == <<said, firstAck>>
vars == <<settingVars, pc, req, cancelled, lvl, hitlVars, result,
          userVars, relaxed>>

-----------------------------------------------------------------------------
Verdicts == {"approve", "reject"}

CallStates == {"idle", "audit", "rule", "ask", "emit", "waiting", "answered",
               "ctxdone", "exec", "running", "done"}

Results == {"none", "unknown", "forbidden", "interrupted", "rejected", "error", "ok"}

(* Between RequestApproval's Store and its deferred Delete.                *)
Registered == {"emit", "waiting", "answered", "ctxdone"}

TypeOK ==
  /\ enableGuard \in BOOLEAN
  /\ blockHighRisk \in BOOLEAN
  /\ tools \subseteq AllTools
  /\ update \in [at : {"idle", "block", "tools"}, cfg : Settings]
  /\ pc \in [Calls -> CallStates]
  /\ req \in [Calls -> Requests]
  /\ cancelled \in [Calls -> BOOLEAN]
  /\ lvl \in [Calls -> Levels \cup {"none"}]
  /\ rid \in [Calls -> Nat]
  /\ clock \in Nat
  /\ pending \subseteq [id : Nat, call : Calls]
  /\ slot \in [Calls -> Verdicts \cup {"none"}]
  /\ decision \in [Calls -> Verdicts \cup {"none"}]
  /\ cards \subseteq [id : Nat, call : Calls]
  /\ result \in [Calls -> Results]
  /\ said \in [Calls -> SUBSET Verdicts]
  /\ firstAck \in [Calls -> Verdicts \cup {"none"}]
  /\ relaxed \in [Calls -> BOOLEAN]

(* A freshly started application: default settings (both guard switches on *)
(* in core.DefaultAppSettings), every tool registered, nothing in flight.  *)
Init ==
  /\ enableGuard = TRUE
  /\ blockHighRisk = TRUE
  /\ tools = AllTools
  /\ update = [at |-> "idle", cfg |-> [guard |-> TRUE, block |-> TRUE, web |-> TRUE]]
  /\ pc = [c \in Calls |-> "idle"]
  /\ req \in [Calls -> Requests]
  /\ cancelled = [c \in Calls |-> FALSE]
  /\ lvl = [c \in Calls |-> "none"]
  /\ rid = [c \in Calls |-> 0]
  /\ clock = 0
  /\ pending = {}
  /\ slot = [c \in Calls |-> "none"]
  /\ decision = [c \in Calls |-> "none"]
  /\ cards = {}
  /\ result = [c \in Calls |-> "none"]
  /\ said = [c \in Calls |-> {}]
  /\ firstAck = [c \in Calls |-> "none"]
  /\ relaxed = [c \in Calls |-> FALSE]

-----------------------------------------------------------------------------
(* ToolBus.Invoke                                                          *)

goto(c, l) == pc' = [pc EXCEPT ![c] = l]

(* MUTANT: the level of the call is returned in place of its result.       *)
finishWithLevel(c, r) ==
  /\ goto(c, "done")
  /\ result' = [result EXCEPT ![c] = lvl[c]]

(* The return of the result; emitToolEvent changes no state here.          *)
finish(c, r) ==
  /\ goto(c, "done")
  /\ result' = [result EXCEPT ![c] = r]

(* Get: an unknown name returns at once, before any event is sent.  A      *)
(* known one sends ToolStart and keeps the tool it found, whatever is      *)
(* unregistered later.                                                     *)
Invoke(c) ==
  /\ pc[c] = "idle"
  /\ IF req[c].tool \in tools
       THEN goto(c, "audit") /\ UNCHANGED result
       ELSE goto(c, "done") /\ result' = [result EXCEPT ![c] = "unknown"]
  /\ relaxed' = [relaxed EXCEPT ![c] = ~(enableGuard /\ blockHighRisk)]
  /\ UNCHANGED <<settingVars, req, cancelled, lvl, hitlVars, userVars>>

(* Audit, first half: one locked read of enableGuard, then plan mode.      *)
AuditEnabled(c) ==
  /\ pc[c] = "audit"
  /\ \/ /\ ~enableGuard
        /\ lvl' = [lvl EXCEPT ![c] = "allow"]
        /\ goto(c, "exec")
        /\ UNCHANGED result
     \/ /\ enableGuard
        /\ req[c].planning /\ isPlanModeForbidden(req[c].tool, req[c].input)
        /\ lvl' = [lvl EXCEPT ![c] = "forbidden"]
        /\ finish(c, "forbidden")
     \/ /\ enableGuard
        /\ ~(req[c].planning /\ isPlanModeForbidden(req[c].tool, req[c].input))
        /\ goto(c, "rule")
        /\ UNCHANGED <<lvl, result>>
  /\ UNCHANGED <<settingVars, req, cancelled, hitlVars, userVars, relaxed>>

(* Audit, second half: the rule, whose AuditFunc reads blockHighRisk under *)
(* its own lock; then Invoke branches on the level.                        *)
AuditRule(c) ==
  /\ pc[c] = "rule"
  /\ LET l == RuleLevel(req[c].tool, req[c].input, blockHighRisk)
     IN  /\ lvl' = [lvl EXCEPT ![c] = l]
         /\ CASE l = "forbidden" -> finish(c, "forbidden")
              [] l = "confirm"   -> goto(c, "ask") /\ UNCHANGED result
              [] OTHER           -> goto(c, "exec") /\ UNCHANGED result
  /\ UNCHANGED <<settingVars, req, cancelled, hitlVars, userVars, relaxed>>

-----------------------------------------------------------------------------
(* HitlManager.RequestApproval                                             *)

(* sync.Map.Store: the entry of an equal id is overwritten.                *)
store(p, id, c) == {e \in p : e.id # id} \cup {[id |-> id, call |-> c]}

(* sync.Map.Delete: whoever owns the entry.                                *)
delete(p, id) == {e \in p : e.id # id}

(* The ConfirmID is the time; a coarse clock may not have moved.           *)
ConfirmIDs == IF StrictClock THEN {clock + 1} ELSE {clock + 1} \cup ({clock} \ {0})

RequestApproval(c) ==
  /\ pc[c] = "ask"
  /\ \E id \in ConfirmIDs :
       /\ rid' = [rid EXCEPT ![c] = id]
       /\ clock' = id
       /\ pending' = store(pending, id, c)
  /\ goto(c, "emit")
  /\ UNCHANGED <<settingVars, req, cancelled, lvl, slot, decision, cards,
                 result, userVars, relaxed>>

EmitConfirm(c) ==
  /\ pc[c] = "emit"
  /\ cards' = cards \cup {[id |-> rid[c], call |-> c]}
  /\ goto(c, "waiting")
  /\ UNCHANGED <<settingVars, req, cancelled, lvl, rid, clock, pending, slot,
                 decision, result, userVars, relaxed>>

(* MUTANT: only an approval ends the wait, a rejection is read and dropped. *)
ReceiveApprovalsOnly(c) ==
  /\ pc[c] = "waiting" /\ slot[c] # "none"
  /\ slot' = [slot EXCEPT ![c] = "none"]
  /\ IF slot[c] = "approve"
       THEN decision' = [decision EXCEPT ![c] = "approve"] /\ goto(c, "answered")
       ELSE UNCHANGED <<decision, pc>>
  /\ UNCHANGED <<settingVars, req, cancelled, lvl, rid, clock, pending, cards,
                 result, userVars, relaxed>>

(* The select: no timeout; either ready branch may be taken.               *)
Receive(c) ==
  /\ pc[c] = "waiting" /\ slot[c] # "none"
  /\ decision' = [decision EXCEPT ![c] = slot[c]]
  /\ slot' = [slot EXCEPT ![c] = "none"]
  /\ goto(c, "answered")
  /\ UNCHANGED <<settingVars, req, cancelled, lvl, rid, clock, pending, cards,
                 result, userVars, relaxed>>

(* MUTANT: the wait ignores its context.                                   *)
ContextDoneIgnored(c) == pc[c] = "waiting" /\ cancelled[c] /\ UNCHANGED vars

(* The other branch of the select.                                         *)
ContextDone(c) ==
  /\ pc[c] = "waiting" /\ cancelled[c]
  /\ goto(c, "ctxdone")
  /\ UNCHANGED <<settingVars, req, cancelled, lvl, hitlVars, result,
                 userVars, relaxed>>

(* MUTANT: any answer lets the call go on.                                 *)
ReturnDecisionUnread(c) ==
  /\ pc[c] \in {"answered", "ctxdone"}
  /\ pending' = delete(pending, rid[c])
  /\ \/ pc[c] = "ctxdone" /\ finish(c, "interrupted")
     \/ pc[c] = "answered" /\ goto(c, "exec") /\ UNCHANGED result
  /\ UNCHANGED <<settingVars, req, cancelled, lvl, rid, clock, slot, decision,
                 cards, userVars, relaxed>>

(* MUTANT: the entry is deleted on the answer path only.                   *)
ReturnDecisionKeepsEntry(c) ==
  /\ pc[c] \in {"answered", "ctxdone"}
  /\ pending' = IF pc[c] = "answered" THEN delete(pending, rid[c]) ELSE pending
  /\ \/ pc[c] = "ctxdone" /\ finish(c, "interrupted")
     \/ pc[c] = "answered" /\ decision[c] = "reject" /\ finish(c, "rejected")
     \/ /\ pc[c] = "answered" /\ decision[c] = "approve"
        /\ goto(c, "exec") /\ UNCHANGED result
  /\ UNCHANGED <<settingVars, req, cancelled, lvl, rid, clock, slot, decision,
                 cards, userVars, relaxed>>

(* The deferred Delete, and what Invoke does with the answer.              *)
ReturnDecision(c) ==
  /\ pc[c] \in {"answered", "ctxdone"}
  /\ pending' = delete(pending, rid[c])
  /\ \/ pc[c] = "ctxdone" /\ finish(c, "interrupted")
     \/ pc[c] = "answered" /\ decision[c] = "reject" /\ finish(c, "rejected")
     \/ /\ pc[c] = "answered" /\ decision[c] = "approve"
        /\ goto(c, "exec") /\ UNCHANGED result
  /\ UNCHANGED <<settingVars, req, cancelled, lvl, rid, clock, slot, decision,
                 cards, userVars, relaxed>>

-----------------------------------------------------------------------------
(* The tool itself: it is started even if the context is cancelled by now, *)
(* and it returns (external: handlers get a context with a timeout).       *)

ExecuteTool(c) ==
  /\ pc[c] = "exec"
  /\ goto(c, "running")
  /\ UNCHANGED <<settingVars, req, cancelled, lvl, hitlVars, result,
                 userVars, relaxed>>

HandlerReturns(c) ==
  /\ pc[c] = "running"
  /\ \E r \in {"ok", "error"} : finish(c, r)
  /\ UNCHANGED <<settingVars, req, cancelled, lvl, hitlVars, userVars, relaxed>>

CallStep(c) ==
  \/ Invoke(c) \/ AuditEnabled(c) \/ AuditRule(c)
  \/ RequestApproval(c) \/ EmitConfirm(c) \/ Receive(c) \/ ContextDone(c)
  \/ ReturnDecision(c) \/ ExecuteTool(c) \/ HandlerReturns(c)

-----------------------------------------------------------------------------
(* The environment: user, cancellation, settings.                          *)

(* MUTANT: a later answer replaces the one that waits in the channel.      *)
ResolveApprovalReplaces(card, v) ==
  LET hit == {e \in pending : e.id = card.id}
      owner == CHOOSE c \in Calls : \E e \in hit : e.call = c
  IN  /\ said' = [said EXCEPT ![card.call] = @ \cup {v}]
      /\ slot' = IF hit # {} THEN [slot EXCEPT ![owner] = v] ELSE slot
      /\ firstAck' = IF hit # {} /\ firstAck[card.call] = "none"
                       THEN [firstAck EXCEPT ![card.call] = v] ELSE firstAck
      /\ UNCHANGED <<settingVars, pc, req, cancelled, lvl, rid, clock, pending,
                     decision, cards, result, relaxed>>

(* HitlManager.ResolveApproval for the answer v on a card: Load the id, a  *)
(* non-blocking send.  The answer is accepted iff the entry exists and its *)
(* slot is free.                                                           *)
ResolveApproval(card, v) ==
  LET hit == {e \in pending : e.id = card.id}
      owner == CHOOSE c \in Calls : \E e \in hit : e.call = c
      accepted == hit # {} /\ slot[owner] = "none"
  IN  /\ said' = [said EXCEPT ![card.call] = @ \cup {v}]
      /\ slot' = IF accepted THEN [slot EXCEPT ![owner] = v] ELSE slot
      /\ firstAck' = IF accepted /\ firstAck[card.call] = "none"
                       THEN [firstAck EXCEPT ![card.call] = v] ELSE firstAck
      /\ UNCHANGED <<settingVars, pc, req, cancelled, lvl, rid, clock, pending,
                     decision, cards, result, relaxed>>

(* ListPending, read when the panel opens: it shows the first entry of an  *)
(* unordered map, whose HitlConfirm event may not have been sent yet.      *)
ListPending ==
  /\ \E e \in pending : cards' = cards \cup {e}
  /\ UNCHANGED <<settingVars, pc, req, cancelled, lvl, rid, clock, pending, slot,
                 decision, result, userVars, relaxed>>

(* Stop, plan cancellation or a parent's timeout.                          *)
CancelContext(c) ==
  /\ ~cancelled[c] /\ pc[c] # "done"
  /\ cancelled' = [cancelled EXCEPT ![c] = TRUE]
  /\ UNCHANGED <<settingVars, pc, req, lvl, hitlVars, result,
                 userVars, relaxed>>

(* history: calls in flight see every setting in force during their life.  *)
noteRelaxed(g, b) ==
  relaxed' = [c \in Calls |->
                relaxed[c] \/ (pc[c] \notin {"idle", "done"} /\ ~(g /\ b))]

(* InitOrUpdate, serialised by AgentRuntime.mu but not with the readers.   *)
SetEnableGuard(cfg) ==
  /\ update.at = "idle"
  /\ enableGuard' = cfg.guard
  /\ update' = [at |-> "block", cfg |-> cfg]
  /\ noteRelaxed(cfg.guard, blockHighRisk)
  /\ UNCHANGED <<blockHighRisk, tools, pc, req, cancelled, lvl, hitlVars,
                 result, userVars>>

SetBlockHighRiskCommands ==
  /\ update.at = "block"
  /\ blockHighRisk' = update.cfg.block
  /\ update' = [update EXCEPT !.at = "tools"]
  /\ noteRelaxed(enableGuard, update.cfg.block)
  /\ UNCHANGED <<enableGuard, tools, pc, req, cancelled, lvl, hitlVars,
                 result, userVars>>

UpdateWebSearch ==
  /\ update.at = "tools"
  /\ tools' = IF update.cfg.web THEN tools \cup {"web_search"}
                                ELSE tools \ {"web_search"}
  /\ update' = [update EXCEPT !.at = "idle"]
  /\ UNCHANGED <<enableGuard, blockHighRisk, pc, req, cancelled, lvl, hitlVars,
                 result, userVars, relaxed>>

Environment ==
  \/ \E card \in cards, v \in Verdicts : ResolveApproval(card, v)
  \/ ListPending
  \/ \E c \in Calls : CancelContext(c)
  \/ \E cfg \in Configs : SetEnableGuard(cfg)
  \/ SetBlockHighRiskCommands
  \/ UpdateWebSearch

Next == (\E c \in Calls : CallStep(c)) \/ Environment

Spec == Init /\ [][Next]_vars

(* Goroutines are scheduled and handlers return; the user owes nothing.    *)
Fairness == \A c \in Calls : WF_vars(CallStep(c))

FairSpec == Spec /\ Fairness

-----------------------------------------------------------------------------
(* Properties.                                                             *)

(* A call that Audit sent to confirmation acts only if the user approved   *)
(* on the card of that very call (bus.go: RequestApproval before "4.       *)
(* Execute Tool"), however many cards are open, answered late or twice.    *)
ConfirmedBeforeRunning ==
  \A c \in Calls :
    lvl[c] = "confirm" /\ pc[c] \in {"exec", "running"} => "approve" \in said[c]

(* If ResolveApproval told the user that an answer was accepted, the first *)
(* answer so accepted is the one the call obeyed; a second click never     *)
(* changes it, though it may be acknowledged too (after the receive and    *)
(* before the deferred Delete).                                            *)
FirstAnswerWins ==
  \A c \in Calls : decision[c] # "none" => decision[c] = firstAck[c]

(* An entry of HitlManager.pending belongs to a call that is still inside  *)
(* RequestApproval, and each such call can be found there under its id:    *)
(* no request is forgotten while it waits or remembered after it returned. *)
PendingExact ==
  \A c \in Calls : pc[c] \in Registered <=> \E e \in pending : e.call = c /\ e.id = rid[c]

(* A high-risk shell or SQL argument reaches its tool only if the guard or *)
(* the blocking switch was off at some time during the call: the two       *)
(* separately locked reads of Audit and the three separate writes of       *)
(* InitOrUpdate never combine to a policy that was never in force.         *)
HighRiskNeedsRelaxedGuard ==
  \A c \in Calls :
    /\ pc[c] \in {"exec", "running"}
    /\ req[c].tool \in ShellTools \cup SQLTools
    /\ "danger" \in req[c].input
    => relaxed[c]

(* A cancelled call returns: the wait for the user has no timeout, so only *)
(* the ctx.Done branch can end it when nobody answers.                     *)
CancelledReturns ==
  \A c \in Calls : (cancelled[c] /\ pc[c] # "idle") ~> pc[c] = "done"

(* An accepted answer is not lost: its call goes on and returns.           *)
AnswerReturns ==
  \A c \in Calls : (firstAck[c] # "none") ~> pc[c] = "done"

(* Refinement: the phases of a call as the abstract gate sees them.        *)
StageOf(l) ==
  CASE l \in {"idle", "audit", "rule"}       -> "new"
    [] l \in {"ask"} \cup Registered         -> "asking"
    [] l = "exec"                            -> "cleared"
    [] l = "running"                         -> "acting"
    [] OTHER                                 -> "closed"

Gate == INSTANCE ApprovalGate
          WITH stage <- [c \in Calls |-> StageOf(pc[c])], consent <- said

(* Invoke with its audit, ids, pending table and response channel keeps    *)
(* the promise of ApprovalGate, step by step.                              *)
ImplementsGate == Gate!GateSpec
=============================================================================
