------------------------------ MODULE AgentPanel ------------------------------
(***************************************************************************)
(* The panel of the agent in the webview (useAgentSessions, useAgentEvents *)
(* and useAgentComposer) and the session store behind it: the rounds of a  *)
(* conversation, the sessions they belong to, the events that fill in an   *)
(* answer, the reply that ends a round, and the loads and saves of the     *)
(* history.                                                                *)
(*                                                                         *)
(* Every call to the backend runs in a goroutine of its own, so calls that *)
(* are under way at the same time take effect in any order, and any of     *)
(* them may fail.  The text of a message is the set of the rounds it comes *)
(* from, and whether chunks were put together in it, which need not be the *)
(* whole answer.                                                           *)
(***************************************************************************)
EXTENDS Naturals, Sequences

CONSTANTS
  MaxRuns,   \* bound: rounds the user may start (handleSend, handleApprovePlan)
  Ids,       \* session ids
  Known,     \* the sessions there are at the start
  Home,      \* the one the panel opens with
  Default,   \* ai_agent_default
  None,
  MaxMoves   \* bound: session operations, answers, stops, expiries of the watchdog,
             \* and failures of loads, saves and deletions

ASSUME BoundsAssumption == MaxRuns \in Nat /\ MaxMoves \in Nat
ASSUME SessionsAssumption == Known \subseteq Ids /\ Home \in Known /\ Default \in Ids

Runs == 1 .. MaxRuns

ASSUME NoneAssumption == None \notin Runs

VARIABLES
  rows,         \* agent_sessions: the sessions there are, with their titles
  stored,       \* the messages table, per session
  planFiles,    \* sessions with an implementation_plan.md
  sessions,     \* panel: the list of sessions
  active,       \* panel: activeSessionId
  subscribed,   \* panel: the session the event handlers were made for
  messages,     \* panel: the messages shown
  isGenerating, \* panel
  pendingAsk,   \* panel: the run whose question is shown
  buffer,       \* panel: runs with text not flushed yet (pendingChat)
  loads,        \* agentGetSessionMessages calls under way
  saves,        \* agentSaveSessionMessages calls under way
  creating,     \* agentCreateSession calls that have not returned
  deleting,     \* agentDeleteSession calls that have not returned
  clearing,     \* sessions of which agentClearHistory has not returned
  answering,    \* per round: agentAnswerAsk calls that have not returned
  run,          \* per round: where it is
  titling,      \* per round: where tryAutoGenerateTitle is
  moves,        \* how many of those there have been
  ghost         \* history: what happened to sessions and rounds

panelVars == <<sessions, active, subscribed, messages, isGenerating, pendingAsk, buffer>>
storeVars == <<rows, stored, planFiles>>
callVars == <<loads, saves, creating, deleting, clearing, answering>>
vars == <<storeVars, panelVars, callVars, run, titling, moves, ghost>>

-----------------------------------------------------------------------------
Titles == {"default", "auto", "named"}

Message ==
  [role : {"user", "assistant"}, run : Runs, text : SUBSET Runs, part : BOOLEAN,
   running : SUBSET Runs, plan : {"none", "proposed", "approved", "expired"}]

Run ==
  [at : {"idle", "approving", "thinking", "tool", "asking", "ended"},
   kind : {"chat", "plan", "approval"},
   home : Ids,
   out : {"none", "ok", "stopped", "error"},
   todo : SUBSET {"event", "reply"},
   stop : BOOLEAN,  \* AgentStopSend has cancelled it
   own : BOOLEAN]   \* the history sent has the user's own message

History == Seq(Message)

Ghost ==
  [disturbed : SUBSET Ids, \* sessions where the user acted while something was under way
   failed : SUBSET Ids,    \* a load or a save has failed
   buried : SUBSET Ids,    \* deleted with nothing under way
   chosen : SUBSET Ids,    \* titled by the user
   used : SUBSET Ids,      \* ids there have been
   alone : SUBSET Runs,    \* the round that has met no other one
   late : SUBSET Runs,     \* the reply came before the last event
   rushed : SUBSET Runs,   \* asked while an answer was being sent
   overlap : BOOLEAN,      \* of creations and deletions
   bare : BOOLEAN]         \* no session is left, and none could be created

TypeOK ==
  /\ DOMAIN rows \subseteq Ids /\ rows \in [DOMAIN rows -> Titles]
  /\ stored \in [Ids -> History]
  /\ planFiles \subseteq Ids /\ sessions \subseteq Ids
  /\ active \in Ids /\ subscribed \in Ids
  /\ messages \in History
  /\ isGenerating \in BOOLEAN
  /\ pendingAsk \in Runs \cup {None}
  /\ buffer \subseteq Runs
  /\ loads \subseteq [s : Ids, read : BOOLEAN, got : History]
  /\ saves \subseteq [s : Ids, msgs : History]
  /\ creating \subseteq [id : Ids, sole : BOOLEAN]
  /\ deleting \subseteq [s : Ids, list : SUBSET Ids]
  /\ clearing \subseteq Ids /\ answering \in [Runs -> Nat]
  /\ run \in [Runs -> Run]
  /\ titling \in [Runs -> {"none", "check", "write"}]
  /\ moves \in 0 .. MaxMoves
  /\ ghost \in Ghost

blank(r) == [role |-> "assistant", run |-> r, text |-> {}, part |-> FALSE,
             running |-> {}, plan |-> "none"]
question(r) == [blank(r) EXCEPT !.role = "user", !.text = {r}]

Init ==
  /\ rows = [s \in Known |-> "default"]
  /\ stored = [s \in Ids |-> <<>>]
  /\ planFiles = {}
  /\ sessions = Known /\ active = Home /\ subscribed = Home
  /\ messages = <<>> /\ isGenerating = FALSE /\ pendingAsk = None /\ buffer = {}
  /\ loads = {} /\ saves = {} /\ creating = {} /\ deleting = {}
  /\ clearing = {} /\ answering = [r \in Runs |-> 0]
  /\ run = [r \in Runs |-> [at |-> "idle", kind |-> "chat", home |-> Home,
                            out |-> "none", todo |-> {}, stop |-> FALSE, own |-> FALSE]]
  /\ titling = [r \in Runs |-> "none"]
  /\ moves = 0
  /\ ghost = [disturbed |-> {}, failed |-> {}, buried |-> {}, chosen |-> {},
              used |-> Known, alone |-> {}, late |-> {}, rushed |-> {},
              overlap |-> FALSE, bare |-> FALSE]

-----------------------------------------------------------------------------
(* The messages shown.                                                     *)

lastIsAnswer(m) == m # <<>> /\ m[Len(m)].role = "assistant"

(* The answer an update starts from: the last message, or an empty one.    *)
lastAnswer(m, r) == IF lastIsAnswer(m) THEN m[Len(m)] ELSE blank(r)

(* setMessages(... copy[lastIdx] = ...), nothing to do without an answer.  *)
onLast(m, new) == IF lastIsAnswer(m) THEN [m EXCEPT ![Len(m)] = new] ELSE m

(* The same, with a new message for the answer when there is none.         *)
appendOrUpdateAssistant(m, new) ==
  IF lastIsAnswer(m) THEN onLast(m, new) ELSE Append(m, new)

flushChunks ==
  IF buffer = {} THEN messages
  ELSE appendOrUpdateAssistant(messages,
         [lastAnswer(messages, CHOOSE r \in buffer : TRUE) EXCEPT
            !.text = @ \cup buffer, !.part = TRUE])

fillIn(text, r) == IF text = {} THEN {r} ELSE text

(* Plans that were not approved are superseded, in a list of messages.     *)
expirePlans(m, keep) ==
  [i \in DOMAIN m |->
     IF i # keep /\ m[i].plan = "proposed" THEN [m[i] EXCEPT !.plan = "expired"] ELSE m[i]]

save(s, m) == [s |-> s, msgs |-> m]

(* React hands the result of an updater back to the handler only when      *)
(* nothing else of the panel has changed since the last render, and not    *)
(* even then for sure; otherwise the updater runs at the next render, when *)
(* the handler has already looked at its variable.                         *)
eager(clean) == IF clean THEN BOOLEAN ELSE {FALSE}

-----------------------------------------------------------------------------
(* What is under way.                                                      *)

finished(r) == run[r].at = "ended" /\ run[r].todo = {}

inFlight ==
  {s \in Ids : \/ \E r \in Runs : run[r].home = s /\ run[r].at # "idle" /\ ~finished(r)
               \/ \E l \in loads : l.s = s
               \/ \E v \in saves : v.s = s
               \/ s \in clearing}

(* The user does something in t: what is under way then may go astray.     *)
disturb(t) ==
  IF inFlight = {} THEN ghost.disturbed ELSE ghost.disturbed \cup inFlight \cup {t}

alone(r) == IF \A q \in Runs \ {r} : run[q].at = "idle" \/ finished(q) THEN {r} ELSE {}

move == moves < MaxMoves /\ moves' = moves + 1

-----------------------------------------------------------------------------
(* useAgentComposer                                                        *)

(* The next round: they are numbered in the order the user starts them.    *)
fresh(r) == run[r].at = "idle" /\ \A q \in 1 .. r - 1 : run[q].at # "idle"

(* Bound: a plan as the first round counts as one move, the first round    *)
(* and another one together as two.                                        *)
another(r, kind) ==
  LET price == IF r = 1 THEN IF kind = "plan" THEN 1 ELSE 0
               ELSE IF run[1].kind = "plan" THEN 1 ELSE 2
  IN moves + price <= MaxMoves /\ moves' = moves + price

start(r, kind, s, own) ==
  run' = [run EXCEPT ![r] =
            [@ EXCEPT !.at = "thinking", !.kind = kind, !.home = s, !.own = own]]

(* handleSend: a question and an empty answer are appended.  A plan's      *)
(* history is saved first, without waiting for it.                         *)
Send(r, kind) ==
  /\ fresh(r) /\ another(r, kind) /\ ~isGenerating
  /\ kind \in {"chat", "plan"}
  /\ messages' = messages \o <<question(r), blank(r)>>
  /\ isGenerating' = TRUE
  /\ start(r, kind, active, TRUE)
  /\ saves' = IF kind = "plan" THEN saves \cup {save(active, Append(messages, question(r)))}
                               ELSE saves
  /\ ghost' = [ghost EXCEPT !.disturbed = disturb(active), !.buried = @ \ {active},
                            !.alone = alone(r)]
  /\ UNCHANGED <<storeVars, sessions, active, subscribed, pendingAsk, buffer, loads,
                 creating, deleting, clearing, answering, titling>>

(* handleApprovePlan, up to its call of agentApprovePlan.                  *)
ApprovePlan(r, i) ==
  /\ fresh(r) /\ another(r, "approval") /\ ~isGenerating
  /\ i \in DOMAIN messages /\ messages[i].plan = "proposed"
  /\ messages' = [expirePlans(messages, i) EXCEPT ![i].plan = "approved"]
  /\ run' = [run EXCEPT ![r] = [@ EXCEPT !.at = "approving", !.kind = "approval",
                                         !.home = active]]
  /\ \E saved \in BOOLEAN :
       saves' = IF saved THEN saves \cup {save(active, messages')} ELSE saves
  /\ ghost' = [ghost EXCEPT !.disturbed = disturb(active), !.buried = @ \ {active},
                            !.alone = alone(r)]
  /\ UNCHANGED <<storeVars, sessions, active, subscribed, isGenerating, pendingAsk, buffer,
                 loads, creating, deleting, clearing, answering, titling>>

(* Its other half: the history for agentSend is the one the updater of     *)
(* setMessages has put in a variable, after setIsGenerating.               *)
ApproveSend(r) ==
  /\ run[r].at = "approving"
  /\ messages' = messages \o <<question(r), blank(r)>>
  /\ isGenerating' = TRUE
  /\ \E own \in eager(isGenerating) : start(r, "approval", run[r].home, own)
  /\ UNCHANGED <<storeVars, sessions, active, subscribed, pendingAsk, buffer, callVars,
                 titling, moves, ghost>>

(* MUTANT: the answer is filled in after the history was saved.            *)
ReplySavesFirst(r) ==
  /\ run[r].at = "ended" /\ "reply" \in run[r].todo
  /\ run' = [run EXCEPT ![r].todo = @ \ {"reply"}]
  /\ isGenerating' = FALSE
  /\ messages' = onLast(messages,
                   [lastAnswer(messages, r) EXCEPT !.text = fillIn(@, r), !.running = {}])
  /\ saves' = saves \cup {save(run[r].home, messages)}
  /\ ghost' = [ghost EXCEPT !.late = IF "event" \in run[r].todo THEN @ \cup {r} ELSE @]
  /\ UNCHANGED <<storeVars, sessions, active, subscribed, pendingAsk, buffer, loads,
                 creating, deleting, clearing, answering, titling, moves>>

(* agentSend or agentProposePlan has returned: the last answer shown is    *)
(* completed and what is shown is saved under the session of the call.     *)
(* The answer returned is only used where no chunk has been shown.  An     *)
(* error is shown and not saved.                                           *)
Reply(r) ==
  /\ run[r].at = "ended" /\ "reply" \in run[r].todo
  /\ run' = [run EXCEPT ![r].todo = @ \ {"reply"}]
  /\ isGenerating' = FALSE
  /\ LET failed == \/ run[r].out = "error"
                   \/ run[r].kind = "plan" /\ run[r].out = "stopped"
         older == IF run[r].kind = "plan" /\ ~failed
                    THEN expirePlans(messages, Len(messages)) ELSE messages
     IN /\ messages' = onLast(older,
             [lastAnswer(older, r) EXCEPT
                !.text = IF run[r].kind = "plan" THEN {r} ELSE fillIn(@, r),
                !.part = @ /\ run[r].kind # "plan",
                !.running = {},
                !.plan = IF run[r].kind = "plan" /\ ~failed THEN "proposed" ELSE @])
        /\ \E saved \in IF failed THEN {FALSE}
                        ELSE IF run[r].kind = "approval" THEN BOOLEAN ELSE {TRUE} :
             saves' = IF saved THEN saves \cup {save(run[r].home, messages')} ELSE saves
  /\ ghost' = [ghost EXCEPT !.late = IF "event" \in run[r].todo THEN @ \cup {r} ELSE @]
  /\ UNCHANGED <<storeVars, sessions, active, subscribed, pendingAsk, buffer, loads,
                 creating, deleting, clearing, answering, titling, moves>>

(* handleStop: AgentStopSend cancels some round, if any, whatever session  *)
(* it is of: StopChat ignores the one it is given.  The panel does not     *)
(* wait for the round to end.  That isGenerating may be reset later, after *)
(* the call, is what the watchdog does at any time.                        *)
Stop ==
  /\ move /\ isGenerating
  /\ isGenerating' = FALSE
  /\ \/ UNCHANGED run
     \/ \E r \in Runs : /\ run[r].at \in {"thinking", "tool", "asking"}
                        /\ run' = [run EXCEPT ![r].stop = TRUE]
  /\ UNCHANGED <<storeVars, sessions, active, subscribed, messages, pendingAsk, buffer,
                 callVars, titling, ghost>>

(* The watchdog of useAgentComposer: two minutes without an end.           *)
Watchdog ==
  /\ move /\ isGenerating
  /\ isGenerating' = FALSE
  /\ UNCHANGED <<storeVars, sessions, active, subscribed, messages, pendingAsk, buffer,
                 callVars, run, titling, ghost>>

-----------------------------------------------------------------------------
(* The rounds in the backend, and useAgentEvents.                          *)

heard(r) == run[r].home = subscribed
noCall == UNCHANGED <<storeVars, sessions, active, subscribed, callVars, titling, moves, ghost>>

(* An event other than a chunk flushes the buffer and is then applied.     *)
current(r) == lastAnswer(flushChunks, r)

onAnswer(new) ==
  /\ messages' = appendOrUpdateAssistant(flushChunks, new)
  /\ buffer' = {}

(* The events of a round arrive in order, but the reply to its call may    *)
(* overtake them.  (Of those about its tools that is of no consequence:    *)
(* the reply completes every step, and so does the last event.)            *)
Chunk(r) ==
  /\ run[r].at = "thinking" \/ (run[r].at = "ended" /\ "event" \in run[r].todo)
  /\ heard(r) /\ r \notin buffer
  /\ buffer' = buffer \cup {r}
  /\ UNCHANGED <<messages, isGenerating, pendingAsk, run>> /\ noCall

(* requestAnimationFrame                                                   *)
Flush ==
  /\ buffer # {}
  /\ messages' = flushChunks /\ buffer' = {}
  /\ UNCHANGED <<isGenerating, pendingAsk, run>> /\ noCall

ToolStart(r) ==
  /\ run[r].at = "thinking"
  /\ run' = [run EXCEPT ![r].at = "tool"]
  /\ IF heard(r) THEN onAnswer([current(r) EXCEPT !.running = @ \cup {r}])
     ELSE UNCHANGED <<messages, buffer>>
  /\ UNCHANGED <<isGenerating, pendingAsk>> /\ noCall

(* The step of the call, failing that any step that is running.            *)
endStep(a, r) ==
  [a EXCEPT !.running = IF r \in @ \/ @ = {} THEN @ \ {r} ELSE @ \ {CHOOSE q \in @ : TRUE}]

ToolEvent(r) ==
  /\ run[r].at = "tool"
  /\ run' = [run EXCEPT ![r].at = "thinking"]
  /\ IF heard(r) THEN onAnswer(endStep(current(r), r)) ELSE UNCHANGED <<messages, buffer>>
  /\ UNCHANGED <<isGenerating, pendingAsk>> /\ noCall

(* Whether an answer is still being sent when the question is asked.       *)
rushed(r) ==
  IF \E q \in Runs : answering[q] > 0 THEN ghost.rushed \cup {r} ELSE ghost.rushed \ {r}

(* MUTANT: questions of other sessions are dropped like their other events.*)
AskUserHeard(r) ==
  /\ run[r].at = "tool"
  /\ run' = [run EXCEPT ![r].at = "asking"]
  /\ IF heard(r)
       THEN /\ pendingAsk' = r
            /\ onAnswer([current(r) EXCEPT !.running = @ \cup {r}])
       ELSE UNCHANGED <<pendingAsk, messages, buffer>>
  /\ ghost' = [ghost EXCEPT !.rushed = rushed(r)]
  /\ UNCHANGED <<storeVars, sessions, active, subscribed, isGenerating, callVars, titling,
                 moves>>

(* The ask_user tool: its question is shown whatever session it is from.   *)
AskUser(r) ==
  /\ run[r].at = "tool"
  /\ run' = [run EXCEPT ![r].at = "asking"]
  /\ pendingAsk' = r
  /\ onAnswer([current(r) EXCEPT !.running = @ \cup {r}])
  /\ ghost' = [ghost EXCEPT !.rushed = rushed(r)]
  /\ UNCHANGED <<storeVars, sessions, active, subscribed, isGenerating, callVars, titling,
                 moves>>

(* handleAnswerAsk, up to its await: an answer that comes too late is      *)
(* dropped by the manager.  The question stays on the screen.              *)
AnswerAsk ==
  /\ move /\ pendingAsk # None
  /\ run' = IF run[pendingAsk].at = "asking" THEN [run EXCEPT ![pendingAsk].at = "tool"] ELSE run
  /\ answering' = [answering EXCEPT ![pendingAsk] = @ + 1]
  /\ UNCHANGED <<storeVars, panelVars, loads, saves, creating, deleting, clearing, titling,
                 ghost>>

(* Its other half takes away the question that is shown by now, and        *)
(* completes the step of the one that was answered.                        *)
AnswerReturn(r) ==
  /\ answering[r] > 0
  /\ answering' = [answering EXCEPT ![r] = @ - 1]
  /\ pendingAsk' = None
  /\ messages' = onLast(messages, [lastAnswer(messages, r) EXCEPT !.running = @ \ {r}])
  /\ UNCHANGED <<storeVars, sessions, active, subscribed, isGenerating, buffer, loads, saves,
                 creating, deleting, clearing, run, titling, moves, ghost>>

(* AskManager.Ask: five minutes, or the round has been cancelled.          *)
AskTimeout(r) ==
  /\ run[r].at = "asking"
  /\ run' = [run EXCEPT ![r].at = "tool"]
  /\ UNCHANGED <<messages, buffer, isGenerating, pendingAsk>> /\ noCall

(* AgentSend and AgentProposePlan, at their end: an event is emitted, the  *)
(* call returns, and the two reach the webview in any order.  A title is   *)
(* generated in the background after a success.                            *)
Finish(r, out) ==
  /\ run[r].at = "thinking"
  /\ out = "stopped" => run[r].stop
  /\ run' = [run EXCEPT ![r] = [@ EXCEPT !.at = "ended", !.out = out,
                                         !.todo = {"event", "reply"}]]
  /\ titling' = [titling EXCEPT ![r] = IF out = "ok" THEN "check" ELSE @]
  /\ planFiles' = IF run[r].kind = "plan" /\ out = "ok" THEN planFiles \cup {run[r].home}
                                                       ELSE planFiles
  /\ UNCHANGED <<rows, stored, panelVars, callVars, moves, ghost>>

(* Done: the answer gets the whole text of the round, which an event of a  *)
(* plan does not carry.  It is saved if the updater has already run.       *)
DoneEvent(r) ==
  /\ run[r].at = "ended" /\ "event" \in run[r].todo /\ run[r].out # "error"
  /\ run' = [run EXCEPT ![r].todo = @ \ {"event"}]
  /\ IF heard(r)
       THEN /\ isGenerating' = FALSE /\ pendingAsk' = None
            /\ onAnswer([current(r) EXCEPT
                 !.text = IF run[r].kind = "plan" /\ run[r].out = "ok" THEN @ ELSE {r},
                 !.part = @ /\ run[r].kind = "plan" /\ run[r].out = "ok",
                 !.running = {}])
            /\ \E saved \in eager(~isGenerating /\ pendingAsk = None /\ buffer = {}) :
                 saves' = IF saved THEN saves \cup {save(subscribed, messages')} ELSE saves
       ELSE UNCHANGED <<isGenerating, pendingAsk, messages, buffer, saves>>
  /\ UNCHANGED <<storeVars, sessions, active, subscribed, loads, creating, deleting,
                 clearing, answering, titling, moves, ghost>>

(* A plan that could not be written to its file ends without an event, its *)
(* chunks having been flushed.                                             *)
ErrorEvent(r) ==
  /\ run[r].at = "ended" /\ "event" \in run[r].todo /\ run[r].out = "error"
  /\ run' = [run EXCEPT ![r].todo = @ \ {"event"}]
  /\ \/ /\ heard(r)
        /\ isGenerating' = FALSE /\ pendingAsk' = None
        /\ onAnswer([current(r) EXCEPT !.text = fillIn(@, r), !.running = {}])
     \/ /\ ~heard(r) \/ (run[r].kind = "plan" /\ r \notin buffer)
        /\ UNCHANGED <<isGenerating, pendingAsk, messages, buffer>>
  /\ noCall

-----------------------------------------------------------------------------
(* The store: AgentSaveSessionMessages, AgentGetSessionMessages and        *)
(* tryAutoGenerateTitle.                                                   *)

(* MUTANT: a session made by a save gets no title.                         *)
withBareRow(s) ==
  [t \in DOMAIN rows \cup {s} |-> IF t \in DOMAIN rows THEN rows[t] ELSE "untitled"]

withRow(s) == IF s \in DOMAIN rows THEN rows
              ELSE [t \in DOMAIN rows \cup {s} |-> IF t = s THEN "default" ELSE rows[t]]

ApplySave(v) ==
  /\ v \in saves
  /\ saves' = saves \ {v}
  /\ stored' = [stored EXCEPT ![v.s] = v.msgs]
  /\ rows' = withRow(v.s)
  /\ UNCHANGED <<planFiles, panelVars, loads, creating, deleting, clearing, answering, run,
                 titling, moves, ghost>>

(* ReplaceMessages fails as a whole, which the panel ignores; or the row   *)
(* could not be made, which the service ignores.                           *)
SaveFail(v) ==
  /\ move /\ v \in saves
  /\ saves' = saves \ {v}
  /\ \/ UNCHANGED stored
     \/ v.s \notin DOMAIN rows /\ stored' = [stored EXCEPT ![v.s] = v.msgs]
  /\ ghost' = [ghost EXCEPT !.failed = @ \cup {v.s}]
  /\ UNCHANGED <<rows, planFiles, panelVars, loads, creating, deleting, clearing, answering,
                 run, titling>>

(* A plan that was not saved with the history is taken from its file.      *)
recovered(s) ==
  LET m == stored[s]
      answers == {i \in DOMAIN m : m[i].role = "assistant"}
      last == CHOOSE i \in answers : \A j \in answers : j <= i
  IN IF s \in planFiles /\ answers # {} /\ \A i \in DOMAIN m : m[i].plan = "none"
       THEN [m EXCEPT ![last].plan = "proposed"] ELSE m

LoadRead(l) ==
  /\ l \in loads /\ ~l.read
  /\ loads' = (loads \ {l}) \cup {[s |-> l.s, read |-> TRUE, got |-> recovered(l.s)]}
  /\ UNCHANGED <<storeVars, panelVars, saves, creating, deleting, clearing, answering, run,
                 titling, moves, ghost>>

(* loadSessionMessages, after its await: whatever session is shown now.    *)
LoadApply(l) ==
  /\ l \in loads /\ l.read
  /\ loads' = loads \ {l}
  /\ LET open == {i \in DOMAIN l.got : l.got[i].plan \in {"proposed", "expired"}}
         last == CHOOSE i \in open : \A j \in open : j <= i
     IN messages' = IF open = {} THEN l.got ELSE expirePlans(l.got, last)
  /\ UNCHANGED <<storeVars, sessions, active, subscribed, isGenerating, pendingAsk, buffer,
                 saves, creating, deleting, clearing, answering, run, titling, moves, ghost>>

(* A load that fails shows an empty history, which later saves will keep.  *)
LoadFail(l) ==
  /\ move /\ l \in loads /\ ~l.read
  /\ loads' = loads \ {l}
  /\ messages' = <<>>
  /\ ghost' = [ghost EXCEPT !.failed = @ \cup {l.s}]
  /\ UNCHANGED <<storeVars, sessions, active, subscribed, isGenerating, pendingAsk, buffer,
                 saves, creating, deleting, clearing, answering, run, titling>>

(* MUTANT: a title is generated for every session.                         *)
TitleCheckAny(r) ==
  /\ titling[r] = "check"
  /\ rows' = withRow(run[r].home)
  /\ titling' = [titling EXCEPT ![r] = "write"]
  /\ UNCHANGED <<stored, planFiles, panelVars, callVars, run, moves, ghost>>

TitleCheck(r) ==
  /\ titling[r] = "check"
  /\ \/ /\ rows' = withRow(run[r].home)
        /\ titling' = [titling EXCEPT ![r] =
                         IF rows'[run[r].home] = "default" THEN "write" ELSE "none"]
     \/ /\ run[r].home \notin DOMAIN rows  \* and CreateSession has failed
        /\ titling' = [titling EXCEPT ![r] = "none"]
        /\ UNCHANGED rows
  /\ UNCHANGED <<stored, planFiles, panelVars, callVars, run, moves, ghost>>

(* GenerateSessionTitle has returned, with a title or without.             *)
TitleWrite(r) ==
  /\ titling[r] = "write"
  /\ titling' = [titling EXCEPT ![r] = "none"]
  /\ \/ run[r].home \in DOMAIN rows /\ rows' = [rows EXCEPT ![run[r].home] = "auto"]
     \/ UNCHANGED rows
  /\ UNCHANGED <<stored, planFiles, panelVars, callVars, run, moves, ghost>>

-----------------------------------------------------------------------------
(* useAgentSessions                                                        *)

load(s) == [s |-> s, read |-> FALSE, got |-> <<>>]
titlingIn(s) == \E r \in Runs : run[r].home = s /\ titling[r] # "none"
hasRow(s) == s \in DOMAIN rows

(* A handler of a click ends with the effects of the new session having    *)
(* run: the old handlers flush, and isGenerating is reset.                 *)
Switch(s) ==
  /\ move /\ s \in sessions /\ s # active
  /\ active' = s /\ subscribed' = s /\ isGenerating' = FALSE
  /\ messages' = flushChunks /\ buffer' = {}
  /\ loads' = loads \cup {load(s)}
  /\ ghost' = [ghost EXCEPT !.disturbed = disturb(s)]
  /\ UNCHANGED <<storeVars, sessions, pendingAsk, saves, creating, deleting, clearing,
                 answering, run, titling>>

(* After an await the effects run later, in Resubscribe.                   *)
Resubscribe ==
  /\ subscribed # active
  /\ subscribed' = active /\ isGenerating' = FALSE
  /\ messages' = flushChunks /\ buffer' = {}
  /\ UNCHANGED <<storeVars, sessions, active, pendingAsk, callVars, run, titling, moves, ghost>>

busyList == creating # {} \/ deleting # {}

(* An id is sess_ and the time in milliseconds, taken to be new.           *)
CreateCall(c) ==
  /\ move /\ c \in Ids \ ghost.used
  /\ creating' = creating \cup {[id |-> c, sole |-> FALSE]}
  /\ ghost' = [ghost EXCEPT !.used = @ \cup {c}, !.overlap = @ \/ busyList]
  /\ UNCHANGED <<storeVars, panelVars, loads, saves, deleting, clearing, answering, run,
                 titling>>

(* createSession, and the end of a deleteSession of the only session.      *)
CreateReturn(c) ==
  /\ c \in creating
  /\ creating' = creating \ {c}
  /\ rows' = withRow(c.id)
  /\ sessions' = IF c.sole THEN {c.id} ELSE sessions \cup {c.id}
  /\ active' = c.id
  /\ messages' = <<>>
  /\ ghost' = [ghost EXCEPT !.disturbed = disturb(c.id), !.bare = FALSE]
  /\ UNCHANGED <<stored, planFiles, subscribed, isGenerating, pendingAsk, buffer, loads,
                 saves, deleting, clearing, answering, run, titling, moves>>

(* The session that was to replace the only one may be missing then.       *)
CreateFail(c) ==
  /\ c \in creating
  /\ creating' = creating \ {c}
  /\ ghost' = [ghost EXCEPT !.bare = @ \/ c.sole]
  /\ UNCHANGED <<storeVars, panelVars, loads, saves, deleting, clearing, answering, run,
                 titling, moves>>

(* deleteSession, with the list of sessions its closure was made with.     *)
DeleteCall(s) ==
  /\ move /\ s \in sessions
  /\ deleting' = deleting \cup {[s |-> s, list |-> sessions]}
  /\ ghost' = [ghost EXCEPT !.overlap = @ \/ busyList]
  /\ UNCHANGED <<storeVars, panelVars, loads, saves, creating, clearing, answering, run,
                 titling>>

(* MUTANT: the session shown is not looked at.                             *)
DeleteReturnStays(d) ==
  /\ d \in deleting
  /\ deleting' = deleting \ {d}
  /\ rows' = [s \in DOMAIN rows \ {d.s} |-> rows[s]]
  /\ stored' = [stored EXCEPT ![d.s] = <<>>]
  /\ planFiles' = planFiles \ {d.s}
  /\ sessions' = d.list \ {d.s}
  /\ ghost' = [ghost EXCEPT !.disturbed = disturb(d.s) \cup {d.s}, !.chosen = @ \ {d.s},
                            !.buried = IF d.s \in inFlight \/ titlingIn(d.s) THEN @
                                       ELSE @ \cup {d.s}]
  /\ UNCHANGED <<active, loads, creating, subscribed, messages, isGenerating, pendingAsk,
                 buffer, saves, clearing, answering, run, titling, moves>>

(* MUTANT: the messages of the session are left behind.                    *)
DeleteReturnRowOnly(d) ==
  /\ d \in deleting
  /\ deleting' = deleting \ {d}
  /\ rows' = [s \in DOMAIN rows \ {d.s} |-> rows[s]]
  /\ sessions' = d.list \ {d.s}
  /\ IF active # d.s THEN UNCHANGED <<active, loads, creating>>
     ELSE \E n \in d.list \ {d.s} :
            active' = n /\ loads' = loads \cup {load(n)} /\ UNCHANGED creating
  /\ ghost' = [ghost EXCEPT !.disturbed = disturb(active') \cup {d.s}, !.chosen = @ \ {d.s},
                            !.buried = IF d.s \in inFlight \/ titlingIn(d.s) THEN @
                                       ELSE @ \cup {d.s}]
  /\ UNCHANGED <<stored, planFiles, subscribed, messages, isGenerating, pendingAsk, buffer,
                 saves, clearing, answering, run, titling, moves>>

DeleteReturn(d) ==
  /\ d \in deleting
  /\ deleting' = deleting \ {d}
  /\ rows' = [s \in DOMAIN rows \ {d.s} |-> rows[s]]
  /\ stored' = [stored EXCEPT ![d.s] = <<>>]
  /\ planFiles' = planFiles \ {d.s}
  /\ sessions' = d.list \ {d.s}
  /\ \/ active # d.s /\ UNCHANGED <<active, loads, creating>>
     \/ /\ active = d.s
        /\ \E n \in d.list \ {d.s} : active' = n /\ loads' = loads \cup {load(n)}
        /\ UNCHANGED creating
     \/ /\ active = d.s /\ d.list = {d.s}
        /\ \E c \in Ids \ ghost.used : creating' = creating \cup {[id |-> c, sole |-> TRUE]}
        /\ UNCHANGED <<active, loads>>
  /\ ghost' = [ghost EXCEPT
       !.disturbed = disturb(active') \cup {d.s},
       !.chosen = @ \ {d.s},
       !.buried = IF d.s \in inFlight \/ titlingIn(d.s) THEN @ ELSE @ \cup {d.s},
       !.used = @ \cup {c.id : c \in creating'}]
  /\ UNCHANGED <<subscribed, messages, isGenerating, pendingAsk, buffer, saves, clearing,
                 answering, run, titling, moves>>

(* AgentDeleteSession removes the plan first; DeleteSession is one         *)
(* transaction, and the panel leaves a session it could not delete alone.  *)
DeleteFail(d) ==
  /\ move /\ d \in deleting
  /\ deleting' = deleting \ {d}
  /\ planFiles' = planFiles \ {d.s}
  /\ UNCHANGED <<rows, stored, panelVars, loads, saves, creating, clearing, answering, run,
                 titling, ghost>>

Rename(s) ==
  /\ move /\ s \in sessions
  /\ rows' = IF hasRow(s) THEN [rows EXCEPT ![s] = "named"] ELSE rows
  /\ ghost' = [ghost EXCEPT !.chosen =
                 IF hasRow(s) /\ ~\E r \in Runs : run[r].home = s /\ titling[r] = "write"
                   THEN @ \cup {s} ELSE @]
  /\ UNCHANGED <<stored, planFiles, panelVars, callVars, run, titling>>

(* clearMessages, up to its first await.  AgentClearHistory will empty the *)
(* history of ai_agent_default, whatever session is shown.                 *)
Clear ==
  /\ move
  /\ messages' = <<>>
  /\ clearing' = clearing \cup {active}
  /\ ghost' = [ghost EXCEPT !.disturbed = disturb(active) \cup {active, Default},
                            !.buried = @ \ {active}]
  /\ UNCHANGED <<storeVars, sessions, active, subscribed, isGenerating, pendingAsk, buffer,
                 loads, saves, creating, deleting, answering, run, titling>>

(* The rest of it: the empty history is saved unless ClearHistory failed.  *)
ClearReturn(s) ==
  /\ s \in clearing
  /\ clearing' = clearing \ {s}
  /\ stored' \in {stored, [stored EXCEPT ![Default] = <<>>]}
  /\ saves' \in {saves, saves \cup {save(s, <<>>)}}
  /\ UNCHANGED <<rows, planFiles, panelVars, loads, creating, deleting, answering, run,
                 titling, moves, ghost>>

-----------------------------------------------------------------------------
Backend(r) ==
  \/ Chunk(r) \/ ToolStart(r) \/ ToolEvent(r) \/ AskUser(r) \/ AskTimeout(r)
  \/ \E out \in {"ok", "stopped", "error"} : Finish(r, out)

Deliver(r) ==
  \/ DoneEvent(r) \/ ErrorEvent(r) \/ Reply(r) \/ TitleCheck(r) \/ TitleWrite(r)
  \/ ApproveSend(r) \/ AnswerReturn(r)

User ==
  \/ \E r \in Runs : \/ \E kind \in {"chat", "plan"} : Send(r, kind)
                     \/ \E i \in DOMAIN messages : ApprovePlan(r, i)
  \/ AnswerAsk \/ Stop \/ Clear
  \/ \E s \in Ids : Switch(s) \/ CreateCall(s) \/ DeleteCall(s) \/ Rename(s)

Settle ==
  \/ Flush \/ Resubscribe \/ Watchdog
  \/ \E v \in saves : ApplySave(v) \/ SaveFail(v)
  \/ \E l \in loads : LoadRead(l) \/ LoadApply(l) \/ LoadFail(l)
  \/ \E c \in creating : CreateReturn(c) \/ CreateFail(c)
  \/ \E d \in deleting : DeleteReturn(d) \/ DeleteFail(d)
  \/ \E s \in clearing : ClearReturn(s)

Next == User \/ Settle \/ \E r \in Runs : Backend(r) \/ Deliver(r)

Spec == Init /\ [][Next]_vars

-----------------------------------------------------------------------------
(* QUIET HISTORY.  In a session in which the user did nothing while a      *)
(* round, a load or a save was under way, no history has anything of       *)
(* another session in it.  If moreover none of its loads and saves has     *)
(* failed then, once all is done, every successful chat is stored with its *)
(* own answer, whether or not a handler saw the result of its updater; and *)
(* with the whole of it, unless its reply overtook the last of its events. *)
(* (That of ai_agent_default counts as disturbed by every clearing.)       *)
QuietHistory ==
  \A s \in Ids \ ghost.disturbed :
    LET own == {r \in Runs : run[r].home = s /\ run[r].at # "idle"} IN
    /\ \A i \in DOMAIN stored[s] :
         stored[s][i].run \in own /\ stored[s][i].text \subseteq own
    /\ s \notin inFlight \cup ghost.failed =>
         \A r \in own : run[r].kind = "chat" /\ run[r].out = "ok" =>
           \E i \in DOMAIN stored[s] :
             LET a == stored[s][i] IN
             /\ a.role = "assistant" /\ a.run = r /\ a.running = {}
             /\ a.text = {r} /\ (a.part => r \in ghost.late)

(* LIST HONEST.  Unless one creation or deletion was started before        *)
(* another had returned, the panel lists only sessions the store has and   *)
(* shows one of them; or it lists none, the only one having been deleted   *)
(* and the creation of another having failed.                              *)
ListHonest ==
  ~ghost.overlap /\ ~busyList =>
    /\ sessions \subseteq DOMAIN rows
    /\ IF ghost.bare THEN sessions = {} ELSE active \in sessions

(* BURIED STAYS.  A session deleted while nothing of it was under way      *)
(* leaves neither a row nor a message, however late other calls end.       *)
BuriedStays ==
  \A s \in ghost.buried : ~hasRow(s) /\ stored[s] = <<>> /\ s \notin planFiles

(* TITLE KEPT.  A title the user chose while none was being written by the *)
(* model is not replaced by the rounds that end later.                     *)
TitleKept == \A s \in ghost.chosen : hasRow(s) => rows[s] = "named"

(* QUESTION SHOWN.  While a round that has met no other one waits for an   *)
(* answer, its question is on the screen, whatever session the user has    *)
(* gone to, made or deleted; unless it was asked while an earlier answer   *)
(* was still being sent, whose return takes it away.                       *)
QuestionShown ==
  \A r \in ghost.alone \ ghost.rushed : run[r].at = "asking" => pendingAsk = r

(* APPROVED PLAN IS SENT.  The round that handleApprovePlan starts ("4.    *)
(* automatically send the agent the instruction to execute") is sent with  *)
(* that instruction.                                                       *)
ApprovedPlanIsSent ==
  \A r \in Runs : run[r].kind = "approval" /\ run[r].at = "thinking" => run[r].own

=============================================================================
