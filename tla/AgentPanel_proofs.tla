-------------------------- MODULE AgentPanel_proofs ---------------------------
(***************************************************************************)
(* Theorems about AgentPanel, for any number of rounds and sessions: a     *)
(* question of a round that is alone is on the screen, a title the user    *)
(* chose is kept, a buried session stays buried, and the list of sessions  *)
(* is honest, whichever loads, saves, creations and deletions fail.        *)
(*                                                                         *)
(* None of them is inductive.  A round that is alone stays so only because *)
(* a finished one does nothing any more, and its question stays because no *)
(* answer is being sent meanwhile (AloneInv).  A title is kept only        *)
(* if nobody is about to write another one (TitleInv), and a session stays *)
(* buried only if no save, round, title or creation of it is under way     *)
(* (BuriedInv), for which ids must not be used twice (IdsInv).  The list   *)
(* is rebuilt from the one a deletion has remembered, which is therefore   *)
(* still the present one (ListInv).                                        *)
(***************************************************************************)
EXTENDS AgentPanel, SequenceTheorems, TLAPS

AloneInv ==
  /\ QuestionShown
  /\ \A r \in ghost.alone \ ghost.rushed :
       run[r].at = "asking" => \A q \in Runs : answering[q] = 0
  /\ \A r \in ghost.alone : \A q \in Runs \ {r} : run[q].at = "idle" \/ finished(q)

TitleInv ==
  /\ \A r \in Runs : titling[r] # "none" => run[r].at = "ended"
  /\ ghost.chosen \subseteq DOMAIN rows
  /\ \A s \in ghost.chosen :
       rows[s] = "named" /\ \A r \in Runs : run[r].home = s => titling[r] # "write"

IdsInv ==
  /\ sessions \cup ghost.buried \subseteq ghost.used
  /\ \A d \in deleting : d.s \in ghost.used /\ d.list \subseteq ghost.used
  /\ \A c \in creating :
       /\ c.id \in ghost.used /\ c.id \notin sessions \cup ghost.buried
       /\ \A d \in deleting : c.id # d.s /\ c.id \notin d.list
       /\ \A e \in creating : c.id = e.id => c = e

BuriedInv ==
  /\ BuriedStays
  /\ \A v \in saves : v.s \notin ghost.buried
  /\ \A s \in clearing : s \notin ghost.buried
  /\ \A r \in Runs :
       titling[r] # "none" \/ (run[r].at # "idle" /\ ~finished(r))
         => run[r].home \notin ghost.buried

Honest ==
  /\ sessions \subseteq DOMAIN rows
  /\ IF ghost.bare THEN sessions = {} ELSE active \in sessions

ListInv ==
  ~ghost.overlap =>
    /\ creating = {} \/ deleting = {}
    /\ \A c, e \in creating : c = e
    /\ \A d, e \in deleting : d = e
    /\ \A d \in deleting : d.s \in sessions /\ d.list = sessions
    /\ \A c \in creating : c.sole => sessions = {}
    /\ (\A c \in creating : ~c.sole) => Honest

-----------------------------------------------------------------------------
(* Types of what the operators on histories return.                        *)

(* The messages of a new round are messages.                               *)
LEMMA BlankType ==
  ASSUME NEW r \in Runs
  PROVE  blank(r) \in Message /\ question(r) \in Message
BY DEF blank, question, Message

(* The last answer of a history, or an empty one, is a message.            *)
LEMMA LastType ==
  ASSUME NEW m \in History, NEW r \in Runs
  PROVE  lastAnswer(m, r) \in Message
<1>1. CASE lastIsAnswer(m)
  BY <1>1, EmptySeq, ElementOfSeq DEF lastAnswer, lastIsAnswer, History
<1>2. QED
  BY <1>1, BlankType DEF lastAnswer

(* Replacing or appending the last answer leaves a history.                *)
LEMMA UpdateType ==
  ASSUME NEW m \in History, NEW new \in Message
  PROVE  onLast(m, new) \in History /\ appendOrUpdateAssistant(m, new) \in History
<1>1. lastIsAnswer(m) => [m EXCEPT ![Len(m)] = new] \in History
  BY EmptySeq, ExceptSeq DEF lastIsAnswer, History
<1>2. Append(m, new) \in History
  BY AppendProperties DEF History
<1>3. QED
  BY <1>1, <1>2 DEF onLast, appendOrUpdateAssistant

(* A message stays one when text, running steps or plan change.            *)
LEMMA EditType ==
  ASSUME NEW a \in Message, NEW r \in Runs, NEW t \in SUBSET Runs, NEW q \in SUBSET Runs
  PROVE  /\ [a EXCEPT !.text = t] \in Message
         /\ [a EXCEPT !.running = q] \in Message
         /\ [a EXCEPT !.text = t, !.running = q] \in Message
         /\ [a EXCEPT !.plan = "expired"] \in Message
         /\ [a EXCEPT !.plan = "approved"] \in Message
         /\ [a EXCEPT !.plan = "proposed"] \in Message
         /\ a.text \in SUBSET Runs /\ a.running \in SUBSET Runs
BY DEF Message

(* Flushing the chunks that wait leaves a history.                         *)
LEMMA FlushType ==
  ASSUME messages \in History, buffer \subseteq Runs
  PROVE  flushChunks \in History
<1> DEFINE r == CHOOSE r \in buffer : TRUE
           a == lastAnswer(messages, r)
<1>1. CASE buffer # {}
  <2>1. r \in buffer
    BY <1>1
  <2>2. a \in Message
    BY <2>1, LastType
  <2> HIDE DEF r
  <2> DEFINE new == [a EXCEPT !.text = a.text \cup buffer, !.part = TRUE]
  <2>3. new \in Message
    BY <2>2 DEF Message
  <2>4. appendOrUpdateAssistant(messages, new) \in History
    <3> HIDE DEF new
    <3>1. QED
      BY <2>3, UpdateType
  <2>5. QED
    BY <1>1, <2>4 DEF flushChunks, r
<1>2. QED
  BY <1>1 DEF flushChunks

(* Histories are functions from 1 .. n to messages.                        *)
LEMMA HistoryDef ==
  ASSUME NEW m
  PROVE  /\ m \in History => /\ Len(m) \in Nat /\ DOMAIN m = 1 .. Len(m)
                             /\ \A i \in DOMAIN m : m[i] \in Message
         /\ \A n \in Nat : m \in [1 .. n -> Message] => m \in History
<1>1. m \in History => /\ Len(m) \in Nat /\ DOMAIN m = 1 .. Len(m)
                       /\ \A i \in DOMAIN m : m[i] \in Message
  BY LenProperties, ElementOfSeq DEF History
<1>2. \A n \in Nat : m \in [1 .. n -> Message] => m \in History
  BY SeqDef DEF History
<1>3. QED
  BY <1>1, <1>2

(* Expiring the plans of a history changes no place of it.                 *)
LEMMA ExpireType ==
  ASSUME NEW m \in History, NEW keep
  PROVE  expirePlans(m, keep) \in History /\ DOMAIN expirePlans(m, keep) = DOMAIN m
<1> DEFINE e(i) == IF i # keep /\ m[i].plan = "proposed" THEN [m[i] EXCEPT !.plan = "expired"]
                                                        ELSE m[i]
<1>1. Len(m) \in Nat /\ DOMAIN m = 1 .. Len(m) /\ \A i \in DOMAIN m : m[i] \in Message
  BY HistoryDef
<1>2. ASSUME NEW i \in 1 .. Len(m)
      PROVE  e(i) \in Message
  <2>1. m[i] \in Message
    BY <1>1
  <2>2. [m[i] EXCEPT !.plan = "expired"] \in Message
    BY <2>1 DEF Message
  <2>3. QED
    BY <2>1, <2>2
<1>3. expirePlans(m, keep) = [i \in 1 .. Len(m) |-> e(i)]
  BY <1>1 DEF expirePlans
<1> HIDE DEF e
<1>4. expirePlans(m, keep) \in [1 .. Len(m) -> Message]
  BY <1>2, <1>3
<1>5. QED
  BY <1>1, <1>3, <1>4, HistoryDef

(* A plan of a history that is proposed or approved leaves a history.      *)
LEMMA PlanType ==
  ASSUME NEW m \in History, NEW i, NEW p \in {"proposed", "approved"}
  PROVE  [m EXCEPT ![i].plan = p] \in History
<1>1. Len(m) \in Nat /\ DOMAIN m = 1 .. Len(m) /\ \A j \in DOMAIN m : m[j] \in Message
  BY HistoryDef
<1>2. CASE i \in DOMAIN m
  <2>1. [m[i] EXCEPT !.plan = p] \in Message
    BY <1>1, <1>2 DEF Message
  <2>2. [m EXCEPT ![i] = [m[i] EXCEPT !.plan = p]] \in History
    BY <1>1, <1>2, <2>1, ExceptSeq DEF History
  <2>3. QED
    BY <2>2
<1>3. CASE i \notin DOMAIN m
  <2> DEFINE f == [m EXCEPT ![i] = [m[i] EXCEPT !.plan = p]]
  <2>1. DOMAIN f = 1 .. Len(m) /\ \A j \in 1 .. Len(m) : f[j] \in Message
    BY <1>1, <1>3
  <2>2. f = [j \in 1 .. Len(m) |-> f[j]]
    BY <1>1
  <2> HIDE DEF f
  <2>3. f \in [1 .. Len(m) -> Message]
    BY <2>1, <2>2
  <2>4. f \in History
    BY <1>1, <2>3, HistoryDef
  <2>5. QED
    BY <2>4 DEF f
<1>4. QED
  BY <1>2, <1>3

(* The history a load recovers is one.                                     *)
LEMMA RecoveredType ==
  ASSUME TypeOK, NEW s \in Ids
  PROVE  recovered(s) \in History
<1> DEFINE last == CHOOSE i \in {k \in DOMAIN stored[s] : stored[s][k].role = "assistant"} :
                     \A j \in {k \in DOMAIN stored[s] : stored[s][k].role = "assistant"} : j <= i
<1>1. stored[s] \in History
  BY DEF TypeOK
<1>2. [stored[s] EXCEPT ![last].plan = "proposed"] \in History
  <2> HIDE DEF last
  <2>1. QED
    BY <1>1, PlanType
<1>3. recovered(s) \in {stored[s], [stored[s] EXCEPT ![last].plan = "proposed"]}
  BY DEF recovered
<1>4. QED
  BY <1>1, <1>2, <1>3

(* What a round has answered so far, and the history with it.              *)
LEMMA CurrentType ==
  ASSUME TypeOK, NEW r \in Runs
  PROVE  /\ current(r) \in Message
         /\ \A new \in Message : appendOrUpdateAssistant(flushChunks, new) \in History
<1>1. flushChunks \in History
  BY FlushType DEF TypeOK
<1>2. QED
  BY <1>1, LastType, UpdateType DEF current

(* An answer whose tool steps are completed is a message.                  *)
LEMMA EndStepType ==
  ASSUME NEW a \in Message, NEW r \in Runs
  PROVE  endStep(a, r) \in Message
<1>1. a.running \subseteq Runs
  BY DEF Message
<1>2. PICK q \in SUBSET Runs : endStep(a, r) = [a EXCEPT !.running = q]
  <2>1. CASE r \in a.running \/ a.running = {}
    <3>1. endStep(a, r) = [a EXCEPT !.running = a.running \ {r}]
      BY <2>1 DEF endStep
    <3>2. QED
      BY <1>1, <3>1
  <2>2. CASE ~(r \in a.running \/ a.running = {})
    <3>1. endStep(a, r) = [a EXCEPT !.running = a.running \ {CHOOSE q \in a.running : TRUE}]
      BY <2>2 DEF endStep
    <3>2. QED
      BY <1>1, <3>1
  <2>3. QED
    BY <2>1, <2>2
<1>3. QED
  BY <1>2 DEF Message

(* A round stays one while it moves on.                                    *)
LEMMA RunType ==
  ASSUME run \in [Runs -> Run], NEW r \in Runs
  PROVE  /\ \A at \in {"tool", "thinking", "asking"} : [run EXCEPT ![r].at = at] \in [Runs -> Run]
         /\ \A todo \in {"event", "reply"} :
              [run EXCEPT ![r].todo = @ \ {todo}] \in [Runs -> Run]
         /\ [run EXCEPT ![r].stop = TRUE] \in [Runs -> Run]
<1>1. run[r] \in Run /\ \A x \in Run : [run EXCEPT ![r] = x] \in [Runs -> Run]
  OBVIOUS
<1>2. ASSUME NEW at \in {"tool", "thinking", "asking"}
      PROVE  [run EXCEPT ![r].at = at] \in [Runs -> Run]
  <2>1. [run[r] EXCEPT !.at = at] \in Run
    BY <1>1 DEF Run
  <2>2. QED
    BY <1>1, <2>1
<1>3. ASSUME NEW todo \in {"event", "reply"}
      PROVE  [run EXCEPT ![r].todo = @ \ {todo}] \in [Runs -> Run]
  <2>1. [run[r] EXCEPT !.todo = @ \ {todo}] \in Run
    BY <1>1 DEF Run
  <2>2. QED
    BY <1>1, <2>1
<1>4. [run[r] EXCEPT !.stop = TRUE] \in Run
  BY <1>1 DEF Run
<1>5. QED
  BY <1>1, <1>2, <1>3, <1>4

(* A round that begins is one.                                             *)
LEMMA StartType ==
  ASSUME run \in [Runs -> Run], NEW r \in Runs, NEW kind \in {"chat", "plan", "approval"},
         NEW s \in Ids, NEW own \in BOOLEAN
  PROVE  start(r, kind, s, own) => run' \in [Runs -> Run]
<1>1. [run[r] EXCEPT !.at = "thinking", !.kind = kind, !.home = s, !.own = own] \in Run
  BY DEF Run
<1>2. QED
  BY <1>1 DEF start

(* Only known sessions are disturbed.                                      *)
LEMMA DisturbType ==
  ASSUME TypeOK, NEW s \in Ids
  PROVE  disturb(s) \subseteq Ids
BY DEF disturb, inFlight, TypeOK, Ghost

(* The user stays within the bound.                                        *)
LEMMA MoveType ==
  ASSUME TypeOK, NEW r \in Runs, NEW kind, move \/ another(r, kind)
  PROVE  moves' \in 0 .. MaxMoves
BY BoundsAssumption DEF TypeOK, move, another

-----------------------------------------------------------------------------
(* Every step keeps the types.  The rounds first: what the user starts,    *)
(* what the backend does, and what reaches the webview.                    *)

(* A save carries a session and a history.                                 *)
LEMMA SaveType ==
  ASSUME NEW s \in Ids, NEW m \in History
  PROVE  save(s, m) \in [s : Ids, msgs : History]
BY DEF save

(* Types: a round begins.                                                  *)
LEMMA PanelTypeStart ==
  ASSUME TypeOK, NEW r \in Runs,
         \/ \E kind \in {"chat", "plan"} : Send(r, kind)
         \/ \E i \in DOMAIN messages : ApprovePlan(r, i)
         \/ ApproveSend(r)
  PROVE  TypeOK'
<1>0. run \in [Runs -> Run] /\ run[r] \in Run /\ run[r].home \in Ids /\ active \in Ids
  BY DEF TypeOK, Run
<1>1. question(r) \in Message /\ blank(r) \in Message
  BY BlankType
<1>2. messages \o <<question(r), blank(r)>> \in History /\ Append(messages, question(r)) \in History
  BY <1>1, ConcatProperties, AppendProperties DEF History, TypeOK
<1>3. disturb(active) \subseteq Ids /\ alone(r) \subseteq Runs
  BY <1>0, DisturbType DEF alone
<1>4. ASSUME NEW kind \in {"chat", "plan"}, Send(r, kind)
      PROVE  TypeOK'
  <2>1. run' \in [Runs -> Run]
    <3>1. start(r, kind, active, TRUE)
      BY <1>4 DEF Send
    <3>2. QED
      BY <1>0, <3>1, StartType
  <2>2. saves' \subseteq [s : Ids, msgs : History]
    BY <1>0, <1>2, <1>4, SaveType DEF Send, TypeOK
  <2>3. moves' \in 0 .. MaxMoves
    BY <1>4, MoveType DEF Send
  <2>4. ghost' \in Ghost
    BY <1>3, <1>4 DEF Send, Ghost, TypeOK
  <2>5. QED
    BY <1>2, <1>4, <2>1, <2>2, <2>3, <2>4 DEF Send, Ghost, TypeOK, storeVars
<1>5. ASSUME NEW i \in DOMAIN messages, ApprovePlan(r, i)
      PROVE  TypeOK'
  <2>1. run' \in [Runs -> Run]
    <3>1. [run[r] EXCEPT !.at = "approving", !.kind = "approval", !.home = active] \in Run
      BY <1>0 DEF Run
    <3>2. QED
      BY <1>0, <1>5, <3>1 DEF ApprovePlan
  <2>2. messages' \in History
    <3>1. expirePlans(messages, i) \in History
      BY ExpireType DEF TypeOK
    <3>2. QED
      BY <1>5, <3>1, PlanType DEF ApprovePlan
  <2>3. saves' \subseteq [s : Ids, msgs : History]
    BY <1>0, <1>5, <2>2, SaveType DEF ApprovePlan, TypeOK
  <2>4. moves' \in 0 .. MaxMoves
    BY <1>5, MoveType DEF ApprovePlan
  <2>5. ghost' \in Ghost
    BY <1>3, <1>5 DEF ApprovePlan, Ghost, TypeOK
  <2>6. QED
    BY <1>5, <2>1, <2>2, <2>3, <2>4, <2>5 DEF ApprovePlan, Ghost, TypeOK, storeVars
<1>6. CASE ApproveSend(r)
  <2>1. PICK own \in eager(isGenerating) : start(r, "approval", run[r].home, own)
    BY <1>6 DEF ApproveSend
  <2>2. own \in BOOLEAN
    BY <2>1 DEF eager
  <2>3. run' \in [Runs -> Run]
    BY <1>0, <2>1, <2>2, StartType
  <2>4. QED
    BY <1>2, <1>6, <2>3 DEF ApproveSend, TypeOK, storeVars, callVars
<1>7. QED
  BY <1>4, <1>5, <1>6

(* Types: the back end works on a round.                                   *)
LEMMA PanelTypeBackend ==
  ASSUME TypeOK, NEW r \in Runs, Backend(r)
  PROVE  TypeOK'
<1> DEFINE asked == [current(r) EXCEPT !.running = @ \cup {r}]
<1>1. /\ asked \in Message /\ endStep(current(r), r) \in Message
      /\ \A new \in Message : appendOrUpdateAssistant(flushChunks, new) \in History
  BY CurrentType, EndStepType DEF Message
<1> HIDE DEF asked
<1>2. /\ run[r] \in Run /\ run \in [Runs -> Run]
      /\ \A at \in {"tool", "thinking", "asking"} : [run EXCEPT ![r].at = at] \in [Runs -> Run]
  BY RunType DEF TypeOK
<1> USE DEF TypeOK, noCall, storeVars, panelVars, callVars
<1>3. CASE Chunk(r)
  BY <1>3 DEF Chunk
<1>4. CASE ToolStart(r)
  <2>1. messages' \in History /\ buffer' \subseteq Runs
    BY <1>1, <1>4 DEF ToolStart, onAnswer, asked
  <2>2. QED
    BY <1>2, <1>4, <2>1 DEF ToolStart
<1>5. CASE ToolEvent(r)
  <2>1. messages' \in History /\ buffer' \subseteq Runs
    BY <1>1, <1>5 DEF ToolEvent, onAnswer
  <2>2. QED
    BY <1>2, <1>5, <2>1 DEF ToolEvent
<1>6. CASE AskUser(r)
  <2>1. messages' \in History /\ buffer' \subseteq Runs
    BY <1>1, <1>6 DEF AskUser, onAnswer, asked
  <2>2. ghost' \in Ghost
    BY <1>6 DEF AskUser, rushed, Ghost
  <2>3. QED
    BY <1>2, <1>6, <2>1, <2>2 DEF AskUser
<1>7. CASE AskTimeout(r)
  BY <1>2, <1>7 DEF AskTimeout
<1>8. ASSUME NEW out \in {"ok", "stopped", "error"}, Finish(r, out)
      PROVE  TypeOK'
  <2>1. run' \in [Runs -> Run]
    <3>1. [run[r] EXCEPT !.at = "ended", !.out = out, !.todo = {"event", "reply"}] \in Run
      BY <1>2 DEF Run
    <3>2. QED
      BY <1>2, <1>8, <3>1 DEF Finish
  <2>2. titling' \in [Runs -> {"none", "check", "write"}]
    BY <1>8 DEF Finish
  <2>3. planFiles' \subseteq Ids
    BY <1>8 DEF Finish, Run
  <2>4. QED
    BY <1>8, <2>1, <2>2, <2>3 DEF Finish
<1>9. QED
  BY <1>3, <1>4, <1>5, <1>6, <1>7, <1>8 DEF Backend

(* Types: the event or the reply of a round arrives.                       *)
LEMMA PanelTypeDeliver ==
  ASSUME TypeOK, NEW r \in Runs, DoneEvent(r) \/ ErrorEvent(r) \/ Reply(r)
  PROVE  TypeOK'
<1>1. /\ run \in [Runs -> Run] /\ run[r] \in Run /\ run[r].home \in Ids
      /\ messages \in History /\ subscribed \in Ids
  BY DEF TypeOK, Run
<1>2. /\ current(r) \in Message
      /\ \A new \in Message : appendOrUpdateAssistant(flushChunks, new) \in History
  BY CurrentType
<1>3. \A t \in {"event", "reply"} : [run EXCEPT ![r].todo = @ \ {t}] \in [Runs -> Run]
  BY <1>1, RunType
<1>4. CASE DoneEvent(r)
  <2>1. run' \in [Runs -> Run]
    BY <1>3, <1>4 DEF DoneEvent
  <2>2. messages' \in History /\ buffer' \subseteq Runs
    <3> DEFINE new == [current(r) EXCEPT
                 !.text = IF run[r].kind = "plan" /\ run[r].out = "ok" THEN @ ELSE {r},
                 !.part = @ /\ run[r].kind = "plan" /\ run[r].out = "ok",
                 !.running = {}]
    <3>1. new \in Message
      BY <1>2 DEF Message
    <3>2. heard(r) => messages' = appendOrUpdateAssistant(flushChunks, new) /\ buffer' = {}
      BY <1>4 DEF DoneEvent, onAnswer
    <3> HIDE DEF new
    <3>3. CASE heard(r)
      BY <1>2, <3>1, <3>2, <3>3
    <3>4. CASE ~heard(r)
      BY <1>4, <3>4 DEF DoneEvent, TypeOK
    <3>5. QED
      BY <3>3, <3>4
  <2>3. saves' \subseteq [s : Ids, msgs : History]
    <3>1. saves' \subseteq saves \cup {save(subscribed, messages')}
      BY <1>4 DEF DoneEvent
    <3>2. QED
      BY <1>1, <2>2, <3>1, SaveType DEF TypeOK
  <2>4. isGenerating' \in BOOLEAN /\ pendingAsk' \in Runs \cup {None}
    BY <1>4 DEF DoneEvent, TypeOK
  <2>5. QED
    BY <1>4, <2>1, <2>2, <2>3, <2>4 DEF DoneEvent, TypeOK, storeVars
<1>5. CASE ErrorEvent(r)
  <2>1. run' \in [Runs -> Run]
    BY <1>3, <1>5 DEF ErrorEvent
  <2>2. messages' \in History /\ buffer' \subseteq Runs
    <3> DEFINE new == [current(r) EXCEPT !.text = fillIn(@, r), !.running = {}]
    <3>1. new \in Message
      BY <1>2 DEF Message, fillIn
    <3>2. \/ messages' = appendOrUpdateAssistant(flushChunks, new) /\ buffer' = {}
          \/ UNCHANGED <<messages, buffer>>
      BY <1>5 DEF ErrorEvent, onAnswer
    <3> HIDE DEF new
    <3>3. QED
      BY <1>2, <3>1, <3>2 DEF TypeOK
  <2>3. isGenerating' \in BOOLEAN /\ pendingAsk' \in Runs \cup {None}
    BY <1>5 DEF ErrorEvent, TypeOK
  <2>4. QED
    BY <1>5, <2>1, <2>2, <2>3 DEF ErrorEvent, TypeOK, noCall, storeVars, callVars
<1>6. CASE Reply(r)
  <2> DEFINE failed == run[r].out = "error" \/ (run[r].kind = "plan" /\ run[r].out = "stopped")
             older == IF run[r].kind = "plan" /\ ~failed
                        THEN expirePlans(messages, Len(messages)) ELSE messages
             a == lastAnswer(older, r)
             new == [a EXCEPT
                !.text = IF run[r].kind = "plan" THEN {r} ELSE fillIn(@, r),
                !.part = @ /\ run[r].kind # "plan",
                !.running = {},
                !.plan = IF run[r].kind = "plan" /\ ~failed THEN "proposed" ELSE @]
  <2>1. run' \in [Runs -> Run]
    BY <1>3, <1>6 DEF Reply
  <2>2. messages' = onLast(older, new)
    BY <1>6 DEF Reply
  <2>3. older \in History
    BY <1>1, ExpireType
  <2>4. a \in Message
    <3> HIDE DEF older
    <3>1. QED
      BY <2>3, LastType
  <2>5. new \in Message
    <3> HIDE DEF a, failed
    <3>1. QED
      BY <2>4 DEF Message, fillIn
  <2>6. messages' \in History
    <3> HIDE DEF older, new
    <3>1. QED
      BY <2>2, <2>3, <2>5, UpdateType
  <2>7. saves' \subseteq [s : Ids, msgs : History]
    <3>1. saves' \subseteq saves \cup {save(run[r].home, messages')}
      BY <1>6 DEF Reply
    <3>2. QED
      BY <1>1, <2>6, <3>1, SaveType DEF TypeOK
  <2>8. ghost' \in Ghost
    BY <1>6 DEF Reply, TypeOK, Ghost
  <2>9. QED
    BY <1>6, <2>1, <2>6, <2>7, <2>8 DEF Reply, TypeOK, storeVars
<1>7. QED
  BY <1>4, <1>5, <1>6

(* A session that is stored gets a row, the others keep theirs.            *)
LEMMA WithRowType ==
  ASSUME TypeOK, NEW s \in Ids
  PROVE  /\ withRow(s) \in [DOMAIN rows \cup {s} -> Titles]
         /\ \A t \in DOMAIN rows : withRow(s)[t] = rows[t]
         /\ s \notin DOMAIN rows => withRow(s)[s] = "default"
<1>1. CASE s \in DOMAIN rows
  <2>1. withRow(s) = rows
    BY <1>1 DEF withRow
  <2>2. rows \in [DOMAIN rows -> Titles]
    BY DEF TypeOK
  <2>3. DOMAIN rows = DOMAIN rows \cup {s}
    BY <1>1
  <2>4. rows \in [DOMAIN rows \cup {s} -> Titles]
    BY <2>2, <2>3, Zenon
  <2>5. QED
    BY <1>1, <2>1, <2>4
<1>2. CASE s \notin DOMAIN rows
  BY <1>2 DEF withRow, TypeOK, Titles
<1>3. QED
  BY <1>1, <1>2

(* Types: a title is generated.                                            *)
LEMMA PanelTypeTitle ==
  ASSUME TypeOK, NEW r \in Runs, TitleCheck(r) \/ TitleWrite(r)
  PROVE  TypeOK'
<1>1. run[r].home \in Ids
  BY DEF TypeOK, Run
<1>2. CASE TitleCheck(r)
  <2>1. DOMAIN rows' \subseteq Ids /\ rows' \in [DOMAIN rows' -> Titles]
    <3>1. DOMAIN rows \subseteq Ids /\ rows \in [DOMAIN rows -> Titles]
      BY DEF TypeOK
    <3>2. withRow(run[r].home) \in [DOMAIN rows \cup {run[r].home} -> Titles]
      BY <1>1, WithRowType
    <3>3. rows' = withRow(run[r].home) \/ rows' = rows
      BY <1>2 DEF TitleCheck
    <3>4. QED
      BY <1>1, <3>1, <3>2, <3>3
  <2>2. titling' \in [Runs -> {"none", "check", "write"}]
    BY <1>2 DEF TitleCheck, TypeOK
  <2>3. QED
    BY <1>2, <2>1, <2>2 DEF TitleCheck, TypeOK, panelVars, callVars
<1>3. CASE TitleWrite(r)
  <2>1. DOMAIN rows' \subseteq Ids /\ rows' \in [DOMAIN rows' -> Titles]
    BY <1>3 DEF TitleWrite, TypeOK, Titles
  <2>2. titling' \in [Runs -> {"none", "check", "write"}]
    BY <1>3 DEF TitleWrite, TypeOK
  <2>3. QED
    BY <1>3, <2>1, <2>2 DEF TitleWrite, TypeOK, panelVars, callVars
<1>4. QED
  BY <1>2, <1>3

(* Types: chunks, saves and loads take effect.                             *)
LEMMA PanelTypeSettle ==
  ASSUME TypeOK,
         \/ Flush \/ Resubscribe \/ Watchdog
         \/ \E v \in saves : ApplySave(v) \/ SaveFail(v)
         \/ \E l \in loads : LoadRead(l) \/ LoadApply(l) \/ LoadFail(l)
         \/ \E s \in clearing : ClearReturn(s)
         \/ \E r \in Runs : AnswerReturn(r)
  PROVE  TypeOK'
<1>1. flushChunks \in History
  BY FlushType DEF TypeOK
<1>2. CASE Flush
  BY <1>1, <1>2 DEF Flush, noCall, TypeOK, storeVars, callVars
<1>3. CASE Resubscribe
  BY <1>1, <1>3 DEF Resubscribe, TypeOK, storeVars, callVars
<1>4. CASE Watchdog
  <2>1. moves' \in 0 .. MaxMoves
    BY <1>4, BoundsAssumption DEF Watchdog, move, TypeOK
  <2>2. QED
    BY <1>4, <2>1 DEF Watchdog, TypeOK, storeVars, callVars
<1>5. ASSUME NEW v \in saves, ApplySave(v)
      PROVE  TypeOK'
  <2>1. v.s \in Ids /\ v.msgs \in History
    BY DEF TypeOK
  <2>2. DOMAIN rows' \subseteq Ids /\ rows' \in [DOMAIN rows' -> Titles]
    <3>1. rows' = withRow(v.s) /\ DOMAIN rows \subseteq Ids
      BY <1>5 DEF ApplySave, TypeOK
    <3>2. rows' \in [DOMAIN rows \cup {v.s} -> Titles]
      BY <2>1, <3>1, WithRowType
    <3>3. QED
      BY <2>1, <3>1, <3>2
  <2>3. QED
    BY <1>5, <2>1, <2>2 DEF ApplySave, TypeOK, panelVars
<1>6. ASSUME NEW l \in loads, LoadRead(l)
      PROVE  TypeOK'
  <2>1. l.s \in Ids
    BY DEF TypeOK
  <2>2. [s |-> l.s, read |-> TRUE, got |-> recovered(l.s)]
          \in [s : Ids, read : BOOLEAN, got : History]
    BY <2>1, RecoveredType
  <2>3. QED
    BY <1>6, <2>2 DEF LoadRead, TypeOK, panelVars, storeVars
<1>7. ASSUME NEW l \in loads, LoadApply(l)
      PROVE  TypeOK'
  <2>1. l.got \in History
    BY DEF TypeOK
  <2>2. \E keep : messages' \in {l.got, expirePlans(l.got, keep)}
    BY <1>7 DEF LoadApply
  <2>3. messages' \in History
    BY <2>1, <2>2, ExpireType
  <2>4. QED
    BY <1>7, <2>3 DEF LoadApply, TypeOK, storeVars
<1>8. move => moves' \in 0 .. MaxMoves
  BY BoundsAssumption DEF move, TypeOK
<1>9. ASSUME NEW v \in saves, SaveFail(v)
      PROVE  TypeOK'
  <2>1. v.s \in Ids /\ v.msgs \in History
    BY DEF TypeOK
  <2>2. ghost' \in Ghost /\ stored' \in [Ids -> History]
    BY <1>9, <2>1 DEF SaveFail, TypeOK, Ghost
  <2>3. QED
    BY <1>8, <1>9, <2>2 DEF SaveFail, TypeOK, panelVars
<1>10. <<>> \in History
  BY EmptySeq DEF History
<1>11. ASSUME NEW l \in loads, LoadFail(l)
       PROVE  TypeOK'
  <2>1. ghost' \in Ghost
    BY <1>11 DEF LoadFail, TypeOK, Ghost
  <2>2. QED
    BY <1>8, <1>10, <1>11, <2>1 DEF LoadFail, TypeOK, storeVars
<1>12. ASSUME NEW s \in clearing, ClearReturn(s)
       PROVE  TypeOK'
  <2>1. s \in Ids
    BY DEF TypeOK
  <2>2. stored' \in [Ids -> History]
    BY <1>10, <1>12, SessionsAssumption DEF ClearReturn, TypeOK
  <2>3. saves' \subseteq [s : Ids, msgs : History]
    BY <1>10, <1>12, <2>1, SaveType DEF ClearReturn, TypeOK
  <2>4. QED
    BY <1>12, <2>2, <2>3 DEF ClearReturn, TypeOK, panelVars
<1>13. ASSUME NEW r \in Runs, AnswerReturn(r)
       PROVE  TypeOK'
  <2> DEFINE a == lastAnswer(messages, r)
             new == [a EXCEPT !.running = @ \ {r}]
  <2>1. a \in Message /\ messages \in History
    BY LastType DEF TypeOK
  <2>2. messages' = onLast(messages, new)
    BY <1>13 DEF AnswerReturn
  <2>3. new \in Message
    <3> HIDE DEF a
    <3>1. QED
      BY <2>1 DEF Message
  <2>4. messages' \in History
    <3> HIDE DEF new
    <3>1. QED
      BY <2>1, <2>2, <2>3, UpdateType
  <2>5. answering' \in [Runs -> Nat]
    BY <1>13 DEF AnswerReturn, TypeOK
  <2>6. QED
    BY <1>13, <2>4, <2>5 DEF AnswerReturn, TypeOK, storeVars
<1>14. QED
  BY <1>2, <1>3, <1>4, <1>5, <1>6, <1>7, <1>9, <1>11, <1>12, <1>13

(* A load carries a session and a history.                                 *)
LEMMA LoadType ==
  ASSUME NEW s \in Ids
  PROVE  load(s) \in [s : Ids, read : BOOLEAN, got : History]
<1>1. <<>> \in History
  BY EmptySeq DEF History
<1>2. QED
  BY <1>1 DEF load

(* Types: a creation or deletion returns.                                  *)
LEMMA PanelTypeList ==
  ASSUME TypeOK,
         \/ \E c \in creating : CreateReturn(c) \/ CreateFail(c)
         \/ \E d \in deleting : DeleteReturn(d) \/ DeleteFail(d)
  PROVE  TypeOK'
<1>1. <<>> \in History
  BY EmptySeq DEF History
<1>2. ASSUME NEW c \in creating, CreateReturn(c)
      PROVE  TypeOK'
  <2>1. c.id \in Ids /\ disturb(c.id) \subseteq Ids
    <3>1. c.id \in Ids
      BY DEF TypeOK
    <3>2. QED
      BY <3>1, DisturbType
  <2>2. DOMAIN rows' \subseteq Ids /\ rows' \in [DOMAIN rows' -> Titles]
    <3>1. rows' = withRow(c.id) /\ DOMAIN rows \subseteq Ids
      BY <1>2 DEF CreateReturn, TypeOK
    <3>2. rows' \in [DOMAIN rows \cup {c.id} -> Titles]
      BY <2>1, <3>1, WithRowType
    <3>3. QED
      BY <2>1, <3>1, <3>2
  <2>3. ghost' \in Ghost
    BY <1>2, <2>1 DEF CreateReturn, TypeOK, Ghost
  <2>4. QED
    BY <1>1, <1>2, <2>1, <2>2, <2>3 DEF CreateReturn, TypeOK, Ghost
<1>3. ASSUME NEW d \in deleting, DeleteReturn(d)
      PROVE  TypeOK'
  <2>1. d.s \in Ids /\ d.list \subseteq Ids
    BY DEF TypeOK
  <2>2. active' \in Ids
    <3>1. active' = active \/ active' \in d.list
      BY <1>3, Zenon DEF DeleteReturn
    <3>2. QED
      BY <2>1, <3>1 DEF TypeOK
  <2>3. loads' \subseteq [s : Ids, read : BOOLEAN, got : History]
    <3>1. \/ loads' = loads
          \/ \E n \in d.list : loads' = loads \cup {load(n)}
      BY <1>3, Zenon DEF DeleteReturn
    <3>2. QED
      BY <2>1, <3>1, LoadType DEF TypeOK
  <2>4. creating' \subseteq [id : Ids, sole : BOOLEAN]
    <3>1. \/ creating' = creating
          \/ \E c \in Ids : creating' = creating \cup {[id |-> c, sole |-> TRUE]}
      BY <1>3, Zenon DEF DeleteReturn
    <3>2. \A c \in Ids : [id |-> c, sole |-> TRUE] \in [id : Ids, sole : BOOLEAN]
      OBVIOUS
    <3>3. creating \subseteq [id : Ids, sole : BOOLEAN]
      BY DEF TypeOK
    <3>4. QED
      BY <3>1, <3>2, <3>3, Zenon
  <2>5. ghost' \in Ghost
    <3>1. disturb(active') \subseteq Ids
      BY <2>2, DisturbType
    <3> DEFINE U == {c.id : c \in creating'}
               B == IF d.s \in inFlight \/ titlingIn(d.s) THEN ghost.buried
                                                       ELSE ghost.buried \cup {d.s}
    <3>2. U \subseteq Ids
      BY <2>4
    <3>3. ghost \in Ghost /\ B \subseteq Ids
      BY <2>1 DEF TypeOK, Ghost
    <3>4. ghost' = [ghost EXCEPT !.disturbed = disturb(active') \cup {d.s},
                      !.chosen = ghost.chosen \ {d.s}, !.buried = B, !.used = ghost.used \cup U]
      BY <1>3, Zenon DEF DeleteReturn
    <3> HIDE DEF U, B
    <3>5. QED
      BY <2>1, <3>1, <3>2, <3>3, <3>4 DEF Ghost
  <2>6. DOMAIN rows' \subseteq Ids /\ rows' \in [DOMAIN rows' -> Titles]
    BY <1>3 DEF DeleteReturn, TypeOK
  <2>7. QED
    BY <1>1, <1>3, <2>1, <2>2, <2>3, <2>4, <2>5, <2>6 DEF DeleteReturn, TypeOK, Ghost
<1>4. ASSUME NEW c \in creating, CreateFail(c)
      PROVE  TypeOK'
  <2>1. ghost' \in Ghost
    BY <1>4 DEF CreateFail, TypeOK, Ghost
  <2>2. QED
    BY <1>4, <2>1 DEF CreateFail, TypeOK, storeVars, panelVars
<1>5. ASSUME NEW d \in deleting, DeleteFail(d)
      PROVE  TypeOK'
  <2>1. moves' \in 0 .. MaxMoves
    BY <1>5, BoundsAssumption DEF DeleteFail, move, TypeOK
  <2>2. QED
    BY <1>5, <2>1 DEF DeleteFail, TypeOK, panelVars
<1>6. QED
  BY <1>2, <1>3, <1>4, <1>5

(* Types: the user acts on sessions, questions and rounds.                 *)
LEMMA PanelTypeUser ==
  ASSUME TypeOK,
         \/ AnswerAsk \/ Stop \/ Clear
         \/ \E s \in Ids : Switch(s) \/ CreateCall(s) \/ DeleteCall(s) \/ Rename(s)
  PROVE  TypeOK'
<1>1. <<>> \in History /\ flushChunks \in History
  BY EmptySeq, FlushType DEF History, TypeOK
<1>2. run \in [Runs -> Run] /\ messages \in History /\ active \in Ids /\ disturb(active) \subseteq Ids
  <2>1. run \in [Runs -> Run] /\ messages \in History /\ active \in Ids
    BY DEF TypeOK
  <2>2. QED
    BY <2>1, DisturbType
<1>3. move => moves' \in 0 .. MaxMoves
  BY BoundsAssumption DEF move, TypeOK
<1>4. CASE AnswerAsk
  <2>1. pendingAsk \in Runs
    BY <1>4 DEF AnswerAsk, TypeOK
  <2>2. run' \in [Runs -> Run]
    BY <1>2, <1>4, <2>1, RunType DEF AnswerAsk
  <2>3. answering' \in [Runs -> Nat]
    BY <1>4, <2>1 DEF AnswerAsk, TypeOK
  <2>4. QED
    BY <1>3, <1>4, <2>2, <2>3 DEF AnswerAsk, TypeOK, storeVars, panelVars
<1>5. CASE Stop
  <2>1. run' \in [Runs -> Run]
    <3>1. run' = run \/ \E r \in Runs : run' = [run EXCEPT ![r].stop = TRUE]
      BY <1>5 DEF Stop
    <3>2. QED
      BY <1>2, <3>1, RunType
  <2>2. QED
    BY <1>3, <1>5, <2>1 DEF Stop, TypeOK, storeVars, callVars
<1>6. CASE Clear
  <2>1. clearing' \subseteq Ids
    BY <1>2, <1>6 DEF Clear, TypeOK
  <2>2. ghost' \in Ghost
    BY <1>2, <1>6, SessionsAssumption DEF Clear, TypeOK, Ghost
  <2>3. QED
    BY <1>1, <1>3, <1>6, <2>1, <2>2 DEF Clear, TypeOK, Ghost, storeVars
<1>7. ASSUME NEW s \in Ids, Switch(s)
      PROVE  TypeOK'
  <2>1. loads' \subseteq [s : Ids, read : BOOLEAN, got : History]
    BY <1>7, LoadType DEF Switch, TypeOK
  <2>2. ghost' \in Ghost
    <3>1. disturb(s) \subseteq Ids
      BY DisturbType
    <3>2. QED
      BY <1>7, <3>1 DEF Switch, TypeOK, Ghost
  <2>3. QED
    BY <1>1, <1>3, <1>7, <2>1, <2>2 DEF Switch, TypeOK, Ghost, storeVars
<1>8. ASSUME NEW s \in Ids, CreateCall(s)
      PROVE  TypeOK'
  <2>1. ghost' \in Ghost
    BY <1>8 DEF CreateCall, TypeOK, Ghost, busyList
  <2>2. creating' \subseteq [id : Ids, sole : BOOLEAN]
    <3>1. [id |-> s, sole |-> FALSE] \in [id : Ids, sole : BOOLEAN]
      OBVIOUS
    <3>2. creating \subseteq [id : Ids, sole : BOOLEAN]
      BY DEF TypeOK
    <3>3. QED
      BY <1>8, <3>1, <3>2, Zenon DEF CreateCall
  <2>3. QED
    BY <1>3, <1>8, <2>1, <2>2 DEF CreateCall, TypeOK, Ghost, storeVars, panelVars
<1>9. ASSUME NEW s \in Ids, DeleteCall(s)
      PROVE  TypeOK'
  <2>1. ghost' \in Ghost
    BY <1>9 DEF DeleteCall, TypeOK, Ghost, busyList
  <2>2. QED
    BY <1>3, <1>9, <2>1 DEF DeleteCall, TypeOK, Ghost, storeVars, panelVars
<1>10. ASSUME NEW s \in Ids, Rename(s)
       PROVE  TypeOK'
  <2>1. ghost' \in Ghost
    BY <1>10 DEF Rename, TypeOK, Ghost
  <2>2. DOMAIN rows' \subseteq Ids /\ rows' \in [DOMAIN rows' -> Titles]
    BY <1>10 DEF Rename, TypeOK, Titles
  <2>3. QED
    BY <1>3, <1>10, <2>1, <2>2 DEF Rename, TypeOK, Ghost, panelVars, callVars
<1>11. QED
  BY <1>4, <1>5, <1>6, <1>7, <1>8, <1>9, <1>10

(* Types: the first state.                                                 *)
LEMMA PanelTypeInit ==
  ASSUME Init
  PROVE  TypeOK
<1>1. <<>> \in History
  BY EmptySeq DEF History
<1>2. run \in [Runs -> Run]
  BY SessionsAssumption DEF Init, Run
<1>3. DOMAIN rows \subseteq Ids /\ rows \in [DOMAIN rows -> Titles]
  BY SessionsAssumption DEF Init, Titles
<1>4. ghost \in Ghost
  BY SessionsAssumption DEF Init, Ghost
<1>5. stored \in [Ids -> History] /\ titling \in [Runs -> {"none", "check", "write"}]
  BY <1>1 DEF Init
<1>6. moves \in 0 .. MaxMoves /\ answering \in [Runs -> Nat]
  BY BoundsAssumption DEF Init
<1>7. QED
  BY <1>1, <1>2, <1>3, <1>4, <1>5, <1>6, SessionsAssumption DEF Init, TypeOK, Ghost

(* Every step keeps the types.                                             *)
LEMMA PanelTypeStep ==
  ASSUME TypeOK, [Next]_vars
  PROVE  TypeOK'
<1>1. CASE User
  BY <1>1, PanelTypeStart, PanelTypeUser DEF User
<1>2. CASE Settle
  BY <1>2, PanelTypeSettle, PanelTypeList DEF Settle
<1>3. ASSUME NEW r \in Runs, Backend(r) \/ Deliver(r)
      PROVE  TypeOK'
  BY <1>3, PanelTypeBackend, PanelTypeDeliver, PanelTypeTitle, PanelTypeStart, PanelTypeSettle
     DEF Deliver
<1>4. CASE UNCHANGED vars
  BY <1>4 DEF vars, storeVars, panelVars, callVars, TypeOK
<1>5. QED
  BY <1>1, <1>2, <1>3, <1>4 DEF Next

(* The panel, the store and the calls between them keep their types in     *)
(* every interleaving of AgentPanel's handlers and calls.                  *)
THEOREM PanelTypeCorrect == Spec => []TypeOK
<1>1. QED
  BY PanelTypeInit, PanelTypeStep, PTL DEF Spec

-----------------------------------------------------------------------------
(* What the rounds of the backend may touch, and what the small steps of   *)
(* the panel leave alone: every invariant below uses both.                 *)

Round(r) ==
  Backend(r) \/ DoneEvent(r) \/ ErrorEvent(r) \/ Reply(r) \/ ApproveSend(r)

Quiet ==
  \/ Flush \/ Resubscribe \/ Watchdog \/ Stop \/ AnswerAsk
  \/ \E r \in Runs : AnswerReturn(r)
  \/ \E l \in loads : LoadRead(l) \/ LoadApply(l) \/ LoadFail(l)

(* Calls that fail, or that only empty a history.                          *)
Setback ==
  \/ \E v \in saves : SaveFail(v)
  \/ \E c \in creating : CreateFail(c)
  \/ \E d \in deleting : DeleteFail(d)
  \/ \E s \in clearing : ClearReturn(s)

(* What is remembered of the sessions stays as it is.                      *)
Unmoved ==
  /\ ghost'.disturbed = ghost.disturbed /\ ghost'.buried = ghost.buried
  /\ ghost'.chosen = ghost.chosen /\ ghost'.used = ghost.used
  /\ ghost'.alone = ghost.alone /\ ghost'.overlap = ghost.overlap

live(r) == run[r].at # "idle" /\ ~finished(r)

(* A step of a round is one of a round that is under way.  It changes no   *)
(* other round and no list of sessions, and saves and plans belong to the  *)
(* session of the round.                                                   *)
LEMMA RoundStep ==
  ASSUME TypeOK, NEW r \in Runs, Round(r)
  PROVE  /\ live(r)
         /\ \A p \in Runs \ {r} : run'[p] = run[p] /\ titling'[p] = titling[p]
         /\ run'[r].home = run[r].home /\ run'[r].at # "idle"
         /\ run'[r].at = "asking" =>
              pendingAsk' = r /\ (r \in ghost'.rushed \/ \A q \in Runs : answering[q] = 0)
         /\ run[r].at = "ended" => run'[r].at = "ended"
         /\ titling'[r] = titling[r] \/ (titling'[r] = "check" /\ run'[r].at = "ended")
         /\ \A v \in saves' : v \in saves \/ v.s = run[r].home
         /\ planFiles' \subseteq planFiles \cup {run[r].home}
         /\ UNCHANGED <<rows, stored, sessions, active, creating, deleting, clearing, answering>>
         /\ Unmoved /\ ghost'.bare = ghost.bare /\ ghost'.failed = ghost.failed
<1>1. /\ run \in [Runs -> Run] /\ titling \in [Runs -> {"none", "check", "write"}]
      /\ ghost \in Ghost /\ answering \in [Runs -> Nat]
  BY DEF TypeOK
<1> USE DEF live, finished, noCall, storeVars, panelVars, callVars, Unmoved
<1>2. CASE Chunk(r)
  BY <1>1, <1>2 DEF Chunk, Run
<1>3. CASE ToolStart(r)
  BY <1>1, <1>3 DEF ToolStart, Run
<1>4. CASE ToolEvent(r)
  BY <1>1, <1>4 DEF ToolEvent, Run
<1>5. CASE AskUser(r)
  <2>1. /\ Unmoved /\ ghost'.bare = ghost.bare /\ ghost'.failed = ghost.failed
        /\ ghost'.rushed = rushed(r)
    BY <1>1, <1>5 DEF AskUser, Ghost
  <2>2. r \in rushed(r) \/ \A q \in Runs : answering[q] = 0
    BY <1>1 DEF rushed
  <2>3. QED
    BY <1>1, <1>5, <2>1, <2>2 DEF AskUser, Run
<1>6. CASE AskTimeout(r)
  BY <1>1, <1>6 DEF AskTimeout, Run
<1>7. ASSUME NEW out \in {"ok", "stopped", "error"}, Finish(r, out)
      PROVE  /\ live(r)
             /\ \A p \in Runs \ {r} : run'[p] = run[p] /\ titling'[p] = titling[p]
             /\ run'[r].home = run[r].home /\ run'[r].at = "ended"
             /\ titling'[r] = titling[r] \/ titling'[r] = "check"
             /\ saves' = saves
             /\ planFiles' \subseteq planFiles \cup {run[r].home}
             /\ UNCHANGED <<rows, stored, sessions, active, creating, deleting, clearing,
                            answering, ghost>>
  BY <1>1, <1>7 DEF Finish, Run
<1>8. CASE DoneEvent(r)
  <2>1. \A v \in saves' : v \in saves \/ v.s = run[r].home
    BY <1>8 DEF DoneEvent, heard, save
  <2>2. QED
    BY <1>1, <1>8, <2>1 DEF DoneEvent, Run
<1>9. CASE ErrorEvent(r)
  BY <1>1, <1>9 DEF ErrorEvent, Run
<1>10. CASE Reply(r)
  <2>1. \A v \in saves' : v \in saves \/ v.s = run[r].home
    <3>1. saves' \subseteq saves \cup {save(run[r].home, messages')}
      BY <1>10 DEF Reply
    <3>2. QED
      BY <3>1 DEF save
  <2>2. /\ run[r].at = "ended" /\ "reply" \in run[r].todo
        /\ run' = [run EXCEPT ![r].todo = @ \ {"reply"}]
        /\ UNCHANGED <<storeVars, sessions, active, subscribed, pendingAsk, buffer, loads,
                       creating, deleting, clearing, answering, titling, moves>>
    BY <1>10 DEF Reply
  <2>3. Unmoved /\ ghost'.bare = ghost.bare /\ ghost'.failed = ghost.failed
    BY <1>1, <1>10 DEF Reply, Ghost
  <2>4. QED
    BY <1>1, <2>1, <2>2, <2>3 DEF Run
<1>11. CASE ApproveSend(r)
  BY <1>1, <1>11 DEF ApproveSend, start, Run
<1>12. QED
  BY <1>2, <1>3, <1>4, <1>5, <1>6, <1>7, <1>8, <1>9, <1>10, <1>11 DEF Round, Backend

(* Quiet steps move no round to another session and start no call.  A      *)
(* question is taken away only by an answer that was being sent.           *)
LEMMA QuietStep ==
  ASSUME TypeOK, Quiet
  PROVE  /\ \A p \in Runs : /\ run'[p].home = run[p].home /\ run'[p].todo = run[p].todo
                            /\ \/ run'[p].at = run[p].at
                               \/ run[p].at = "asking" /\ run'[p].at = "tool"
                            /\ run'[p].at = "asking" /\ pendingAsk = p
                                 /\ (\A q \in Runs : answering[q] = 0)
                                 => pendingAsk' = p /\ answering' = answering
         /\ UNCHANGED <<rows, stored, planFiles, sessions, active, saves, creating, deleting,
                        clearing, titling>>
         /\ Unmoved /\ ghost'.bare = ghost.bare /\ ghost'.rushed = ghost.rushed
         /\ ghost'.late = ghost.late /\ ghost.failed \subseteq ghost'.failed
<1>1. /\ run \in [Runs -> Run] /\ pendingAsk \in Runs \cup {None} /\ ghost \in Ghost
      /\ answering \in [Runs -> Nat]
  BY DEF TypeOK
<1> USE DEF noCall, storeVars, callVars, Unmoved
<1>2. CASE Flush
  BY <1>2 DEF Flush
<1>3. CASE Resubscribe
  BY <1>3 DEF Resubscribe
<1>4. CASE Watchdog
  BY <1>4 DEF Watchdog
<1>5. CASE Stop
  BY <1>1, <1>5 DEF Stop, Run
<1>6. CASE AnswerAsk
  <2>1. pendingAsk \in Runs
    BY <1>1, <1>6 DEF AnswerAsk
  <2>2. QED
    BY <1>1, <1>6, <2>1 DEF AnswerAsk, Run, panelVars
<1>7. ASSUME NEW r \in Runs, AnswerReturn(r)
      PROVE  /\ UNCHANGED <<rows, stored, planFiles, sessions, active, saves, creating, deleting,
                            clearing, titling, ghost, run>>
             /\ answering[r] # 0
  BY <1>1, <1>7 DEF AnswerReturn
<1>8. ASSUME NEW l \in loads, LoadRead(l) \/ LoadApply(l)
      PROVE  UNCHANGED <<rows, stored, planFiles, sessions, active, saves, creating, deleting,
                         clearing, titling, ghost, run, pendingAsk, answering>>
  BY <1>8 DEF LoadRead, LoadApply, panelVars
<1>9. ASSUME NEW l \in loads, LoadFail(l)
      PROVE  /\ UNCHANGED <<rows, stored, planFiles, sessions, active, saves, creating, deleting,
                            clearing, titling, run, pendingAsk, answering>>
             /\ Unmoved /\ ghost'.bare = ghost.bare /\ ghost'.rushed = ghost.rushed
             /\ ghost'.late = ghost.late /\ ghost.failed \subseteq ghost'.failed
  BY <1>1, <1>9 DEF LoadFail, Ghost
<1>10. QED
  BY <1>2, <1>3, <1>4, <1>5, <1>6, <1>7, <1>8, <1>9 DEF Quiet

(* A setback leaves the panel and the rounds alone.  It writes a history   *)
(* only where a save was under way, or that of ai_agent_default.           *)
LEMMA SetbackStep ==
  ASSUME TypeOK, Setback
  PROVE  /\ UNCHANGED <<rows, sessions, active, subscribed, messages, isGenerating, pendingAsk,
                        buffer, loads, answering, run, titling>>
         /\ Unmoved /\ ghost'.rushed = ghost.rushed /\ ghost'.late = ghost.late
         /\ ghost.failed \subseteq ghost'.failed
         /\ planFiles' \subseteq planFiles /\ creating' \subseteq creating
         /\ deleting' \subseteq deleting /\ clearing' \subseteq clearing
         /\ \A v \in saves' : v \in saves \/ v.s \in clearing
         /\ \A v \in saves \ saves' : v.s \in ghost'.failed
         /\ \A s \in Ids : \/ stored'[s] = stored[s]
                           \/ stored'[s] = <<>> /\ s = Default /\ clearing # {}
                           \/ s \in ghost'.failed /\ \E v \in saves : v.s = s /\ stored'[s] = v.msgs
         /\ \/ ghost'.bare = ghost.bare
            \/ ghost'.bare /\ \E c \in creating \ creating' : c.sole
         /\ \A c \in creating \ creating' : c.sole => ghost'.bare
<1>1. ghost \in Ghost /\ stored \in [Ids -> History]
  BY DEF TypeOK
<1> USE DEF Unmoved, storeVars, panelVars
<1>2. ASSUME NEW v \in saves, SaveFail(v)
      PROVE  /\ UNCHANGED <<rows, planFiles, panelVars, loads, answering, run, titling, creating,
                            deleting, clearing>>
             /\ Unmoved /\ ghost'.rushed = ghost.rushed /\ ghost'.late = ghost.late
             /\ ghost.failed \subseteq ghost'.failed /\ v.s \in ghost'.failed
             /\ ghost'.bare = ghost.bare /\ saves' = saves \ {v}
             /\ \A s \in Ids : stored'[s] = stored[s] \/ (s = v.s /\ stored'[s] = v.msgs)
  BY <1>1, <1>2 DEF SaveFail, Ghost
<1>3. ASSUME NEW c \in creating, CreateFail(c)
      PROVE  /\ UNCHANGED <<storeVars, panelVars, loads, answering, run, titling, saves, deleting,
                            clearing>>
             /\ Unmoved /\ ghost'.rushed = ghost.rushed /\ ghost'.late = ghost.late
             /\ ghost'.failed = ghost.failed /\ creating' \subseteq creating
             /\ creating' = creating \ {c}
             /\ IF c.sole THEN ghost'.bare ELSE ghost'.bare = ghost.bare
  BY <1>1, <1>3 DEF CreateFail, Ghost
<1>4. ASSUME NEW d \in deleting, DeleteFail(d)
      PROVE  /\ UNCHANGED <<rows, stored, panelVars, loads, answering, run, titling, saves,
                            creating, clearing, ghost>>
             /\ planFiles' \subseteq planFiles /\ deleting' \subseteq deleting
  BY <1>4 DEF DeleteFail
<1>5. ASSUME NEW s \in clearing, ClearReturn(s)
      PROVE  /\ UNCHANGED <<rows, planFiles, panelVars, loads, answering, run, titling, creating,
                            deleting, ghost>>
             /\ clearing' \subseteq clearing
             /\ saves \subseteq saves' /\ \A v \in saves' : v \in saves \/ v.s = s
             /\ \A t \in Ids : stored'[t] = stored[t] \/ (t = Default /\ stored'[t] = <<>>)
  BY <1>1, <1>5 DEF ClearReturn, save
<1>6. QED
  BY <1>2, <1>3, <1>4, <1>5 DEF Setback

(* A round the user starts, with handleSend or handleApprovePlan.          *)
Opening(r) ==
  \/ \E kind \in {"chat", "plan"} : Send(r, kind)
  \/ \E i \in DOMAIN messages : ApprovePlan(r, i)

(* A round begins in the session shown, and leaves the store alone.        *)
LEMMA OpeningStep ==
  ASSUME TypeOK, NEW r \in Runs, Opening(r)
  PROVE  /\ run[r].at = "idle" /\ \A p \in Runs \ {r} : run'[p] = run[p]
         /\ run'[r].home = active /\ run'[r].at # "asking"
         /\ \A v \in saves' : v \in saves \/ v.s = active
         /\ ghost'.alone = alone(r) /\ ghost'.buried = ghost.buried \ {active}
         /\ ghost'.used = ghost.used /\ ghost'.chosen = ghost.chosen
         /\ ghost'.overlap = ghost.overlap
         /\ ghost'.bare = ghost.bare /\ ghost'.failed = ghost.failed
         /\ ghost'.late = ghost.late
         /\ UNCHANGED <<rows, stored, planFiles, sessions, active, creating, deleting, clearing,
                        titling>>
<1>1. run \in [Runs -> Run] /\ ghost \in Ghost
  BY DEF TypeOK, Ghost
<1>2. ASSUME NEW x, run' = [run EXCEPT ![r] = x], x.home = active, x.at # "asking",
             NEW m, saves' = saves \/ saves' = saves \cup {save(active, m)},
             ghost' = [ghost EXCEPT !.disturbed = disturb(active), !.buried = @ \ {active},
                                    !.alone = alone(r)]
      PROVE  /\ \A p \in Runs \ {r} : run'[p] = run[p]
             /\ run'[r].home = active /\ run'[r].at # "asking"
             /\ \A v \in saves' : v \in saves \/ v.s = active
             /\ ghost'.alone = alone(r) /\ ghost'.buried = ghost.buried \ {active}
             /\ ghost'.used = ghost.used /\ ghost'.chosen = ghost.chosen
             /\ ghost'.overlap = ghost.overlap
             /\ ghost'.bare = ghost.bare /\ ghost'.failed = ghost.failed
             /\ ghost'.late = ghost.late
  <2>1. (\A p \in Runs \ {r} : run'[p] = run[p]) /\ run'[r] = x
    BY <1>1, <1>2
  <2>2. \A v \in saves' : v \in saves \/ v.s = active
    BY <1>2 DEF save
  <2>3. /\ ghost'.alone = alone(r) /\ ghost'.buried = ghost.buried \ {active}
        /\ ghost'.used = ghost.used /\ ghost'.chosen = ghost.chosen
        /\ ghost'.overlap = ghost.overlap
        /\ ghost'.bare = ghost.bare /\ ghost'.failed = ghost.failed
        /\ ghost'.late = ghost.late
    BY <1>1, <1>2 DEF Ghost
  <2>4. QED
    BY <1>2, <2>1, <2>2, <2>3
<1>3. ASSUME NEW kind \in {"chat", "plan"}, Send(r, kind)
      PROVE  /\ run[r].at = "idle"
             /\ \E x : run' = [run EXCEPT ![r] = x] /\ x.home = active /\ x.at # "asking"
             /\ \E m : saves' = saves \/ saves' = saves \cup {save(active, m)}
             /\ ghost' = [ghost EXCEPT !.disturbed = disturb(active), !.buried = @ \ {active},
                                       !.alone = alone(r)]
             /\ UNCHANGED <<rows, stored, planFiles, sessions, active, creating, deleting,
                            clearing, titling>>
  <2> DEFINE x == [run[r] EXCEPT !.at = "thinking", !.kind = kind, !.home = active, !.own = TRUE]
  <2>1. x.home = active /\ x.at # "asking"
    BY <1>1 DEF Run
  <2>2. run' = [run EXCEPT ![r] = x]
    BY <1>3 DEF Send, start
  <2> HIDE DEF x
  <2>3. saves' = saves \/ saves' = saves \cup {save(active, Append(messages, question(r)))}
    BY <1>3 DEF Send
  <2>4. \E m : saves' = saves \/ saves' = saves \cup {save(active, m)}
    BY <2>3, Zenon
  <2>5. \E y : run' = [run EXCEPT ![r] = y] /\ y.home = active /\ y.at # "asking"
    BY <2>1, <2>2, Zenon
  <2>6. QED
    BY <1>3, <2>4, <2>5 DEF Send, fresh, storeVars
<1>4. ASSUME NEW i \in DOMAIN messages, ApprovePlan(r, i)
      PROVE  /\ run[r].at = "idle"
             /\ \E x : run' = [run EXCEPT ![r] = x] /\ x.home = active /\ x.at # "asking"
             /\ \E m : saves' = saves \/ saves' = saves \cup {save(active, m)}
             /\ ghost' = [ghost EXCEPT !.disturbed = disturb(active), !.buried = @ \ {active},
                                       !.alone = alone(r)]
             /\ UNCHANGED <<rows, stored, planFiles, sessions, active, creating, deleting,
                            clearing, titling>>
  <2> DEFINE x == [run[r] EXCEPT !.at = "approving", !.kind = "approval", !.home = active]
  <2>1. x.home = active /\ x.at # "asking"
    BY <1>1 DEF Run
  <2>2. run' = [run EXCEPT ![r] = x]
    BY <1>4 DEF ApprovePlan
  <2> HIDE DEF x
  <2>3. saves' = saves \/ saves' = saves \cup {save(active, messages')}
    BY <1>4 DEF ApprovePlan
  <2>4. QED
    BY <1>4, <2>1, <2>2, <2>3 DEF ApprovePlan, fresh, storeVars
<1>5. QED
  BY <1>2, <1>3, <1>4 DEF Opening

(* The steps there are.                                                    *)
LEMMA StepKinds ==
  ASSUME [Next]_vars
  PROVE  \/ \E r \in Runs : Round(r)
         \/ Quiet
         \/ \E r \in Runs : Opening(r)
         \/ Clear
         \/ \E s \in Ids : Switch(s) \/ CreateCall(s) \/ DeleteCall(s) \/ Rename(s)
         \/ \E v \in saves : ApplySave(v)
         \/ \E c \in creating : CreateReturn(c)
         \/ \E d \in deleting : DeleteReturn(d)
         \/ \E r \in Runs : TitleCheck(r) \/ TitleWrite(r)
         \/ Setback
         \/ UNCHANGED vars
BY Zenon DEF Next, User, Settle, Deliver, Round, Quiet, Opening, Setback

-----------------------------------------------------------------------------
(* QUESTION SHOWN                                                          *)

(* Steps that leave the rounds, the question shown and who is alone.       *)
LEMMA AloneSame ==
  ASSUME AloneInv, UNCHANGED <<run, pendingAsk, answering>>, ghost'.alone = ghost.alone,
         ghost'.rushed = ghost.rushed
  PROVE  AloneInv'
BY DEF AloneInv, QuestionShown, finished

(* A round that begins is alone only if no other is under way.             *)
LEMMA AloneStart ==
  ASSUME TypeOK, NEW r \in Runs, \A p \in Runs \ {r} : run'[p] = run[p],
         run'[r].at # "asking", ghost'.alone = alone(r)
  PROVE  AloneInv'
<1>1. \A q \in ghost'.alone : q = r /\ \A p \in Runs \ {q} : run[p].at = "idle" \/ finished(p)
  BY DEF alone
<1>2. QED
  BY <1>1 DEF AloneInv, QuestionShown, finished

(* Every step keeps AloneInv.                                              *)
LEMMA AloneStep ==
  ASSUME TypeOK, AloneInv, [Next]_vars
  PROVE  AloneInv'
<1>0. run \in [Runs -> Run] /\ ghost \in Ghost
  BY DEF TypeOK, Ghost
<1>1. ASSUME NEW r \in Runs, Round(r)
      PROVE  AloneInv'
  <2>1. /\ live(r)
        /\ \A p \in Runs \ {r} : run'[p] = run[p]
        /\ run'[r].at = "asking" =>
             pendingAsk' = r /\ (r \in ghost'.rushed \/ \A q \in Runs : answering[q] = 0)
        /\ ghost'.alone = ghost.alone /\ answering' = answering
    BY <1>1, RoundStep DEF Unmoved
  <2>2. \A q \in ghost.alone : q = r
    BY <1>0, <2>1 DEF AloneInv, live, Ghost
  <2>3. QED
    BY <2>1, <2>2 DEF AloneInv, QuestionShown, finished
<1>2. CASE Quiet
  <2>1. /\ ghost'.alone = ghost.alone /\ ghost'.rushed = ghost.rushed
        /\ ghost.alone \subseteq Runs
    BY <1>0, <1>2, QuietStep DEF Ghost, Unmoved
  <2>2. \A p \in Runs : /\ run'[p].todo = run[p].todo
                        /\ \/ run'[p].at = run[p].at
                           \/ run[p].at = "asking" /\ run'[p].at = "tool"
                        /\ run'[p].at = "asking" /\ pendingAsk = p
                             /\ (\A q \in Runs : answering[q] = 0)
                             => pendingAsk' = p /\ answering' = answering
    BY <1>2, QuietStep, Zenon
  <2>3. ASSUME NEW r \in ghost.alone
        PROVE  \A q \in Runs \ {r} : run'[q].at = "idle" \/ (run'[q].at = "ended" /\ run'[q].todo = {})
    BY <2>1, <2>2 DEF AloneInv, finished
  <2>4. ASSUME NEW r \in ghost.alone \ ghost.rushed, run'[r].at = "asking"
        PROVE  pendingAsk' = r /\ \A q \in Runs : answering'[q] = 0
    <3>1. run[r].at = "asking"
      BY <2>1, <2>2, <2>4
    <3>2. pendingAsk = r /\ \A q \in Runs : answering[q] = 0
      BY <3>1 DEF AloneInv, QuestionShown
    <3>3. QED
      BY <2>1, <2>2, <2>4, <3>2
  <2>5. QED
    BY <2>1, <2>3, <2>4 DEF AloneInv, QuestionShown, finished
<1>3. ASSUME NEW r \in Runs, Opening(r)
      PROVE  AloneInv'
  BY <1>3, OpeningStep, AloneStart
<1>5. CASE Clear
  BY <1>0, <1>5, AloneSame DEF Clear, Ghost
<1>6. ASSUME NEW s \in Ids, Switch(s) \/ CreateCall(s) \/ DeleteCall(s) \/ Rename(s)
      PROVE  AloneInv'
  BY <1>0, <1>6, AloneSame DEF Switch, CreateCall, DeleteCall, Rename, Ghost, panelVars, callVars
<1>7. ASSUME NEW v \in saves, ApplySave(v)
      PROVE  AloneInv'
  BY <1>7, AloneSame DEF ApplySave, panelVars
<1>8. ASSUME NEW c \in creating, CreateReturn(c)
      PROVE  AloneInv'
  BY <1>0, <1>8, AloneSame DEF CreateReturn, Ghost
<1>9. ASSUME NEW d \in deleting, DeleteReturn(d)
      PROVE  AloneInv'
  BY <1>0, <1>9, AloneSame DEF DeleteReturn, Ghost
<1>10. ASSUME NEW r \in Runs, TitleCheck(r) \/ TitleWrite(r)
       PROVE  AloneInv'
  BY <1>10, AloneSame DEF TitleCheck, TitleWrite, panelVars, callVars
<1>11. CASE Setback
  BY <1>11, SetbackStep, AloneSame DEF Unmoved
<1>12. CASE UNCHANGED vars
  BY <1>12, AloneSame DEF vars, panelVars, callVars
<1>13. QED
  BY <1>1, <1>2, <1>3, <1>5, <1>6, <1>7, <1>8, <1>9, <1>10, <1>11, <1>12, StepKinds

(* QuestionShown: while a round that has met no other one waits in         *)
(* ask_user, pendingAsk is its question, whatever useAgentSessions does;   *)
(* unless it was asked while handleAnswerAsk waited for an earlier answer  *)
(* to be sent.                                                             *)
THEOREM PanelQuestionShown == Spec => []QuestionShown
<1>1. Init => AloneInv
  BY DEF Init, AloneInv, QuestionShown
<1>2. AloneInv => QuestionShown
  BY DEF AloneInv
<1>3. QED
  BY <1>1, <1>2, PanelTypeInit, PanelTypeStep, AloneStep, PTL DEF Spec

-----------------------------------------------------------------------------
(* TITLE KEPT                                                              *)

(* Steps that write no title and rename nothing: a title is under way only *)
(* for a round that has ended and stays in its session.                    *)
LEMMA TitleSame ==
  ASSUME TitleInv, rows' = rows, ghost'.chosen = ghost.chosen,
         \A p \in Runs : \/ titling'[p] = "none"
                         \/ /\ titling'[p] # "write" \/ titling[p] = "write"
                            /\ run'[p].home = run[p].home /\ run'[p].at = "ended"
  PROVE  TitleInv'
BY DEF TitleInv

(* Rows that are added leave the titles there are.                         *)
LEMMA TitleRow ==
  ASSUME TypeOK, TitleInv, NEW s \in Ids, rows' = withRow(s), ghost'.chosen = ghost.chosen,
         UNCHANGED <<run, titling>>
  PROVE  TitleInv'
<1>1. DOMAIN rows' = DOMAIN rows \cup {s} /\ \A t \in DOMAIN rows : rows'[t] = rows[t]
  BY WithRowType
<1>2. QED
  BY <1>1 DEF TitleInv

(* Every step keeps TitleInv.                                              *)
LEMMA TitleStep ==
  ASSUME TypeOK, TitleInv, [Next]_vars
  PROVE  TitleInv'
<1>0. /\ run \in [Runs -> Run] /\ ghost \in Ghost
      /\ titling \in [Runs -> {"none", "check", "write"}]
      /\ \A p \in Runs : titling[p] # "none" => run[p].at = "ended"
  BY DEF TypeOK, Ghost, TitleInv
<1>1. ASSUME NEW r \in Runs, Round(r)
      PROVE  TitleInv'
  <2>1. /\ \A p \in Runs \ {r} : run'[p] = run[p] /\ titling'[p] = titling[p]
        /\ run'[r].home = run[r].home
        /\ run[r].at = "ended" => run'[r].at = "ended"
        /\ titling'[r] = titling[r] \/ (titling'[r] = "check" /\ run'[r].at = "ended")
        /\ rows' = rows /\ ghost'.chosen = ghost.chosen
    BY <1>1, RoundStep DEF Unmoved
  <2>2. \A p \in Runs : \/ titling'[p] = "none"
                        \/ /\ titling'[p] # "write" \/ titling[p] = "write"
                           /\ run'[p].home = run[p].home /\ run'[p].at = "ended"
    BY <1>0, <2>1
  <2>3. QED
    BY <2>1, <2>2, TitleSame
<1>2. CASE Quiet
  <2>1. rows' = rows /\ titling' = titling /\ ghost'.chosen = ghost.chosen
    BY <1>2, QuietStep DEF Unmoved
  <2>2. \A p \in Runs : run'[p].home = run[p].home /\ (run[p].at = "ended" => run'[p].at = "ended")
    BY <1>2, QuietStep, Zenon
  <2>3. QED
    BY <1>0, <2>1, <2>2, TitleSame
<1>3. ASSUME NEW r \in Runs, Opening(r)
      PROVE  TitleInv'
  <2>1. /\ run[r].at = "idle" /\ rows' = rows /\ titling' = titling
        /\ ghost'.chosen = ghost.chosen /\ \A p \in Runs \ {r} : run'[p] = run[p]
    BY <1>3, OpeningStep
  <2>2. QED
    BY <1>0, <2>1, TitleSame
<1>4. CASE Clear
  BY <1>0, <1>4, TitleSame DEF Clear, Ghost, storeVars
<1>5. ASSUME NEW s \in Ids, Switch(s) \/ CreateCall(s) \/ DeleteCall(s)
      PROVE  TitleInv'
  BY <1>0, <1>5, TitleSame DEF Switch, CreateCall, DeleteCall, Ghost, storeVars
<1>6. ASSUME NEW s \in Ids, Rename(s)
      PROVE  TitleInv'
  BY <1>0, <1>6 DEF Rename, TitleInv, hasRow, Ghost
<1>7. ASSUME NEW v \in saves, ApplySave(v)
      PROVE  TitleInv'
  <2>1. v.s \in Ids
    BY DEF TypeOK
  <2>2. QED
    BY <1>7, <2>1, TitleRow DEF ApplySave
<1>8. ASSUME NEW c \in creating, CreateReturn(c)
      PROVE  TitleInv'
  <2>1. c.id \in Ids
    BY DEF TypeOK
  <2>2. ghost'.chosen = ghost.chosen
    BY <1>0, <1>8 DEF CreateReturn, Ghost
  <2>3. QED
    BY <1>8, <2>1, <2>2, TitleRow DEF CreateReturn
<1>9. ASSUME NEW d \in deleting, DeleteReturn(d)
      PROVE  TitleInv'
  <2>1. /\ rows' = [s \in DOMAIN rows \ {d.s} |-> rows[s]]
        /\ run' = run /\ titling' = titling
    BY <1>9 DEF DeleteReturn
  <2>2. ghost'.chosen = ghost.chosen \ {d.s}
    BY <1>0, <1>9 DEF DeleteReturn, Ghost
  <2>3. QED
    BY <1>0, <2>1, <2>2 DEF TitleInv
<1>10. ASSUME NEW r \in Runs, TitleCheck(r)
       PROVE  TitleInv'
  <2>1. run[r].home \in Ids
    BY <1>0 DEF Run
  <2>2. run' = run /\ ghost' = ghost /\ titling[r] = "check"
    BY <1>10 DEF TitleCheck
  <2>3. CASE rows' = rows /\ titling' = [titling EXCEPT ![r] = "none"]
    BY <1>0, <2>2, <2>3, TitleSame
  <2>4. ASSUME rows' = withRow(run[r].home),
               titling' = [titling EXCEPT ![r] =
                             IF rows'[run[r].home] = "default" THEN "write" ELSE "none"]
        PROVE  TitleInv'
    <3>1. /\ DOMAIN rows' = DOMAIN rows \cup {run[r].home}
          /\ \A t \in DOMAIN rows : rows'[t] = rows[t]
      BY <2>1, <2>4, WithRowType
    <3>2. \A s \in ghost.chosen : s \in DOMAIN rows /\ rows[s] = "named"
      BY DEF TitleInv
    <3>3. QED
      BY <1>0, <2>1, <2>2, <2>4, <3>1, <3>2 DEF TitleInv
  <2>5. QED
    BY <1>10, <2>3, <2>4 DEF TitleCheck
<1>11. ASSUME NEW r \in Runs, TitleWrite(r)
       PROVE  TitleInv'
  <2>1. run[r].home \notin ghost.chosen
    BY <1>0, <1>11 DEF TitleWrite, TitleInv
  <2>2. QED
    BY <1>0, <1>11, <2>1 DEF TitleWrite, TitleInv
<1>12. CASE Setback
  BY <1>0, <1>12, SetbackStep, TitleSame DEF Unmoved
<1>13. CASE UNCHANGED vars
  BY <1>0, <1>13, TitleSame DEF vars, storeVars
<1>14. QED
  BY <1>1, <1>2, <1>3, <1>4, <1>5, <1>6, <1>7, <1>8, <1>9, <1>10, <1>11, <1>12, <1>13, StepKinds

(* TitleKept: a title given with agentRenameSession while none is being    *)
(* written is not replaced by tryAutoGenerateTitle of rounds that end      *)
(* later, nor by the row a save or a creation adds.                        *)
THEOREM PanelTitleKept == Spec => []TitleKept
<1>1. Init => TitleInv
  BY DEF Init, TitleInv
<1>2. TitleInv => TitleKept
  BY DEF TitleInv, TitleKept, hasRow
<1>3. QED
  BY <1>1, <1>2, PanelTypeInit, PanelTypeStep, TitleStep, PTL DEF Spec

-----------------------------------------------------------------------------
(* BURIED STAYS                                                            *)

(* IdsInv speaks of the list, its calls and the ids used.                  *)
LEMMA IdsSame ==
  ASSUME IdsInv, sessions' = sessions, creating' \subseteq creating, deleting' \subseteq deleting,
         ghost'.buried \subseteq ghost.buried, ghost'.used = ghost.used
  PROVE  IdsInv'
BY DEF IdsInv

(* A creation under an id that was never used.                             *)
LEMMA IdsFresh ==
  ASSUME IdsInv, NEW n, n.id \notin ghost.used, creating' = creating \cup {n},
         UNCHANGED <<sessions, deleting>>,
         ghost'.buried = ghost.buried, ghost'.used = ghost.used \cup {n.id}
  PROVE  IdsInv'
<1>1. \A c \in creating : c.id # n.id
  BY DEF IdsInv
<1>2. sessions' \cup ghost'.buried \subseteq ghost'.used
  BY DEF IdsInv
<1>3. \A d \in deleting' : d.s \in ghost'.used /\ d.list \subseteq ghost'.used
  BY DEF IdsInv
<1>4. ASSUME NEW c \in creating'
      PROVE  /\ c.id \in ghost'.used /\ c.id \notin sessions' \cup ghost'.buried
             /\ \A d \in deleting' : c.id # d.s /\ c.id \notin d.list
             /\ \A e \in creating' : c.id = e.id => c = e
  BY <1>1 DEF IdsInv
<1>5. QED
  BY <1>2, <1>3, <1>4 DEF IdsInv

(* What DeleteReturn does to the list, the calls and the history variable. *)
LEMMA DeleteParts ==
  ASSUME TypeOK, NEW d \in deleting, DeleteReturn(d)
  PROVE  /\ deleting' = deleting \ {d} /\ sessions' = d.list \ {d.s}
         /\ \/ active # d.s /\ active' = active /\ creating' = creating
            \/ active' \in d.list \ {d.s} /\ creating' = creating
            \/ /\ active = d.s /\ d.list = {d.s} /\ active' = active
               /\ \E c \in Ids \ ghost.used : creating' = creating \cup {[id |-> c, sole |-> TRUE]}
         /\ ghost'.chosen = ghost.chosen \ {d.s} /\ ghost'.overlap = ghost.overlap
         /\ ghost'.bare = ghost.bare
         /\ ghost'.used = ghost.used \cup {c.id : c \in creating'}
         /\ ghost'.buried = IF d.s \in inFlight \/ titlingIn(d.s) THEN ghost.buried
                                                              ELSE ghost.buried \cup {d.s}
<1> DEFINE U == {c.id : c \in creating'}
           B == IF d.s \in inFlight \/ titlingIn(d.s) THEN ghost.buried
                                                   ELSE ghost.buried \cup {d.s}
<1>1. ghost' = [ghost EXCEPT !.disturbed = disturb(active') \cup {d.s},
                  !.chosen = ghost.chosen \ {d.s}, !.buried = B, !.used = ghost.used \cup U]
  BY Zenon DEF DeleteReturn
<1>2. ghost \in Ghost
  BY DEF TypeOK, Ghost
<1>3. /\ ghost'.chosen = ghost.chosen \ {d.s} /\ ghost'.overlap = ghost.overlap
      /\ ghost'.bare = ghost.bare
      /\ ghost'.used = ghost.used \cup U /\ ghost'.buried = B
  <2> HIDE DEF U, B
  <2>1. QED
    BY <1>1, <1>2 DEF Ghost
<1>4. /\ deleting' = deleting \ {d} /\ sessions' = d.list \ {d.s}
      /\ \/ active # d.s /\ active' = active /\ creating' = creating
         \/ active' \in d.list \ {d.s} /\ creating' = creating
         \/ /\ active = d.s /\ d.list = {d.s} /\ active' = active
            /\ \E c \in Ids \ ghost.used : creating' = creating \cup {[id |-> c, sole |-> TRUE]}
  BY Zenon DEF DeleteReturn
<1>5. QED
  BY <1>3, <1>4, Zenon

(* Every step keeps IdsInv.                                                *)
LEMMA IdsStep ==
  ASSUME TypeOK, IdsInv, [Next]_vars
  PROVE  IdsInv'
<1>0. ghost \in Ghost
  BY DEF TypeOK, Ghost
<1>1. ASSUME NEW r \in Runs, Round(r)
      PROVE  IdsInv'
  BY <1>1, RoundStep, IdsSame DEF Unmoved
<1>2. CASE Quiet
  BY <1>2, QuietStep, IdsSame DEF Unmoved
<1>3. ASSUME NEW r \in Runs, Opening(r)
      PROVE  IdsInv'
  BY <1>3, OpeningStep, IdsSame
<1>4. CASE Clear
  BY <1>0, <1>4, IdsSame DEF Clear, Ghost
<1>5. ASSUME NEW s \in Ids, Switch(s) \/ Rename(s)
      PROVE  IdsInv'
  BY <1>0, <1>5, IdsSame DEF Switch, Rename, Ghost, panelVars, callVars
<1>6. ASSUME NEW s \in Ids, CreateCall(s)
      PROVE  IdsInv'
  <2>1. /\ s \notin ghost.used /\ creating' = creating \cup {[id |-> s, sole |-> FALSE]}
        /\ UNCHANGED <<sessions, deleting>>
    BY <1>6 DEF CreateCall, panelVars
  <2>2. ghost'.used = ghost.used \cup {s} /\ ghost'.buried = ghost.buried
    BY <1>0, <1>6 DEF CreateCall, Ghost
  <2>3. QED
    BY <2>1, <2>2, IdsFresh
<1>7. ASSUME NEW s \in Ids, DeleteCall(s)
      PROVE  IdsInv'
  <2>1. /\ s \in sessions /\ deleting' = deleting \cup {[s |-> s, list |-> sessions]}
        /\ UNCHANGED <<sessions, creating>>
    BY <1>7 DEF DeleteCall, panelVars
  <2>2. ghost'.used = ghost.used /\ ghost'.buried = ghost.buried
    BY <1>0, <1>7 DEF DeleteCall, Ghost
  <2>3. QED
    BY <2>1, <2>2 DEF IdsInv
<1>8. ASSUME NEW v \in saves, ApplySave(v)
      PROVE  IdsInv'
  BY <1>8, IdsSame DEF ApplySave, panelVars
<1>9. ASSUME NEW c \in creating, CreateReturn(c)
      PROVE  IdsInv'
  <2>1. /\ creating' = creating \ {c} /\ deleting' = deleting
        /\ sessions' = {c.id} \/ sessions' = sessions \cup {c.id}
    BY <1>9 DEF CreateReturn
  <2>2. ghost'.used = ghost.used /\ ghost'.buried = ghost.buried
    BY <1>0, <1>9 DEF CreateReturn, Ghost
  <2>3. QED
    BY <2>1, <2>2 DEF IdsInv
<1>10. ASSUME NEW d \in deleting, DeleteReturn(d)
       PROVE  IdsInv'
  <2>1. /\ deleting' = deleting \ {d} /\ sessions' = d.list \ {d.s}
        /\ ghost'.used = ghost.used \cup {c.id : c \in creating'}
    BY <1>10, DeleteParts
  <2>2. ghost'.buried \subseteq ghost.buried \cup {d.s}
    BY <1>10, DeleteParts
  <2> DEFINE new == creating' \ creating
  <2>3. /\ creating' = creating \cup new
        /\ \A n \in new : n.id \notin ghost.used /\ \A e \in new : e = n
    <3>1. \/ creating' = creating
          \/ \E c \in Ids \ ghost.used : creating' = creating \cup {[id |-> c, sole |-> TRUE]}
      BY <1>10, DeleteParts
    <3>2. CASE creating' = creating
      BY <3>2
    <3>3. ASSUME NEW c \in Ids \ ghost.used, creating' = creating \cup {[id |-> c, sole |-> TRUE]}
          PROVE  /\ creating \subseteq creating'
                 /\ \A n \in new : n.id \notin ghost.used /\ n = [id |-> c, sole |-> TRUE]
      <4>1. [id |-> c, sole |-> TRUE].id = c
        OBVIOUS
      <4>2. QED
        BY <3>3, <4>1, Zenon
    <3>4. QED
      BY <3>1, <3>2, <3>3
  <2> HIDE DEF new
  <2>4. sessions' \cup ghost'.buried \subseteq ghost.used /\ ghost.used \subseteq ghost'.used
    BY <2>1, <2>2 DEF IdsInv
  <2>5. \A e \in deleting' : e.s \in ghost.used /\ e.list \subseteq ghost.used
    BY <2>1 DEF IdsInv
  <2>6. \A c \in creating' : c.id \in ghost'.used
    BY <2>1
  <2>7. ASSUME NEW c \in creating
        PROVE  /\ c.id \in ghost.used /\ c.id \notin sessions' \cup ghost'.buried
               /\ \A e \in deleting' : c.id # e.s /\ c.id \notin e.list
               /\ \A e \in creating : c.id = e.id => c = e
    BY <2>1, <2>2 DEF IdsInv
  <2>8. QED
    BY <2>3, <2>4, <2>5, <2>6, <2>7 DEF IdsInv
<1>11. ASSUME NEW r \in Runs, TitleCheck(r) \/ TitleWrite(r)
       PROVE  IdsInv'
  BY <1>11, IdsSame DEF TitleCheck, TitleWrite, panelVars, callVars
<1>12. CASE Setback
  BY <1>12, SetbackStep, IdsSame DEF Unmoved
<1>13. CASE UNCHANGED vars
  BY <1>13, IdsSame DEF vars, panelVars, callVars
<1>14. QED
  BY <1>1, <1>2, <1>3, <1>4, <1>5, <1>6, <1>7, <1>8, <1>9, <1>10, <1>11, <1>12, <1>13, StepKinds

(* Steps after which everything under way is in a session that is not      *)
(* buried, and that write nothing in one that is.                          *)
LEMMA BuriedSame ==
  ASSUME BuriedInv, NEW h, h \notin ghost'.buried,
         ghost'.buried \subseteq ghost.buried,
         DOMAIN rows' \subseteq DOMAIN rows \cup {h}, planFiles' \subseteq planFiles \cup {h},
         \A s \in ghost'.buried : stored'[s] = stored[s],
         \A v \in saves' : v \in saves \/ v.s = h,
         clearing' \subseteq clearing \cup {h},
         \A p \in Runs : \/ run'[p].home = h
                         \/ /\ run'[p].home = run[p].home
                            /\ titling'[p] # "none" => titling[p] # "none"
                            /\ live(p)' => live(p)
  PROVE  BuriedInv'
<1>1. BuriedStays'
  BY DEF BuriedInv, BuriedStays, hasRow
<1>2. /\ \A v \in saves' : v.s \notin ghost'.buried
      /\ \A s \in clearing' : s \notin ghost'.buried
  BY DEF BuriedInv
<1>3. ASSUME NEW p \in Runs, titling'[p] # "none" \/ live(p)'
      PROVE  run'[p].home \notin ghost'.buried
  BY <1>3 DEF BuriedInv, live
<1>4. QED
  BY <1>1, <1>2, <1>3 DEF BuriedInv, live

(* Every step keeps BuriedInv.                                             *)
LEMMA BuriedStep ==
  ASSUME TypeOK, IdsInv, BuriedInv, [Next]_vars
  PROVE  BuriedInv'
<1>0. /\ run \in [Runs -> Run] /\ ghost \in Ghost /\ rows \in [DOMAIN rows -> Titles]
      /\ stored \in [Ids -> History] /\ saves \subseteq [s : Ids, msgs : History]
      /\ titling \in [Runs -> {"none", "check", "write"}]
  BY DEF TypeOK, Ghost
<1>1. ASSUME NEW r \in Runs, Round(r)
      PROVE  BuriedInv'
  <2>1. /\ live(r) /\ \A p \in Runs \ {r} : run'[p] = run[p] /\ titling'[p] = titling[p]
        /\ run'[r].home = run[r].home
        /\ \A v \in saves' : v \in saves \/ v.s = run[r].home
        /\ planFiles' \subseteq planFiles \cup {run[r].home}
        /\ rows' = rows /\ stored' = stored /\ clearing' = clearing
        /\ ghost'.buried = ghost.buried
    BY <1>1, RoundStep DEF Unmoved
  <2>2. run[r].home \notin ghost.buried
    BY <2>1 DEF BuriedInv, live
  <2>3. \A p \in Runs : run'[p].home = run[r].home \/ (run'[p] = run[p] /\ titling'[p] = titling[p])
    BY <2>1
  <2>4. QED
    BY <2>1, <2>2, <2>3, BuriedSame DEF live, finished
<1>2. CASE Quiet
  <2>1. /\ UNCHANGED <<rows, stored, planFiles, saves, clearing, titling>>
        /\ ghost'.buried = ghost.buried
    BY <1>2, QuietStep DEF Unmoved
  <2>2. \A p \in Runs : /\ run'[p].home = run[p].home /\ run'[p].todo = run[p].todo
                        /\ \/ run'[p].at = run[p].at
                           \/ run[p].at = "asking" /\ run'[p].at = "tool"
    BY <1>2, QuietStep, Zenon
  <2>3. \A p \in Runs : run'[p].home = run[p].home /\ (live(p)' => live(p))
    BY <2>2 DEF live, finished
  <2>4. QED
    BY <2>1, <2>3 DEF BuriedInv, BuriedStays, hasRow, live
<1>3. ASSUME NEW r \in Runs, Opening(r)
      PROVE  BuriedInv'
  <2>1. /\ UNCHANGED <<rows, stored, planFiles, clearing, titling>>
        /\ ghost'.buried = ghost.buried \ {active}
        /\ \A v \in saves' : v \in saves \/ v.s = active
        /\ (\A p \in Runs \ {r} : run'[p] = run[p]) /\ run'[r].home = active
    BY <1>3, OpeningStep
  <2>2. \A p \in Runs : run'[p].home = active \/ run'[p] = run[p]
    BY <2>1
  <2>3. QED
    BY <2>1, <2>2, BuriedSame DEF live, finished
<1>4. CASE Clear
  <2>1. /\ UNCHANGED <<rows, stored, planFiles, saves, titling, run>>
        /\ clearing' = clearing \cup {active}
    BY <1>4 DEF Clear, storeVars
  <2>2. ghost'.buried = ghost.buried \ {active}
    BY <1>0, <1>4 DEF Clear, Ghost
  <2>3. QED
    BY <2>1, <2>2, BuriedSame DEF live, finished
<1>5. ASSUME UNCHANGED <<stored, planFiles, saves, clearing, run, titling>>, DOMAIN rows' = DOMAIN rows,
             ghost'.buried = ghost.buried
      PROVE  BuriedInv'
  BY <1>5 DEF BuriedInv, BuriedStays, hasRow, finished
<1>6. ASSUME NEW s \in Ids, Switch(s) \/ CreateCall(s) \/ DeleteCall(s)
      PROVE  BuriedInv'
  <2>1. UNCHANGED <<rows, stored, planFiles, saves, clearing, run, titling>>
    BY <1>6 DEF Switch, CreateCall, DeleteCall, storeVars, callVars
  <2>2. ghost'.buried = ghost.buried
    BY <1>0, <1>6 DEF Switch, CreateCall, DeleteCall, Ghost
  <2>3. QED
    BY <1>5, <2>1, <2>2
<1>7. ASSUME NEW s \in Ids, Rename(s)
      PROVE  BuriedInv'
  <2>1. UNCHANGED <<stored, planFiles, saves, clearing, run, titling>> /\ DOMAIN rows' = DOMAIN rows
    BY <1>0, <1>7 DEF Rename, callVars
  <2>2. ghost'.buried = ghost.buried
    BY <1>0, <1>7 DEF Rename, Ghost
  <2>3. QED
    BY <1>5, <2>1, <2>2
<1>8. ASSUME NEW v \in saves, ApplySave(v)
      PROVE  BuriedInv'
  <2>1. v.s \in Ids /\ v.s \notin ghost.buried
    BY <1>0 DEF BuriedInv
  <2>2. /\ UNCHANGED <<planFiles, clearing, run, titling, ghost>> /\ saves' = saves \ {v}
        /\ rows' = withRow(v.s) /\ stored' = [stored EXCEPT ![v.s] = v.msgs]
    BY <1>8 DEF ApplySave
  <2>3. DOMAIN rows' \subseteq DOMAIN rows \cup {v.s}
    BY <2>1, <2>2, WithRowType
  <2>4. \A s \in ghost.buried : stored'[s] = stored[s]
    BY <1>0, <2>1, <2>2 DEF Ghost
  <2>5. QED
    BY <2>1, <2>2, <2>3, <2>4, BuriedSame DEF live, finished
<1>9. ASSUME NEW c \in creating, CreateReturn(c)
      PROVE  BuriedInv'
  <2>1. c.id \in Ids /\ c.id \notin ghost.buried
    BY DEF TypeOK, IdsInv
  <2>2. /\ UNCHANGED <<stored, planFiles, saves, clearing, run, titling>>
        /\ rows' = withRow(c.id)
    BY <1>9 DEF CreateReturn
  <2>3. ghost'.buried = ghost.buried
    BY <1>0, <1>9 DEF CreateReturn, Ghost
  <2>4. DOMAIN rows' \subseteq DOMAIN rows \cup {c.id}
    BY <2>1, <2>2, WithRowType
  <2>5. QED
    BY <2>1, <2>2, <2>3, <2>4, BuriedSame DEF live, finished
<1>10. ASSUME NEW d \in deleting, DeleteReturn(d)
       PROVE  BuriedInv'
  <2>1. /\ UNCHANGED <<saves, clearing, run, titling>> /\ planFiles' = planFiles \ {d.s}
        /\ rows' = [s \in DOMAIN rows \ {d.s} |-> rows[s]]
        /\ stored' = [stored EXCEPT ![d.s] = <<>>]
    BY <1>10 DEF DeleteReturn
  <2>2. /\ ghost'.buried \subseteq ghost.buried \cup {d.s}
        /\ d.s \in ghost'.buried => d.s \in ghost.buried \/ (d.s \notin inFlight /\ ~titlingIn(d.s))
    BY <1>10, DeleteParts
  <2>3. d.s \in ghost'.buried =>
          /\ (\A v \in saves : v.s # d.s) /\ d.s \notin clearing
          /\ \A p \in Runs : titling[p] # "none" \/ live(p) => run[p].home # d.s
    <3>1. CASE d.s \in ghost.buried
      BY <3>1 DEF BuriedInv, live
    <3>2. CASE d.s \notin inFlight /\ ~titlingIn(d.s)
      BY <1>0, <3>2 DEF inFlight, titlingIn, live, TypeOK
    <3>3. QED
      BY <2>2, <3>1, <3>2
  <2>4. BuriedStays'
    <3>1. stored'[d.s] = <<>> /\ \A s \in Ids \ {d.s} : stored'[s] = stored[s]
      BY <1>0, <2>1 DEF TypeOK
    <3>2. QED
      BY <1>0, <2>1, <2>2, <3>1 DEF BuriedInv, BuriedStays, hasRow, Ghost
  <2>5. /\ \A v \in saves' : v.s \notin ghost'.buried
        /\ \A s \in clearing' : s \notin ghost'.buried
    BY <2>1, <2>2, <2>3 DEF BuriedInv
  <2>6. \A p \in Runs : titling[p] # "none" \/ live(p) => run[p].home \notin ghost'.buried
    BY <2>2, <2>3 DEF BuriedInv, live
  <2>7. QED
    BY <2>1, <2>4, <2>5, <2>6 DEF BuriedInv, live, finished
<1>11. ASSUME NEW r \in Runs, TitleCheck(r)
       PROVE  BuriedInv'
  <2>1. run[r].home \in Ids /\ run[r].home \notin ghost.buried
    BY <1>0, <1>11 DEF TitleCheck, BuriedInv, Run
  <2>2. /\ UNCHANGED <<stored, planFiles, saves, clearing, run, ghost>>
        /\ rows' = withRow(run[r].home) \/ rows' = rows
        /\ \A p \in Runs \ {r} : titling'[p] = titling[p]
    BY <1>0, <1>11 DEF TitleCheck, callVars
  <2>3. DOMAIN rows' \subseteq DOMAIN rows \cup {run[r].home}
    BY <2>1, <2>2, WithRowType
  <2>4. \A p \in Runs : run'[p].home = run[r].home \/ (run'[p] = run[p] /\ titling'[p] = titling[p])
    BY <2>2
  <2>5. QED
    BY <2>1, <2>2, <2>3, <2>4, BuriedSame DEF live, finished
<1>12. ASSUME NEW r \in Runs, TitleWrite(r)
       PROVE  BuriedInv'
  <2>1. /\ UNCHANGED <<stored, planFiles, saves, clearing, run, ghost>> /\ DOMAIN rows' = DOMAIN rows
        /\ \A p \in Runs : titling'[p] # "none" => titling[p] # "none"
    BY <1>0, <1>12 DEF TitleWrite, callVars
  <2>2. QED
    BY <2>1 DEF BuriedInv, BuriedStays, hasRow, finished
<1>13. CASE Setback
  <2>1. /\ UNCHANGED <<rows, run, titling>> /\ ghost'.buried = ghost.buried
        /\ planFiles' \subseteq planFiles /\ clearing' \subseteq clearing
        /\ \A v \in saves' : v \in saves \/ v.s \in clearing
    BY <1>13, SetbackStep DEF Unmoved
  <2>2. \A s \in ghost.buried : stored'[s] = stored[s] \/ stored'[s] = <<>>
    <3>1. ASSUME NEW s \in ghost.buried
          PROVE  stored'[s] = stored[s] \/ stored'[s] = <<>>
      <4>1. s \in Ids /\ \A v \in saves : v.s # s
        BY <1>0 DEF BuriedInv, Ghost
      <4>2. QED
        BY <1>13, <4>1, SetbackStep
    <3>2. QED
      BY <3>1
  <2>3. BuriedStays'
    BY <2>1, <2>2 DEF BuriedInv, BuriedStays, hasRow
  <2>4. QED
    BY <2>1, <2>3 DEF BuriedInv, finished
<1>14. CASE UNCHANGED vars
  BY <1>5, <1>14 DEF vars, storeVars, callVars
<1>15. QED
  BY <1>1, <1>2, <1>3, <1>4, <1>6, <1>7, <1>8, <1>9, <1>10, <1>11, <1>12, <1>13, <1>14, StepKinds

(* BuriedStays: agentDeleteSession of a session of which nothing is under  *)
(* way leaves neither a row, nor a message, nor a plan, for good; no save, *)
(* title or creation that ends later brings any of them back.              *)
THEOREM PanelBuriedStays == Spec => []BuriedStays
<1>1. Init => IdsInv /\ BuriedInv
  BY DEF Init, IdsInv, BuriedInv, BuriedStays
<1>2. BuriedInv => BuriedStays
  BY DEF BuriedInv
<1>3. QED
  BY <1>1, <1>2, PanelTypeInit, PanelTypeStep, IdsStep, BuriedStep, PTL DEF Spec

-----------------------------------------------------------------------------
(* LIST HONEST                                                             *)

(* ListInv speaks of the list, its calls and the rows there are.           *)
LEMMA ListSame ==
  ASSUME ListInv, UNCHANGED <<sessions, creating, deleting>>,
         DOMAIN rows \subseteq DOMAIN rows', ghost'.overlap = ghost.overlap,
         ghost'.bare = ghost.bare,
         active' = active \/ active' \in sessions
  PROVE  ListInv'
BY DEF ListInv, Honest

(* Every step keeps ListInv.                                               *)
LEMMA ListStep ==
  ASSUME TypeOK, ListInv, [Next]_vars
  PROVE  ListInv'
<1>0. ghost \in Ghost /\ rows \in [DOMAIN rows -> Titles]
  BY DEF TypeOK, Ghost
<1>1. ASSUME NEW r \in Runs, Round(r)
      PROVE  ListInv'
  BY <1>1, RoundStep, ListSame DEF Unmoved
<1>2. CASE Quiet
  BY <1>2, QuietStep, ListSame DEF Unmoved
<1>3. ASSUME NEW r \in Runs, Opening(r)
      PROVE  ListInv'
  BY <1>3, OpeningStep, ListSame
<1>4. CASE Clear
  BY <1>0, <1>4, ListSame DEF Clear, Ghost, storeVars
<1>5. ASSUME NEW s \in Ids, Switch(s) \/ Rename(s)
      PROVE  ListInv'
  <2>1. /\ UNCHANGED <<sessions, creating, deleting>> /\ DOMAIN rows' = DOMAIN rows
        /\ active' = active \/ active' \in sessions
    BY <1>0, <1>5 DEF Switch, Rename, storeVars, panelVars, callVars
  <2>2. ghost'.overlap = ghost.overlap /\ ghost'.bare = ghost.bare
    BY <1>0, <1>5 DEF Switch, Rename, Ghost
  <2>3. QED
    BY <2>1, <2>2, ListSame
<1>6. ASSUME NEW s \in Ids, CreateCall(s)
      PROVE  ListInv'
  <2>1. /\ creating' = creating \cup {[id |-> s, sole |-> FALSE]}
        /\ UNCHANGED <<rows, sessions, active, deleting>>
    BY <1>6 DEF CreateCall, storeVars, panelVars
  <2>2. /\ ~ghost'.overlap => ~ghost.overlap /\ creating = {} /\ deleting = {}
        /\ ghost'.bare = ghost.bare
    BY <1>0, <1>6 DEF CreateCall, Ghost, busyList
  <2>3. ASSUME ~ghost'.overlap
        PROVE  /\ Honest /\ deleting' = {}
               /\ \A c \in creating' : c = [id |-> s, sole |-> FALSE]
    BY <2>1, <2>2, <2>3 DEF ListInv
  <2>4. ASSUME ~ghost'.overlap
        PROVE  (\A c \in creating' : ~c.sole) /\ (\A c, e \in creating' : c = e) /\ Honest'
    <3>1. \A c \in creating' : ~c.sole
      BY <2>3, <2>4
    <3>2. QED
      BY <2>1, <2>2, <2>3, <2>4, <3>1 DEF Honest
  <2>5. QED
    BY <2>3, <2>4 DEF ListInv
<1>7. ASSUME NEW s \in Ids, DeleteCall(s)
      PROVE  ListInv'
  <2>1. /\ s \in sessions /\ deleting' = deleting \cup {[s |-> s, list |-> sessions]}
        /\ UNCHANGED <<rows, sessions, active, creating>>
    BY <1>7 DEF DeleteCall, storeVars, panelVars
  <2>2. /\ ~ghost'.overlap => ~ghost.overlap /\ creating = {} /\ deleting = {}
        /\ ghost'.bare = ghost.bare
    BY <1>0, <1>7 DEF DeleteCall, Ghost, busyList
  <2>3. ASSUME ~ghost'.overlap
        PROVE  /\ Honest /\ creating' = {}
               /\ \A d \in deleting' : d = [s |-> s, list |-> sessions]
    BY <2>1, <2>2, <2>3 DEF ListInv
  <2>4. QED
    BY <2>1, <2>2, <2>3 DEF ListInv, Honest
<1>8. ASSUME NEW v \in saves, ApplySave(v)
      PROVE  ListInv'
  <2>1. v.s \in Ids
    BY DEF TypeOK
  <2>2. DOMAIN rows \subseteq DOMAIN rows'
    BY <1>8, <2>1, WithRowType DEF ApplySave
  <2>3. QED
    BY <1>8, <2>2, ListSame DEF ApplySave, panelVars
<1>9. ASSUME NEW c \in creating, CreateReturn(c)
      PROVE  ListInv'
  <2>1. c.id \in Ids
    BY DEF TypeOK
  <2>2. /\ creating' = creating \ {c} /\ deleting' = deleting /\ active' = c.id
        /\ sessions' = IF c.sole THEN {c.id} ELSE sessions \cup {c.id}
        /\ rows' = withRow(c.id)
    BY <1>9 DEF CreateReturn
  <2>3. DOMAIN rows' = DOMAIN rows \cup {c.id}
    BY <2>1, <2>2, WithRowType
  <2>4. ghost'.overlap = ghost.overlap /\ ~ghost'.bare
    BY <1>0, <1>9 DEF CreateReturn, Ghost
  <2>5. ASSUME ~ghost.overlap
        PROVE  creating' = {} /\ deleting' = {} /\ Honest'
    <3>1. deleting = {} /\ (\A e \in creating : e = c) /\ (~c.sole => Honest)
      BY <2>5 DEF ListInv
    <3>2. Honest'
      BY <2>2, <2>3, <2>4, <3>1 DEF Honest
    <3>3. QED
      BY <2>2, <3>1, <3>2
  <2>6. QED
    BY <2>4, <2>5 DEF ListInv
<1>10. ASSUME NEW d \in deleting, DeleteReturn(d)
       PROVE  ListInv'
  <2>1. /\ deleting' = deleting \ {d} /\ sessions' = d.list \ {d.s}
        /\ ghost'.overlap = ghost.overlap /\ ghost'.bare = ghost.bare
    BY <1>10, DeleteParts
  <2>2. \/ active # d.s /\ active' = active /\ creating' = creating
        \/ active' \in d.list \ {d.s} /\ creating' = creating
        \/ /\ d.list = {d.s}
           /\ \E c \in Ids : creating' = creating \cup {[id |-> c, sole |-> TRUE]}
    BY <1>10, DeleteParts, Zenon
  <2>3. DOMAIN rows' = DOMAIN rows \ {d.s}
    BY <1>10 DEF DeleteReturn
  <2>4. ASSUME ~ghost.overlap
        PROVE  /\ deleting' = {} /\ \A c, e \in creating' : c = e
               /\ \A c \in creating' : c.sole => sessions' = {}
               /\ (\A c \in creating' : ~c.sole) => Honest'
    <3>1. /\ creating = {} /\ (\A e \in deleting : e = d) /\ d.list = sessions
          /\ Honest /\ ~ghost.bare
      BY <2>4 DEF ListInv, Honest
    <3>2. CASE creating' = creating
      <4>1. active' \in sessions'
        BY <2>1, <2>2, <3>1, <3>2 DEF Honest
      <4>2. QED
        BY <2>1, <2>3, <3>1, <3>2, <4>1 DEF Honest
    <3>3. ASSUME NEW c \in Ids, creating' = creating \cup {[id |-> c, sole |-> TRUE]},
                 d.list = {d.s}
          PROVE  /\ \A e \in creating' : e = [id |-> c, sole |-> TRUE]
                 /\ \E e \in creating' : e.sole
                 /\ sessions' = {}
      BY <2>1, <3>1, <3>3
    <3>4. QED
      BY <2>1, <2>2, <3>1, <3>2, <3>3
  <2>5. QED
    BY <2>1, <2>4 DEF ListInv
<1>11. ASSUME NEW r \in Runs, TitleCheck(r)
       PROVE  ListInv'
  <2>1. run[r].home \in Ids
    BY DEF TypeOK, Run
  <2>2. DOMAIN rows \subseteq DOMAIN rows'
    BY <1>11, <2>1, WithRowType DEF TitleCheck
  <2>3. QED
    BY <1>11, <2>2, ListSame DEF TitleCheck, panelVars, callVars
<1>12. ASSUME NEW r \in Runs, TitleWrite(r)
       PROVE  ListInv'
  <2>1. DOMAIN rows' = DOMAIN rows
    BY <1>0, <1>12 DEF TitleWrite
  <2>2. QED
    BY <1>12, <2>1, ListSame DEF TitleWrite, panelVars, callVars
<1>13. CASE Setback
  <2>1. /\ UNCHANGED <<rows, sessions, active>> /\ ghost'.overlap = ghost.overlap
        /\ creating' \subseteq creating /\ deleting' \subseteq deleting
        /\ \/ ghost'.bare = ghost.bare
           \/ ghost'.bare /\ \E c \in creating \ creating' : c.sole
        /\ \A c \in creating \ creating' : c.sole => ghost'.bare
    BY <1>13, SetbackStep DEF Unmoved
  <2>2. ASSUME ~ghost.overlap, \A c \in creating' : ~c.sole
        PROVE  Honest'
    <3>1. CASE \A c \in creating : ~c.sole
      BY <2>1, <2>2, <3>1 DEF ListInv, Honest
    <3>2. ASSUME NEW c \in creating, c.sole
          PROVE  Honest'
      <4>1. sessions = {} /\ creating = {c}
        BY <2>2, <3>2 DEF ListInv
      <4>2. c \in creating \ creating'
        BY <2>2, <3>2
      <4>3. ghost'.bare
        BY <2>1, <3>2, <4>2
      <4>4. QED
        BY <2>1, <4>1, <4>3 DEF Honest
    <3>3. QED
      BY <3>1, <3>2
  <2>3. QED
    BY <2>1, <2>2 DEF ListInv
<1>14. CASE UNCHANGED vars
  BY <1>14, ListSame DEF vars, storeVars, panelVars, callVars
<1>15. QED
  BY <1>1, <1>2, <1>3, <1>4, <1>5, <1>6, <1>7, <1>8, <1>9, <1>10, <1>11, <1>12, <1>13, <1>14,
     StepKinds

(* ListHonest: as long as no createSession or deleteSession was started    *)
(* before another had returned, the list built from the one a deletion     *)
(* remembered has only sessions of the store, and the one shown is in it;  *)
(* or it is empty, the last session having been deleted and                *)
(* agentCreateSession having failed.                                       *)
THEOREM PanelListHonest == Spec => []ListHonest
<1>1. Init => ListInv
  BY SessionsAssumption DEF Init, ListInv, Honest
<1>2. ListInv => ListHonest
  BY DEF ListInv, ListHonest, Honest, busyList
<1>3. QED
  BY <1>1, <1>2, PanelTypeInit, PanelTypeStep, ListStep, PTL DEF Spec

=============================================================================
