----------------------- MODULE AgentPanelHistory_proofs -----------------------
(***************************************************************************)
(* The history of a session the user left in peace, for any number of      *)
(* rounds and sessions: AgentPanel's QuietHistory.                         *)
(*                                                                         *)
(* What is stored comes from a save, a save from the messages shown, and   *)
(* those from a load or from the events and replies of a round, so the     *)
(* invariant speaks of all of them: the history stored (StoredInv), the    *)
(* calls under way (CallsInv) and the messages shown (ShownInv).  It holds *)
(* because in such a session only one round is under way, whose answer is  *)
(* the last message, and nothing of another session is (FlightInv).  A     *)
(* load or a save that fails ends what is promised of the answers, and a   *)
(* reply that overtakes the last event what is promised of their length.   *)
(***************************************************************************)
EXTENDS AgentPanel_proofs

(* The rounds of a session and, unless a load or a save of it has failed,  *)
(* those that succeeded, and those of them whose reply was dealt with.     *)
own(s) == {r \in Runs : run[r].home = s /\ run[r].at # "idle"}
succeeded(r) == run[r].kind = "chat" /\ run[r].out = "ok"
well(s) == {r \in own(s) : succeeded(r) /\ s \notin ghost.failed}
dealt(r) == succeeded(r) /\ "reply" \notin run[r].todo
due(s) == {r \in own(s) : dealt(r) /\ s \notin ghost.failed}

(* A chat of which neither the event nor the reply has arrived.            *)
untold(r) ==
  run[r].kind = "chat" /\ (run[r].at # "ended" \/ run[r].todo = {"event", "reply"})

(* Histories: of some rounds alone; with the answer of a round, and the    *)
(* whole of it but for those of L; ending with the answer of a round.      *)
Within(m, R) == \A i \in DOMAIN m : m[i].run \in R /\ m[i].text \subseteq R

Complete(a, r, L) ==
  /\ a.role = "assistant" /\ a.run = r /\ a.running = {} /\ a.text = {r}
  /\ a.part => r \in L

Holds(m, R, L) == \A r \in R : \E i \in DOMAIN m : Complete(m[i], r, L)

Answering(m, r) ==
  lastIsAnswer(m) /\ m[Len(m)].run = r /\ m[Len(m)].text \subseteq {r}

Told(s, m) == Within(m, own(s)) /\ Holds(m, due(s), ghost.late)

(* A round ends once, and a reply that overtakes the event is remembered.  *)
RoundsInv ==
  \A r \in Runs : /\ run[r].at # "ended" => run[r].out = "none" /\ run[r].todo = {}
                  /\ run[r].todo = {"event"} => r \in ghost.late

(* Chunks that wait are of rounds whose end has not been heard.            *)
BufferInv ==
  \A r \in buffer : /\ run[r].home = subscribed /\ run[r].at \notin {"idle", "approving"}
                    /\ run[r].at = "ended" => "event" \in run[r].todo

(* Nothing has happened yet in a session that is being created.            *)
HomeInv ==
  /\ active \in ghost.used
  /\ \A r \in Runs : run[r].at # "idle" => run[r].home \in ghost.used
  /\ \A c \in creating : c.id # active /\ own(c.id) = {}

(* What is under way belongs to the session shown or a disturbed one; and  *)
(* a session that is being cleared is disturbed, with ai_agent_default.    *)
FlightInv ==
  /\ clearing \subseteq ghost.disturbed /\ (clearing # {} => Default \in ghost.disturbed)
  /\ inFlight \subseteq ghost.disturbed \cup {active}
  /\ active \notin ghost.disturbed => inFlight \subseteq {active}

StoredInv ==
  \A s \in Ids \ ghost.disturbed :
    /\ Within(stored[s], own(s))
    /\ (s = active /\ saves # {}) \/ Holds(stored[s], due(s), ghost.late)

CallsInv ==
  active \notin ghost.disturbed =>
    /\ \A v \in saves : Within(v.msgs, own(active)) /\ Holds(v.msgs, well(active), ghost.late)
    /\ loads # {} => saves = {} /\ \A r \in Runs : ~live(r)
    /\ \A l \in loads : l.read => Told(active, l.got)

(* The answer of a chat is put together from chunks while it is heard, and *)
(* until its end is.                                                       *)
Partly(r) ==
  lastAnswer(messages, r).part /\ run[r].kind = "chat" =>
    heard(r) /\ (succeeded(r) => "event" \in run[r].todo)

(* The round under way: it is the only one, no history was saved before a  *)
(* chat has an event or a reply to show, and its answer is the last        *)
(* message.                                                                *)
Working(r) ==
  /\ \A q \in Runs : live(q) => q = r
  /\ untold(r) => saves = {}
  /\ run[r].at # "approving" => Answering(messages, r) /\ Partly(r)

ShownInv ==
  active \notin ghost.disturbed /\ loads = {} =>
    /\ Told(active, messages)
    /\ \A r \in Runs : live(r) => Working(r)

HistoryInv == StoredInv /\ CallsInv /\ ShownInv

-----------------------------------------------------------------------------
(* Histories.                                                              *)

(* A history of which only plans, and steps that are over, have changed.   *)
Kept(m, n) ==
  /\ n \in History /\ DOMAIN n = DOMAIN m
  /\ \A i \in DOMAIN m :
       /\ n[i].role = m[i].role /\ n[i].run = m[i].run /\ n[i].text = m[i].text
       /\ n[i].part = m[i].part /\ (m[i].running = {} => n[i].running = {})

(* Such a history says the same of every round.                            *)
LEMMA KeptFacts ==
  ASSUME NEW m \in History, NEW n, Kept(m, n), NEW R, NEW L
  PROVE  /\ Within(m, R) => Within(n, R)
         /\ Holds(m, R, L) => Holds(n, R, L)
         /\ \A r \in Runs : Answering(m, r) =>
              Answering(n, r) /\ lastAnswer(n, r).part = lastAnswer(m, r).part
<1>1. DOMAIN m = 1 .. Len(m) /\ DOMAIN n = 1 .. Len(n) /\ Len(m) \in Nat /\ Len(n) \in Nat
  BY HistoryDef DEF Kept
<1>2. Len(n) = Len(m) /\ (m # <<>> => n # <<>> /\ Len(m) \in DOMAIN m)
  BY <1>1, EmptySeq DEF Kept, History
<1>3. Within(m, R) => Within(n, R)
  BY DEF Kept, Within
<1>4. Holds(m, R, L) => Holds(n, R, L)
  BY DEF Kept, Holds, Complete
<1>5. \A r \in Runs : Answering(m, r) =>
        Answering(n, r) /\ lastAnswer(n, r).part = lastAnswer(m, r).part
  BY <1>2 DEF Kept, Answering, lastIsAnswer, lastAnswer
<1>6. QED
  BY <1>3, <1>4, <1>5

(* Expiring plans keeps a history in that sense.                           *)
LEMMA ExpireKept ==
  ASSUME NEW m \in History, NEW keep
  PROVE  Kept(m, expirePlans(m, keep))
<1>1. expirePlans(m, keep) \in History /\ DOMAIN expirePlans(m, keep) = DOMAIN m
  BY ExpireType
<1>2. ASSUME NEW i \in DOMAIN m
      PROVE  /\ expirePlans(m, keep)[i].role = m[i].role /\ expirePlans(m, keep)[i].run = m[i].run
             /\ expirePlans(m, keep)[i].text = m[i].text
             /\ expirePlans(m, keep)[i].part = m[i].part
             /\ expirePlans(m, keep)[i].running = m[i].running
  <2>1. m[i] \in Message
    BY HistoryDef
  <2>2. expirePlans(m, keep)[i] \in {m[i], [m[i] EXCEPT !.plan = "expired"]}
    BY DEF expirePlans
  <2>3. QED
    BY <2>1, <2>2 DEF Message
<1>3. QED
  BY <1>1, <1>2 DEF Kept

(* So does proposing or approving one.                                     *)
LEMMA PlanKept ==
  ASSUME NEW m \in History, NEW k, NEW p \in {"proposed", "approved"}
  PROVE  Kept(m, [m EXCEPT ![k].plan = p])
<1> DEFINE n == [m EXCEPT ![k].plan = p]
<1>1. n \in History
  BY PlanType
<1>2. DOMAIN n = DOMAIN m
  OBVIOUS
<1>3. ASSUME NEW i \in DOMAIN m
      PROVE  /\ n[i].role = m[i].role /\ n[i].run = m[i].run
             /\ n[i].text = m[i].text /\ n[i].part = m[i].part
             /\ n[i].running = m[i].running
  <2>1. m[i] \in Message
    BY HistoryDef
  <2>2. n[i] \in {m[i], [m[i] EXCEPT !.plan = p]}
    OBVIOUS
  <2>3. QED
    BY <2>1, <2>2 DEF Message
<1>4. QED
  BY <1>1, <1>2, <1>3 DEF Kept

(* Keeping is reflexive and transitive.                                    *)
LEMMA KeptTwice ==
  ASSUME NEW m \in History, NEW n, NEW k
  PROVE  Kept(m, m) /\ (Kept(m, n) /\ Kept(n, k) => Kept(m, k))
BY DEF Kept

(* What a load reads is kept from what is stored.                          *)
LEMMA RecoveredKept ==
  ASSUME TypeOK, NEW s \in Ids
  PROVE  Kept(stored[s], recovered(s))
<1> DEFINE last == CHOOSE i \in {k \in DOMAIN stored[s] : stored[s][k].role = "assistant"} :
                     \A j \in {k \in DOMAIN stored[s] : stored[s][k].role = "assistant"} : j <= i
<1>1. stored[s] \in History
  BY DEF TypeOK
<1>2. Kept(stored[s], [stored[s] EXCEPT ![last].plan = "proposed"]) /\ Kept(stored[s], stored[s])
  <2> HIDE DEF last
  <2>1. QED
    BY <1>1, PlanKept, KeptTwice
<1>3. recovered(s) \in {stored[s], [stored[s] EXCEPT ![last].plan = "proposed"]}
  BY DEF recovered
<1>4. QED
  BY <1>2, <1>3

(* A new last answer of the round whose answer is the last one: the other  *)
(* rounds lose nothing, and nothing of another session comes in.           *)
LEMMA RewriteFacts ==
  ASSUME NEW m \in History, NEW r \in Runs, Answering(m, r),
         NEW a \in Message, a.role = "assistant", a.run = r, a.text \subseteq {r}, NEW R, NEW L
  PROVE  LET n == onLast(m, a)
         IN  /\ appendOrUpdateAssistant(m, a) = n /\ n \in History
             /\ Answering(n, r) /\ lastAnswer(n, r) = a
             /\ Within(m, R) /\ r \in R => Within(n, R)
             /\ Holds(m, R, L) => Holds(n, R \ {r}, L)
             /\ Complete(a, r, L) => Holds(n, {r}, L)
             /\ (Complete(m[Len(m)], r, L) => Complete(a, r, L)) /\ Holds(m, R, L) => Holds(n, R, L)
<1> DEFINE n == onLast(m, a)
<1>1. DOMAIN m = 1 .. Len(m) /\ Len(m) \in Nat /\ lastIsAnswer(m) /\ m # <<>> /\ m \in Seq(Message)
  BY HistoryDef DEF Answering, lastIsAnswer, History
<1>2. Len(m) \in DOMAIN m
  BY <1>1, EmptySeq
<1>3. n = [m EXCEPT ![Len(m)] = a] /\ appendOrUpdateAssistant(m, a) = n
  BY <1>1 DEF onLast, appendOrUpdateAssistant
<1>4. n \in History
  BY UpdateType
<1>5. DOMAIN n = DOMAIN m /\ n[Len(m)] = a /\ \A i \in DOMAIN m \ {Len(m)} : n[i] = m[i]
  BY <1>2, <1>3
<1>6. Len(n) = Len(m) /\ n # <<>>
  <2>1. DOMAIN n = 1 .. Len(n) /\ Len(n) \in Nat
    BY <1>4, HistoryDef
  <2>2. QED
    BY <1>1, <1>2, <1>5, <2>1, EmptySeq
<1> HIDE DEF n
<1>7. Answering(n, r) /\ lastAnswer(n, r) = a
  BY <1>5, <1>6 DEF Answering, lastIsAnswer, lastAnswer
<1>8. Within(m, R) /\ r \in R => Within(n, R)
  BY <1>5 DEF Within
<1>9. ASSUME Holds(m, R, L), NEW q \in R \ {r}
      PROVE  \E i \in DOMAIN n : Complete(n[i], q, L)
  <2>1. PICK i \in DOMAIN m : Complete(m[i], q, L)
    BY <1>9 DEF Holds
  <2>2. i # Len(m)
    BY <2>1 DEF Complete, Answering
  <2>3. QED
    BY <1>5, <2>1, <2>2
<1>10. Complete(a, r, L) => Holds(n, {r}, L)
  BY <1>2, <1>5 DEF Holds
<1>11. (Complete(m[Len(m)], r, L) => Complete(a, r, L)) /\ Holds(m, R, L) => Holds(n, R, L)
  <2>1. ASSUME Complete(m[Len(m)], r, L) => Complete(a, r, L), Holds(m, R, L), NEW q \in R
        PROVE  \E i \in DOMAIN n : Complete(n[i], q, L)
    <3>1. PICK i \in DOMAIN m : Complete(m[i], q, L)
      BY <2>1 DEF Holds
    <3>2. CASE i = Len(m)
      <4>1. q = r
        BY <3>1, <3>2 DEF Complete, Answering
      <4>2. QED
        BY <1>2, <1>5, <2>1, <3>1, <3>2, <4>1
    <3>3. CASE i # Len(m)
      BY <1>5, <3>1, <3>3
    <3>4. QED
      BY <3>2, <3>3
  <2>2. QED
    BY <2>1 DEF Holds
<1>12. Holds(m, R, L) => Holds(n, R \ {r}, L)
  BY <1>9 DEF Holds
<1>13. QED
  BY <1>3, <1>4, <1>7, <1>8, <1>10, <1>11, <1>12 DEF n

(* A question and an empty answer are appended.                            *)
LEMMA AppendFacts ==
  ASSUME NEW m \in History, NEW r \in Runs, NEW R, NEW O, NEW L, r \in O
  PROVE  /\ Within(m, O) => /\ Within(m \o <<question(r), blank(r)>>, O)
                            /\ Within(Append(m, question(r)), O)
         /\ Holds(m, R, L) => /\ Holds(m \o <<question(r), blank(r)>>, R, L)
                              /\ Holds(Append(m, question(r)), R, L)
         /\ Answering(m \o <<question(r), blank(r)>>, r)
         /\ ~lastAnswer(m \o <<question(r), blank(r)>>, r).part
<1>1. m \in Seq(Message) /\ DOMAIN m = 1 .. Len(m) /\ Len(m) \in Nat
  BY HistoryDef DEF History
<1>2. question(r) \in Message /\ blank(r) \in Message
  BY BlankType
<1>3. /\ question(r).run = r /\ question(r).text = {r}
      /\ blank(r).run = r /\ blank(r).text = {} /\ blank(r).role = "assistant"
      /\ ~blank(r).part
  BY DEF question, blank
<1>4. PICK n : n = m \o <<question(r), blank(r)>>
  OBVIOUS
<1>5. PICK k : k = Append(m, question(r))
  OBVIOUS
<1>6. PICK q : q = question(r)
  OBVIOUS
<1>7. PICK b : b = blank(r)
  OBVIOUS
<1>8. /\ Len(n) = Len(m) + 2 /\ DOMAIN n = 1 .. Len(m) + 2
      /\ \A i \in 1 .. Len(m) : n[i] = m[i]
      /\ n[Len(m) + 1] = q /\ n[Len(m) + 2] = b
  <2>1. <<q, b>> \in Seq(Message) /\ n = m \o <<q, b>>
    BY <1>2, <1>4, <1>6, <1>7
  <2>2. QED
    BY <1>1, <2>1, ConcatProperties
<1>9. /\ DOMAIN k = 1 .. Len(m) + 1 /\ \A i \in 1 .. Len(m) : k[i] = m[i]
      /\ k[Len(m) + 1] = q
  BY <1>1, <1>2, <1>5, <1>6, AppendProperties
<1>10. Within(m, O) => Within(n, O) /\ Within(k, O)
  BY <1>1, <1>3, <1>6, <1>7, <1>8, <1>9 DEF Within
<1>11. Holds(m, R, L) => Holds(n, R, L) /\ Holds(k, R, L)
  BY <1>1, <1>8, <1>9 DEF Holds
<1>12. Answering(n, r) /\ ~lastAnswer(n, r).part
  <2>1. n # <<>>
    BY <1>1, <1>8
  <2>2. n[Len(n)] = b
    BY <1>8
  <2>3. QED
    BY <1>3, <1>7, <2>1, <2>2 DEF Answering, lastIsAnswer, lastAnswer
<1>13. QED
  BY <1>4, <1>5, <1>10, <1>11, <1>12

-----------------------------------------------------------------------------
(* What the steps do to the rounds, the chunks and the calls.              *)

(* A round ends with Finish alone, loses no call, and hears of its end     *)
(* only with an empty buffer.  A reply before the event is remembered.     *)
LEMMA RoundMore ==
  ASSUME TypeOK, NEW r \in Runs, Round(r)
  PROVE  /\ loads' = loads /\ saves \subseteq saves' /\ subscribed' = subscribed
         /\ run'[r].at \notin {"idle", "approving"}
         /\ run'[r].at # "ended" => run[r].at # "ended" /\ run'[r].out = run[r].out
                                    /\ run'[r].todo = run[r].todo
         /\ \/ buffer' \subseteq buffer
            \/ /\ buffer' \subseteq buffer \cup {r} /\ heard(r) /\ run' = run
               /\ run[r].at = "thinking" \/ "event" \in run[r].todo
         /\ run'[r].at = "ended" =>
              \/ "event" \in run'[r].todo
              \/ run[r].at = "ended" /\ "event" \notin run[r].todo
              \/ r \notin buffer' \/ ~heard(r)
         /\ ghost.late \subseteq ghost'.late
         /\ run'[r].todo = {"event"} => run[r].todo = {"event"} \/ r \in ghost'.late
<1>1. run \in [Runs -> Run] /\ ghost \in Ghost
  BY DEF TypeOK
<1> USE DEF noCall, storeVars, panelVars, callVars
<1>2. CASE Chunk(r)
  BY <1>1, <1>2 DEF Chunk, Run
<1>3. CASE ToolStart(r)
  BY <1>1, <1>3 DEF ToolStart, onAnswer, Run
<1>4. CASE ToolEvent(r)
  BY <1>1, <1>4 DEF ToolEvent, onAnswer, Run
<1>5. CASE AskUser(r)
  <2>1. ghost'.late = ghost.late
    BY <1>1, <1>5 DEF AskUser, Ghost
  <2>2. QED
    BY <1>1, <1>5, <2>1 DEF AskUser, onAnswer, Run
<1>6. CASE AskTimeout(r)
  BY <1>1, <1>6 DEF AskTimeout, Run
<1>7. ASSUME NEW out \in {"ok", "stopped", "error"}, Finish(r, out)
      PROVE  /\ UNCHANGED <<loads, saves, subscribed, buffer, ghost>>
             /\ run'[r].at = "ended" /\ run'[r].todo = {"event", "reply"}
  BY <1>1, <1>7 DEF Finish, Run
<1>8. CASE DoneEvent(r)
  <2>1. /\ saves \subseteq saves' /\ buffer' \subseteq buffer /\ (heard(r) => buffer' = {})
        /\ loads' = loads /\ subscribed' = subscribed /\ ghost' = ghost
    BY <1>8 DEF DoneEvent, onAnswer
  <2>2. run[r].at = "ended" /\ run'[r].at = "ended" /\ "event" \notin run'[r].todo
    BY <1>1, <1>8 DEF DoneEvent, Run
  <2>3. QED
    BY <2>1, <2>2
<1>9. CASE ErrorEvent(r)
  BY <1>1, <1>9 DEF ErrorEvent, onAnswer, Run
<1>10. CASE Reply(r)
  <2>1. /\ saves \subseteq saves' /\ UNCHANGED <<loads, subscribed, buffer>>
        /\ run[r].at = "ended" /\ run' = [run EXCEPT ![r].todo = @ \ {"reply"}]
    BY <1>10 DEF Reply
  <2>2. /\ ghost.late \subseteq ghost'.late
        /\ "event" \in run[r].todo => r \in ghost'.late
    BY <1>1, <1>10 DEF Reply, Ghost
  <2>3. QED
    BY <1>1, <2>1, <2>2 DEF Run
<1>11. CASE ApproveSend(r)
  BY <1>1, <1>11 DEF ApproveSend, start, Run
<1>12. QED
  BY <1>2, <1>3, <1>4, <1>5, <1>6, <1>7, <1>8, <1>9, <1>10, <1>11 DEF Round, Backend

(* Quiet steps end no round and leave loads of the same sessions.          *)
LEMMA QuietMore ==
  ASSUME TypeOK, Quiet
  PROVE  /\ \A p \in Runs : run'[p].out = run[p].out /\ run'[p].kind = run[p].kind
         /\ \A l \in loads' : \E k \in loads : l.s = k.s
         /\ buffer' = {} \/ UNCHANGED <<buffer, subscribed>>
         /\ subscribed' \in {subscribed, active}
<1>1. run \in [Runs -> Run] /\ pendingAsk \in Runs \cup {None}
  BY DEF TypeOK
<1> USE DEF noCall, storeVars, panelVars, callVars
<1>2. CASE Flush
  BY <1>2 DEF Flush
<1>3. CASE Resubscribe
  BY <1>3 DEF Resubscribe
<1>4. CASE Watchdog
  BY <1>4 DEF Watchdog
<1>5. CASE Stop
  BY <1>1, <1>5 DEF Stop, Run
<1>6. CASE AnswerAsk
  <2>1. pendingAsk \in Runs
    BY <1>1, <1>6 DEF AnswerAsk
  <2>2. QED
    BY <1>1, <1>6, <2>1 DEF AnswerAsk, Run
<1>7. ASSUME NEW l \in loads, LoadRead(l)
      PROVE  UNCHANGED <<buffer, subscribed, run>> /\ \A k \in loads' : k \in loads \/ k.s = l.s
  BY <1>7 DEF LoadRead
<1>8. ASSUME NEW l \in loads, LoadApply(l) \/ LoadFail(l)
      PROVE  UNCHANGED <<buffer, subscribed, run>> /\ loads' \subseteq loads
  BY <1>8 DEF LoadApply, LoadFail
<1>9. ASSUME NEW r \in Runs, AnswerReturn(r)
      PROVE  UNCHANGED <<buffer, subscribed, run, loads>>
  BY <1>9 DEF AnswerReturn
<1>10. QED
  BY <1>2, <1>3, <1>4, <1>5, <1>6, <1>7, <1>8, <1>9 DEF Quiet

(* A round begins with no result.                                          *)
LEMMA OpeningMore ==
  ASSUME TypeOK, NEW r \in Runs, Opening(r)
  PROVE  /\ UNCHANGED <<loads, buffer, subscribed>>
         /\ run'[r].out = run[r].out /\ run'[r].todo = run[r].todo
         /\ run'[r].at \in {"thinking", "approving"}
         /\ ghost'.disturbed = disturb(active)
<1>1. run \in [Runs -> Run] /\ ghost \in Ghost
  BY DEF TypeOK, Ghost
<1>2. ASSUME NEW kind \in {"chat", "plan"}, Send(r, kind)
      PROVE  /\ UNCHANGED <<loads, buffer, subscribed>>
             /\ run'[r].out = run[r].out /\ run'[r].todo = run[r].todo
             /\ run'[r].at \in {"thinking", "approving"}
             /\ ghost'.disturbed = disturb(active)
  BY <1>1, <1>2 DEF Send, start, Run, Ghost
<1>3. ASSUME NEW i \in DOMAIN messages, ApprovePlan(r, i)
      PROVE  /\ UNCHANGED <<loads, buffer, subscribed>>
             /\ run'[r].out = run[r].out /\ run'[r].todo = run[r].todo
             /\ run'[r].at \in {"thinking", "approving"}
             /\ ghost'.disturbed = disturb(active)
  BY <1>1, <1>3 DEF ApprovePlan, Run, Ghost
<1>4. QED
  BY <1>2, <1>3 DEF Opening

(* The other steps leave the rounds alone.                                 *)
LEMMA OtherSteps ==
  ASSUME TypeOK,
         \/ Clear
         \/ \E s \in Ids : Switch(s) \/ CreateCall(s) \/ DeleteCall(s) \/ Rename(s)
         \/ \E v \in saves : ApplySave(v)
         \/ \E c \in creating : CreateReturn(c)
         \/ \E d \in deleting : DeleteReturn(d)
         \/ \E r \in Runs : TitleCheck(r) \/ TitleWrite(r)
         \/ Setback
         \/ UNCHANGED vars
  PROVE  /\ run' = run /\ (buffer' = {} \/ UNCHANGED <<buffer, subscribed>>)
         /\ ghost'.late = ghost.late
<1>1. ghost \in Ghost
  BY DEF TypeOK
<1>2. ASSUME NEW d \in deleting, DeleteReturn(d)
      PROVE  ghost'.late = ghost.late
  <2> DEFINE U == {c.id : c \in creating'}
             B == IF d.s \in inFlight \/ titlingIn(d.s) THEN ghost.buried
                                                     ELSE ghost.buried \cup {d.s}
  <2>1. ghost' = [ghost EXCEPT !.disturbed = disturb(active') \cup {d.s},
                    !.chosen = ghost.chosen \ {d.s}, !.buried = B, !.used = ghost.used \cup U]
    BY <1>2, Zenon DEF DeleteReturn
  <2> HIDE DEF U, B
  <2>2. QED
    BY <1>1, <2>1 DEF Ghost
<1>3. CASE Setback
  BY <1>3, SetbackStep
<1>4. QED
  BY <1>1, <1>2, <1>3
  DEF Clear, Switch, CreateCall, DeleteCall, Rename, ApplySave, CreateReturn, DeleteReturn,
      TitleCheck, TitleWrite, vars, panelVars, callVars, storeVars, Ghost

(* Every step keeps RoundsInv and BufferInv.                               *)
LEMMA RoundsStep ==
  ASSUME TypeOK, RoundsInv, BufferInv, [Next]_vars
  PROVE  RoundsInv' /\ BufferInv'
<1>0. run \in [Runs -> Run] /\ buffer \subseteq Runs
  BY DEF TypeOK
<1>1. ASSUME NEW r \in Runs, Round(r)
      PROVE  RoundsInv' /\ BufferInv'
  <2>1. (\A p \in Runs \ {r} : run'[p] = run[p]) /\ run'[r].home = run[r].home
    BY <1>1, RoundStep
  <2>2. /\ subscribed' = subscribed /\ run'[r].at \notin {"idle", "approving"}
        /\ run'[r].at # "ended" => run[r].at # "ended" /\ run'[r].out = run[r].out
                                   /\ run'[r].todo = run[r].todo
        /\ \/ buffer' \subseteq buffer
           \/ /\ buffer' \subseteq buffer \cup {r} /\ heard(r) /\ run' = run
              /\ run[r].at = "thinking" \/ "event" \in run[r].todo
        /\ run'[r].at = "ended" =>
             \/ "event" \in run'[r].todo
             \/ run[r].at = "ended" /\ "event" \notin run[r].todo
             \/ r \notin buffer' \/ ~heard(r)
        /\ ghost.late \subseteq ghost'.late
        /\ run'[r].todo = {"event"} => run[r].todo = {"event"} \/ r \in ghost'.late
    BY <1>1, RoundMore
  <2>3. RoundsInv'
    BY <2>1, <2>2 DEF RoundsInv
  <2>4. CASE buffer' \subseteq buffer
    BY <1>0, <2>1, <2>2, <2>3, <2>4 DEF BufferInv, heard
  <2>5. CASE /\ buffer' \subseteq buffer \cup {r} /\ heard(r) /\ run' = run
             /\ run[r].at = "thinking" \/ "event" \in run[r].todo
    BY <1>0, <2>2, <2>3, <2>5 DEF BufferInv, heard
  <2>6. QED
    BY <2>2, <2>4, <2>5
<1>2. CASE Quiet
  <2>1. \A p \in Runs : /\ run'[p].home = run[p].home /\ run'[p].todo = run[p].todo
                        /\ \/ run'[p].at = run[p].at
                           \/ run[p].at = "asking" /\ run'[p].at = "tool"
                        /\ ghost'.late = ghost.late
    BY <1>2, QuietStep
  <2>2. /\ \A p \in Runs : run'[p].out = run[p].out
        /\ buffer' = {} \/ UNCHANGED <<buffer, subscribed>>
    BY <1>2, QuietMore
  <2>3. RoundsInv'
    BY <2>1, <2>2 DEF RoundsInv
  <2>4. QED
    BY <1>0, <2>1, <2>2, <2>3 DEF BufferInv
<1>3. ASSUME NEW r \in Runs, Opening(r)
      PROVE  RoundsInv' /\ BufferInv'
  <2>1. /\ run[r].at = "idle" /\ \A p \in Runs \ {r} : run'[p] = run[p]
        /\ ghost'.late = ghost.late
    BY <1>3, OpeningStep
  <2>2. /\ UNCHANGED <<buffer, subscribed>> /\ run'[r].at \in {"thinking", "approving"}
        /\ run'[r].out = run[r].out /\ run'[r].todo = run[r].todo
    BY <1>3, OpeningMore
  <2>3. RoundsInv'
    BY <2>1, <2>2 DEF RoundsInv
  <2>4. QED
    BY <1>0, <2>1, <2>2, <2>3 DEF BufferInv
<1>4. CASE /\ run' = run /\ (buffer' = {} \/ UNCHANGED <<buffer, subscribed>>)
           /\ ghost'.late = ghost.late
  BY <1>4 DEF RoundsInv, BufferInv
<1>5. QED
  BY <1>1, <1>2, <1>3, <1>4, StepKinds, OtherSteps

(* The session of a step's rounds, for steps that begin none.              *)
LEMMA OwnSame ==
  ASSUME \A p \in Runs : run'[p].home = run[p].home /\ (run'[p].at = "idle" <=> run[p].at = "idle")
  PROVE  \A s : own(s)' = own(s)
BY DEF own

(* HomeInv speaks of the rounds, the session shown and the creations.      *)
LEMMA HomeSame ==
  ASSUME HomeInv, UNCHANGED <<active, creating>>, ghost'.used = ghost.used,
         \A p \in Runs : run'[p].home = run[p].home /\ (run'[p].at = "idle" <=> run[p].at = "idle")
  PROVE  HomeInv'
<1>1. \A s : own(s)' = own(s)
  BY OwnSame
<1>2. \A r \in Runs : run'[r].at # "idle" => run'[r].home \in ghost'.used
  BY DEF HomeInv
<1>3. \A c \in creating' : c.id # active' /\ own(c.id)' = {}
  BY <1>1 DEF HomeInv
<1>4. QED
  BY <1>2, <1>3 DEF HomeInv

(* Another session is shown, or another one is created.                    *)
LEMMA HomeMoves ==
  ASSUME HomeInv, run' = run, active' \in ghost'.used, ghost.used \subseteq ghost'.used,
         \A c \in creating' : c \in creating \/ c.id \notin ghost.used,
         \A c \in creating' : c.id # active'
  PROVE  HomeInv'
<1>1. \A s : own(s)' = own(s)
  BY DEF own
<1>2. \A r \in Runs : run'[r].at # "idle" => run'[r].home \in ghost'.used
  BY DEF HomeInv
<1>3. ASSUME NEW c \in creating'
      PROVE  own(c.id) = {}
  <2>1. CASE c \in creating
    BY <2>1 DEF HomeInv
  <2>2. CASE c.id \notin ghost.used
    BY <2>2 DEF HomeInv, own
  <2>3. QED
    BY <2>1, <2>2
<1>4. QED
  BY <1>1, <1>2, <1>3 DEF HomeInv

(* Every step keeps HomeInv.                                               *)
LEMMA HomeStep ==
  ASSUME TypeOK, IdsInv, HomeInv, [Next]_vars
  PROVE  HomeInv'
<1>0. ghost \in Ghost /\ run \in [Runs -> Run]
  BY DEF TypeOK, Ghost
<1>1. ASSUME NEW r \in Runs, Round(r)
      PROVE  HomeInv'
  <2>1. /\ run[r].at # "idle" /\ \A p \in Runs \ {r} : run'[p] = run[p]
        /\ run'[r].home = run[r].home /\ run'[r].at # "idle"
        /\ UNCHANGED <<active, creating>> /\ ghost'.used = ghost.used
    BY <1>1, RoundStep DEF live, Unmoved
  <2>2. QED
    BY <2>1, HomeSame
<1>2. CASE Quiet
  <2>1. /\ \A p \in Runs : /\ run'[p].home = run[p].home
                           /\ run'[p].at = "idle" <=> run[p].at = "idle"
        /\ UNCHANGED <<active, creating>> /\ ghost'.used = ghost.used
    BY <1>2, QuietStep DEF Unmoved
  <2>2. QED
    BY <2>1, HomeSame
<1>3. ASSUME NEW r \in Runs, Opening(r)
      PROVE  HomeInv'
  <2>1. /\ \A p \in Runs \ {r} : run'[p] = run[p]
        /\ run'[r].home = active /\ ghost'.used = ghost.used /\ UNCHANGED <<active, creating>>
    BY <1>3, OpeningStep
  <2>2. \A c \in creating : own(c.id)' = {}
    BY <2>1 DEF HomeInv, own
  <2>3. \A p \in Runs : run'[p].at # "idle" => run'[p].home \in ghost'.used
    BY <2>1 DEF HomeInv
  <2>4. QED
    BY <2>1, <2>2, <2>3 DEF HomeInv
<1>4. ASSUME NEW s \in Ids, Switch(s)
      PROVE  HomeInv'
  <2>1. run' = run /\ creating' = creating /\ active' = s /\ s \in sessions
    BY <1>4 DEF Switch
  <2>2. ghost'.used = ghost.used
    BY <1>0, <1>4 DEF Switch, Ghost
  <2>3. s \in ghost.used /\ \A c \in creating : c.id # s
    BY <2>1 DEF IdsInv
  <2>4. QED
    BY <2>1, <2>2, <2>3, HomeMoves
<1>5. ASSUME NEW s \in Ids, CreateCall(s)
      PROVE  HomeInv'
  <2>1. /\ UNCHANGED <<run, active>> /\ s \notin ghost.used
        /\ creating' = creating \cup {[id |-> s, sole |-> FALSE]}
    BY <1>5 DEF CreateCall, panelVars
  <2>2. ghost'.used = ghost.used \cup {s}
    BY <1>0, <1>5 DEF CreateCall, Ghost
  <2>3. \A c \in creating' : c \in creating \/ c.id = s
    BY <2>1
  <2>4. active' \in ghost'.used /\ \A c \in creating' : c.id # active'
    BY <2>1, <2>2, <2>3 DEF HomeInv
  <2>5. QED
    BY <2>1, <2>2, <2>3, <2>4, HomeMoves
<1>6. ASSUME NEW c \in creating, CreateReturn(c)
      PROVE  HomeInv'
  <2>1. run' = run /\ creating' = creating \ {c} /\ active' = c.id
    BY <1>6 DEF CreateReturn
  <2>2. ghost'.used = ghost.used
    BY <1>0, <1>6 DEF CreateReturn, Ghost
  <2>3. c.id \in ghost.used /\ \A e \in creating' : e.id # c.id
    BY <2>1 DEF IdsInv
  <2>4. QED
    BY <2>1, <2>2, <2>3, HomeMoves
<1>7. ASSUME NEW d \in deleting, DeleteReturn(d)
      PROVE  HomeInv'
  <2>1. ghost'.used = ghost.used \cup {c.id : c \in creating'} /\ run' = run
    BY <1>7, DeleteParts DEF DeleteReturn
  <2>2. \/ active' \in {active} \cup d.list /\ creating' = creating
        \/ /\ active' = active
           /\ \E c \in Ids \ ghost.used : creating' = creating \cup {[id |-> c, sole |-> TRUE]}
    BY <1>7, DeleteParts
  <2>3. active' \in ghost.used /\ \A c \in creating : c.id # active'
    BY <2>2 DEF IdsInv, HomeInv
  <2>4. \A c \in creating' : c \in creating \/ c.id \notin ghost.used
    BY <2>2
  <2>5. QED
    BY <2>1, <2>3, <2>4, HomeMoves
<1> DEFINE Same == UNCHANGED <<run, active, creating>> /\ ghost'.used = ghost.used
<1>8. CASE Same
  BY <1>8, HomeSame
<1>9. Clear \/ (\E s \in Ids : DeleteCall(s) \/ Rename(s)) => Same
  BY <1>0 DEF Clear, DeleteCall, Rename, Ghost, panelVars, callVars
<1>10. (\E v \in saves : ApplySave(v)) \/ (\E r \in Runs : TitleCheck(r) \/ TitleWrite(r))
         \/ UNCHANGED vars => Same
  BY DEF ApplySave, TitleCheck, TitleWrite, vars, panelVars, callVars
<1>11. CASE Setback
  <2>1. run' = run /\ active' = active /\ creating' \subseteq creating /\ ghost'.used = ghost.used
    BY <1>11, SetbackStep DEF Unmoved
  <2>2. active' \in ghost'.used /\ \A c \in creating' : c.id # active'
    BY <2>1 DEF HomeInv
  <2>3. QED
    BY <2>1, <2>2, HomeMoves
<1>12. QED
  BY <1>1, <1>2, <1>3, <1>4, <1>5, <1>6, <1>7, <1>8, <1>9, <1>10, <1>11, StepKinds

-----------------------------------------------------------------------------
(* What is under way.                                                      *)

(* Rounds, loads, saves and clearings under way.                           *)
LEMMA FlightFacts ==
  ASSUME TypeOK
  PROVE  /\ \A r \in Runs : live(r) => run[r].home \in inFlight
         /\ \A l \in loads : l.s \in inFlight
         /\ \A v \in saves : v.s \in inFlight
         /\ clearing \subseteq inFlight
         /\ \A r \in Runs : run[r].home \in Ids
<1>1. /\ \A r \in Runs : run[r].home \in Ids
      /\ (\A l \in loads : l.s \in Ids) /\ (\A v \in saves : v.s \in Ids)
      /\ clearing \subseteq Ids
  BY DEF TypeOK, Run
<1>2. QED
  BY <1>1 DEF inFlight, live

(* Nothing new is under way but in the sessions of T.                      *)
LEMMA FlightGrows ==
  ASSUME TypeOK, NEW T,
         \A p \in Runs : live(p)' => run'[p].home \in T \/ (live(p) /\ run'[p].home = run[p].home),
         \A l \in loads' : l.s \in T \/ \E k \in loads : l.s = k.s,
         \A v \in saves' : v.s \in T \cup clearing \/ v \in saves,
         clearing' \subseteq clearing \cup T
  PROVE  inFlight' \subseteq inFlight \cup T
<1>1. /\ \A r \in Runs : live(r) => run[r].home \in inFlight
      /\ \A l \in loads : l.s \in inFlight
      /\ \A v \in saves : v.s \in inFlight
      /\ clearing \subseteq inFlight
  BY FlightFacts
<1>2. ASSUME NEW s \in inFlight'
      PROVE  \/ \E r \in Runs : run'[r].home = s /\ live(r)'
             \/ \E l \in loads' : l.s = s
             \/ \E v \in saves' : v.s = s
             \/ s \in clearing'
  BY <1>2 DEF inFlight, live
<1>3. QED
  BY <1>1, <1>2

(* A step keeps FlightInv if it starts nothing and goes nowhere, or if it  *)
(* leaves what it may have disturbed behind.                               *)
Calm ==
  /\ active' = active /\ ghost'.disturbed = ghost.disturbed
  /\ inFlight' \subseteq inFlight /\ clearing' \subseteq clearing

Astir ==
  /\ disturb(active') \subseteq ghost'.disturbed /\ inFlight' \subseteq inFlight \cup {active'}
  /\ \/ clearing' \subseteq clearing
     \/ /\ clearing' \subseteq clearing \cup {active'}
        /\ active' \in ghost'.disturbed /\ Default \in ghost'.disturbed

(* Both kinds of steps keep FlightInv.                                     *)
LEMMA FlightKept ==
  ASSUME FlightInv, Calm \/ Astir
  PROVE  FlightInv'
<1>1. CASE Calm
  <2>1. active' = active /\ ghost'.disturbed = ghost.disturbed
    BY <1>1 DEF Calm
  <2>2. /\ clearing' \subseteq ghost.disturbed /\ (clearing' # {} => Default \in ghost.disturbed)
        /\ inFlight' \subseteq ghost.disturbed \cup {active}
        /\ active \notin ghost.disturbed => inFlight' \subseteq {active}
    BY <1>1 DEF Calm, FlightInv
  <2>3. QED
    BY <2>1, <2>2 DEF FlightInv
<1>2. CASE Astir /\ inFlight = {}
  <2>1. ghost.disturbed \subseteq ghost'.disturbed /\ inFlight' \subseteq {active'}
    BY <1>2 DEF Astir, disturb
  <2>2. clearing' \subseteq ghost'.disturbed /\ (clearing' # {} => Default \in ghost'.disturbed)
    BY <1>2, <2>1 DEF Astir, FlightInv
  <2>3. QED
    BY <2>1, <2>2 DEF FlightInv
<1>3. CASE Astir /\ inFlight # {}
  <2>1. ghost.disturbed \cup inFlight \cup {active'} \subseteq ghost'.disturbed
    BY <1>3 DEF Astir, disturb
  <2>2. clearing' \subseteq ghost'.disturbed /\ (clearing' # {} => Default \in ghost'.disturbed)
    BY <1>3, <2>1 DEF Astir, FlightInv
  <2>3. inFlight' \subseteq ghost'.disturbed
    BY <1>3, <2>1 DEF Astir
  <2>4. QED
    BY <2>1, <2>2, <2>3 DEF FlightInv
<1>4. QED
  BY <1>1, <1>2, <1>3

(* Steps of a round and quiet steps start nothing new.                     *)
LEMMA RoundCalm ==
  ASSUME TypeOK
  PROVE  (\E r \in Runs : Round(r)) \/ Quiet => Calm
<1>1. ASSUME NEW r \in Runs, Round(r)
      PROVE  Calm
  <2>1. /\ live(r) /\ \A p \in Runs \ {r} : run'[p] = run[p]
        /\ run'[r].home = run[r].home
        /\ \A v \in saves' : v \in saves \/ v.s = run[r].home
        /\ UNCHANGED <<active, clearing>> /\ ghost'.disturbed = ghost.disturbed
    BY <1>1, RoundStep DEF Unmoved
  <2>2. loads' = loads
    BY <1>1, RoundMore
  <2>3. \A p \in Runs : live(p)' => run'[p].home \in {run[r].home}
                                    \/ (live(p) /\ run'[p].home = run[p].home)
    BY <2>1 DEF live, finished
  <2>4. inFlight' \subseteq inFlight \cup {run[r].home}
    BY <2>1, <2>2, <2>3, FlightGrows
  <2>5. run[r].home \in inFlight
    BY <2>1, FlightFacts
  <2>6. QED
    BY <2>1, <2>4, <2>5 DEF Calm
<1>2. ASSUME Quiet
      PROVE  Calm
  <2>1. /\ \A p \in Runs : /\ run'[p].home = run[p].home /\ run'[p].todo = run[p].todo
                           /\ \/ run'[p].at = run[p].at
                              \/ run[p].at = "asking" /\ run'[p].at = "tool"
        /\ UNCHANGED <<active, saves, clearing>> /\ ghost'.disturbed = ghost.disturbed
    BY <1>2, QuietStep DEF Unmoved
  <2>2. \A l \in loads' : \E k \in loads : l.s = k.s
    BY <1>2, QuietMore
  <2>3. \A p \in Runs : live(p)' => live(p) /\ run'[p].home = run[p].home
    BY <2>1 DEF live, finished
  <2>4. inFlight' \subseteq inFlight \cup {}
    BY <2>1, <2>2, <2>3, FlightGrows
  <2>5. QED
    BY <2>1, <2>4 DEF Calm
<1>3. QED
  BY <1>1, <1>2

(* So do saves that take effect, titles, and calls that list nothing yet.  *)
LEMMA OtherCalm ==
  ASSUME TypeOK,
         \/ \E s \in Ids : CreateCall(s) \/ DeleteCall(s) \/ Rename(s)
         \/ \E v \in saves : ApplySave(v)
         \/ \E r \in Runs : TitleCheck(r) \/ TitleWrite(r)
         \/ UNCHANGED vars
  PROVE  /\ Calm /\ UNCHANGED <<run, active, subscribed, messages, loads>>
         /\ saves' \subseteq saves /\ ghost'.failed = ghost.failed
<1>1. UNCHANGED <<run, active, subscribed, messages, loads, clearing>> /\ saves' \subseteq saves
  BY DEF CreateCall, DeleteCall, Rename, ApplySave, TitleCheck, TitleWrite, vars,
         panelVars, callVars, storeVars
<1>2. ghost \in Ghost
  BY DEF TypeOK, Ghost
<1>3. ghost'.disturbed = ghost.disturbed /\ ghost'.failed = ghost.failed
  BY <1>2 DEF CreateCall, DeleteCall, Rename, ApplySave, TitleCheck, TitleWrite, vars, Ghost
<1>4. \A p \in Runs : live(p)' => live(p) /\ run'[p].home = run[p].home
  BY <1>1 DEF live, finished
<1>5. inFlight' \subseteq inFlight \cup {}
  BY <1>1, <1>4, FlightGrows
<1>6. QED
  BY <1>1, <1>3, <1>5 DEF Calm

(* And so do calls that fail, and clearings that return.                   *)
LEMMA SetbackCalm ==
  ASSUME TypeOK, Setback
  PROVE  Calm
<1>1. /\ UNCHANGED <<active, run, loads>> /\ clearing' \subseteq clearing
      /\ \A v \in saves' : v \in saves \/ v.s \in clearing
      /\ ghost'.disturbed = ghost.disturbed
  BY SetbackStep DEF Unmoved
<1>2. \A p \in Runs : live(p)' => live(p) /\ run'[p].home = run[p].home
  BY <1>1 DEF live, finished
<1>3. inFlight' \subseteq inFlight \cup {}
  BY <1>1, <1>2, FlightGrows
<1>4. QED
  BY <1>1, <1>3 DEF Calm

(* What the return of a deletion disturbs.                                 *)
LEMMA DeleteDisturbs ==
  ASSUME TypeOK, NEW d \in deleting, DeleteReturn(d)
  PROVE  ghost'.disturbed = disturb(active') \cup {d.s} /\ ghost'.failed = ghost.failed
<1> DEFINE U == {c.id : c \in creating'}
           B == IF d.s \in inFlight \/ titlingIn(d.s) THEN ghost.buried
                                                   ELSE ghost.buried \cup {d.s}
<1>1. ghost' = [ghost EXCEPT !.disturbed = disturb(active') \cup {d.s},
                  !.chosen = ghost.chosen \ {d.s}, !.buried = B, !.used = ghost.used \cup U]
  BY Zenon DEF DeleteReturn
<1>2. ghost \in Ghost
  BY DEF TypeOK, Ghost
<1> HIDE DEF U, B
<1>3. QED
  BY <1>1, <1>2 DEF Ghost

(* The user begins a round, shows another session or clears the one shown, *)
(* or a creation or deletion returns.                                      *)
LEMMA UserAstir ==
  ASSUME TypeOK,
         \/ \E r \in Runs : Opening(r)
         \/ Clear
         \/ \E s \in Ids : Switch(s)
         \/ \E c \in creating : CreateReturn(c)
         \/ \E d \in deleting : DeleteReturn(d)
  PROVE  Astir /\ ghost'.failed = ghost.failed
<1>0. ghost \in Ghost
  BY DEF TypeOK, Ghost
<1>1. ASSUME NEW r \in Runs, Opening(r)
      PROVE  Astir /\ ghost'.failed = ghost.failed
  <2>1. /\ \A p \in Runs \ {r} : run'[p] = run[p]
        /\ run'[r].home = active /\ UNCHANGED <<active, clearing>> /\ ghost'.failed = ghost.failed
        /\ \A v \in saves' : v \in saves \/ v.s = active
    BY <1>1, OpeningStep
  <2>2. loads' = loads /\ ghost'.disturbed = disturb(active)
    BY <1>1, OpeningMore
  <2>3. \A p \in Runs : live(p)' => run'[p].home \in {active}
                                    \/ (live(p) /\ run'[p].home = run[p].home)
    BY <2>1 DEF live, finished
  <2>4. inFlight' \subseteq inFlight \cup {active}
    BY <2>1, <2>2, <2>3, FlightGrows
  <2>5. QED
    BY <2>1, <2>2, <2>4 DEF Astir
<1> DEFINE Moves == /\ run' = run /\ disturb(active') \subseteq ghost'.disturbed
                    /\ \A l \in loads' : l.s = active' \/ l \in loads
                    /\ saves' = saves
                    /\ \/ clearing' = clearing
                       \/ /\ clearing' = clearing \cup {active'}
                          /\ active' \in ghost'.disturbed /\ Default \in ghost'.disturbed
<1>2. ASSUME Moves
      PROVE  Astir
  <2>1. \A p \in Runs : live(p)' => live(p) /\ run'[p].home = run[p].home
    BY <1>2 DEF live, finished
  <2>2. inFlight' \subseteq inFlight \cup {active'}
    BY <1>2, <2>1, FlightGrows
  <2>3. QED
    BY <1>2, <2>2 DEF Astir
<1>3. CASE Clear
  <2>1. /\ ghost'.disturbed = disturb(active) \cup {active, Default}
        /\ ghost'.failed = ghost.failed
    BY <1>0, <1>3 DEF Clear, Ghost
  <2>2. /\ run' = run /\ active' = active /\ loads' = loads /\ saves' = saves
        /\ clearing' = clearing \cup {active}
    BY <1>3 DEF Clear
  <2>3. QED
    BY <1>2, <2>1, <2>2
<1>4. ASSUME NEW s \in Ids, Switch(s)
      PROVE  Astir /\ ghost'.failed = ghost.failed
  <2>1. ghost'.disturbed = disturb(s) /\ ghost'.failed = ghost.failed
    BY <1>0, <1>4 DEF Switch, Ghost
  <2>2. /\ run' = run /\ active' = s /\ loads' = loads \cup {load(s)}
        /\ saves' = saves /\ clearing' = clearing
    BY <1>4 DEF Switch
  <2>3. load(s).s = s
    BY DEF load
  <2>4. QED
    BY <1>2, <2>1, <2>2, <2>3
<1>5. ASSUME NEW c \in creating, CreateReturn(c)
      PROVE  Astir /\ ghost'.failed = ghost.failed
  <2>1. ghost'.disturbed = disturb(c.id) /\ ghost'.failed = ghost.failed
    BY <1>0, <1>5 DEF CreateReturn, Ghost
  <2>2. /\ run' = run /\ active' = c.id /\ loads' = loads
        /\ saves' = saves /\ clearing' = clearing
    BY <1>5 DEF CreateReturn
  <2>3. QED
    BY <1>2, <2>1, <2>2
<1>6. ASSUME NEW d \in deleting, DeleteReturn(d)
      PROVE  Astir /\ ghost'.failed = ghost.failed
  <2>1. ghost'.disturbed = disturb(active') \cup {d.s} /\ ghost'.failed = ghost.failed
    BY <1>6, DeleteDisturbs
  <2>2. run' = run /\ saves' = saves /\ clearing' = clearing
    BY <1>6 DEF DeleteReturn
  <2>3. loads' = loads \/ loads' = loads \cup {load(active')}
    BY <1>6, Zenon DEF DeleteReturn
  <2>4. load(active').s = active'
    BY DEF load
  <2>5. QED
    BY <1>2, <2>1, <2>2, <2>3, <2>4
<1>7. QED
  BY <1>1, <1>3, <1>4, <1>5, <1>6

(* Every step keeps FlightInv.                                             *)
LEMMA FlightStep ==
  ASSUME TypeOK, FlightInv, [Next]_vars
  PROVE  FlightInv'
BY StepKinds, RoundCalm, OtherCalm, SetbackCalm, UserAstir, FlightKept

(* Who leaves a session, or begins something in it, does so while nothing  *)
(* is under way, or disturbs what is.                                      *)
LEMMA Leaving ==
  ASSUME TypeOK, FlightInv, Astir
  PROVE  /\ ghost.disturbed \subseteq ghost'.disturbed
         /\ active' \notin ghost'.disturbed => loads = {} /\ saves = {} /\ \A r \in Runs : ~live(r)
         /\ saves # {} => active \in ghost'.disturbed
<1>1. /\ \A r \in Runs : live(r) => run[r].home \in inFlight
      /\ \A l \in loads : l.s \in inFlight
      /\ \A v \in saves : v.s \in inFlight
  BY FlightFacts
<1>2. \/ inFlight = {} /\ ghost.disturbed \subseteq ghost'.disturbed
      \/ ghost.disturbed \cup inFlight \cup {active'} \subseteq ghost'.disturbed
  BY DEF Astir, disturb
<1>3. CASE active \in ghost.disturbed
  BY <1>1, <1>2, <1>3
<1>4. CASE active \notin ghost.disturbed
  <2>1. inFlight \subseteq {active}
    BY <1>4 DEF FlightInv
  <2>2. QED
    BY <1>1, <1>2, <2>1
<1>5. QED
  BY <1>3, <1>4

-----------------------------------------------------------------------------
(* The answer of the round under way.                                      *)

(* A history in which only the last answer, of round r, has changed.       *)
Updated(m, n, r) ==
  /\ n \in History /\ Answering(n, r)
  /\ \A R \in SUBSET Runs : /\ Within(m, R) /\ r \in R => Within(n, R)
                            /\ \A L : Holds(m, R, L) => Holds(n, R \ {r}, L)

(* Updates follow each other, and one of them may change nothing.          *)
LEMMA UpdatedTwice ==
  ASSUME NEW m \in History, NEW n, NEW k, NEW r \in Runs
  PROVE  /\ Answering(m, r) => Updated(m, m, r)
         /\ Updated(m, n, r) /\ Updated(n, k, r) => Updated(m, k, r)
<1>1. Answering(m, r) => Updated(m, m, r)
  BY DEF Updated, Holds
<1>2. ASSUME Updated(m, n, r), Updated(n, k, r)
      PROVE  Updated(m, k, r)
  <2>1. ASSUME NEW R \in SUBSET Runs, NEW L, Holds(m, R, L)
        PROVE  Holds(k, R \ {r}, L)
    <3>1. Holds(n, R \ {r}, L) /\ R \ {r} \in SUBSET Runs
      BY <1>2, <2>1 DEF Updated
    <3>2. Holds(k, (R \ {r}) \ {r}, L)
      BY <1>2, <3>1 DEF Updated
    <3>3. (R \ {r}) \ {r} = R \ {r}
      OBVIOUS
    <3>4. QED
      BY <3>2, <3>3
  <2>2. QED
    BY <1>2, <2>1 DEF Updated
<1>3. QED
  BY <1>1, <1>2

(* The last answer of the round is replaced.                               *)
LEMMA OnLastUpdated ==
  ASSUME NEW m \in History, NEW r \in Runs, Answering(m, r),
         NEW a \in Message, a.role = "assistant", a.run = r, a.text \subseteq {r}
  PROVE  /\ Updated(m, onLast(m, a), r)
         /\ appendOrUpdateAssistant(m, a) = onLast(m, a)
         /\ lastAnswer(onLast(m, a), r) = a
         /\ \A L : Complete(a, r, L) => Holds(onLast(m, a), {r}, L)
BY RewriteFacts DEF Updated

(* The answer that an event edits, when that of the round is the last.     *)
LEMMA LastFacts ==
  ASSUME NEW m \in History, NEW r \in Runs, Answering(m, r)
  PROVE  /\ lastAnswer(m, r) \in Message /\ lastAnswer(m, r).role = "assistant"
         /\ lastAnswer(m, r).run = r /\ lastAnswer(m, r).text \subseteq {r}
BY LastType DEF Answering, lastIsAnswer, lastAnswer

(* Chunks of the round whose answer is the last message go into it.        *)
LEMMA FlushUpdated ==
  ASSUME TypeOK, NEW r \in Runs, Answering(messages, r), buffer \subseteq {r}
  PROVE  /\ Updated(messages, flushChunks, r)
         /\ \A R \in SUBSET Runs : \A L :
              (buffer # {} /\ r \in R => r \in L) /\ Holds(messages, R, L)
                => Holds(flushChunks, R, L)
         /\ lastAnswer(flushChunks, r).part => buffer # {} \/ lastAnswer(messages, r).part
<1>1. messages \in History
  BY DEF TypeOK
<1>2. CASE buffer = {}
  BY <1>1, <1>2, UpdatedTwice DEF flushChunks
<1>3. CASE buffer # {}
  <2>1. buffer = {r} /\ (CHOOSE q \in buffer : TRUE) = r
    BY <1>3
  <2>2. PICK b : b = lastAnswer(messages, r)
    OBVIOUS
  <2>3. b \in Message /\ b.role = "assistant" /\ b.run = r /\ b.text \subseteq {r}
    BY <1>1, <2>2, LastFacts
  <2>4. PICK a : a = [b EXCEPT !.text = b.text \cup {r}, !.part = TRUE]
    OBVIOUS
  <2>5. /\ a \in Message /\ a.role = "assistant" /\ a.run = r /\ a.text = {r}
        /\ a.running = b.running
    BY <2>3, <2>4 DEF Message
  <2>6. flushChunks = appendOrUpdateAssistant(messages, a)
    BY <1>3, <2>1, <2>2, <2>4 DEF flushChunks
  <2>7. flushChunks = onLast(messages, a) /\ Updated(messages, flushChunks, r)
    BY <1>1, <2>5, <2>6, OnLastUpdated
  <2>8. messages[Len(messages)] = b
    BY <2>2 DEF Answering, lastAnswer
  <2>9. ASSUME NEW R \in SUBSET Runs, NEW L, r \in R => r \in L, Holds(messages, R, L)
        PROVE  Holds(flushChunks, R, L)
    <3>1. CASE r \in R
      <4>1. Complete(messages[Len(messages)], r, L) => Complete(a, r, L)
        BY <2>5, <2>8, <2>9, <3>1 DEF Complete
      <4>2. Holds(onLast(messages, a), R, L)
        BY <1>1, <2>5, <2>9, <4>1, RewriteFacts
      <4>3. QED
        BY <2>7, <4>2
    <3>2. CASE r \notin R
      <4>1. R \ {r} = R
        BY <3>2
      <4>2. QED
        BY <2>7, <2>9, <4>1 DEF Updated
    <3>3. QED
      BY <3>1, <3>2
  <2>10. QED
    BY <1>3, <2>7, <2>9
<1>4. QED
  BY <1>2, <1>3

(* An event edits the answer of its round, after the chunks are flushed.   *)
LEMMA EventUpdated ==
  ASSUME TypeOK, NEW r \in Runs, Answering(messages, r), buffer \subseteq {r}
  PROVE  /\ current(r) \in Message /\ current(r).role = "assistant"
         /\ current(r).run = r /\ current(r).text \subseteq {r}
         /\ current(r).part => buffer # {} \/ lastAnswer(messages, r).part
         /\ \A a \in Message :
              a.role = "assistant" /\ a.run = r /\ a.text \subseteq {r} /\ onAnswer(a)
                => /\ Updated(messages, messages', r) /\ lastAnswer(messages', r) = a
                   /\ \A L : Complete(a, r, L) => Holds(messages', {r}, L)
<1>1. /\ messages \in History /\ Updated(messages, flushChunks, r)
      /\ lastAnswer(flushChunks, r).part => buffer # {} \/ lastAnswer(messages, r).part
  BY FlushUpdated DEF TypeOK
<1>2. flushChunks \in History /\ Answering(flushChunks, r)
  BY <1>1 DEF Updated
<1>3. /\ current(r) \in Message /\ current(r).role = "assistant"
      /\ current(r).run = r /\ current(r).text \subseteq {r}
      /\ current(r).part => buffer # {} \/ lastAnswer(messages, r).part
  BY <1>1, <1>2, LastFacts DEF current
<1>4. ASSUME NEW a \in Message, a.role = "assistant", a.run = r, a.text \subseteq {r}, onAnswer(a)
      PROVE  /\ Updated(messages, messages', r) /\ lastAnswer(messages', r) = a
             /\ \A L : Complete(a, r, L) => Holds(messages', {r}, L)
  <2>1. messages' = appendOrUpdateAssistant(flushChunks, a)
    BY <1>4 DEF onAnswer
  <2>2. /\ Updated(flushChunks, messages', r) /\ lastAnswer(messages', r) = a
        /\ \A L : Complete(a, r, L) => Holds(messages', {r}, L)
    BY <1>2, <1>4, <2>1, OnLastUpdated
  <2>3. QED
    BY <1>1, <2>2, UpdatedTwice
<1>5. QED
  BY <1>3, <1>4

(* What a step of the round under way does to the messages shown, and what *)
(* it saves of them.                                                       *)
RoundWrites(r) ==
  /\ Updated(messages, messages', r)
  /\ dealt(r)' => Holds(messages', {r}, ghost'.late) \/ (dealt(r) /\ messages' = messages)
  /\ dealt(r)' => dealt(r) \/ saves' # {}
  /\ \/ saves' = saves
     \/ /\ saves' \subseteq saves \cup {save(run[r].home, messages')}
        /\ succeeded(r)' => Holds(messages', {r}, ghost'.late)
  /\ succeeded(r)' => succeeded(r) \/ (untold(r) /\ saves' = saves)
  /\ untold(r)' => untold(r) /\ saves' = saves
  /\ Partly(r)'

(* Whose chunks they are, those that wait and those that are shown.        *)
LEMMA PartlyHeard ==
  ASSUME TypeOK, BufferInv, NEW r \in Runs, Partly(r), buffer \subseteq {r},
         run[r].kind = "chat", buffer # {} \/ lastAnswer(messages, r).part
  PROVE  heard(r)
BY DEF BufferInv, Partly, heard

(* Events that arrive before the end of a round write and save nothing     *)
(* final.                                                                  *)
LEMMA EarlyWrites ==
  ASSUME TypeOK, RoundsInv, NEW r \in Runs, run[r].at # "ended",
         Updated(messages, messages', r), saves' = saves, run'[r].kind = run[r].kind,
         lastAnswer(messages', r).part /\ run[r].kind = "chat" => heard(r),
         subscribed' = subscribed, run'[r].home = run[r].home,
         \/ run'[r].at # "ended" /\ run'[r].out = run[r].out
         \/ run'[r].todo = {"event", "reply"}
  PROVE  RoundWrites(r)
<1>1. Partly(r)'
  BY DEF Partly, RoundsInv, succeeded, heard
<1>2. QED
  BY <1>1 DEF RoundWrites, RoundsInv, dealt, succeeded, untold

(* The steps of a round up to its end.                                     *)
LEMMA WritesBackend ==
  ASSUME TypeOK, RoundsInv, BufferInv, NEW r \in Runs, Backend(r),
         Answering(messages, r), Partly(r), buffer \subseteq {r}
  PROVE  RoundWrites(r)
<1>1. run \in [Runs -> Run] /\ messages \in History
  BY DEF TypeOK
<1>2. /\ current(r) \in Message /\ current(r).role = "assistant"
      /\ current(r).run = r /\ current(r).text \subseteq {r}
      /\ \A a \in Message : a.role = "assistant" /\ a.run = r /\ a.text \subseteq {r} /\ onAnswer(a)
           => Updated(messages, messages', r) /\ lastAnswer(messages', r) = a
  BY EventUpdated
<1>3. /\ messages' = messages => Updated(messages, messages', r)
      /\ run[r].kind = "chat" /\ (current(r).part \/ lastAnswer(messages, r).part) => heard(r)
  BY <1>1, UpdatedTwice, EventUpdated, PartlyHeard
<1> USE DEF noCall, callVars, panelVars
<1>4. CASE AskTimeout(r)
  <2>1. /\ messages' = messages /\ saves' = saves /\ run[r].at # "ended" /\ run'[r].at # "ended"
        /\ run'[r].kind = run[r].kind /\ run'[r].out = run[r].out
        /\ run'[r].home = run[r].home /\ subscribed' = subscribed
    BY <1>1, <1>4 DEF AskTimeout, Run
  <2>2. QED
    BY <1>3, <2>1, EarlyWrites
<1>5. PICK c : c = current(r)
  OBVIOUS
<1>6. PICK a : a = [c EXCEPT !.running = c.running \cup {r}]
  OBVIOUS
<1>7. a \in Message /\ a.role = "assistant" /\ a.run = r /\ a.text \subseteq {r} /\ a.part = c.part
  BY <1>2, <1>5, <1>6 DEF Message
<1>8. PICK e : e = endStep(c, r)
  OBVIOUS
<1>9. e \in Message /\ e.role = "assistant" /\ e.run = r /\ e.text \subseteq {r} /\ e.part = c.part
  <2>1. e \in Message
    BY <1>2, <1>5, <1>8, EndStepType
  <2>2. e.role = c.role /\ e.run = c.run /\ e.text = c.text /\ e.part = c.part
    BY <1>2, <1>5, <1>8 DEF endStep, Message
  <2>3. QED
    BY <1>2, <1>5, <2>1, <2>2
<1>10. CASE ToolStart(r)
  <2>1. messages' = messages \/ onAnswer(a)
    BY <1>5, <1>6, <1>10 DEF ToolStart
  <2>2. /\ saves' = saves /\ run[r].at # "ended" /\ run'[r].at # "ended"
        /\ run'[r].kind = run[r].kind /\ run'[r].out = run[r].out
        /\ run'[r].home = run[r].home /\ subscribed' = subscribed
    BY <1>1, <1>10 DEF ToolStart, Run
  <2>3. QED
    BY <1>2, <1>3, <1>5, <1>7, <2>1, <2>2, EarlyWrites
<1>11. CASE ToolEvent(r)
  <2>1. messages' = messages \/ onAnswer(e)
    BY <1>5, <1>8, <1>11 DEF ToolEvent
  <2>2. /\ saves' = saves /\ run[r].at # "ended" /\ run'[r].at # "ended"
        /\ run'[r].kind = run[r].kind /\ run'[r].out = run[r].out
        /\ run'[r].home = run[r].home /\ subscribed' = subscribed
    BY <1>1, <1>11 DEF ToolEvent, Run
  <2>3. QED
    BY <1>2, <1>3, <1>5, <1>9, <2>1, <2>2, EarlyWrites
<1>12. CASE AskUser(r)
  <2>1. onAnswer(a)
    BY <1>5, <1>6, <1>12 DEF AskUser
  <2>2. /\ saves' = saves /\ run[r].at # "ended" /\ run'[r].at # "ended"
        /\ run'[r].kind = run[r].kind /\ run'[r].out = run[r].out
        /\ run'[r].home = run[r].home /\ subscribed' = subscribed
    BY <1>1, <1>12 DEF AskUser, Run
  <2>3. QED
    BY <1>2, <1>3, <1>5, <1>7, <2>1, <2>2, EarlyWrites
<1>13. ASSUME NEW out \in {"ok", "stopped", "error"}, Finish(r, out)
       PROVE  RoundWrites(r)
  <2>1. /\ messages' = messages /\ saves' = saves /\ run[r].at # "ended"
        /\ run'[r].kind = run[r].kind /\ run'[r].todo = {"event", "reply"}
        /\ run'[r].home = run[r].home /\ subscribed' = subscribed
    BY <1>1, <1>13 DEF Finish, Run
  <2>2. QED
    BY <1>3, <2>1, EarlyWrites
<1>14. CASE Chunk(r)
  <2>1. UNCHANGED <<messages, saves, run, subscribed>>
    BY <1>14 DEF Chunk
  <2>2. QED
    BY <1>3, <2>1 DEF RoundWrites, Partly, heard, dealt, succeeded, untold
<1>15. QED
  BY <1>4, <1>10, <1>11, <1>12, <1>13, <1>14 DEF Backend

(* The event and the reply that end a round, in either order.              *)
LEMMA WritesDeliver ==
  ASSUME TypeOK, BufferInv, NEW r \in Runs, DoneEvent(r) \/ ErrorEvent(r) \/ Reply(r),
         Answering(messages, r), Partly(r), buffer \subseteq {r}
  PROVE  RoundWrites(r)
<1>1. run \in [Runs -> Run] /\ messages \in History
  BY DEF TypeOK
<1>2. /\ current(r) \in Message /\ current(r).role = "assistant"
      /\ current(r).run = r /\ current(r).text \subseteq {r}
      /\ \A a \in Message : a.role = "assistant" /\ a.run = r /\ a.text \subseteq {r} /\ onAnswer(a)
           => /\ Updated(messages, messages', r) /\ lastAnswer(messages', r) = a
              /\ \A L : Complete(a, r, L) => Holds(messages', {r}, L)
  BY EventUpdated
<1>3. /\ messages' = messages => Updated(messages, messages', r)
      /\ run[r].kind = "chat" /\ (current(r).part \/ lastAnswer(messages, r).part) => heard(r)
  BY <1>1, UpdatedTwice, EventUpdated, PartlyHeard
<1>4. PICK c : c = current(r)
  OBVIOUS
<1>5. CASE DoneEvent(r)
  <2>1. /\ run[r].at = "ended" /\ run'[r].at = "ended" /\ run'[r].kind = run[r].kind
        /\ run'[r].out = run[r].out /\ run'[r].todo = run[r].todo \ {"event"}
    BY <1>1, <1>5 DEF DoneEvent, Run
  <2> DEFINE silent == run[r].kind = "plan" /\ run[r].out = "ok"
  <2>2. CASE heard(r)
    <3>1. PICK a : a = [c EXCEPT !.text = IF silent THEN c.text ELSE {r},
                                 !.part = c.part /\ run[r].kind = "plan" /\ run[r].out = "ok",
                                 !.running = {}]
      OBVIOUS
    <3>2. onAnswer(a)
      BY <1>4, <1>5, <2>2, <3>1 DEF DoneEvent
    <3>3. /\ a \in Message /\ a.role = "assistant" /\ a.run = r /\ a.text \subseteq {r}
          /\ run[r].kind = "chat" => ~a.part
          /\ \A L : succeeded(r) => Complete(a, r, L)
      BY <1>2, <1>4, <3>1 DEF Message, Complete, succeeded
    <3>4. /\ Updated(messages, messages', r) /\ (succeeded(r) => Holds(messages', {r}, ghost'.late))
          /\ Partly(r)'
      BY <1>2, <2>1, <3>2, <3>3 DEF Partly
    <3>5. saves' = saves \/ saves' \subseteq saves \cup {save(run[r].home, messages')}
      BY <1>5, <2>2 DEF DoneEvent, heard
    <3>6. QED
      BY <2>1, <3>4, <3>5 DEF RoundWrites, dealt, succeeded, untold
  <2>3. CASE ~heard(r)
    <3>1. messages' = messages /\ saves' = saves
      BY <1>5, <2>3 DEF DoneEvent
    <3>2. Partly(r)'
      BY <2>1, <2>3, <3>1 DEF Partly
    <3>3. QED
      BY <1>3, <2>1, <3>1, <3>2 DEF RoundWrites, dealt, succeeded, untold
  <2>4. QED
    BY <2>2, <2>3
<1>6. CASE ErrorEvent(r)
  <2>1. /\ run[r].at = "ended" /\ run'[r].at = "ended" /\ run'[r].kind = run[r].kind
        /\ run[r].out = "error" /\ run'[r].out = "error"
        /\ run'[r].todo = run[r].todo \ {"event"} /\ saves' = saves
        /\ run'[r].home = run[r].home /\ subscribed' = subscribed
    BY <1>1, <1>6 DEF ErrorEvent, Run, noCall, callVars
  <2>2. PICK a : a = [c EXCEPT !.text = fillIn(c.text, r), !.running = {}]
    OBVIOUS
  <2>3. messages' = messages \/ onAnswer(a)
    BY <1>4, <1>6, <2>2 DEF ErrorEvent
  <2>4. /\ a \in Message /\ a.role = "assistant" /\ a.run = r /\ a.text \subseteq {r}
        /\ a.part = c.part
    BY <1>2, <1>4, <2>2 DEF Message, fillIn
  <2>5. Updated(messages, messages', r) /\ Partly(r)'
    <3>1. /\ Updated(messages, messages', r)
          /\ lastAnswer(messages', r).part /\ run[r].kind = "chat" => heard(r)
      BY <1>2, <1>3, <1>4, <2>3, <2>4
    <3>2. QED
      BY <2>1, <3>1 DEF Partly, heard, succeeded
  <2>6. QED
    BY <2>1, <2>5 DEF RoundWrites, dealt, succeeded, untold
<1>7. CASE Reply(r)
  <2> DEFINE failed == run[r].out = "error" \/ (run[r].kind = "plan" /\ run[r].out = "stopped")
             expire == run[r].kind = "plan" /\ ~failed
  <2>1. /\ run[r].at = "ended" /\ run'[r].at = "ended" /\ run'[r].kind = run[r].kind
        /\ run'[r].out = run[r].out /\ run'[r].todo = run[r].todo \ {"reply"}
        /\ run'[r].home = run[r].home
    <3>1. run[r].at = "ended" /\ run' = [run EXCEPT ![r].todo = @ \ {"reply"}]
      BY <1>7 DEF Reply
    <3>2. QED
      BY <1>1, <3>1 DEF Run
  <2>2. PICK m : m = IF expire THEN expirePlans(messages, Len(messages)) ELSE messages
    OBVIOUS
  <2>3. Kept(messages, m)
    BY <1>1, <2>2, ExpireKept, KeptTwice
  <2>4. m \in History /\ Answering(m, r)
    BY <1>1, <2>3, KeptFacts DEF Kept
  <2>5. PICK b : b = lastAnswer(m, r)
    OBVIOUS
  <2>6. /\ b \in Message /\ b.role = "assistant" /\ b.run = r /\ b.text \subseteq {r}
        /\ b.part = lastAnswer(messages, r).part
    BY <1>1, <2>3, <2>4, <2>5, LastFacts, KeptFacts
  <2>7. PICK a : a = [b EXCEPT !.text = IF run[r].kind = "plan" THEN {r} ELSE fillIn(b.text, r),
                               !.part = b.part /\ run[r].kind # "plan",
                               !.running = {},
                               !.plan = IF expire THEN "proposed" ELSE b.plan]
    OBVIOUS
  <2>8. messages' = onLast(m, a)
    BY <1>7, <2>2, <2>5, <2>7 DEF Reply
  <2>9. /\ a \in Message /\ a.role = "assistant" /\ a.run = r /\ a.text = {r} /\ a.running = {}
        /\ a.part => b.part
    <3> HIDE DEF expire
    <3>1. QED
      BY <2>6, <2>7 DEF Message, fillIn
  <2>10. /\ Updated(m, messages', r) /\ Partly(r)'
         /\ succeeded(r) => Holds(messages', {r}, ghost'.late)
    <3>1. /\ Updated(m, messages', r) /\ lastAnswer(messages', r) = a
          /\ Complete(a, r, ghost'.late) => Holds(messages', {r}, ghost'.late)
      BY <2>4, <2>8, <2>9, OnLastUpdated
    <3>2. "event" \in run[r].todo => r \in ghost'.late
      BY <1>7 DEF Reply, TypeOK, Ghost
    <3>3. succeeded(r) => Complete(a, r, ghost'.late)
      BY <2>6, <2>9, <3>2 DEF Partly, succeeded, Complete
    <3>4. subscribed' = subscribed
      BY <1>7 DEF Reply
    <3>5. Partly(r)'
      BY <2>1, <2>6, <2>9, <3>1, <3>4 DEF Partly, heard, succeeded
    <3>6. QED
      BY <3>1, <3>3, <3>5
  <2>11. Updated(messages, messages', r)
    <3>1. Updated(messages, m, r)
      BY <1>1, <2>3, <2>4, KeptFacts DEF Updated, Holds
    <3>2. QED
      BY <1>1, <2>10, <3>1, UpdatedTwice
  <2>12. /\ saves' = saves \/ saves' = saves \cup {save(run[r].home, messages')}
         /\ succeeded(r) => saves' # {}
    <3>1. \E saved \in IF failed THEN {FALSE}
                       ELSE IF run[r].kind = "approval" THEN BOOLEAN ELSE {TRUE} :
            saves' = IF saved THEN saves \cup {save(run[r].home, messages')} ELSE saves
      BY <1>7 DEF Reply
    <3>2. QED
      BY <3>1 DEF succeeded
  <2>13. succeeded(r)' <=> succeeded(r)
    BY <2>1 DEF succeeded
  <2>14. ~untold(r)'
    BY <2>1 DEF untold
  <2>15. QED
    BY <2>10, <2>11, <2>12, <2>13, <2>14 DEF RoundWrites, dealt
<1>8. QED
  BY <1>5, <1>6, <1>7

(* Every step of the round under way.                                      *)
LEMMA WritesRound ==
  ASSUME TypeOK, RoundsInv, BufferInv, NEW r \in Runs, Round(r),
         run[r].at # "approving" => Answering(messages, r) /\ Partly(r), buffer \subseteq {r}
  PROVE  RoundWrites(r)
<1>1. CASE ApproveSend(r)
  <2>1. messages \in History /\ run \in [Runs -> Run] /\ run[r].at = "approving"
    BY <1>1 DEF TypeOK, ApproveSend
  <2>2. /\ messages' = messages \o <<question(r), blank(r)>> /\ saves' = saves
        /\ run'[r].kind = "approval"
    BY <1>1, <2>1 DEF ApproveSend, callVars, start, Run
  <2>3. messages' \in History
    BY <1>1, PanelTypeStart DEF TypeOK
  <2>4. Updated(messages, messages', r)
    <3>1. Answering(messages', r)
      BY <2>1, <2>2, AppendFacts
    <3>2. ASSUME NEW R \in SUBSET Runs
          PROVE  /\ Within(messages, R) /\ r \in R => Within(messages', R)
                 /\ \A L : Holds(messages, R, L) => Holds(messages', R, L)
      BY <2>1, <2>2, AppendFacts
    <3>3. QED
      BY <2>3, <3>1, <3>2 DEF Updated, Holds
  <2>5. QED
    BY <2>2, <2>4 DEF RoundWrites, Partly, dealt, succeeded, untold
<1>2. CASE Backend(r)
  <2>1. run[r].at # "approving"
    BY <1>2 DEF Backend, Chunk, ToolStart, ToolEvent, AskUser, AskTimeout, Finish
  <2>2. QED
    BY <1>2, <2>1, WritesBackend
<1>3. CASE DoneEvent(r) \/ ErrorEvent(r) \/ Reply(r)
  <2>1. run[r].at # "approving"
    BY <1>3 DEF DoneEvent, ErrorEvent, Reply
  <2>2. QED
    BY <1>3, <2>1, WritesDeliver
<1>4. QED
  BY <1>1, <1>2, <1>3 DEF Round

-----------------------------------------------------------------------------
(* Every step keeps HistoryInv.                                            *)

(* Holds is about each of the rounds, and weaker if more may be partial.   *)
LEMMA HoldsSome ==
  ASSUME NEW m, NEW R, NEW L, NEW Q, Holds(m, R, L)
  PROVE  /\ Q \subseteq R => Holds(m, Q, L)
         /\ \A r : Holds(m, {r}, L) => Holds(m, R \cup {r}, L)
         /\ \A K : L \subseteq K => Holds(m, R, K)
BY DEF Holds, Complete

(* A session that is undisturbed and shown, and the round under way there. *)
LEMMA AtWork ==
  ASSUME TypeOK, BufferInv, FlightInv, CallsInv, ShownInv,
         active \notin ghost.disturbed, NEW r \in Runs, live(r)
  PROVE  /\ run[r].home = active /\ r \in own(active) /\ loads = {}
         /\ Told(active, messages) /\ Working(r) /\ buffer \subseteq {r}
         /\ \A q \in own(active) \ {r} : succeeded(q) => dealt(q)
<1>1. run[r].home = active
  BY FlightFacts DEF FlightInv
<1>2. r \in own(active)
  BY <1>1 DEF own, live
<1>3. loads = {}
  BY DEF CallsInv
<1>4. Told(active, messages) /\ Working(r)
  BY <1>3 DEF ShownInv
<1>5. \A q \in Runs : live(q) => q = r
  BY <1>4 DEF Working
<1>6. buffer \subseteq Runs /\ \A q \in buffer : live(q)
  BY DEF BufferInv, live, finished, TypeOK
<1>7. buffer \subseteq {r}
  BY <1>5, <1>6
<1>8. \A q \in own(active) \ {r} : succeeded(q) => dealt(q)
  BY <1>5 DEF own, live, finished, dealt
<1>9. QED
  BY <1>1, <1>2, <1>3, <1>4, <1>7, <1>8

(* A step of a round.                                                      *)
LEMMA HistoryRound ==
  ASSUME TypeOK, RoundsInv, BufferInv, FlightInv, HistoryInv, NEW r \in Runs, Round(r)
  PROVE  HistoryInv'
<1>1. /\ live(r) /\ \A p \in Runs \ {r} : run'[p] = run[p]
      /\ run'[r].home = run[r].home /\ run'[r].at # "idle"
      /\ UNCHANGED <<stored, active>>
      /\ ghost'.disturbed = ghost.disturbed /\ ghost'.failed = ghost.failed
  BY RoundStep DEF Unmoved
<1>2. loads' = loads /\ saves \subseteq saves' /\ ghost.late \subseteq ghost'.late
  BY RoundMore
<1>3. \A s : own(s)' = own(s)
  BY <1>1, OwnSame DEF live
<1>4. \A q \in Runs \ {r} : (dealt(q)' <=> dealt(q)) /\ (succeeded(q)' <=> succeeded(q))
  BY <1>1 DEF dealt, succeeded
<1>5. \A s : s # run[r].home => due(s)' = due(s)
  <2>1. \A s : s # run[r].home => r \notin own(s)
    BY DEF own
  <2>2. \A s : own(s) \subseteq Runs
    BY DEF own
  <2>3. \A s : due(s)' = {q \in own(s) : dealt(q)' /\ s \notin ghost.failed}
    BY <1>1, <1>3 DEF due
  <2>4. QED
    BY <1>4, <2>1, <2>2, <2>3 DEF due
<1>6. CASE active \in ghost.disturbed
  <2>1. run[r].home \in ghost.disturbed
    BY <1>1, <1>6, FlightFacts DEF FlightInv
  <2>2. ASSUME NEW s \in Ids \ ghost.disturbed
        PROVE  Within(stored'[s], own(s)') /\ Holds(stored'[s], due(s)', ghost'.late)
    <3>1. Within(stored[s], own(s)) /\ Holds(stored[s], due(s), ghost.late)
      BY <1>6 DEF HistoryInv, StoredInv
    <3>2. own(s)' = own(s) /\ due(s)' = due(s) /\ stored' = stored
      BY <1>1, <1>3, <1>5, <2>1
    <3>3. QED
      BY <1>2, <3>1, <3>2, HoldsSome
  <2>3. StoredInv'
    BY <1>1, <2>2 DEF StoredInv
  <2>4. CallsInv' /\ ShownInv'
    BY <1>1, <1>6 DEF CallsInv, ShownInv
  <2>5. QED
    BY <2>3, <2>4 DEF HistoryInv
<1>7. CASE active \notin ghost.disturbed
  <2>1. /\ run[r].home = active /\ r \in own(active) /\ loads = {}
        /\ Told(active, messages) /\ Working(r) /\ buffer \subseteq {r}
        /\ \A q \in own(active) \ {r} : succeeded(q) => dealt(q)
    BY <1>1, <1>7, AtWork DEF HistoryInv
  <2>2. RoundWrites(r)
    BY <2>1, WritesRound DEF Working
  <2>3. PICK O \in SUBSET Runs : O = own(active)
    BY DEF own
  <2>4. PICK D \in SUBSET Runs : D = due(active)
    BY DEF due, own
  <2>5. r \in O /\ D \subseteq O /\ own(active)' = O
    BY <1>1, <1>3, <2>1, <2>3, <2>4 DEF due
  <2>6. /\ due(active)' = {q \in O : dealt(q)' /\ active \notin ghost.failed}
        /\ D = {q \in O : dealt(q) /\ active \notin ghost.failed}
    BY <1>1, <2>3, <2>4, <2>5 DEF due
  <2>7. /\ well(active)' = {q \in O : succeeded(q)' /\ active \notin ghost.failed}
        /\ well(active) = {q \in O : succeeded(q) /\ active \notin ghost.failed}
    BY <1>1, <2>3, <2>5 DEF well
  <2>8. /\ due(active)' \subseteq D \cup {r}
        /\ ~dealt(r)' \/ dealt(r) => due(active)' \subseteq D
    BY <1>4, <2>5, <2>6
  <2>9. well(active)' \subseteq D \cup {r} /\ (~succeeded(r)' => well(active)' \subseteq D \ {r})
    BY <1>4, <2>1, <2>3, <2>4, <2>6, <2>7
  <2>10. /\ Within(messages', O) /\ Holds(messages', D \ {r}, ghost'.late)
         /\ Answering(messages', r)
    <3>1. /\ Within(messages', O) /\ Holds(messages', D \ {r}, ghost.late)
          /\ Answering(messages', r)
      BY <2>1, <2>2, <2>3, <2>4, <2>5 DEF RoundWrites, Updated, Told
    <3>2. QED
      BY <1>2, <3>1, HoldsSome
  <2>11. StoredInv'
    <3>1. ASSUME NEW s \in Ids \ ghost.disturbed
          PROVE  /\ Within(stored'[s], own(s)')
                 /\ (s = active /\ saves' # {}) \/ Holds(stored'[s], due(s)', ghost'.late)
      <4>1. /\ Within(stored[s], own(s))
            /\ (s = active /\ saves # {}) \/ Holds(stored[s], due(s), ghost'.late)
        BY <1>2, HoldsSome DEF HistoryInv, StoredInv
      <4>2. own(s)' = own(s) /\ stored' = stored
        BY <1>1, <1>3
      <4>3. CASE s # active
        <5>1. due(s)' = due(s)
          BY <1>5, <2>1, <4>3
        <5>2. QED
          BY <4>1, <4>2, <4>3, <5>1
      <4>4. CASE s = active /\ saves' # {}
        BY <4>1, <4>2, <4>4
      <4>5. CASE s = active /\ saves' = {}
        <5>1. Holds(stored[active], D, ghost'.late)
          BY <1>2, <2>4, <4>1, <4>5
        <5>2. due(active)' \subseteq D
          BY <2>2, <2>8, <4>5 DEF RoundWrites
        <5>3. Holds(stored[active], due(active)', ghost'.late)
          BY <5>1, <5>2, HoldsSome
        <5>4. due(s)' = due(active)'
          BY <1>1, <4>5 DEF due, own
        <5>5. QED
          BY <4>1, <4>2, <4>5, <5>3, <5>4
      <4>6. QED
        BY <4>3, <4>4, <4>5
    <3>2. QED
      BY <1>1, <3>1 DEF StoredInv
  <2>12. CallsInv'
    <3>1. ASSUME NEW v \in saves'
          PROVE  Within(v.msgs, O) /\ Holds(v.msgs, well(active)', ghost'.late)
      <4>1. CASE v \in saves
        <5>1. Within(v.msgs, O) /\ Holds(v.msgs, well(active), ghost'.late)
          BY <1>2, <1>7, <2>3, <4>1, HoldsSome DEF HistoryInv, CallsInv
        <5>2. ~untold(r)
          BY <2>1, <4>1 DEF Working
        <5>3. succeeded(r)' => succeeded(r)
          BY <2>2, <5>2 DEF RoundWrites
        <5>4. well(active)' \subseteq well(active)
          BY <1>4, <2>7, <5>3
        <5>5. QED
          BY <5>1, <5>4, HoldsSome
      <4>2. CASE v \notin saves
        <5>1. /\ v = save(run[r].home, messages')
              /\ succeeded(r)' => Holds(messages', {r}, ghost'.late)
          BY <2>2, <4>2 DEF RoundWrites
        <5>2. v.msgs = messages'
          BY <5>1 DEF save
        <5>3. CASE succeeded(r)'
          <6>1. Holds(messages', (D \ {r}) \cup {r}, ghost'.late)
            BY <2>10, <5>1, <5>3, HoldsSome
          <6>2. Holds(messages', well(active)', ghost'.late)
            BY <2>9, <6>1, HoldsSome
          <6>3. QED
            BY <2>10, <5>2, <6>2
        <5>4. CASE ~succeeded(r)'
          BY <2>9, <2>10, <5>2, <5>4, HoldsSome
        <5>5. QED
          BY <5>3, <5>4
      <4>3. QED
        BY <4>1, <4>2
    <3>2. loads' = {}
      BY <1>2, <2>1
    <3>3. QED
      BY <2>5, <3>1, <3>2 DEF CallsInv
  <2>13. ShownInv'
    <3>1. Holds(messages', due(active)', ghost'.late)
      <4>1. CASE dealt(r)' /\ Holds(messages', {r}, ghost'.late)
        <5>1. Holds(messages', (D \ {r}) \cup {r}, ghost'.late)
          BY <2>10, <4>1, HoldsSome
        <5>2. QED
          BY <2>8, <5>1, HoldsSome
      <4>2. CASE dealt(r)' /\ dealt(r) /\ messages' = messages
        <5>1. Holds(messages', D, ghost'.late)
          BY <1>2, <2>1, <2>4, <4>2, HoldsSome DEF Told
        <5>2. QED
          BY <2>8, <4>2, <5>1, HoldsSome
      <4>3. CASE ~dealt(r)'
        <5>1. due(active)' \subseteq D \ {r}
          BY <2>6, <2>8, <4>3
        <5>2. QED
          BY <2>10, <5>1, HoldsSome
      <4>4. QED
        BY <2>2, <4>1, <4>2, <4>3 DEF RoundWrites
    <3>2. \A q \in Runs : live(q)' => q = r
      BY <1>1, <2>1 DEF Working, live, finished
    <3>3. untold(r)' => saves' = {}
      BY <2>1, <2>2 DEF Working, RoundWrites
    <3>4. Working(r)'
      BY <2>2, <2>10, <3>2, <3>3 DEF Working, RoundWrites
    <3>5. \A q \in Runs : live(q)' => Working(q)'
      BY <3>2, <3>4
    <3>6. Told(active, messages)'
      BY <2>5, <2>10, <3>1 DEF Told
    <3>7. QED
      BY <3>5, <3>6 DEF ShownInv
  <2>14. QED
    BY <2>11, <2>12, <2>13 DEF HistoryInv
<1>8. QED
  BY <1>6, <1>7

(* Steps that move no round to another session, another end or a result.   *)
SameRounds ==
  /\ \A p \in Runs : /\ run'[p].home = run[p].home /\ run'[p].todo = run[p].todo
                     /\ run'[p].out = run[p].out /\ run'[p].kind = run[p].kind
                     /\ \/ run'[p].at = run[p].at
                        \/ run[p].at = "asking" /\ run'[p].at = "tool"
  /\ ghost'.late = ghost.late /\ ghost.failed \subseteq ghost'.failed

(* To the histories, such a step changes nothing of the rounds, but that a *)
(* call that fails leaves less to be told.                                 *)
LEMMA RoundsSame ==
  ASSUME SameRounds
  PROVE  /\ \A s : /\ own(s)' = own(s) /\ due(s)' \subseteq due(s) /\ well(s)' \subseteq well(s)
                   /\ s \in ghost'.failed => due(s)' = {} /\ well(s)' = {}
         /\ \A p \in Runs : /\ live(p)' <=> live(p)
                            /\ untold(p)' <=> untold(p)
                            /\ run'[p].at = "approving" <=> run[p].at = "approving"
<1>1. \A s : own(s)' = own(s)
  BY OwnSame DEF SameRounds
<1>2. \A p \in Runs : (dealt(p)' <=> dealt(p)) /\ (succeeded(p)' <=> succeeded(p))
  BY DEF SameRounds, dealt, succeeded
<1>3. \A s : own(s) \subseteq Runs
  BY DEF own
<1>4. \A s : /\ due(s)' = {q \in own(s) : dealt(q)' /\ s \notin ghost'.failed}
             /\ well(s)' = {q \in own(s) : succeeded(q)' /\ s \notin ghost'.failed}
  BY <1>1 DEF due, well
<1>5. \A s : /\ due(s)' \subseteq due(s) /\ well(s)' \subseteq well(s)
             /\ s \in ghost'.failed => due(s)' = {} /\ well(s)' = {}
  BY <1>2, <1>3, <1>4 DEF due, well, SameRounds
<1>6. \A p \in Runs : /\ live(p)' <=> live(p)
                      /\ untold(p)' <=> untold(p)
                      /\ run'[p].at = "approving" <=> run[p].at = "approving"
  BY DEF SameRounds, live, finished, untold
<1>7. QED
  BY <1>1, <1>5, <1>6

(* A history that is kept tells what it told.                              *)
LEMMA KeptTold ==
  ASSUME NEW s, NEW m \in History, NEW n, Kept(m, n), Told(s, m)
  PROVE  Told(s, n)
BY KeptFacts DEF Told

(* handleAnswerAsk ends a step of the last answer.                         *)
LEMMA AskKept ==
  ASSUME NEW m \in History, NEW p \in Runs
  PROVE  Kept(m, onLast(m, [lastAnswer(m, p) EXCEPT !.running = @ \ {p}]))
<1>1. CASE lastIsAnswer(m)
  <2>1. PICK b : b = m[Len(m)]
    OBVIOUS
  <2>2. PICK a : a = [b EXCEPT !.running = b.running \ {p}]
    OBVIOUS
  <2>3. DOMAIN m = 1 .. Len(m) /\ Len(m) \in DOMAIN m
    BY <1>1, HistoryDef, EmptySeq DEF lastIsAnswer, History
  <2>4. b \in Message
    BY <2>1, <2>3, HistoryDef
  <2>5. /\ a \in Message /\ a.role = b.role /\ a.run = b.run /\ a.text = b.text
        /\ a.part = b.part
        /\ b.running = {} => a.running = {}
    BY <2>2, <2>4 DEF Message
  <2>6. PICK n : n = onLast(m, a)
    OBVIOUS
  <2>7. n \in History /\ n = [m EXCEPT ![Len(m)] = a]
    BY <1>1, <2>5, <2>6, UpdateType DEF onLast
  <2>8. Kept(m, n)
    BY <2>1, <2>3, <2>5, <2>7 DEF Kept
  <2>9. QED
    BY <1>1, <2>1, <2>2, <2>6, <2>8 DEF lastAnswer
<1>2. CASE ~lastIsAnswer(m)
  BY <1>2, KeptTwice DEF onLast
<1>3. QED
  BY <1>1, <1>2

(* What a quiet step reads and shows.                                      *)
LEMMA QuietWrites ==
  ASSUME TypeOK, Quiet
  PROVE  /\ \A l \in loads' : l \in loads \/ \E k \in loads : l.got = recovered(k.s)
         /\ \/ Kept(messages, messages') /\ (loads = {} <=> loads' = {})
            \/ messages' = flushChunks /\ loads' = loads /\ (subscribed # active \/ Flush)
            \/ \E l \in loads : l.read /\ Kept(l.got, messages')
            \/ \E l \in loads : l.s \in ghost'.failed /\ messages' = <<>>
<1>1. messages \in History /\ pendingAsk \in Runs \cup {None} /\ \A l \in loads : l.got \in History
  BY DEF TypeOK
<1>2. Kept(messages, messages)
  BY <1>1, KeptTwice
<1> USE DEF noCall, callVars, storeVars, panelVars
<1>3. CASE Flush
  BY <1>3 DEF Flush
<1>4. CASE Resubscribe
  BY <1>4 DEF Resubscribe
<1>5. CASE Watchdog \/ Stop
  BY <1>2, <1>5 DEF Watchdog, Stop
<1>6. ASSUME AnswerAsk \/ \E r \in Runs : AnswerReturn(r)
      PROVE  loads' = loads /\ Kept(messages, messages')
  <2>1. loads' = loads
    BY <1>6 DEF AnswerAsk, AnswerReturn
  <2>2. Kept(messages, messages')
    BY <1>1, <1>2, <1>6, AskKept DEF AnswerAsk, AnswerReturn
  <2>3. QED
    BY <2>1, <2>2
<1>7. ASSUME NEW l \in loads, LoadRead(l)
      PROVE  /\ \A k \in loads' : k \in loads \/ k.got = recovered(l.s)
             /\ messages' = messages /\ loads # {} /\ loads' # {}
  <2>1. PICK n : n = [s |-> l.s, read |-> TRUE, got |-> recovered(l.s)]
    OBVIOUS
  <2>2. n.got = recovered(l.s)
    BY <2>1
  <2>3. loads' = (loads \ {l}) \cup {n} /\ messages' = messages
    BY <1>7, <2>1 DEF LoadRead
  <2>4. QED
    BY <2>2, <2>3
<1>8. ASSUME NEW l \in loads, LoadApply(l)
      PROVE  loads' \subseteq loads /\ l.read /\ Kept(l.got, messages')
  <2>1. \E keep : messages' \in {l.got, expirePlans(l.got, keep)}
    BY <1>8 DEF LoadApply
  <2>2. Kept(l.got, messages')
    BY <1>1, <2>1, ExpireKept, KeptTwice
  <2>3. QED
    BY <1>8, <2>2 DEF LoadApply
<1>9. ASSUME NEW l \in loads, LoadFail(l)
      PROVE  loads' \subseteq loads /\ l.s \in ghost'.failed /\ messages' = <<>>
  BY <1>9 DEF LoadFail, TypeOK, Ghost
<1>10. QED
  BY <1>2, <1>3, <1>4, <1>5, <1>6, <1>7, <1>8, <1>9 DEF Quiet

(* A quiet step.                                                           *)
LEMMA HistoryQuiet ==
  ASSUME TypeOK, RoundsInv, BufferInv, FlightInv, HistoryInv, Quiet
  PROVE  HistoryInv'
<1>1. /\ SameRounds /\ UNCHANGED <<stored, active, saves>>
      /\ ghost'.disturbed = ghost.disturbed /\ ghost'.late = ghost.late
  BY QuietStep, QuietMore DEF SameRounds, Unmoved
<1>2. /\ \A s : /\ own(s)' = own(s) /\ due(s)' \subseteq due(s) /\ well(s)' \subseteq well(s)
                /\ s \in ghost'.failed => due(s)' = {} /\ well(s)' = {}
      /\ \A p \in Runs : /\ live(p)' <=> live(p)
                         /\ untold(p)' <=> untold(p)
                         /\ run'[p].at = "approving" <=> run[p].at = "approving"
  BY <1>1, RoundsSame
<1>3. /\ own(active)' = own(active) /\ due(active)' \subseteq due(active)
      /\ well(active)' \subseteq well(active)
      /\ active \in ghost'.failed => due(active)' = {}
  <2>1. \A s : s = active' => /\ own(active)' = own(s)' /\ due(active)' = due(s)'
                              /\ well(active)' = well(s)'
    BY <1>1 DEF own, due, well
  <2>2. QED
    BY <1>1, <1>2, <2>1
<1>4. StoredInv'
  <2>1. ASSUME NEW s \in Ids \ ghost.disturbed
        PROVE  /\ Within(stored[s], own(s)')
               /\ (s = active /\ saves # {}) \/ Holds(stored[s], due(s)', ghost.late)
    BY <1>2, HoldsSome DEF HistoryInv, StoredInv
  <2>2. QED
    BY <1>1, <2>1 DEF StoredInv
<1>5. CASE active \in ghost.disturbed
  BY <1>1, <1>4, <1>5 DEF HistoryInv, CallsInv, ShownInv
<1>6. CASE active \notin ghost.disturbed
  <2>1. \A l \in loads : l.read => Told(active, l.got) /\ l.got \in History
    BY <1>6 DEF HistoryInv, CallsInv, TypeOK
  <2>2. loads # {} => saves = {} /\ \A r \in Runs : ~live(r)
    BY <1>6 DEF HistoryInv, CallsInv
  <2>3. CallsInv'
    <3>1. ASSUME NEW l \in loads', l.read
          PROVE  Told(active, l.got)
      <4>1. CASE l \in loads
        BY <2>1, <3>1, <4>1
      <4>2. ASSUME NEW k \in loads, l.got = recovered(k.s)
            PROVE  Told(active, l.got)
        <5>1. k.s = active
          BY <1>6, FlightFacts DEF FlightInv
        <5>2. Told(active, stored[active]) /\ active \in Ids /\ stored[active] \in History
          BY <1>6, <2>2 DEF HistoryInv, StoredInv, Told, TypeOK
        <5>3. Kept(stored[active], l.got)
          BY <4>2, <5>1, <5>2, RecoveredKept
        <5>4. QED
          BY <5>2, <5>3, KeptTold
      <4>3. QED
        BY <4>1, <4>2, QuietWrites
    <3>2. loads' # {} => saves = {} /\ \A r \in Runs : ~live(r)
      BY <2>2, QuietMore
    <3>3. \A v \in saves : Within(v.msgs, own(active)) /\ Holds(v.msgs, well(active)', ghost.late)
      BY <1>3, <1>6, HoldsSome DEF HistoryInv, CallsInv
    <3>4. \A l \in loads' : l.read =>
            Within(l.got, own(active)) /\ Holds(l.got, due(active)', ghost.late)
      BY <1>3, <3>1, HoldsSome DEF Told
    <3>5. QED
      BY <1>1, <1>2, <1>3, <3>2, <3>3, <3>4 DEF CallsInv, Told
  <2>4. ASSUME loads' = {}
        PROVE  /\ Within(messages', own(active)) /\ Holds(messages', due(active)', ghost.late)
               /\ \A r \in Runs : live(r) =>
                    /\ Working(r) /\ run[r].home = active
                    /\ run[r].at # "approving" =>
                         /\ Answering(messages', r)
                         /\ lastAnswer(messages', r).part =>
                              lastAnswer(messages, r).part \/ r \in buffer
    <3>1. /\ messages \in History
          /\ \A r \in Runs : live(r) => run[r].home = active
          /\ Told(active, messages') =>
               Within(messages', own(active)) /\ Holds(messages', due(active)', ghost.late)
      BY <1>3, <1>6, FlightFacts, HoldsSome DEF TypeOK, Told, FlightInv
    <3>2. CASE Kept(messages, messages') /\ loads = {}
      <4>1. Told(active, messages) /\ \A r \in Runs : live(r) => Working(r)
        BY <1>6, <3>2 DEF HistoryInv, ShownInv
      <4>2. Told(active, messages')
        BY <3>1, <3>2, <4>1, KeptTold
      <4>3. \A r \in Runs : Answering(messages, r) =>
              /\ Answering(messages', r)
              /\ lastAnswer(messages', r).part = lastAnswer(messages, r).part
        BY <3>1, <3>2, KeptFacts
      <4>4. QED
        BY <3>1, <4>1, <4>2, <4>3 DEF Working
    <3>3. CASE messages' = flushChunks /\ loads' = loads /\ (subscribed # active \/ Flush)
      <4>1. Told(active, messages) /\ \A r \in Runs : live(r) => Working(r)
        BY <1>6, <2>4, <3>3 DEF HistoryInv, ShownInv
      <4>2. CASE buffer = {}
        <5>1. messages' = messages
          BY <3>3, <4>2 DEF flushChunks
        <5>2. QED
          BY <3>1, <4>1, <5>1 DEF Working
      <4>3. ASSUME NEW r \in buffer
            PROVE  /\ Told(active, messages')
                   /\ \A q \in Runs : live(q) => /\ Working(q) /\ Answering(messages', q)
                                                 /\ q \in buffer
        <5>1. r \in Runs /\ live(r) /\ run[r].home = subscribed /\ run[r].at # "approving"
          BY <4>3 DEF BufferInv, live, finished, TypeOK
        <5>2. /\ r \in own(active) /\ Working(r) /\ buffer \subseteq {r}
          BY <1>6, <5>1, AtWork DEF HistoryInv
        <5>3. Answering(messages, r) /\ \A q \in Runs : live(q) => q = r
          BY <5>1, <5>2 DEF Working
        <5>4. own(active) \in SUBSET Runs /\ due(active) \in SUBSET Runs
          BY DEF own, due
        <5>5. r \in due(active) => r \in ghost.late
          <6>1. run[r].at = "ended" => "event" \in run[r].todo
            BY <4>3 DEF BufferInv
          <6>2. run[r].todo \subseteq {"event", "reply"}
            BY <5>1 DEF TypeOK, Run
          <6>3. ASSUME dealt(r)
                PROVE  run[r].todo = {"event"}
            BY <5>1, <6>1, <6>2, <6>3 DEF dealt, succeeded, RoundsInv
          <6>4. QED
            BY <5>1, <6>3 DEF due, RoundsInv
        <5>6. /\ Updated(messages, messages', r)
              /\ Holds(messages, due(active), ghost.late) =>
                   Holds(messages', due(active), ghost.late)
          BY <3>3, <5>1, <5>2, <5>3, <5>4, <5>5, FlushUpdated
        <5>7. Told(active, messages') /\ Answering(messages', r)
          BY <4>1, <5>2, <5>4, <5>6 DEF Updated, Told
        <5>8. QED
          BY <4>3, <5>2, <5>3, <5>7
      <4>4. QED
        BY <3>1, <4>2, <4>3
    <3>4. ASSUME NEW l \in loads, l.read, Kept(l.got, messages')
          PROVE  Told(active, messages') /\ \A r \in Runs : ~live(r)
      BY <2>1, <2>2, <3>4, KeptTold
    <3>5. ASSUME NEW l \in loads, l.s \in ghost'.failed, messages' = <<>>
          PROVE  /\ Within(messages', own(active)) /\ Holds(messages', due(active)', ghost.late)
                 /\ \A r \in Runs : ~live(r)
      <4>1. l.s = active
        BY <1>6, FlightFacts DEF FlightInv
      <4>2. due(active)' = {} /\ DOMAIN messages' = {}
        BY <1>3, <3>5, <4>1
      <4>3. QED
        BY <2>2, <4>2 DEF Within, Holds
    <3>6. QED
      BY <2>4, <3>1, <3>2, <3>3, <3>4, <3>5, QuietWrites
  <2>5. ShownInv'
    <3>1. ASSUME loads' = {}, NEW r \in Runs, live(r)'
          PROVE  Working(r)'
      <4>1. /\ live(r) /\ Working(r) /\ run[r].home = active
            /\ run'[r].at # "approving" =>
                 /\ Answering(messages', r)
                 /\ lastAnswer(messages', r).part =>
                      lastAnswer(messages, r).part \/ r \in buffer
        BY <1>2, <2>4, <3>1
      <4>2. ASSUME run[r].at # "approving", lastAnswer(messages', r).part, run[r].kind = "chat"
            PROVE  heard(r) /\ (succeeded(r) => "event" \in run[r].todo)
        <5>1. CASE lastAnswer(messages, r).part
          BY <4>1, <4>2, <5>1 DEF Working, Partly
        <5>2. CASE r \in buffer
          BY <5>2 DEF BufferInv, heard, succeeded, RoundsInv
        <5>3. QED
          BY <1>2, <4>1, <4>2, <5>1, <5>2
      <4>3. run'[r].at # "approving" => Partly(r)'
        <5>1. subscribed' \in {subscribed, active}
          BY QuietMore
        <5>2. QED
          BY <1>1, <1>2, <4>1, <4>2, <5>1 DEF Partly, heard, succeeded, SameRounds
      <4>4. QED
        BY <1>1, <1>2, <4>1, <4>3 DEF Working
    <3>2. loads' = {} => Told(active, messages)'
      BY <1>1, <1>3, <2>4 DEF Told
    <3>3. QED
      BY <3>1, <3>2 DEF ShownInv
  <2>6. QED
    BY <1>4, <2>3, <2>5 DEF HistoryInv
<1>7. QED
  BY <1>5, <1>6

(* Steps that leave the rounds and the messages: a save that takes effect  *)
(* leaves a history which tells of every successful round.                 *)
LEMMA HistoryCalm ==
  ASSUME TypeOK, FlightInv, HistoryInv,
         \/ \E s \in Ids : CreateCall(s) \/ DeleteCall(s) \/ Rename(s)
         \/ \E v \in saves : ApplySave(v)
         \/ \E r \in Runs : TitleCheck(r) \/ TitleWrite(r)
         \/ UNCHANGED vars
  PROVE  HistoryInv'
<1>1. /\ active' = active /\ ghost'.disturbed = ghost.disturbed
      /\ ghost'.failed = ghost.failed /\ ghost'.late = ghost.late
      /\ UNCHANGED <<run, subscribed, messages, loads>> /\ saves' \subseteq saves
  BY OtherCalm, OtherSteps DEF Calm
<1>2. /\ \A s : own(s)' = own(s) /\ due(s)' = due(s) /\ well(s)' = well(s)
      /\ \A p \in Runs : /\ live(p)' <=> live(p)
                         /\ untold(p)' <=> untold(p)
                         /\ dealt(p)' <=> dealt(p)
                         /\ Partly(p)' <=> Partly(p)
  BY <1>1 DEF own, due, well, live, finished, untold, dealt, succeeded, Partly, heard
<1>3. own(active)' = own(active) /\ due(active)' = due(active) /\ well(active)' = well(active)
  BY <1>1 DEF own, due, well, dealt, succeeded
<1>4. CallsInv'
  BY <1>1, <1>2, <1>3 DEF HistoryInv, CallsInv, Told
<1>5. ShownInv'
  <2>1. ASSUME active \notin ghost.disturbed, loads = {}
        PROVE  Told(active, messages)' /\ \A r \in Runs : live(r)' => Working(r)'
    <3>1. Told(active, messages) /\ \A r \in Runs : live(r) => Working(r)
      BY <2>1 DEF HistoryInv, ShownInv
    <3>2. Told(active, messages)'
      BY <1>1, <1>3, <3>1 DEF Told
    <3>3. ASSUME NEW r \in Runs, live(r)'
          PROVE  Working(r)'
      BY <1>1, <1>2, <3>1, <3>3 DEF Working
    <3>4. QED
      BY <3>2, <3>3
  <2>2. QED
    BY <1>1, <2>1 DEF ShownInv
<1>6. ASSUME NEW v \in saves, ApplySave(v)
      PROVE  StoredInv'
  <2>1. stored' = [stored EXCEPT ![v.s] = v.msgs] /\ stored \in [Ids -> History] /\ v.s \in Ids
    BY <1>6 DEF ApplySave, TypeOK
  <2>2. v.s \in inFlight
    BY FlightFacts
  <2>3. ASSUME NEW s \in Ids \ ghost.disturbed
        PROVE  /\ Within(stored'[s], own(s))
               /\ s # active \/ saves' = {} => Holds(stored'[s], due(s), ghost.late)
    <3>1. /\ Within(stored[s], own(s))
          /\ (s = active /\ saves # {}) \/ Holds(stored[s], due(s), ghost.late)
      BY DEF HistoryInv, StoredInv
    <3>2. CASE s = v.s
      <4>1. s = active /\ stored'[s] = v.msgs
        BY <2>1, <2>2, <2>3, <3>2 DEF FlightInv
      <4>2. Within(v.msgs, own(s)) /\ Holds(v.msgs, well(s), ghost.late)
        BY <2>3, <4>1 DEF HistoryInv, CallsInv
      <4>3. due(s) \subseteq well(s)
        BY DEF due, well, dealt
      <4>4. QED
        BY <4>1, <4>2, <4>3, HoldsSome
    <3>3. CASE s # v.s
      <4>1. stored'[s] = stored[s]
        BY <2>1, <3>3
      <4>2. s # active
        BY <2>2, <2>3, <3>3 DEF FlightInv
      <4>3. QED
        BY <3>1, <4>1, <4>2
    <3>4. QED
      BY <3>2, <3>3
  <2>4. ASSUME NEW s \in Ids \ ghost'.disturbed
        PROVE  /\ Within(stored'[s], own(s)')
               /\ (s = active' /\ saves' # {}) \/ Holds(stored'[s], due(s)', ghost'.late)
    <3>1. /\ Within(stored'[s], own(s))
          /\ s # active \/ saves' = {} => Holds(stored'[s], due(s), ghost.late)
      BY <1>1, <2>3
    <3>2. own(s)' = own(s) /\ due(s)' = due(s)
      BY <1>2
    <3>3. QED
      BY <1>1, <3>1, <3>2
  <2>5. QED
    BY <2>4 DEF StoredInv
<1>7. CASE stored' = stored /\ saves' = saves
  <2>1. ASSUME NEW s \in Ids \ ghost'.disturbed
        PROVE  /\ Within(stored'[s], own(s)')
               /\ (s = active' /\ saves' # {}) \/ Holds(stored'[s], due(s)', ghost'.late)
    <3>1. own(s)' = own(s) /\ due(s)' = due(s)
      BY <1>2
    <3>2. /\ Within(stored[s], own(s))
          /\ (s = active /\ saves # {}) \/ Holds(stored[s], due(s), ghost.late)
      BY <1>1 DEF HistoryInv, StoredInv
    <3>3. QED
      BY <1>1, <1>7, <3>1, <3>2
  <2>2. StoredInv'
    BY <2>1 DEF StoredInv
  <2>3. QED
    BY <1>4, <1>5, <2>2 DEF HistoryInv
<1>8. (\E v \in saves : ApplySave(v)) \/ (stored' = stored /\ saves' = saves)
  BY DEF CreateCall, DeleteCall, Rename, TitleCheck, TitleWrite, vars, callVars, storeVars
<1>9. QED
  BY <1>4, <1>5, <1>6, <1>7, <1>8 DEF HistoryInv

(* Calls that fail, and clearings that return.  What a failed save may     *)
(* still have written is a history of the session it is of.                *)
LEMMA HistorySetback ==
  ASSUME TypeOK, FlightInv, HistoryInv, Setback
  PROVE  HistoryInv'
<1>1. /\ active' = active /\ ghost'.disturbed = ghost.disturbed
      /\ ghost.failed \subseteq ghost'.failed /\ ghost'.late = ghost.late
      /\ UNCHANGED <<run, subscribed, messages, loads>>
      /\ \A v \in saves' : v \in saves \/ v.s \in clearing
      /\ \A v \in saves \ saves' : v.s \in ghost'.failed
      /\ \A s \in Ids : \/ stored'[s] = stored[s]
                        \/ stored'[s] = <<>> /\ s = Default /\ clearing # {}
                        \/ s \in ghost'.failed /\ \E v \in saves : v.s = s /\ stored'[s] = v.msgs
  BY SetbackStep DEF Unmoved
<1>2. SameRounds
  BY <1>1 DEF SameRounds
<1>3. /\ \A s : /\ own(s)' = own(s) /\ due(s)' \subseteq due(s) /\ well(s)' \subseteq well(s)
                /\ s \in ghost'.failed => due(s)' = {}
      /\ \A p \in Runs : (live(p)' <=> live(p)) /\ (untold(p)' <=> untold(p))
  BY <1>2, RoundsSame
<1>4. /\ own(active)' = own(active) /\ due(active)' \subseteq due(active)
      /\ well(active)' \subseteq well(active)
  <2>1. \A s : s = active' => /\ own(active)' = own(s)' /\ due(active)' = due(s)'
                              /\ well(active)' = well(s)'
    BY <1>1 DEF own, due, well
  <2>2. QED
    BY <1>1, <1>3, <2>1
<1>5. active \notin ghost.disturbed => saves' \subseteq saves
  <2>1. ASSUME active \notin ghost.disturbed
        PROVE  clearing = {}
    BY <2>1, FlightFacts DEF FlightInv
  <2>2. QED
    BY <1>1, <2>1
<1>6. StoredInv'
  <2>1. ASSUME NEW s \in Ids \ ghost.disturbed
        PROVE  /\ Within(stored'[s], own(s)')
               /\ (s = active /\ saves' # {}) \/ Holds(stored'[s], due(s)', ghost.late)
    <3>1. /\ Within(stored[s], own(s))
          /\ (s = active /\ saves # {}) \/ Holds(stored[s], due(s)', ghost.late)
      BY <1>3, HoldsSome DEF HistoryInv, StoredInv
    <3>2. CASE s \in ghost'.failed
      <4>1. Holds(stored'[s], due(s)', ghost.late)
        BY <1>3, <3>2 DEF Holds
      <4>2. ~(s = Default /\ clearing # {})
        BY <2>1 DEF FlightInv
      <4>3. ASSUME NEW v \in saves, v.s = s
            PROVE  Within(v.msgs, own(s))
        <5>1. s = active
          BY <2>1, <4>3, FlightFacts DEF FlightInv
        <5>2. QED
          BY <2>1, <5>1 DEF HistoryInv, CallsInv
      <4>4. QED
        BY <1>1, <1>3, <3>1, <4>1, <4>2, <4>3
    <3>3. CASE s \notin ghost'.failed
      <4>1. stored'[s] = stored[s]
        BY <1>1, <2>1, <3>3 DEF FlightInv
      <4>2. s = active /\ saves # {} => saves' # {}
        <5>1. ASSUME s = active, NEW v \in saves
              PROVE  v \in saves'
          <6>1. v.s = active
            BY <2>1, <5>1, FlightFacts DEF FlightInv
          <6>2. QED
            BY <1>1, <3>3, <5>1, <6>1
        <5>2. QED
          BY <5>1
      <4>3. QED
        BY <1>3, <3>1, <4>1, <4>2
    <3>4. QED
      BY <3>2, <3>3
  <2>2. QED
    BY <1>1, <2>1 DEF StoredInv
<1>7. CallsInv'
  <2>1. ASSUME active \notin ghost.disturbed
        PROVE  /\ \A v \in saves' : /\ Within(v.msgs, own(active))
                                    /\ Holds(v.msgs, well(active)', ghost.late)
               /\ loads # {} => saves' = {} /\ \A r \in Runs : ~live(r)
               /\ \A l \in loads : l.read => /\ Within(l.got, own(active))
                                             /\ Holds(l.got, due(active)', ghost.late)
    BY <1>4, <1>5, <2>1, HoldsSome DEF HistoryInv, CallsInv, Told
  <2>2. QED
    BY <1>1, <1>3, <1>4, <2>1 DEF CallsInv, Told
<1>8. ShownInv'
  <2>1. ASSUME active \notin ghost.disturbed, loads = {}
        PROVE  Told(active, messages)' /\ \A r \in Runs : live(r)' => Working(r)'
    <3>1. Told(active, messages) /\ \A r \in Runs : live(r) => Working(r)
      BY <2>1 DEF HistoryInv, ShownInv
    <3>2. Within(messages, own(active)) /\ Holds(messages, due(active)', ghost.late)
      BY <1>4, <3>1, HoldsSome DEF Told
    <3>3. Told(active, messages)'
      BY <1>1, <1>4, <3>2 DEF Told
    <3>4. ASSUME NEW r \in Runs, live(r)'
          PROVE  Working(r)'
      <4>1. Working(r)
        BY <1>3, <3>1, <3>4
      <4>2. Partly(r)' <=> Partly(r)
        BY <1>1 DEF Partly, heard, succeeded
      <4>3. untold(r)' => saves' = {}
        BY <1>3, <1>5, <2>1, <4>1 DEF Working
      <4>4. \A q \in Runs : live(q)' => q = r
        BY <1>3, <4>1 DEF Working
      <4>5. run'[r].at # "approving" => Answering(messages', r) /\ Partly(r)'
        BY <1>1, <4>1, <4>2 DEF Working
      <4>6. QED
        BY <4>3, <4>4, <4>5 DEF Working
    <3>5. QED
      BY <3>3, <3>4
  <2>2. QED
    BY <1>1, <2>1 DEF ShownInv
<1>9. QED
  BY <1>6, <1>7, <1>8 DEF HistoryInv

(* What is stored, when the user goes elsewhere or begins something.       *)
LEMMA StoredLeaving ==
  ASSUME TypeOK, FlightInv, StoredInv, Astir, ghost'.late = ghost.late,
         \A s \in Ids \ ghost'.disturbed :
           stored'[s] = stored[s] /\ own(s) \subseteq own(s)' /\ due(s)' = due(s)
  PROVE  StoredInv'
<1>1. ASSUME NEW s \in Ids \ ghost'.disturbed
      PROVE  Within(stored'[s], own(s)') /\ Holds(stored'[s], due(s)', ghost'.late)
  <2>1. s \notin ghost.disturbed /\ ~(s = active /\ saves # {})
    BY <1>1, Leaving
  <2>2. Within(stored[s], own(s)) /\ Holds(stored[s], due(s), ghost.late)
    BY <2>1 DEF StoredInv
  <2>3. stored'[s] = stored[s] /\ own(s) \subseteq own(s)' /\ due(s)' = due(s)
    OBVIOUS
  <2>4. QED
    BY <2>2, <2>3 DEF Within
<1>2. QED
  BY <1>1 DEF StoredInv

(* Steps to another session, or that clear the one shown.                  *)
LEMMA HistoryMoves ==
  ASSUME TypeOK, IdsInv, HomeInv, FlightInv, HistoryInv,
         \/ Clear
         \/ \E s \in Ids : Switch(s)
         \/ \E c \in creating : CreateReturn(c)
         \/ \E d \in deleting : DeleteReturn(d)
  PROVE  HistoryInv'
<1>1. /\ Astir /\ run' = run
      /\ ghost'.failed = ghost.failed /\ ghost'.late = ghost.late
  BY UserAstir, OtherSteps
<1>2. own(active)' = own(active') /\ due(active)' = due(active')
  BY <1>1 DEF own, due, dealt, succeeded
<1>3. /\ \A s : own(s)' = own(s) /\ due(s)' = due(s)
      /\ \A p \in Runs : live(p)' <=> live(p)
  BY <1>1 DEF own, due, dealt, succeeded, live, finished
<1>4. StoredInv'
  <2>1. \A s \in Ids \ ghost'.disturbed : stored'[s] = stored[s]
    <3>1. CASE stored' = stored
      BY <3>1
    <3>2. ASSUME NEW d \in deleting, DeleteReturn(d)
          PROVE  \A s \in Ids \ ghost'.disturbed : stored'[s] = stored[s]
      <4>1. d.s \in ghost'.disturbed
        BY <3>2, DeleteDisturbs
      <4>2. stored' = [stored EXCEPT ![d.s] = <<>>] /\ stored \in [Ids -> History]
        BY <3>2 DEF DeleteReturn, TypeOK
      <4>3. QED
        BY <4>1, <4>2
    <3>3. QED
      BY <3>1, <3>2 DEF Clear, Switch, CreateReturn, storeVars
  <2>2. QED
    BY <1>1, <1>3, <2>1, StoredLeaving DEF HistoryInv
<1>5. ASSUME active' \notin ghost'.disturbed
      PROVE  /\ saves' = {} /\ loads' \subseteq {load(active')}
             /\ loads' = {} => \/ messages' = <<>> /\ own(active') = {}
                               \/ messages' = messages /\ active' = active
             /\ active \in ghost.disturbed => active' # active
             /\ \A r \in Runs : ~live(r)
             /\ loads = {}
  <2>1. /\ ghost.disturbed \subseteq ghost'.disturbed
        /\ loads = {} /\ saves = {} /\ \A r \in Runs : ~live(r)
    BY <1>1, <1>5, Leaving
  <2>2. CASE Clear
    <3>1. ghost \in Ghost
      BY DEF TypeOK, Ghost
    <3>2. active' = active /\ ghost'.disturbed = disturb(active) \cup {active, Default}
      BY <2>2, <3>1 DEF Clear, Ghost
    <3>3. QED
      BY <1>5, <3>2
  <2>3. ASSUME NEW s \in Ids, Switch(s)
        PROVE  saves' = saves /\ loads' = {load(active')}
    BY <2>1, <2>3 DEF Switch
  <2>4. ASSUME NEW c \in creating, CreateReturn(c)
        PROVE  saves' = saves /\ loads' = loads /\ messages' = <<>> /\ own(active') = {}
    BY <2>4 DEF CreateReturn, HomeInv
  <2>5. ASSUME NEW d \in deleting, DeleteReturn(d)
        PROVE  /\ saves' = saves /\ messages' = messages
               /\ (loads' = loads /\ active' = active) \/ loads' = loads \cup {load(active')}
    <3>1. (loads' = loads /\ active' = active) \/ loads' = loads \cup {load(active')}
      BY <2>5, Zenon DEF DeleteReturn
    <3>2. QED
      BY <2>5, <3>1 DEF DeleteReturn
  <2>6. active \in ghost.disturbed => active' # active
    BY <1>5, <2>1
  <2>7. QED
    BY <2>1, <2>2, <2>3, <2>4, <2>5, <2>6
<1>6. CallsInv'
  <2>1. ~load(active').read
    BY DEF load
  <2>2. QED
    BY <1>3, <1>5, <2>1 DEF CallsInv
<1>7. ShownInv'
  <2>1. ASSUME active' \notin ghost'.disturbed, loads' = {}
        PROVE  Told(active, messages)'
    <3>1. CASE messages' = <<>> /\ own(active') = {}
      <4>1. due(active') = {} /\ DOMAIN messages' = {}
        BY <3>1 DEF due
      <4>2. QED
        BY <1>2, <4>1 DEF Told, Within, Holds
    <3>2. CASE messages' = messages /\ active' = active
      <4>1. Told(active, messages)
        BY <1>5, <2>1, <3>2 DEF HistoryInv, ShownInv
      <4>2. QED
        BY <1>1, <1>2, <3>2, <4>1 DEF Told
    <3>3. QED
      BY <1>5, <2>1, <3>1, <3>2
  <2>2. active' \notin ghost'.disturbed => \A r \in Runs : ~live(r)'
    BY <1>3, <1>5
  <2>3. QED
    BY <2>1, <2>2 DEF ShownInv
<1>8. QED
  BY <1>4, <1>6, <1>7 DEF HistoryInv

(* What handleSend and handleApprovePlan show and save.                    *)
LEMMA OpeningWrites ==
  ASSUME TypeOK, NEW r \in Runs, Opening(r), NEW O, NEW R, NEW L, r \in O,
         Within(messages, O), Holds(messages, R, L)
  PROVE  /\ Within(messages', O) /\ Holds(messages', R, L)
         /\ \A v \in saves' \ saves : Within(v.msgs, O) /\ Holds(v.msgs, R, L)
         /\ run'[r].at # "approving" => Answering(messages', r) /\ ~lastAnswer(messages', r).part
         /\ untold(r)' => saves' = saves
<1>1. messages \in History /\ run \in [Runs -> Run]
  BY DEF TypeOK
<1>2. ASSUME NEW m, saves' = saves \/ saves' = saves \cup {save(active, m)},
             Within(m, O), Holds(m, R, L)
      PROVE  \A v \in saves' \ saves : Within(v.msgs, O) /\ Holds(v.msgs, R, L)
  <2>1. save(active, m).msgs = m
    BY DEF save
  <2>2. \A v \in saves' \ saves : v.msgs = m
    BY <1>2, <2>1
  <2>3. QED
    BY <1>2, <2>2
<1>3. ASSUME NEW kind \in {"chat", "plan"}, Send(r, kind)
      PROVE  /\ Within(messages', O) /\ Holds(messages', R, L)
             /\ \A v \in saves' \ saves : Within(v.msgs, O) /\ Holds(v.msgs, R, L)
             /\ Answering(messages', r) /\ ~lastAnswer(messages', r).part
             /\ untold(r)' => saves' = saves
  <2>1. messages' = messages \o <<question(r), blank(r)>>
    BY <1>3 DEF Send
  <2>2. /\ Within(messages', O) /\ Holds(messages', R, L) /\ Answering(messages', r)
        /\ ~lastAnswer(messages', r).part
        /\ Within(Append(messages, question(r)), O) /\ Holds(Append(messages, question(r)), R, L)
    BY <1>1, <2>1, AppendFacts
  <2>3. /\ saves' = saves \/ saves' = saves \cup {save(active, Append(messages, question(r)))}
        /\ kind = "chat" => saves' = saves
    BY <1>3 DEF Send
  <2>4. \A v \in saves' \ saves : Within(v.msgs, O) /\ Holds(v.msgs, R, L)
    BY <1>2, <2>2, <2>3
  <2>5. run'[r].kind = kind
    BY <1>1, <1>3 DEF Send, start, Run
  <2>6. QED
    BY <2>2, <2>3, <2>4, <2>5 DEF untold
<1>4. ASSUME NEW i \in DOMAIN messages, ApprovePlan(r, i)
      PROVE  /\ Within(messages', O) /\ Holds(messages', R, L)
             /\ \A v \in saves' \ saves : Within(v.msgs, O) /\ Holds(v.msgs, R, L)
             /\ run'[r].at = "approving" /\ run'[r].kind = "approval"
  <2>1. PICK m : m = expirePlans(messages, i)
    OBVIOUS
  <2>2. Kept(messages, m) /\ m \in History
    BY <1>1, <2>1, ExpireKept DEF Kept
  <2>3. messages' = [m EXCEPT ![i].plan = "approved"]
    BY <1>4, <2>1 DEF ApprovePlan
  <2>4. Kept(messages, messages')
    <3>1. Kept(m, messages')
      BY <2>2, <2>3, PlanKept
    <3>2. QED
      BY <1>1, <2>2, <3>1, KeptTwice
  <2>5. Within(messages', O) /\ Holds(messages', R, L)
    BY <1>1, <2>4, KeptFacts
  <2>6. saves' = saves \/ saves' = saves \cup {save(active, messages')}
    BY <1>4 DEF ApprovePlan
  <2>7. run'[r].at = "approving" /\ run'[r].kind = "approval"
    BY <1>1, <1>4 DEF ApprovePlan, Run
  <2>8. QED
    BY <1>2, <2>5, <2>6, <2>7
<1>5. QED
  BY <1>3, <1>4 DEF Opening, untold

(* A round begins.                                                         *)
LEMMA HistoryOpening ==
  ASSUME TypeOK, RoundsInv, FlightInv, HistoryInv, NEW r \in Runs, Opening(r)
  PROVE  HistoryInv'
<1>1. /\ run[r].at = "idle" /\ \A p \in Runs \ {r} : run'[p] = run[p]
      /\ run'[r].home = active /\ UNCHANGED <<stored, active>>
      /\ ghost'.failed = ghost.failed /\ ghost'.late = ghost.late
  BY OpeningStep
<1>2. /\ loads' = loads /\ run'[r].out = run[r].out
      /\ run'[r].at \in {"thinking", "approving"}
  BY OpeningMore
<1>3. ~succeeded(r)' /\ ~dealt(r)'
  BY <1>1, <1>2 DEF RoundsInv, succeeded, dealt
<1>4. \A q \in Runs \ {r} : /\ dealt(q)' <=> dealt(q)
                            /\ succeeded(q)' <=> succeeded(q)
                            /\ live(q)' <=> live(q)
  BY <1>1 DEF succeeded, dealt, live, finished
<1>5. \A s : own(s) \subseteq own(s)' /\ own(s)' \subseteq own(s) \cup {r} /\ r \notin own(s)
             /\ own(s) \subseteq Runs
  BY <1>1 DEF own
<1>6. \A s : due(s)' = {q \in own(s)' : dealt(q)' /\ s \notin ghost.failed}
  BY <1>1 DEF due
<1>7. \A s : due(s)' = due(s)
  BY <1>3, <1>4, <1>5, <1>6 DEF due
<1>8. Astir
  BY UserAstir
<1>9. StoredInv'
  BY <1>1, <1>5, <1>7, <1>8, StoredLeaving DEF HistoryInv
<1>10. CASE active' \in ghost'.disturbed
  BY <1>9, <1>10 DEF HistoryInv, CallsInv, ShownInv
<1>11. CASE active' \notin ghost'.disturbed
  <2>1. /\ active \notin ghost.disturbed
        /\ loads = {} /\ saves = {} /\ \A q \in Runs : ~live(q)
    BY <1>1, <1>8, <1>11, Leaving
  <2>2. Told(active, messages)
    BY <2>1 DEF HistoryInv, ShownInv
  <2>3. PICK O : O = own(active)'
    OBVIOUS
  <2>4. PICK D : D = due(active)
    OBVIOUS
  <2>5. r \in O /\ own(active) \subseteq O /\ O \subseteq own(active) \cup {r} /\ due(active)' = D
    <3>1. r \in O
      BY <1>1, <1>2, <2>3 DEF own
    <3>2. QED
      BY <1>1, <1>5, <1>7, <2>3, <2>4, <3>1
  <2>6. Within(messages, O) /\ Holds(messages, D, ghost.late)
    BY <2>2, <2>4, <2>5 DEF Told, Within
  <2>7. /\ Within(messages', O) /\ Holds(messages', D, ghost.late)
        /\ \A v \in saves' \ saves : Within(v.msgs, O) /\ Holds(v.msgs, D, ghost.late)
        /\ run'[r].at # "approving" => Answering(messages', r) /\ ~lastAnswer(messages', r).part
        /\ untold(r)' => saves' = saves
    BY <2>5, <2>6, OpeningWrites
  <2>8. well(active)' \subseteq D
    <3>1. \A q \in own(active) : succeeded(q) => dealt(q)
      BY <2>1 DEF own, live, finished, dealt
    <3>2. well(active)' = {q \in O : succeeded(q)' /\ active \notin ghost.failed}
      BY <1>1, <2>3 DEF well
    <3>3. QED
      BY <1>3, <1>4, <1>5, <2>4, <2>5, <3>1, <3>2 DEF due
  <2>9. CallsInv'
    <3>1. \A v \in saves' : Within(v.msgs, O) /\ Holds(v.msgs, well(active)', ghost'.late)
      BY <1>1, <2>1, <2>7, <2>8, HoldsSome
    <3>2. QED
      BY <1>2, <2>1, <2>3, <3>1 DEF CallsInv
  <2>10. Told(active, messages)'
    BY <1>1, <2>3, <2>5, <2>7 DEF Told
  <2>11. \A q \in Runs : live(q)' => q = r
    BY <1>4, <2>1
  <2>12. Working(r)'
    BY <2>1, <2>7, <2>11 DEF Working, Partly
  <2>13. QED
    BY <1>9, <2>9, <2>10, <2>11, <2>12 DEF HistoryInv, ShownInv
<1>12. QED
  BY <1>10, <1>11

(* Every step keeps HistoryInv.                                            *)
LEMMA HistoryStep ==
  ASSUME TypeOK, IdsInv, RoundsInv, BufferInv, HomeInv, FlightInv, HistoryInv, [Next]_vars
  PROVE  HistoryInv'
BY StepKinds, HistoryRound, HistoryQuiet, HistoryOpening, HistoryCalm, HistorySetback,
   HistoryMoves

(* Nothing has happened at the start.                                      *)
LEMMA HistoryInit ==
  ASSUME Init
  PROVE  IdsInv /\ RoundsInv /\ BufferInv /\ HomeInv /\ FlightInv /\ HistoryInv
<1>1. IdsInv
  BY DEF Init, IdsInv
<1>2. RoundsInv /\ BufferInv
  BY DEF Init, RoundsInv, BufferInv
<1>3. \A s : own(s) = {} /\ due(s) = {} /\ well(s) = {}
  BY DEF Init, own, due, well
<1>4. HomeInv
  BY <1>3, SessionsAssumption DEF Init, HomeInv
<1>5. inFlight = {} /\ \A r \in Runs : ~live(r)
  BY DEF Init, inFlight, live, finished
<1>6. FlightInv
  BY <1>5 DEF FlightInv, Init
<1>7. \A R, L : Within(<<>>, R) /\ Holds(<<>>, {}, L)
  BY DEF Within, Holds
<1>8. StoredInv
  BY <1>3, <1>7 DEF Init, StoredInv
<1>9. CallsInv /\ ShownInv
  BY <1>3, <1>5, <1>7 DEF Init, CallsInv, ShownInv, Told
<1>10. QED
  BY <1>1, <1>2, <1>4, <1>6, <1>8, <1>9 DEF HistoryInv

(* Once nothing of a session is under way, its rounds are dealt with.      *)
LEMMA HistoryTold ==
  ASSUME TypeOK, FlightInv, HistoryInv
  PROVE  QuietHistory
<1>1. ASSUME NEW s \in Ids \ ghost.disturbed
      PROVE  /\ \A i \in DOMAIN stored[s] :
                  stored[s][i].run \in own(s) /\ stored[s][i].text \subseteq own(s)
             /\ s \notin inFlight \cup ghost.failed => \A r \in own(s) : succeeded(r) =>
                  \E i \in DOMAIN stored[s] : Complete(stored[s][i], r, ghost.late)
  <2>1. /\ Within(stored[s], own(s))
        /\ (s = active /\ saves # {}) \/ Holds(stored[s], due(s), ghost.late)
    BY DEF HistoryInv, StoredInv
  <2>2. ASSUME s \notin inFlight \cup ghost.failed, NEW r \in own(s), succeeded(r)
        PROVE  \E i \in DOMAIN stored[s] : Complete(stored[s][i], r, ghost.late)
    <3>1. r \in Runs /\ run[r].home = s /\ ~live(r)
      BY <2>2, FlightFacts DEF own
    <3>2. r \in due(s)
      BY <2>2, <3>1 DEF own, due, dealt, live, finished
    <3>3. ~(s = active /\ saves # {})
      <4>1. ASSUME s = active, NEW v \in saves
            PROVE  FALSE
        <5>1. v.s \in inFlight
          BY FlightFacts
        <5>2. /\ v.s \in ghost.disturbed \cup {active}
              /\ active \notin ghost.disturbed => v.s = active
          BY <5>1 DEF FlightInv
        <5>3. QED
          BY <2>2, <4>1, <5>1, <5>2
      <4>2. QED
        BY <4>1
    <3>4. QED
      BY <2>1, <3>2, <3>3 DEF Holds
  <2>3. QED
    BY <2>1, <2>2 DEF Within
<1>2. QED
  BY <1>1 DEF QuietHistory, own, succeeded, Complete

(* The inductive invariant of the panel's history: how the messages shown, *)
(* the loads and saves under way and what AgentSaveSessionMessages stored  *)
(* follow from the rounds, whichever loads, saves and clearings fail and   *)
(* whichever replies overtake the events of their round.                   *)
THEOREM PanelHistoryInvariant ==
  Spec => [](RoundsInv /\ BufferInv /\ HomeInv /\ FlightInv /\ HistoryInv)
<1>1. QED
  BY PanelTypeInit, PanelTypeStep, HistoryInit, IdsStep, RoundsStep, HomeStep, FlightStep,
     HistoryStep, PTL DEF Spec

(* QuietHistory: in a session in which the user did nothing while a round, *)
(* a load or a save was under way, the history AgentSaveSessionMessages    *)
(* leaves has nothing of another session.  If none of its loads and saves  *)
(* has failed it has, in the end, the answer of every successful chat, and *)
(* more than the chunks that had arrived by then unless the reply of       *)
(* AgentSend overtook the last event.                                      *)
THEOREM PanelQuietHistory == Spec => []QuietHistory
<1>1. QED
  BY PanelHistoryInvariant, PanelTypeCorrect, HistoryTold, PTL
=============================================================================
