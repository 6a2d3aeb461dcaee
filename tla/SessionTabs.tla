----------------------------- MODULE SessionTabs ------------------------------
(***************************************************************************)
(* The tabs of the application (SessionContext.tsx, sessionHelpers.ts and  *)
(* the connect logic of App.tsx): connections that are opened and closed   *)
(* across awaits, the tab that is activated when the active one closes,    *)
(* and the connection the agent is told to work with.                      *)
(*                                                                         *)
(* There are two kinds of connection: an SSH session has an id of its own, *)
(* any other connection has the id of the configured server, so that it    *)
(* can be opened again under the same id.  MQTT connections, of which the  *)
(* agent is told nothing, and tools[..].active, which nothing reads, are   *)
(* left out.                                                               *)
(***************************************************************************)
EXTENDS Naturals, Sequences, SequencesExt

CONSTANTS
  SshIds,   \* ids of SSH sessions, each used once
  DbIds,    \* ids of servers of other kinds
  Tools,    \* tools that can be opened and closed
  None

Conns == SshIds \cup DbIds

(* The ids of sessions, of servers and of tools are told apart by their    *)
(* kind; the agent's tab is none of them.                                  *)
ASSUME IdsAssumption ==
  /\ SshIds \cap DbIds = {} /\ Conns \cap Tools = {}
  /\ "aiAgent" \notin Conns \cup Tools
  /\ Tools \subseteq {"devtools", "api", "wiki"}

Tabs == {"aiAgent"} \cup Tools \cup Conns

VARIABLES
  ssh, db,     \* sessions: the lists of the open ones
  tools,       \* tools that are open
  active,      \* activeTarget
  ref,         \* sessionsRef, toolsRef and the target, as of the last effect
  last,        \* lastConnTargetRef
  sent,        \* prevConnRef: what agentSetActiveConnection was called with
  connecting,  \* connect calls: id -> "call" or "up"
  closing,     \* closingSessionsRef and disconnect calls: id -> "call" or "down"
  backend,     \* the connections the backend has
  events,      \* session:closed events not handled yet
  ghost        \* history, see below

shown == <<ssh, db, tools, active>>
effect == <<ref, last, sent>>
net == <<connecting, closing, backend, events>>
vars == <<shown, effect, net, ghost>>

open == ToSet(ssh) \cup ToSet(db)

now == [ssh |-> ssh, db |-> db, tools |-> tools, active |-> active]

(* What the tabs show: every open connection once.                         *)
wellFormed(st) ==
  /\ st.ssh \in Seq(SshIds) /\ IsInjective(st.ssh)
  /\ st.db \in Seq(DbIds) /\ IsInjective(st.db)
  /\ st.tools \subseteq Tools /\ st.active \in Tabs

TypeOK ==
  /\ wellFormed(now) /\ wellFormed(ref)
  /\ last \in Conns \cup {None} /\ sent \in Conns \cup {None}
  /\ DOMAIN connecting \subseteq Conns /\ DOMAIN closing \subseteq Conns
  /\ \A c \in DOMAIN connecting : connecting[c] \in {"call", "up"}
  /\ \A c \in DOMAIN closing : closing[c] \in {"call", "down"}
  /\ backend \subseteq Conns /\ events \subseteq SshIds
  /\ ghost \in [used : SUBSET Conns, odd : SUBSET Conns, cut : SUBSET DbIds,
               stale : BOOLEAN]

nothing == [c \in {} |-> "call"]
with(f, c, phase) == [d \in DOMAIN f \cup {c} |-> IF d = c THEN phase ELSE f[d]]
without(f, c) == [d \in DOMAIN f \ {c} |-> f[d]]

(* list.filter on the id, which is in the list at most once.               *)
removed(list, c) ==
  IF c \in ToSet(list) THEN RemoveAt(list, CHOOSE i \in DOMAIN list : list[i] = c) ELSE list

Init ==
  /\ ssh = <<>> /\ db = <<>> /\ tools = {} /\ active = "aiAgent"
  /\ ref = [ssh |-> <<>>, db |-> <<>>, tools |-> {}, active |-> "aiAgent"]
  /\ last = None /\ sent = None
  /\ connecting = nothing /\ closing = nothing /\ backend = {} /\ events = {}
  /\ ghost = [used |-> {}, odd |-> {}, cut |-> {}, stale |-> FALSE]

-----------------------------------------------------------------------------
(* getAllOpenTabs and pickAdjacentFallback: the next tab, at the end of    *)
(* the strip the one before.                                               *)

toolTab(st, t) == IF t \in st.tools THEN <<t>> ELSE <<>>
allTabs(st) ==
  <<"aiAgent">> \o st.ssh \o st.db
    \o toolTab(st, "devtools") \o toolTab(st, "api") \o toolTab(st, "wiki")

(* MUTANT: the neighbour is always the next tab, the closed one at the end.*)
nextOnly(closed, st) ==
  LET tabs == allTabs(st)
      at == {i \in DOMAIN tabs : tabs[i] = closed}
      i == CHOOSE i \in at : TRUE
  IN IF at = {} THEN "aiAgent" ELSE IF i < Len(tabs) THEN tabs[i + 1] ELSE tabs[i]

fallback(closed, st) ==
  LET tabs == allTabs(st)
      at == {i \in DOMAIN tabs : tabs[i] = closed}
      i == CHOOSE i \in at : TRUE
  IN IF at = {} THEN "aiAgent" ELSE IF i < Len(tabs) THEN tabs[i + 1] ELSE tabs[i - 1]

(* The user acts on what is rendered.                                      *)
settled == ref = now

(* The active tab is picked anew.                                          *)
picked == ghost' = [ghost EXCEPT !.stale = FALSE]

-----------------------------------------------------------------------------
(* The effects of a render: the refs, and the connection the agent is told *)
(* of, which stays the last one while a tool or the agent itself is shown. *)

target == IF active \in Conns THEN active ELSE last

(* MUTANT: the sessions are not looked at.                                 *)
CommitUnchecked ==
  /\ ~settled
  /\ ref' = now
  /\ last' = target /\ sent' = target
  /\ UNCHANGED <<shown, net, ghost>>

Commit ==
  /\ ~settled
  /\ ref' = now
  /\ last' = IF target \in open THEN target ELSE None
  /\ sent' = last'
  /\ UNCHANGED <<shown, net, ghost>>

-----------------------------------------------------------------------------
(* Tabs and tools.                                                         *)

activateTab(t) ==
  /\ settled /\ t \in ToSet(allTabs(now)) \cup Tools
  /\ active' = t
  /\ tools' = tools \cup ({t} \cap Tools)
  /\ picked
  /\ UNCHANGED <<ssh, db, effect, net>>

closeTool(t) ==
  /\ settled /\ t \in tools
  /\ tools' = tools \ {t}
  /\ IF active = t THEN active' = fallback(t, ref) /\ picked ELSE UNCHANGED <<active, ghost>>
  /\ UNCHANGED <<ssh, db, effect, net>>

-----------------------------------------------------------------------------
(* handleConnect: a call of the backend, then addSession.                  *)

handleConnect(c) ==
  /\ settled /\ c \notin DOMAIN connecting
  /\ c \in SshIds => c \notin ghost.used
  /\ connecting' = with(connecting, c, "call")
  /\ ghost' = [ghost EXCEPT !.used = @ \cup {c},
                            !.odd = IF c \in DOMAIN closing THEN @ \cup {c} ELSE @]
  /\ UNCHANGED <<shown, effect, closing, backend, events>>

(* The call of the backend succeeds, or fails and leaves an open           *)
(* connection of that server alone, or fails after Open has closed it: the *)
(* Redis and the SQLite manager take the old one out before they try the   *)
(* new one.                                                                *)
BackendUp(c) ==
  /\ c \in DOMAIN connecting /\ connecting[c] = "call"
  /\ \/ /\ connecting' = with(connecting, c, "up") /\ backend' = backend \cup {c}
        /\ ghost' = [ghost EXCEPT !.cut = @ \ {c}]
     \/ connecting' = without(connecting, c) /\ UNCHANGED <<backend, ghost>>
     \/ /\ c \in DbIds \cap backend
        /\ connecting' = without(connecting, c) /\ backend' = backend \ {c}
        /\ ghost' = [ghost EXCEPT !.cut = @ \cup {c}]
  /\ UNCHANGED <<shown, effect, closing, events>>

(* MUTANT: a connection of the same id is not taken out first.             *)
addSessionTwice(c) ==
  /\ c \in DOMAIN connecting /\ connecting[c] = "up"
  /\ connecting' = without(connecting, c)
  /\ ssh' = IF c \in SshIds THEN Append(ssh, c) ELSE ssh
  /\ db' = IF c \in DbIds THEN Append(db, c) ELSE db
  /\ active' = c /\ picked
  /\ UNCHANGED <<tools, effect, closing, backend, events>>

(* A connection of the same id is replaced, at the end of its list.        *)
addSession(c) ==
  /\ c \in DOMAIN connecting /\ connecting[c] = "up"
  /\ connecting' = without(connecting, c)
  /\ ssh' = IF c \in SshIds THEN Append(removed(ssh, c), c) ELSE ssh
  /\ db' = IF c \in DbIds THEN Append(removed(db, c), c) ELSE db
  /\ active' = c /\ picked
  /\ UNCHANGED <<tools, effect, closing, backend, events>>

-----------------------------------------------------------------------------
(* closeSession: a call of the backend, then the tab goes.                 *)

mayClose(c) == c \notin DOMAIN closing /\ c \in ToSet(ref.ssh) \cup ToSet(ref.db)

noteClose(c) ==
  ghost' = [ghost EXCEPT !.odd = IF c \in DOMAIN connecting THEN @ \cup {c} ELSE @]

closeSession(c) ==
  /\ settled /\ mayClose(c)
  /\ closing' = with(closing, c, "call")
  /\ noteClose(c)
  /\ UNCHANGED <<shown, effect, connecting, backend, events>>

(* disconnectHelper hides a failure.  SshService.Disconnect reports the    *)
(* end of the session, whether there still is one or not.                  *)
BackendDown(c) ==
  /\ c \in DOMAIN closing /\ closing[c] = "call"
  /\ closing' = with(closing, c, "down")
  /\ \/ /\ backend' = backend \ {c}
        /\ events' = events \cup ({c} \cap SshIds)
        /\ UNCHANGED ghost
     \/ /\ ghost' = [ghost EXCEPT !.odd = @ \cup {c}]
        /\ UNCHANGED <<backend, events>>
  /\ UNCHANGED <<shown, effect, connecting>>

(* The server ends an SSH session.                                         *)
Drop(c) ==
  /\ c \in SshIds \cap backend
  /\ backend' = backend \ {c} /\ events' = events \cup {c}
  /\ UNCHANGED <<shown, effect, connecting, closing, ghost>>

(* MUTANT: an event for a tab that is not active is not handled.           *)
ClosedEventActive(c) ==
  /\ c \in events /\ events' = events \ {c}
  /\ IF mayClose(c) /\ c = active THEN closing' = with(closing, c, "call") /\ noteClose(c)
     ELSE UNCHANGED <<closing, ghost>>
  /\ UNCHANGED <<shown, effect, connecting, backend>>

(* session:closed, which has no effect before the tab has been rendered.   *)
ClosedEvent(c) ==
  /\ c \in events /\ events' = events \ {c}
  /\ IF mayClose(c)
       THEN closing' = with(closing, c, "call") /\ noteClose(c)
       ELSE /\ UNCHANGED closing
            /\ ghost' = [ghost EXCEPT !.odd =
                 IF c \in DOMAIN closing \/ c \notin open \cup DOMAIN connecting THEN @
                 ELSE @ \cup {c}]
  /\ UNCHANGED <<shown, effect, connecting, backend>>

(* A tab of the refs has gone since they were set.                         *)
outdated == \E t \in ToSet(allTabs(ref)) : t \notin ToSet(allTabs(now))

(* MUTANT: only the active tab is taken off the strip.                     *)
CloseReturnActive(c) ==
  /\ c \in DOMAIN closing /\ closing[c] = "down"
  /\ closing' = without(closing, c)
  /\ IF active # c THEN UNCHANGED <<ssh, db>>
     ELSE ssh' = removed(ssh, c) /\ db' = removed(db, c)
  /\ active' = IF active = c THEN fallback(c, ref) ELSE active
  /\ ghost' = [ghost EXCEPT !.stale = IF active = c THEN outdated ELSE @]
  /\ UNCHANGED <<tools, effect, connecting, backend, events>>

CloseReturn(c) ==
  /\ c \in DOMAIN closing /\ closing[c] = "down"
  /\ closing' = without(closing, c)
  /\ ssh' = removed(ssh, c) /\ db' = removed(db, c)
  /\ active' = IF active = c THEN fallback(c, ref) ELSE active
  /\ ghost' = [ghost EXCEPT !.stale = IF active = c THEN outdated ELSE @]
  /\ UNCHANGED <<tools, effect, connecting, backend, events>>

-----------------------------------------------------------------------------
Next ==
  \/ Commit
  \/ \E t \in Tabs : activateTab(t)
  \/ \E t \in Tools : closeTool(t)
  \/ \E c \in Conns :
       \/ handleConnect(c) \/ BackendUp(c) \/ addSession(c)
       \/ closeSession(c) \/ BackendDown(c) \/ CloseReturn(c)
       \/ Drop(c) \/ ClosedEvent(c)

(* React renders, the backend answers, and the webview handles what comes. *)
Fairness ==
  /\ WF_vars(Commit)
  /\ \A c \in Conns : WF_vars(BackendDown(c)) /\ WF_vars(CloseReturn(c))
  /\ \A c \in SshIds : WF_vars(ClosedEvent(c))

Spec == Init /\ [][Next]_vars /\ Fairness

-----------------------------------------------------------------------------
(* ACTIVE IS OPEN.  The active tab is one of the strip, whatever connects, *)
(* closes and tab switches met between two renders; unless closeSession    *)
(* picked it in refs that still had another tab that was already gone, and *)
(* until the next tab is picked.                                           *)
ActiveIsOpen == ~ghost.stale => active \in ToSet(allTabs(now))

(* AGENT FOLLOWS.  Once the effects have run, the agent is told of the     *)
(* connection shown, and never of one that is closed, also while a tool is *)
(* shown and it keeps the last one.                                        *)
AgentFollows ==
  settled =>
    /\ active \in open => sent = active
    /\ sent # None => sent \in open

(* TABS MATCH BACKEND.  When nothing is under way, every connection of the *)
(* backend has its tab, and every tab has its connection, but for a server *)
(* whose connection a failed reconnect has closed; except for a server     *)
(* opened and closed at the same time, a failed disconnect, and a session  *)
(* that ended before its tab was rendered.                                 *)
TabsMatchBackend ==
  settled /\ connecting = nothing /\ closing = nothing /\ events = {} =>
    \A c \in Conns \ ghost.odd :
      /\ c \in backend => c \in open
      /\ c \in open => c \in backend \cup ghost.cut

(* CLOSED TABS GO.  The tab of an SSH session that has ended goes, whoever *)
(* ended it; unless it ended before its tab was rendered.                  *)
ClosedTabsGo ==
  \A c \in SshIds : c \in open \ backend ~> c \notin open \/ c \in ghost.odd

=============================================================================
