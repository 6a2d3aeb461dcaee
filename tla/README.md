# xTerminal: a TLA+ development

xTerminal is a desktop application (Go back end, React front end, Wails v3
bridge) for terminals, databases, containers and message brokers, with an AI
agent that may use all of them as tools. This directory holds TLA+ modules that
model the parts of it whose correctness depends on the order of events, the TLC
configurations that check them on small instances, and TLAPS proofs of the
results that matter most. Paths are relative to the repository.

## The system

| Component | State it keeps | Operations | What it talks to |
| --- | --- | --- | --- |
| Tool bus (`agent/tools/bus.go`) | registered tools | `Invoke`, `Register`, `Unregister` | guard, approval manager, event bus, tool handlers |
| Permission guard (`agent/guard/`) | rules, two switches | `Audit`, the audit functions, `SetEnableGuard`, `SetBlockHighRiskCommands` | settings, bus |
| Approval manager (`HitlManager`) | `pending` map, one channel per request | `RequestApproval`, `ResolveApproval`, `ListPending` | bus, agent panel |
| Agent runtime (`agent/runtime.go`) | settings, the managers | `InitOrUpdate` | guard, bus, router, executor |
| Chat loop (`agent/agent.go`, `agent/session.go`) | `activeCancel`, `cancelFunc` | `StreamChat`, `StopChat` | model, bus, event bus |
| Agent service (`services/agent_service.go`) | plan cancel functions | `AgentSend`, `AgentStopSend`, approvals, plans, sessions | all of the above |
| Agent panel (`frontend/src/pages/agent`) | sessions, the active one, messages, `isGenerating`, one question, one confirmation card | send, approve a plan, stop, answer, create, switch, rename, clear, delete | agent service, events, session store |
| Data view (`frontend/src/components/db/DataTab`) | rows, total, query, drafts by row index, new rows, an open editor, `loading`, `saving` | page, sort, filter, edit, save, delete | database adapters |
| Application tabs (`frontend/src/contexts/SessionContext.tsx`) | open connections and tools, the active tab, refs to both, the agent's connection | connect, activate, close | all connection services, agent service |
| Ask manager (`agent/ask`) | pending questions | `Ask` (five minutes), `Answer` | tools, agent panel |
| Plan executor (`agent/executor`) | step outputs and states | `BuildDAG`, `ExecuteDAG`, retries | bus, verifier |
| MCP server (`agent/mcp`) | listeners, event streams | `Start`, `Stop`, messages | bus |
| Session store (`agent/store`) | SQLite tables | sessions, messages, titles | agent service |
| SSH sessions (`ssh/ssh.go`) | shell, SFTP client, output buffer, `done` | `Connect`, `Attach`, `Write`, `Remove`, `CloseAll` | network, front end |
| SFTP (`ssh/sftp.go`) | running transfers | browse, upload, download, cancel | SSH sessions |
| Configuration (`core/config.go`, `storage/file_io.go`) | configuration in memory and on disk | `WriteFileAtomic`, load, save | everything |
| WebSocket, MQTT (`proto/`) | connection tables | connect, send, close | network, front end |
| Databases, Docker, Kubernetes | client tables | queries, exec sessions, compose engine | external systems |

What is hard in it: tool calls of several chats wait for the user at the same
time, without a timeout, while settings change and chats are stopped; one
`AgentManager` and one `Session` object serve all chats; an SSH session is
closed from five places while other goroutines hold its mutexes and wait for the
server; its output takes two ways to the screen. In the front end every call to
the back end is an await after which the state may be another one: handlers go
on with the values of their closures, refs are one render late, and saves, loads
and events of several sessions overtake each other. `PROJECT.json` lists these
hazards with the line where each bites and the properties that cover it.

What makes each part correct:

* bus, guard and approvals: what needs the user's approval runs only after the
  user approved that very call; the first answer counts; high-risk arguments
  pass only if the policy in force allowed it; a cancelled call returns;
* chat loop: a stop takes effect within one step, is reported as a stop, can
  reach the run, and ends it;
* SSH session: one SFTP client, nothing left open, every loss noticed and told,
  disconnecting returns;
* terminal output: shown once, in order, nothing lost but by the stated limit;
* agent panel: when all is quiet, what is stored is what is shown; deleted
  sessions stay deleted, chosen titles stay, a waiting question is shown;
* data view: a change reaches the row it was made for, an insert happens once,
  the rows shown answer the last query;
* application tabs: the active tab exists, the agent works with a connection
  that is open, tabs and back end agree.

## Modules

| Module | Models | Kind |
| --- | --- | --- |
| `PolicyGuard` | the policy as pure operators | library |
| `ApprovalGate` | what the bus promises of human approval | abstract specification |
| `ToolBus` | `Invoke`, `Audit`, `RequestApproval`, `ResolveApproval`, `InitOrUpdate` | component; refines `ApprovalGate` |
| `ToolBus_proofs` | theorems about `ToolBus` | proofs |
| `AgentChat` | `StreamChat`, `StopChat`, `AgentSend`, the composer and the card | component |
| `AgentChat_proofs` | theorems about `AgentChat` | proofs |
| `SshSession` | the life of a session and its mutexes | component |
| `SshSession_proofs` | theorems about `SshSession` | proofs |
| `TerminalOutput` | pumps, buffer, `Attach`, timer | component |
| `TerminalOutput_proofs` | theorems about `TerminalOutput` | proofs |
| `AgentPanel` | `useAgentComposer`, `useAgentEvents`, `useAgentSessions`, the session store, titles, questions | component |
| `AgentPanel_proofs` | theorems about `AgentPanel` | proofs |
| `AgentPanelHistory_proofs` | the theorem about the history of a session, on top of `AgentPanel_proofs` | proofs |
| `DataTab` | `DbDataTab` with `CellEditorInline` and the MySQL adapter | component |
| `DataTab_proofs` | theorems about `DataTab` | proofs |
| `SessionTabs` | `SessionContext`, `sessionHelpers`, `handleConnect` | component |
| `SessionTabs_proofs` | theorems about `SessionTabs` | proofs |
| `MC...` | small instances for TLC | configuration |

**PolicyGuard.** A tool is its registered name. An argument string is reduced
to the set of statement classes that occur in it (`read`, `change`, `deploy`,
`danger`): the SQL and shell audits look for nothing else, and the severest
statement decides; an empty SQL text asks. The Docker and kubectl audits decide
by the first subcommand, so their arguments hold one class besides `danger`.
What the parsers recognise as which class is not modelled.

**ToolBus.** A call is one execution of `Invoke`; `pc` says where it is. Audit
takes two steps because `enableGuard` and `blockHighRiskCommands` are read under
separate locks, and `InitOrUpdate` takes three for the same reason.
`RequestApproval` is split where other goroutines can interfere: the entry is
stored, the event is sent, the select takes either ready branch, the deferred
`Delete` runs. The user may answer any card ever shown, any number of times; a
card can also come from `ListPending` before its event. `StrictClock` says
whether two reads of the nanosecond clock always differ, as ids are made from
it. `said`, `firstAck` and `relaxed` are history variables.

**AgentChat.** A run is one execution of `StreamChat`; `cancelFunc` and
`activeCancel` are shared, set in two steps and read in two steps by `StopChat`.
`Invoke` appears as what `ToolBus` shows of it: it acts, or waits for an answer
or the cancellation. The front end contributes `isGenerating` (cleared by the
watchdog, a session switch, a stop, or the end of any run) and its single card.

**SshSession.** Five callers of `Session.close` (a failed `Connect`, the waiter
on the shell, `keepAlive`, `Disconnect`, `CloseAll`) against SFTP operations and
terminal input. `close` is split at its mutexes; `sftp.NewClient` and
`stdin.Write` hold theirs while the server answers, and closing the SFTP client
waits for its receive loop, which the server or the end of the connection ends.
The server is up, has ended the shell, has broken the connection, or (if
`MayStall`) keeps it and is silent.

**TerminalOutput.** A chunk is the result of one `Read`, with its stream, number
and size. Buffering happens under `bufMu`, the live event after it is released.
`EmitEvent` is taken to deliver in the order of its calls.

**AgentPanel.** A round is one message of the user with its answer: a chat, a
plan, or the execution of an approved plan. A message's text is the set of the
rounds it comes from, `part` says that it was put together from chunks and may
be less than the answer, and `running` the rounds whose tool steps it shows as
running: enough to see an answer in the wrong place, lost, cut short, or never
completed. Each call to the back end (load, save, create, delete, clear, answer,
title) is an element of a set and takes effect, then returns, in any order.
Loads, saves, creations, deletions and clearings may fail, with what the code
then does: an empty history is shown, a save is forgotten, the list stays empty,
the plan file is gone, nothing is saved. `AgentClearHistory` empties the history
of `ai_agent_default` (`Default`) whatever session is shown. The end of a round
sends an event and a reply, in any order, and its last chunks may come after the
reply. `Stop` cancels any round, as `StopChat` ignores its session. Ids of
sessions are timestamps in milliseconds and are taken to be new. `eager` is what
a handler may rely on of a React updater: it may have run when the handler looks
at its result, if nothing else was queued, and has not run otherwise. The ghost
fields `disturbed`, `failed`, `late`, `buried`, `chosen`, `alone`, `rushed`,
`overlap` and `bare` restrict the properties to what the code can keep; the
cases outside are listed under Findings.

**DataTab.** A row is a key and the number of the change its value comes from.
Filters are sets of keys, and a page is computed from the table when the
database answers, not when it is asked. `editing.key` is the row the open editor
was made for, which may differ from the row at its index; `menu` is the same for
the context menu of a row, whose "set NULL" goes through `handleCommitCell`. A
cloned row has a value (`made`): that of its original with the draft at its
index, also when the original is a new row and the draft another row's. The
menus of new rows hold an index of their own list and only reach that. A save
updates and inserts row by row and may fail before any of them. Handlers that
start a load after an await use the query of their closure.

**SessionTabs.** `ref` is what the refs hold: the state of the last render whose
effects have run. The user acts on what is rendered (`settled`); returning calls
and events do not wait for that. SSH sessions have ids of their own and report
their end; connections of other kinds have the id of their server, so that the
same id can be opened while it is open or being closed. A reconnect that fails
leaves the old connection alone (as `MongoManager.Open` does) or has closed it
(`redis/redis.go:312`, `db/sqlite.go:50`): `ghost.cut` names these servers.
`ghost.stale` holds while the active tab is one that `closeSession` picked in
refs with another tab already gone.

## Runs

| Run | Shows | Bounds and why they are enough |
| --- | --- | --- |
| `bus_policy` | approval, first answer, pending table, policy under changing settings | two calls: every interference in this code is between two calls, or a call and the settings. Requests cover each branch of `Audit`; three settings cover each switch |
| `bus_live` | cancelled and answered calls return; `ToolBus` implements `ApprovalGate` | two calls, one kind that asks and one that does not |
| `bus_coarse_clock` | violation: equal timestamps let one card release another call | two calls that ask |
| `chat` | late steps, stop reported, a lone run can be stopped, a cancelled run ends | two runs in two sessions, two turns (first and last), one tool call per turn |
| `chat_stop_session` | violation: Stop addresses a session and cancels the latest run | as above |
| `ssh_session` | no orphan, nothing left open, loss noticed, end told, disconnect returns | two SFTP operations (plus the one in `Connect`) and one writer: two contenders for each mutex besides `close` |
| `ssh_stalled_server` | violation: `Disconnect` never returns | as above, with a silent server |
| `terminal_output` | order, loss, replay | two streams of two chunks of one or two units, a limit of two: full, overfull and lost all occur |
| `agent_panel` | stored history, list, deleted sessions, titles, questions | two sessions and a third to create, two rounds, two moves (session operations, answers, stops, expiries of the watchdog, and failures of loads, saves and deletions; a plan costs one, and two rounds cost both): a late answer, a stale or failed load and a deletion under way each need one round and at most two moves. The first session is `ai_agent_default`. 1.5 million states |
| `agent_panel_approve` | violation: an approved plan is sent with an empty history | as above |
| `data_tab` | right row, edits kept, one insert, fresh view, spinners | three rows on two pages, one filter, both orders; two saves (a retry, or two at once), one failure, two user actions besides saving, among them a clone of a clone. 1.4 million states |
| `session_tabs` | active tab, agent's connection, tabs against back end, ended sessions | one SSH session, one server that is opened and closed any number of times, two tools: three neighbours in the strip, two closes between two renders, and reconnects that fail |

`another` and `mayDo` are the bounds of `agent_panel` and `data_tab`: they limit
how much the user does, never what the program does with it.

Deadlock is not checked where the system may stop: all calls done, the session
closed, the streams at their end, the user idle.

**Fairness.** Weak fairness of each goroutine's next step, since the Go
scheduler runs every runnable goroutine, and of the second half of a call that
has begun (`StopChat`, `close`, `Attach`). Tool handlers and the model return:
they get contexts with timeouts or cancellation. The timer of `Connect` fires.
In `SessionTabs`, React renders what has changed, a disconnect call that has
begun returns, and the webview handles the events it got.
Nothing is assumed of the user, who may never answer, nor of the server, which
may never break the connection.

## Proofs

`ToolBus_proofs` proves, for all sets of calls, requests and settings:

* `TypeCorrect`;
* `ApprovalInvariant` and from it `NoActionWithoutApproval`,
  `FirstAnswerIsObeyed`, `PendingTableExact` and `BusImplementsGate`, all from
  `StrictClock`, without which `bus_coarse_clock` refutes them. That a call
  acts only when approved is not inductive: an answer is delivered by id, so
  ids must be distinct (`IdsDistinct`), the table must hold exactly the waiting
  calls under their own ids (`PendingSound`, `PendingComplete`), a card must
  carry its call's id (`CardsSound`), and slot, decision and first
  acknowledgement must agree (`AnswerInv`);
* `HighRiskIsBlocked`, by an invariant that follows a call through the two
  halves of `Audit` and compares the settings in force with what it has seen.

`SshSession_proofs` proves `SessionTypeCorrect`, `NoClientIsOrphaned` and
`ClosedMeansClosed` for any number of SFTP operations and writers, stalled
server or not. The invariant adds that whoever is creating a client holds
`sftpMu`, that no client exists or is being created once `close` has passed its
first step, and that `done` is closed from its beginning on. `ClosedForGood`
says that a session `close` has left stays like that for ever.

Of the three liveness properties of a session `NothingOwedIsForgotten` proves
the safety half, that their debtor is never lost: while the end of a session has
begun and was not told, a detector or `Disconnect` has yet to send the event,
unless `Connect` failed or the program ends (`EndIsOwed`); an open shell has its
waiter or a close that has begun (`ShellIsWatched`); and a mutex is held only by
an operation inside its request (`LocksAreInUse`). `OwedInv` adds that `Connect`
closes only a session without a shell, and has used neither SFTP nor the
keep-alive before.

`AgentChat_proofs` proves `ChatTypeCorrect`, `StopIsPrompt`, `StopIsNoAnswer`
and `LoneRunCanBeStopped` for any number of runs, sessions, turns and calls.
That a late step is the only one is not inductive: `LateInv` adds that a run in
front of a call has made none late, because it has just looked at its context.
`ReportInv` adds that there is no result inside the loop, `ControlInv` that a
run inside a turn has not passed the last one, and `LoneInv` that any two runs
in flight have noticed each other, so that nobody else can overwrite or clear
the cancel fields of a run alone.

`TerminalOutput_proofs` proves `OutputTypeCorrect`, `OutputInOrder` and
`OutputAccountedFor` for any streams, chunk sizes and limit. The last one says
that every chunk read is shown, waits, is held or was dropped, that the buffer
passes its limit by less than its last chunk, and that before the view attaches
or the session is closed chunks have been dropped only if the buffer is full.
Order is not inductive by itself: a chunk that is sent live must not overtake
one that waits in the buffer, so `LiveInv` says that nothing waits once the view
is attached and that a pump sends live only then; `ReachInv` says that nothing
shown or waiting is newer than what its pump has read, so that the next chunk is
the newest of its stream. `ReplayIsFinal` is the safety half of
`BufferIsReplayed`: from the first replay on, or from the firing of the timer,
the buffer stays empty for ever, because the view is never detached.

`AgentPanel_proofs` proves, for any sets of sessions and any number of rounds,
`PanelTypeCorrect` and

* `PanelQuestionShown`: a round that has met no other is the only one that can
  ask or end, and while it asks no answer is being sent, unless it was asked
  during one (`AloneInv`);
* `PanelTitleKept`: no title is about to be written to a session whose title was
  chosen, and a round begins to title only when it has ended (`TitleInv`);
* `PanelBuriedStays`: no call under way carries the id of a buried session
  (`BuriedInv`), which holds because ids are not used twice (`IdsInv`);
* `PanelListHonest`: while creations and deletions do not overlap, the list a
  deletion remembers is still the present one, and a creation that replaces the
  last session finds an empty list, which stays empty if it fails (`ListInv`).

It assumes that the sessions known at first and `ai_agent_default` are among the
ids, that the one shown is one of the former, and that `None` is not the number
of a round.

`AgentPanelHistory_proofs` proves `PanelHistoryInvariant` and from it
`PanelQuietHistory`, under the same assumptions. What the store holds of a
session comes from a save, what a save carries from the messages on the screen,
and those from a load or from the events and the reply of a round. So the
invariant says the same of each place, for every session nobody disturbed:

* `StoredInv`: the history stored is of this session's rounds alone and, unless
  a save is under way or a load or save of it has failed, has the answer of
  every chat that was dealt with, and the whole of it unless the reply came
  before the last event (`ghost.late`);
* `CallsInv`: so has what a load has read and what a save carries, and nothing
  else goes on during a load;
* `ShownInv`: so have the messages shown when no load is under way; the last of
  them is the answer of the round that is at work, if one is.

It is inductive because in such a session nothing overlaps: what is in flight is
of the session shown (`FlightInv`), a session being created has no rounds
(`HomeInv`), a round ends once (`RoundsInv`), and chunks that wait for the
throttle are of a round whose end was not heard (`BufferInv`).

`DataTab_proofs` proves, for any table, page size, set of filters and bounds on
what the user does, `DataTypeCorrect` and

* `DataSpinnersHonest`, from distinct request numbers (`RequestInv`);
* `DataFreshView`: the request that counts asks the query last sent (`AskInv`),
  and what has arrived for it is the answer the table gives now unless a save
  that will load again is under way (`GotInv`);
* `DataRightRow`: every draft, and every update a save carries, is for the row
  at its index when it was typed or chosen in the menu, and what is elsewhere in
  the table came there with a cloned row (`RowInv`); of each row there is one
  (`KeyInv`);
* `DataCalmEditsLand`: a kept change is a draft, has landed, or is carried by
  every save under way, and no other update of such a save goes to its row
  (`CalmInv`);
* `DataInsertOnce`: a new row that is not risky is carried by one save at most,
  and only until it has been inserted (`InsertInv`).

It assumes that every filter is a set of keys, one of them all keys, and that
`None` is no key. `ShapeInv` (drafts and the editor point at rows there are) is
used throughout. The answer to a query is a set of functions, `answers(q)`,
which has the row with n others before it at place n: this says what the
database returns without a sort, which would need recursion.

`SessionTabs_proofs` proves, for any sets of sessions, servers and tools,
`TabsTypeCorrect`, `TabsActiveOpen`, `TabsAgentFollows` and `TabsAndBackend`.
The neighbour `pickAdjacentFallback` finds is a tab that stays because the strip
has every tab once (`StripFacts`, `Neighbour`). What the agent was told is
compared with the refs, as both change only in the effects of a render
(`FollowInv`). `LinkInv` follows each connection through its calls: never
connecting and closing at once, gone when the disconnect has returned, there or
reported as ended when the connect has; otherwise its tab is shown exactly while
the back end has it, an event is on its way, or a failed reconnect has closed
it. The ids of sessions, of servers and of tools are assumed to be disjoint: the
code compares kind and id.

Every invariant of every passing run, and the refinement `ImplementsGate`, is a
theorem. Only model-checked: the liveness properties (fairness and `ENABLED` are
beyond the prover), of which `NothingOwedIsForgotten` and `ReplayIsFinal` prove
safety halves, and the property of the violated `chat_stop_session`.

## Findings

Four runs end in a violation, each of a statement made in the repository; the
details and quotations are in `PROJECT.json`. Approval ids are timestamps;
`StopChat` ignores the session it is given; `close` waits for mutexes whose
holders wait for the server; an approved plan is sent with an empty history.

Seen in the agent panel, and excluded from its properties by the ghost fields:
the reply of a round that arrives after a switch completes the last answer of
the session now shown and saves it under the session of the round; a load has no
check that its session is still the one shown; a message sent while the history
loads is overwritten; after Stop and a quick new message the first round's Done
lands on the second's answer; a rename while a title is being generated is
overwritten by it; a save or title that is late makes a deleted session again; a
deletion puts back the list of its closure, without a session created meanwhile;
a history that fails to load is shown empty and the next round saves it so; a
failed save is not noticed; a reply that arrives before the last event keeps and
saves the chunks shown so far as the answer, until Done comes; if the creation
after the deletion of the last session fails, the deleted one is shown with an
empty list; clearing one session also empties `ai_agent_default`; a second
question that is asked while the answer to the first is being sent is taken off
the screen when that call returns, and its round waits unseen; an answer after
the five minutes is dropped and shown as given; Done of the session shown takes
away the question of another.

Seen in the data view: an editor that is open during a load keeps its text and
writes it to the row now at its index, and "set NULL" in a menu that is open
during a load goes to the row now there; a clone of a new row gets the draft of
the stored row with the same index; after a save or a deletion the page of
the closure is loaded, whatever the paginator shows; a save that failed after
some inserts repeats them; Ctrl+S in a cell during a save inserts the new rows
twice; edits made during a save are cleared at its end; a deletion discards the
drafts of other rows; the count keeps spinning if the next load fails before it
returns.

Seen in the tabs: when two closes return between two renders, a tab that is
closed may become active; a reconnect to a Redis server or a SQLite file that
fails leaves the tab of the old connection without one; a session that ends
before its tab is rendered keeps a dead tab; a disconnect that fails leaves the
connection in the back end without a tab.

Also noticed: plan mode's list of writing tools (`isPlanModeForbidden`) has
`k8s_exec` and not `kubectl_exec`, a second name of the same handler, against
the comment at `agent/guard/guard.go:446`; `WriteFileAtomic` removes the old
file before its second attempt to rename, so that a crash or a second failure
leaves neither version, against the comment at `storage/file_io.go:11`; the
Redis write tools run without confirmation (registered with the allow level, no
rule); the output buffer exceeds its limit by up to a chunk; `fixAttempts` in
`agent/executor/retry.go` never binds before the attempt limit; `BuildDAG`
attaches the dependencies of a step whose duplicate id was renamed to the first
step of that id.

## Not modelled

Parsing of SQL, shell, Docker and kubectl text; prompts, context compression
and chunk parsing of the chat; rendering; the drivers behind databases,
containers and brokers; build and packaging. `ExecCombined` and
`TestConnection` use a session of their own and share no state.

Most of the repository's lines are views of single calls: the pages for Docker,
Kubernetes, MongoDB, Redis, the wiki and the settings fetch, show and send, and
hold no state that two of their handlers could bring out of step in a way the
data view does not already show. `PROJECT.json` lists them as components.

## Plan

1. Done: bus, guard, approvals; chat loop; SSH session; terminal output; agent
panel with the session store; data view; application tabs. 2. Done: proofs of
the safety invariants of every component, the refinement of    the gate, and
safety halves of the liveness of sessions and output. 3. Candidates after that:
the transfer manager (`ssh/sftp.go`), `WriteFileAtomic`    with crashes against
a register that holds the old or the new value, the    tables of WebSocket and
MQTT connections, `BuildDAG` and the layered executor,    which plans of the
current planner do not reach.
