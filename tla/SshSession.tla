------------------------------ MODULE SshSession ------------------------------
(***************************************************************************)
(* The life of one SSH session (ssh/ssh.go): Connect, the two detectors of *)
(* a lost session (the goroutine on shell.Wait and keepAlive), Disconnect, *)
(* the CloseAll of a shutdown, sftpConn and Write, with the two mutexes,   *)
(* the done channel and the closeOnce they share.                          *)
(*                                                                         *)
(* Session.close runs once, in whichever caller comes first; the others    *)
(* wait for it (sync.Once).  Its steps are kept apart because each one     *)
(* waits for a mutex that another goroutine may hold while it waits for    *)
(* the remote side.                                                        *)
(***************************************************************************)
EXTENDS Integers

CONSTANTS
  Users,      \* SFTP operations, each calling sftpConn over and over
  Writers,    \* terminal inputs (Write, Resize)
  Connector,  \* the Connect call, which uses sftpConn too (detectHome)
  None,       \* nobody
  MayStall    \* TRUE: the server may keep the connection and stop answering

ASSUME WorkersAssumption ==
  /\ Users \cap Writers = {}
  /\ Connector \notin Users \cup Writers
  /\ None \notin Users \cup Writers \cup {Connector}
  /\ MayStall \in BOOLEAN

VARIABLES
  remote,       \* "up", "exited" (the shell ended), "gone", "stalled"
  registered,   \* the session is in SessionManager.sessions
  done,         \* Session.done is closed
  once,         \* how far Session.close has come
  sftpMu,       \* who holds Session.sftpMu
  shellMu,      \* who holds Session.shellMu
  sftpClient,   \* Session.sftpClient: the user that created it
  clients,      \* SFTP clients created and not closed yet
  shell,        \* Session.shell: "none", "open", "closed"
  client,       \* the SSH connection: "open", "closed"
  cpc,          \* where each caller of close is
  upc,          \* where each SFTP operation or terminal input is
  told          \* who has sent session:closed to the frontend

vars == <<remote, registered, done, once, sftpMu, shellMu, sftpClient, clients,
          shell, client, cpc, upc, told>>

-----------------------------------------------------------------------------
(* The callers of Session.close: the failure path of Connect, the shell's  *)
(* waiter, keepAlive, SshService.Disconnect and CloseAll.                  *)
Detectors == {"waiter", "keeper"}
Closers == Detectors \cup {"connect", "user", "shutdown"}

SftpCallers == Users \cup {Connector}

TypeOK ==
  /\ remote \in {"up", "exited", "gone", "stalled"}
  /\ registered \in BOOLEAN
  /\ done \in BOOLEAN
  /\ once \in {"new", "sftp", "shell", "client", "finished"}
  /\ sftpMu \in SftpCallers \cup {None}
  /\ shellMu \in Writers \cup {None}
  /\ sftpClient \in SftpCallers \cup {None}
  /\ clients \subseteq SftpCallers
  /\ shell \in {"none", "open", "closed"}
  /\ client \in {"open", "closed"}
  /\ cpc \in [Closers -> {"off", "watch", "shell", "home", "register", "check",
                          "close", "emit", "end"}]
  /\ upc \in [SftpCallers \cup Writers -> {"idle", "lock", "busy"}]
  /\ told \subseteq Closers

(* The handshake of Connect has succeeded; nothing else runs yet.          *)
Init ==
  /\ remote = "up"
  /\ registered = FALSE
  /\ done = FALSE
  /\ once = "new"
  /\ sftpMu = None /\ shellMu = None
  /\ sftpClient = None /\ clients = {}
  /\ shell = "none" /\ client = "open"
  /\ cpc = [c \in Closers |-> IF c = "connect" THEN "shell" ELSE "off"]
  /\ upc = [u \in SftpCallers \cup Writers |-> "idle"]
  /\ told = {}

mutexVars == <<sftpMu, shellMu>>
sftpVars == <<sftpClient, clients>>
closeVars == <<done, once, shell, client>>

goto(c, l) == cpc' = [cpc EXCEPT ![c] = l]

(* A request to the server is answered, or fails: only a silent server on  *)
(* an open connection keeps its caller waiting.                            *)
answered == remote # "stalled" \/ client = "closed"

-----------------------------------------------------------------------------
(* Connect                                                                 *)

(* startShell: on success the waiter runs, before the session is known.    *)
StartShell ==
  /\ cpc["connect"] = "shell" /\ answered
  /\ \/ /\ remote = "up"
        /\ shell' = "open"
        /\ cpc' = [cpc EXCEPT !["connect"] = "home", !["waiter"] = "watch"]
        /\ upc' = [upc EXCEPT ![Connector] = "lock"]
     \/ goto("connect", "close") /\ UNCHANGED <<shell, upc>>
  /\ UNCHANGED <<remote, registered, done, once, mutexVars, sftpVars, client, told>>

(* detectHome has returned; the session enters the map and keepAlive runs. *)
Register ==
  /\ cpc["connect"] = "home" /\ upc[Connector] = "idle"
  /\ registered' = TRUE
  /\ cpc' = [cpc EXCEPT !["connect"] = "end", !["keeper"] = "watch"]
  /\ UNCHANGED <<remote, mutexVars, sftpVars, closeVars, upc, told>>

-----------------------------------------------------------------------------
(* Get, then sftpConn or Write                                             *)

enter(u) ==
  /\ upc[u] = "idle" /\ registered /\ ~done
  /\ upc' = [upc EXCEPT ![u] = "lock"]
  /\ UNCHANGED <<remote, registered, mutexVars, sftpVars, closeVars, cpc, told>>

(* MUTANT: the SFTP client is created outside the mutex.                   *)
SftpLockShared(u) ==
  /\ upc[u] = "lock"
  /\ upc' = [upc EXCEPT ![u] = IF sftpClient # None \/ done THEN "idle" ELSE "busy"]
  /\ UNCHANGED <<remote, registered, mutexVars, sftpVars, closeVars, cpc, told>>

(* MUTANT: sftpConn locks the other mutex.                                 *)
SftpLockWrongMutex(u) ==
  /\ upc[u] = "lock" /\ shellMu = None
  /\ IF sftpClient # None \/ done
       THEN upc' = [upc EXCEPT ![u] = "idle"] /\ UNCHANGED shellMu
       ELSE upc' = [upc EXCEPT ![u] = "busy"] /\ shellMu' = u
  /\ UNCHANGED <<remote, registered, sftpMu, sftpVars, closeVars, cpc, told>>

(* sftpConn, under sftpMu: the client there is, an error on a closed       *)
(* session, or sftp.NewClient with the mutex held.                         *)
SftpLock(u) ==
  /\ upc[u] = "lock" /\ sftpMu = None
  /\ IF sftpClient # None \/ done
       THEN upc' = [upc EXCEPT ![u] = "idle"] /\ UNCHANGED sftpMu
       ELSE upc' = [upc EXCEPT ![u] = "busy"] /\ sftpMu' = u
  /\ UNCHANGED <<remote, registered, shellMu, sftpVars, closeVars, cpc, told>>

(* MUTANT: the error path of sftpConn does not unlock.                     *)
SftpOpenedKeepsLock(u) ==
  /\ upc[u] = "busy" /\ answered
  /\ \/ /\ remote \in {"up", "exited"} /\ client = "open"
        /\ sftpClient' = u /\ clients' = clients \cup {u}
        /\ sftpMu' = None
     \/ UNCHANGED <<sftpVars, sftpMu>>
  /\ upc' = [upc EXCEPT ![u] = "idle"]
  /\ UNCHANGED <<remote, registered, shellMu, closeVars, cpc, told>>

(* sftp.NewClient returns.                                                 *)
SftpOpened(u) ==
  /\ upc[u] = "busy" /\ answered
  /\ \/ /\ remote \in {"up", "exited"} /\ client = "open"
        /\ sftpClient' = u /\ clients' = clients \cup {u}
     \/ UNCHANGED sftpVars
  /\ upc' = [upc EXCEPT ![u] = "idle"]
  /\ sftpMu' = None
  /\ UNCHANGED <<remote, registered, shellMu, closeVars, cpc, told>>

(* Write holds shellMu while the server takes the input.                   *)
WriteLock(w) ==
  /\ upc[w] = "lock" /\ shellMu = None
  /\ upc' = [upc EXCEPT ![w] = "busy"]
  /\ shellMu' = w
  /\ UNCHANGED <<remote, registered, sftpMu, sftpVars, closeVars, cpc, told>>

WriteDone(w) ==
  /\ upc[w] = "busy" /\ answered
  /\ upc' = [upc EXCEPT ![w] = "idle"]
  /\ shellMu' = None
  /\ UNCHANGED <<remote, registered, sftpMu, sftpVars, closeVars, cpc, told>>

-----------------------------------------------------------------------------
(* Session.close                                                           *)

(* MUTANT: done is closed after the resources, not before.                 *)
CloseBeginLate(c) ==
  /\ cpc[c] = "close" /\ once = "new"
  /\ once' = "sftp" /\ UNCHANGED done
  /\ UNCHANGED <<remote, registered, mutexVars, sftpVars, shell, client, cpc, upc, told>>

CloseBegin(c) ==
  /\ cpc[c] = "close" /\ once = "new"
  /\ done' = TRUE
  /\ once' = "sftp"
  /\ UNCHANGED <<remote, registered, mutexVars, sftpVars, shell, client, cpc, upc, told>>

(* The SFTP client's Close waits for its receive loop, which ends when the *)
(* server closes the channel or the connection breaks.                     *)
CloseSftp ==
  /\ once = "sftp" /\ sftpMu = None
  /\ sftpClient # None => answered
  /\ clients' = clients \ {sftpClient}
  /\ sftpClient' = None
  /\ once' = "shell"
  /\ UNCHANGED <<remote, registered, mutexVars, done, shell, client, cpc, upc, told>>

CloseShell ==
  /\ once = "shell" /\ shellMu = None
  /\ shell' = IF shell = "open" THEN "closed" ELSE shell
  /\ once' = "client"
  /\ UNCHANGED <<remote, registered, mutexVars, sftpVars, done, client, cpc, upc, told>>

(* The buffer is dropped (module TerminalOutput), then the connection.     *)
CloseClient ==
  /\ once = "client"
  /\ client' = "closed"
  /\ once' = "finished"
  /\ UNCHANGED <<remote, registered, mutexVars, sftpVars, done, shell, cpc, upc, told>>

(* MUTANT: the detectors do not send session:closed.                       *)
CloseReturnsSilently(c) ==
  /\ cpc[c] = "close" /\ once = "finished"
  /\ goto(c, IF c = "user" THEN "emit" ELSE "end")
  /\ UNCHANGED <<remote, registered, mutexVars, sftpVars, closeVars, upc, told>>

(* close has returned: handleDisconnect and Disconnect send an event,      *)
(* Connect returns its error and CloseAll goes on.                         *)
CloseReturns(c) ==
  /\ cpc[c] = "close" /\ once = "finished"
  /\ goto(c, IF c \in {"connect", "shutdown"} THEN "end" ELSE "emit")
  /\ UNCHANGED <<remote, registered, mutexVars, sftpVars, closeVars, upc, told>>

EmitClosed(c) ==
  /\ cpc[c] = "emit"
  /\ told' = told \cup {c}
  /\ goto(c, "end")
  /\ UNCHANGED <<remote, registered, mutexVars, sftpVars, closeVars, upc>>

-----------------------------------------------------------------------------
(* The callers of close                                                    *)

(* MUTANT: a failed probe ends the goroutine without handleDisconnect.     *)
NoticesLossOnly(c) ==
  /\ cpc[c] = "watch"
  /\ \/ remote = "gone" \/ client = "closed"
     \/ c = "waiter" /\ remote = "exited"
  /\ goto(c, "end")
  /\ UNCHANGED <<remote, registered, mutexVars, sftpVars, closeVars, upc, told>>

(* shell.Wait returns, or a keepalive request fails.                       *)
NoticesLoss(c) ==
  /\ cpc[c] = "watch"
  /\ \/ remote = "gone" \/ client = "closed"
     \/ c = "waiter" /\ remote = "exited"
  /\ goto(c, "check")
  /\ UNCHANGED <<remote, registered, mutexVars, sftpVars, closeVars, upc, told>>

(* handleDisconnect: the check and the close are two steps.                *)
CheckClosed(c) ==
  /\ cpc[c] = "check"
  /\ goto(c, IF done THEN "end" ELSE "close")
  /\ UNCHANGED <<remote, registered, mutexVars, sftpVars, closeVars, upc, told>>

(* keepAlive's select sees done.                                           *)
KeepAliveDone ==
  /\ cpc["keeper"] = "watch" /\ done
  /\ goto("keeper", "end")
  /\ UNCHANGED <<remote, registered, mutexVars, sftpVars, closeVars, upc, told>>

(* Remove: out of the map first; a session no longer there is not closed   *)
(* again, and the event is sent in any case.                               *)
Disconnect ==
  /\ cpc["user"] = "off" /\ cpc["connect"] = "end"
  /\ goto("user", IF registered THEN "close" ELSE "emit")
  /\ registered' = FALSE
  /\ UNCHANGED <<remote, mutexVars, sftpVars, closeVars, upc, told>>

CloseAll ==
  /\ cpc["shutdown"] = "off"
  /\ goto("shutdown", IF registered THEN "close" ELSE "end")
  /\ registered' = FALSE
  /\ UNCHANGED <<remote, mutexVars, sftpVars, closeVars, upc, told>>

-----------------------------------------------------------------------------
(* The server and the network (external).                                  *)

RemoteChanges ==
  /\ remote = "up"
  /\ remote' \in {"exited", "gone"} \cup (IF MayStall THEN {"stalled"} ELSE {})
  /\ UNCHANGED <<registered, mutexVars, sftpVars, closeVars, cpc, upc, told>>

CloserStep(c) == CloseBegin(c) \/ CloseReturns(c) \/ EmitClosed(c)

SftpStep(u) == SftpLock(u) \/ SftpOpened(u)

WriteStep(w) == WriteLock(w) \/ WriteDone(w)

DetectorStep(c) == NoticesLoss(c) \/ CheckClosed(c)

CloseStep == CloseSftp \/ CloseShell \/ CloseClient

Next ==
  \/ StartShell \/ Register
  \/ \E u \in Users \cup Writers : enter(u)
  \/ \E u \in SftpCallers : SftpStep(u)
  \/ \E w \in Writers : WriteStep(w)
  \/ \E c \in Closers : CloserStep(c)
  \/ CloseStep
  \/ \E c \in Detectors : DetectorStep(c)
  \/ KeepAliveDone
  \/ Disconnect \/ CloseAll
  \/ RemoteChanges

Spec == Init /\ [][Next]_vars

(* Every goroutine runs when it can; neither the user nor the server owes  *)
(* anything.                                                               *)
Fairness ==
  /\ WF_vars(StartShell) /\ WF_vars(Register)
  /\ \A u \in SftpCallers : WF_vars(SftpStep(u))
  /\ \A w \in Writers : WF_vars(WriteStep(w))
  /\ \A c \in Closers : WF_vars(CloserStep(c))
  /\ WF_vars(CloseStep)
  /\ \A c \in Detectors : WF_vars(DetectorStep(c))

FairSpec == Spec /\ Fairness

-----------------------------------------------------------------------------
(* Properties.                                                             *)

(* Every SFTP client that was created and not closed is the one the        *)
(* session knows, so close will find it: two operations that start at once *)
(* do not both create one (sftpConn), and a client that was being created  *)
(* while the session was closed is not lost.                               *)
NoOrphanClient == clients \subseteq {sftpClient}

(* When close has returned nothing of the session is open, and nothing can *)
(* be opened again by an operation that had passed Get before.             *)
NothingLeftOpen ==
  once = "finished" =>
    /\ clients = {} /\ client = "closed" /\ shell # "open"
    /\ \A u \in SftpCallers : upc[u] # "busy"

(* A session lost on the network is closed: one of the two detectors sees  *)
(* it whatever else goes on.                                               *)
LossIsNoticed == (remote = "gone" /\ shell = "open") ~> once = "finished"

(* However a session ends, the frontend is told: a detector that backs out *)
(* because someone else is closing relies on that one to send the event.   *)
(* A failed Connect returns an error instead, and a shutdown tells nobody. *)
EndIsTold ==
  done ~> (told # {} \/ shell = "none" \/ cpc["shutdown"] # "off")

(* Disconnect returns: "断开 SSH 会话" (services/ssh_service.go).           *)
DisconnectReturns == (cpc["user"] = "close") ~> (cpc["user"] = "end")
=============================================================================
