--------------------------- MODULE SshSession_proofs ---------------------------
(***************************************************************************)
(* Proofs about SshSession for any number of SFTP operations and terminal  *)
(* inputs, with a server that may stall or not.                            *)
(*                                                                         *)
(* That close leaves nothing open rests on the mutex: whoever creates an   *)
(* SFTP client holds sftpMu and found none there (MutexInv), close passes  *)
(* its first step only when nobody does, and from then on done keeps       *)
(* sftpConn from starting another (CloseInv).  The shell is opened before  *)
(* anybody can call close (ConnectInv).                                    *)
(*                                                                         *)
(* The liveness properties of SshSession are checked by TLC; what is       *)
(* proved here of them is that their debtor is never lost: somebody always *)
(* has yet to send the event (EndIsOwed), an open shell always has a       *)
(* waiter or a close under way (ShellIsWatched), and close waits for a     *)
(* mutex only while its holder is inside a request to the server           *)
(* (LocksAreInUse).                                                        *)
(***************************************************************************)
EXTENDS SshSession, TLAPS

MutexInv ==
  /\ \A u \in SftpCallers : upc[u] = "busy" => sftpMu = u
  /\ sftpMu # None => sftpClient = None
  /\ clients \subseteq {sftpClient}

ConnectInv ==
  /\ cpc["connect"] # "end" => ~registered
  /\ cpc["connect"] = "shell" =>
       /\ once = "new"
       /\ \A c \in Closers \ {"connect"} : cpc[c] \in {"off", "end"}

CloseInv ==
  /\ once # "new" => done
  /\ once \in {"shell", "client", "finished"} => sftpMu = None /\ sftpClient = None
  /\ once \in {"client", "finished"} => shell # "open"
  /\ once = "finished" => client = "closed"

SessionInv == MutexInv /\ ConnectInv /\ CloseInv

(* A session that is being closed, or has been, and of whose end the       *)
(* frontend does not know yet: a detector or Disconnect is on its way to   *)
(* the event, unless Connect failed or the program shuts down.             *)
EndIsOwed ==
  done => \/ told # {} \/ shell = "none" \/ cpc["shutdown"] # "off"
          \/ \E c \in Detectors \cup {"user"} : cpc[c] \in {"close", "emit"}

ShellIsWatched ==
  shell = "open" => done \/ cpc["waiter"] \in {"watch", "check", "close"}

LocksAreInUse ==
  /\ sftpMu # None => upc[sftpMu] = "busy"
  /\ shellMu # None => upc[shellMu] = "busy"

(* Connect calls close only when it has opened no shell.                   *)
FailedConnectInv == cpc["connect"] \in {"shell", "close"} => shell = "none"

(* Connect has not used SFTP before startShell, nor started keepAlive      *)
(* before the session is in the map.                                       *)
NotStartedInv ==
  /\ cpc["connect"] = "shell" => upc[Connector] = "idle"
  /\ cpc["connect"] \in {"shell", "home"} => cpc["keeper"] = "off"

OwedInv ==
  /\ EndIsOwed /\ ShellIsWatched /\ LocksAreInUse /\ FailedConnectInv /\ NotStartedInv
  /\ done => once # "new"

(* Every step keeps the types.                                             *)
LEMMA SessionTypeInductive == TypeOK /\ [Next]_vars => TypeOK'
<1> SUFFICES ASSUME TypeOK, [Next]_vars
             PROVE  TypeOK'
  OBVIOUS
<1> DEFINE Labels == {"off", "watch", "shell", "home", "register", "check", "close",
                      "emit", "end"}
           Callers == SftpCallers \cup Writers
<1>a. cpc \in [Closers -> Labels] /\ upc \in [Callers -> {"idle", "lock", "busy"}]
  BY DEF TypeOK
<1>b. \A c \in Closers, l \in Labels : [cpc EXCEPT ![c] = l] \in [Closers -> Labels]
  BY <1>a
<1>c. \A u \in Callers, l \in {"idle", "lock", "busy"} :
        [upc EXCEPT ![u] = l] \in [Callers -> {"idle", "lock", "busy"}]
  BY <1>a
<1>d. {"waiter", "keeper", "connect", "user", "shutdown"} \subseteq Closers
  BY DEF Closers, Detectors
<1>e. SftpCallers \subseteq Callers /\ Writers \subseteq Callers /\ Connector \in Callers
  BY DEF SftpCallers
<1>f. ASSUME UNCHANGED <<done, once, sftpMu, shellMu, sftpClient, clients, client>>,
             remote' = remote, told' \subseteq Closers, registered' \in BOOLEAN,
             shell' \in {"none", "open", "closed"},
             cpc' \in [Closers -> Labels], upc' \in [Callers -> {"idle", "lock", "busy"}]
      PROVE  TypeOK'
  BY <1>f DEF TypeOK
<1>1. CASE StartShell
  <2>1. UNCHANGED <<remote, registered, done, once, sftpMu, shellMu, sftpClient, clients,
                    client, told>>
    BY <1>1 DEF StartShell, mutexVars, sftpVars
  <2>2. CASE /\ shell' = "open"
             /\ cpc' = [cpc EXCEPT !["connect"] = "home", !["waiter"] = "watch"]
             /\ upc' = [upc EXCEPT ![Connector] = "lock"]
    <3>1. cpc' \in [Closers -> Labels]
      BY <2>2, <1>a
    <3>2. upc' \in [Callers -> {"idle", "lock", "busy"}]
      BY <2>2, <1>c, <1>e
    <3> QED
      BY <2>1, <2>2, <3>1, <3>2, <1>f DEF TypeOK
  <2>3. CASE goto("connect", "close") /\ UNCHANGED <<shell, upc>>
    <3>1. cpc' \in [Closers -> Labels]
      BY <2>3, <1>b, <1>d DEF goto
    <3> QED
      BY <2>1, <2>3, <3>1, <1>a, <1>f DEF TypeOK
  <2> QED
    BY <1>1, <2>2, <2>3 DEF StartShell
<1>2. CASE Register
  <2>1. cpc' \in [Closers -> Labels]
    BY <1>2, <1>a DEF Register
  <2> QED
    BY <1>2, <2>1, <1>a, <1>f DEF Register, TypeOK, mutexVars, sftpVars, closeVars
<1>3. ASSUME NEW u \in Users \cup Writers, enter(u)
      PROVE  TypeOK'
  BY <1>3 DEF enter, TypeOK, SftpCallers, mutexVars, sftpVars, closeVars
<1>4. ASSUME NEW u \in SftpCallers, SftpStep(u)
      PROVE  TypeOK'
  <2>1. upc' \in [Callers -> {"idle", "lock", "busy"}]
    BY <1>4, <1>c, <1>e DEF SftpStep, SftpLock, SftpOpened
  <2>2. /\ sftpMu' \in SftpCallers \cup {None} /\ sftpClient' \in SftpCallers \cup {None}
        /\ clients' \subseteq SftpCallers
    BY <1>4 DEF SftpStep, SftpLock, SftpOpened, TypeOK, sftpVars
  <2>3. UNCHANGED <<remote, registered, shellMu, done, once, shell, client, cpc, told>>
    BY <1>4 DEF SftpStep, SftpLock, SftpOpened, closeVars
  <2> QED
    BY <2>1, <2>2, <2>3 DEF TypeOK
<1>5. ASSUME NEW w \in Writers, WriteStep(w)
      PROVE  TypeOK'
  BY <1>5 DEF WriteStep, WriteLock, WriteDone, TypeOK, mutexVars, sftpVars, closeVars
<1>6. ASSUME NEW c \in Closers, CloserStep(c)
      PROVE  TypeOK'
  <2>1. CASE CloseBegin(c)
    BY <2>1 DEF CloseBegin, TypeOK, mutexVars, sftpVars
  <2>2. CASE CloseReturns(c) \/ EmitClosed(c)
    <3>1. cpc' \in [Closers -> Labels]
      BY <2>2, <1>b DEF CloseReturns, EmitClosed, goto
    <3>2. /\ told' \subseteq Closers
          /\ UNCHANGED <<remote, registered, mutexVars, sftpVars, closeVars, upc>>
      BY <2>2 DEF CloseReturns, EmitClosed, TypeOK
    <3> QED
      BY <3>1, <3>2, <1>a, <1>f DEF TypeOK, mutexVars, sftpVars, closeVars
  <2> QED
    BY <1>6, <2>1, <2>2 DEF CloserStep
<1>7. CASE CloseStep
  BY <1>7 DEF CloseStep, CloseSftp, CloseShell, CloseClient, TypeOK, mutexVars, sftpVars
<1>8. ASSUME \/ \E c \in Detectors : DetectorStep(c)
             \/ KeepAliveDone \/ Disconnect \/ CloseAll
      PROVE  TypeOK'
  <2>1. cpc' \in [Closers -> Labels]
    <3>1. ASSUME NEW c \in Detectors, DetectorStep(c)
          PROVE  cpc' \in [Closers -> Labels]
      BY <3>1, <1>b DEF DetectorStep, NoticesLoss, CheckClosed, goto, Closers
    <3>2. CASE KeepAliveDone \/ Disconnect \/ CloseAll
      BY <3>2, <1>b, <1>d DEF KeepAliveDone, Disconnect, CloseAll, goto
    <3> QED
      BY <1>8, <3>1, <3>2
  <2>2. /\ registered' \in BOOLEAN
        /\ UNCHANGED <<remote, mutexVars, sftpVars, closeVars, upc, told>>
    BY <1>8 DEF DetectorStep, NoticesLoss, CheckClosed, KeepAliveDone, Disconnect,
                CloseAll, TypeOK
  <2> QED
    BY <2>1, <2>2, <1>a, <1>f DEF TypeOK, mutexVars, sftpVars, closeVars
<1>9. CASE RemoteChanges
  BY <1>9 DEF RemoteChanges, TypeOK, mutexVars, sftpVars, closeVars
<1>10. CASE UNCHANGED vars
  BY <1>10 DEF vars, TypeOK
<1> QED
  BY <1>1, <1>2, <1>3, <1>4, <1>5, <1>6, <1>7, <1>8, <1>9, <1>10 DEF Next

(* The state of a session is well formed in every reachable state.         *)
THEOREM SessionTypeCorrect == Spec => []TypeOK
<1>1. Init => TypeOK
  BY DEF Init, TypeOK, SftpCallers, Closers, Detectors
<1> QED
  BY <1>1, SessionTypeInductive, PTL DEF Spec

(* Every step keeps the invariant.                                         *)
LEMMA SessionInductive == TypeOK /\ SessionInv /\ [Next]_vars => SessionInv'
<1> SUFFICES ASSUME TypeOK, SessionInv, [Next]_vars
             PROVE  SessionInv'
  OBVIOUS
<1> USE WorkersAssumption
<1> USE DEF SessionInv, MutexInv, ConnectInv, CloseInv, TypeOK, SftpCallers, Closers,
            Detectors, mutexVars, sftpVars, closeVars, goto
<1>1. CASE StartShell
  BY <1>1 DEF StartShell
<1>2. CASE Register
  BY <1>2 DEF Register
<1>3. ASSUME NEW u \in Users \cup Writers, enter(u)
      PROVE  SessionInv'
  BY <1>3 DEF enter
<1>4. ASSUME NEW u \in SftpCallers, SftpLock(u)
      PROVE  SessionInv'
  BY <1>4 DEF SftpLock
<1>5. ASSUME NEW u \in SftpCallers, SftpOpened(u)
      PROVE  SessionInv'
  BY <1>5 DEF SftpOpened
<1>6. ASSUME NEW w \in Writers, WriteStep(w)
      PROVE  SessionInv'
  BY <1>6 DEF WriteStep, WriteLock, WriteDone
<1>7. ASSUME NEW c \in Closers, CloserStep(c)
      PROVE  SessionInv'
  BY <1>7 DEF CloserStep, CloseBegin, CloseReturns, EmitClosed
<1>8. CASE CloseStep
  BY <1>8 DEF CloseStep, CloseSftp, CloseShell, CloseClient
<1>9. ASSUME NEW c \in Detectors, DetectorStep(c)
      PROVE  SessionInv'
  BY <1>9 DEF DetectorStep, NoticesLoss, CheckClosed
<1>10. CASE KeepAliveDone \/ Disconnect \/ CloseAll
  BY <1>10 DEF KeepAliveDone, Disconnect, CloseAll
<1>11. CASE RemoteChanges
  BY <1>11 DEF RemoteChanges
<1>12. CASE UNCHANGED vars
  BY <1>12 DEF vars
<1> QED
  BY <1>1, <1>2, <1>3, <1>4, <1>5, <1>6, <1>7, <1>8, <1>9, <1>10, <1>11, <1>12
     DEF Next, SftpStep

(* The inductive invariant of a session's life.                            *)
THEOREM SessionInvariant == Spec => [](TypeOK /\ SessionInv)
<1>1. Init => SessionInv
  BY WorkersAssumption DEF Init, SessionInv, MutexInv, ConnectInv, CloseInv, Closers,
                           Detectors, SftpCallers
<1> QED
  BY <1>1, SessionInductive, SessionTypeCorrect, PTL DEF Spec

(* No SFTP client is ever created that the session does not know, however  *)
(* many operations call sftpConn at once.                                  *)
THEOREM NoClientIsOrphaned == Spec => []NoOrphanClient
<1>1. SessionInv => NoOrphanClient
  BY DEF SessionInv, MutexInv, NoOrphanClient
<1> QED
  BY <1>1, SessionInvariant, PTL

(* When close has returned, shell, SFTP client and connection are closed   *)
(* and stay so, whatever was under way when it began.                      *)
THEOREM ClosedMeansClosed == Spec => []NothingLeftOpen
<1>1. TypeOK /\ SessionInv => NothingLeftOpen
  BY WorkersAssumption
     DEF TypeOK, SessionInv, MutexInv, CloseInv, NothingLeftOpen, SftpCallers
<1> QED
  BY <1>1, SessionInvariant, PTL

(* A session that close has left is never opened again: neither by an      *)
(* operation that had passed Get before, nor by the second of two          *)
(* detectors that calls close again.                                       *)
THEOREM ClosedForGood ==
  Spec => [](once = "finished" => [](once = "finished" /\ NothingLeftOpen))
<1>1. once = "finished" /\ SessionInv /\ [Next]_vars => (once = "finished")'
  <2> SUFFICES ASSUME once = "finished", SessionInv, [Next]_vars
               PROVE  (once = "finished")'
    OBVIOUS
  <2> USE DEF closeVars
  <2>1. CASE StartShell \/ Register \/ KeepAliveDone \/ Disconnect \/ CloseAll
             \/ RemoteChanges
    BY <2>1 DEF StartShell, Register, KeepAliveDone, Disconnect, CloseAll, RemoteChanges
  <2>2. ASSUME NEW u, enter(u) \/ SftpStep(u) \/ WriteStep(u)
        PROVE  once' = once
    BY <2>2 DEF enter, SftpStep, SftpLock, SftpOpened, WriteStep, WriteLock, WriteDone
  <2>3. ASSUME NEW c \in Closers, CloserStep(c)
        PROVE  once' = once
    BY <2>3 DEF CloserStep, CloseBegin, CloseReturns, EmitClosed
  <2>4. CASE CloseStep
    BY <2>4 DEF CloseStep, CloseSftp, CloseShell, CloseClient
  <2>5. ASSUME NEW c \in Detectors, DetectorStep(c)
        PROVE  once' = once
    BY <2>5 DEF DetectorStep, NoticesLoss, CheckClosed
  <2>6. CASE UNCHANGED vars
    BY <2>6 DEF vars
  <2> QED
    BY <2>1, <2>2, <2>3, <2>4, <2>5, <2>6 DEF Next
<1> QED
  BY <1>1, SessionInvariant, ClosedMeansClosed, PTL DEF Spec

-----------------------------------------------------------------------------
(* Every step keeps OwedInv.                                               *)
LEMMA OwedInductive == TypeOK /\ SessionInv /\ OwedInv /\ [Next]_vars => OwedInv'
<1> SUFFICES ASSUME TypeOK, SessionInv, OwedInv, [Next]_vars
             PROVE  OwedInv'
  OBVIOUS
<1> USE WorkersAssumption
<1> USE DEF OwedInv, EndIsOwed, ShellIsWatched, LocksAreInUse, FailedConnectInv,
            NotStartedInv, TypeOK, SftpCallers, Closers, Detectors, mutexVars, sftpVars,
            closeVars, goto
<1>1. CASE StartShell
  <2>1. ~done /\ done' = done /\ once' = once /\ UNCHANGED <<sftpMu, shellMu, told>>
    BY <1>1 DEF StartShell, SessionInv, ConnectInv, CloseInv
  <2>2. sftpMu # Connector /\ shellMu # Connector
    BY <1>1 DEF StartShell
  <2>3. CASE /\ shell' = "open"
             /\ cpc' = [cpc EXCEPT !["connect"] = "home", !["waiter"] = "watch"]
             /\ upc' = [upc EXCEPT ![Connector] = "lock"]
    <3>1. /\ cpc'["connect"] = "home" /\ cpc'["waiter"] = "watch"
          /\ cpc'["keeper"] = cpc["keeper"]
      BY <2>3
    <3>2. LocksAreInUse'
      BY <2>1, <2>2, <2>3
    <3> QED
      BY <1>1, <2>1, <2>3, <3>1, <3>2 DEF StartShell
  <2>4. CASE goto("connect", "close") /\ UNCHANGED <<shell, upc>>
    BY <1>1, <2>1, <2>4 DEF StartShell
  <2> QED
    BY <1>1, <2>3, <2>4 DEF StartShell
<1>2. CASE Register
  <2>1. /\ cpc'["connect"] = "end" /\ cpc'["keeper"] = "watch"
        /\ \A c \in Closers \ {"connect", "keeper"} : cpc'[c] = cpc[c]
    BY <1>2 DEF Register
  <2>2. UNCHANGED <<done, once, sftpMu, shellMu, upc, shell, told>>
    BY <1>2 DEF Register
  <2>3. cpc["keeper"] = "off"
    BY <1>2 DEF Register
  <2>4. EndIsOwed'
    BY <2>1, <2>2, <2>3
  <2> QED
    BY <2>1, <2>2, <2>4
<1>3. ASSUME NEW u \in Users \cup Writers, enter(u)
      PROVE  OwedInv'
  BY <1>3 DEF enter
<1>4. ASSUME NEW u \in SftpCallers, SftpLock(u)
      PROVE  OwedInv'
  BY <1>4 DEF SftpLock
<1>5. ASSUME NEW u \in SftpCallers, SftpOpened(u)
      PROVE  OwedInv'
  BY <1>5 DEF SftpOpened
<1>6. ASSUME NEW w \in Writers, WriteStep(w)
      PROVE  OwedInv'
  BY <1>6 DEF WriteStep, WriteLock, WriteDone
<1>7. ASSUME NEW c \in Closers, CloserStep(c)
      PROVE  OwedInv'
  BY <1>7 DEF CloserStep, CloseBegin, CloseReturns, EmitClosed, SessionInv, CloseInv
<1>8. CASE CloseStep
  BY <1>8 DEF CloseStep, CloseSftp, CloseShell, CloseClient
<1>9. ASSUME NEW c \in Detectors, DetectorStep(c)
      PROVE  OwedInv'
  BY <1>9 DEF DetectorStep, NoticesLoss, CheckClosed
<1>10. CASE KeepAliveDone \/ Disconnect \/ CloseAll
  BY <1>10 DEF KeepAliveDone, Disconnect, CloseAll
<1>11. CASE RemoteChanges
  BY <1>11 DEF RemoteChanges
<1>12. CASE UNCHANGED vars
  BY <1>12 DEF vars
<1> QED
  BY <1>1, <1>2, <1>3, <1>4, <1>5, <1>6, <1>7, <1>8, <1>9, <1>10, <1>11, <1>12
     DEF Next, SftpStep

(* The safety half of LossIsNoticed, EndIsTold and DisconnectReturns:      *)
(* handleDisconnect backs out only when somebody else has begun to close   *)
(* and will send session:closed, the waiter of startShell leaves an open   *)
(* shell only to a close that has begun, and no path of sftpConn or Write  *)
(* leaves its mutex locked.                                                *)
THEOREM NothingOwedIsForgotten == Spec => [](EndIsOwed /\ ShellIsWatched /\ LocksAreInUse)
<1>1. Init => OwedInv
  BY WorkersAssumption DEF Init, OwedInv, EndIsOwed, ShellIsWatched, LocksAreInUse,
                           FailedConnectInv, NotStartedInv, Closers, Detectors,
                           SftpCallers
<1>2. OwedInv => EndIsOwed /\ ShellIsWatched /\ LocksAreInUse
  BY DEF OwedInv
<1> QED
  BY <1>1, <1>2, OwedInductive, SessionInvariant, PTL DEF Spec
=============================================================================
