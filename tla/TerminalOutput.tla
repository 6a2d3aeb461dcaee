---------------------------- MODULE TerminalOutput ----------------------------
(***************************************************************************)
(* The way of the shell's output to the frontend (ssh/ssh.go): the two     *)
(* pumpOutput goroutines, the buffer for what arrives before the terminal  *)
(* view is there, Attach, the five-second timer of Connect that attaches   *)
(* if nobody does, and close, which drops the buffer.                      *)
(*                                                                         *)
(* A chunk is what one Read returned: its stream, its number there and its *)
(* size.  EmitEvent (external) delivers in the order of the calls.         *)
(***************************************************************************)
EXTENDS Integers, Sequences, SequencesExt

CONSTANTS
  Streams,    \* stdout and stderr
  Sizes,      \* the sizes a Read may return (at most 32 KB in the code)
  Limit,      \* the buffer's limit (512 KB in the code)
  MaxChunks   \* bound: chunks of a stream

ASSUME SizesAssumption ==
  /\ Sizes \subseteq Nat \ {0} /\ Sizes # {}
  /\ Limit \in Nat \ {0} /\ MaxChunks \in Nat

VARIABLES
  pump,       \* where each pumpOutput is: "read", "got", "emit", "eof"
  chunk,      \* the chunk it holds
  buffer,     \* Session.buffer
  attached,   \* Session.attached
  closing,    \* Session.close: "no", "done" (channel closed), "yes" (buffer dropped)
  view,       \* an Attach call: "off", or "got" once Get has succeeded
  timer,      \* the AfterFunc: "off" (Connect at work), "armed", "fired"
  shown,      \* the terminal:data events, in order
  dropped     \* history: chunks lost to the limit or to close

vars == <<pump, chunk, buffer, attached, closing, view, timer, shown, dropped>>

-----------------------------------------------------------------------------
Chunks == [stream : Streams, n : 0 .. MaxChunks, size : Sizes \cup {0}]

used(b) == FoldSeq(LAMBDA k, sum : k.size + sum, 0, b)

Holds(s) == pump[s] \in {"got", "emit"}

TypeOK ==
  /\ pump \in [Streams -> {"read", "got", "emit", "eof"}]
  /\ chunk \in [Streams -> Chunks]
  /\ \A s \in Streams : chunk[s].stream = s
  /\ buffer \in Seq(Chunks)
  /\ attached \in BOOLEAN
  /\ closing \in {"no", "done", "yes"}
  /\ view \in {"off", "got"}
  /\ timer \in {"off", "armed", "fired"}
  /\ shown \in Seq(Chunks)
  /\ dropped \subseteq Chunks

Init ==
  /\ pump = [s \in Streams |-> "read"]
  /\ chunk = [s \in Streams |-> [stream |-> s, n |-> 0, size |-> 0]]
  /\ buffer = <<>>
  /\ attached = FALSE
  /\ closing = "no"
  /\ view = "off"
  /\ timer = "off"
  /\ shown = <<>>
  /\ dropped = {}

-----------------------------------------------------------------------------
(* pumpOutput                                                              *)

goto(s, l) == pump' = [pump EXCEPT ![s] = l]

(* MUTANT: the two pumps share their read buffer.                          *)
PumpReadShared(s) ==
  /\ pump[s] = "read" /\ chunk[s].n < MaxChunks
  /\ \E z \in Sizes :
       chunk' = [t \in Streams |-> [stream |-> s, n |-> chunk[s].n + 1, size |-> z]]
  /\ goto(s, "got")
  /\ UNCHANGED <<buffer, attached, closing, view, timer, shown, dropped>>

PumpRead(s) ==
  /\ pump[s] = "read"
  /\ \/ /\ chunk[s].n < MaxChunks
        /\ \E z \in Sizes :
             chunk' = [chunk EXCEPT ![s] = [stream |-> s, n |-> @.n + 1, size |-> z]]
        /\ goto(s, "got")
     \/ goto(s, "eof") /\ UNCHANGED chunk
  /\ UNCHANGED <<buffer, attached, closing, view, timer, shown, dropped>>

(* MUTANT: a chunk is buffered only if it does not pass the limit.         *)
PumpStoreFitting(s) ==
  /\ pump[s] = "got"
  /\ IF attached
       THEN goto(s, "emit") /\ UNCHANGED <<buffer, dropped>>
       ELSE /\ goto(s, "read")
            /\ IF used(buffer) + chunk[s].size <= Limit
                 THEN buffer' = Append(buffer, chunk[s]) /\ UNCHANGED dropped
                 ELSE dropped' = dropped \cup {chunk[s]} /\ UNCHANGED buffer
  /\ UNCHANGED <<chunk, attached, closing, view, timer, shown>>

(* Under bufMu: before the view is attached the chunk is buffered, whole,  *)
(* if the buffer is below its limit, and lost otherwise.                   *)
PumpStore(s) ==
  /\ pump[s] = "got"
  /\ IF attached
       THEN goto(s, "emit") /\ UNCHANGED <<buffer, dropped>>
       ELSE /\ goto(s, "read")
            /\ IF used(buffer) < Limit
                 THEN buffer' = Append(buffer, chunk[s]) /\ UNCHANGED dropped
                 ELSE dropped' = dropped \cup {chunk[s]} /\ UNCHANGED buffer
  /\ UNCHANGED <<chunk, attached, closing, view, timer, shown>>

(* The mutex is released before the event is sent.                         *)
PumpEmit(s) ==
  /\ pump[s] = "emit"
  /\ shown' = Append(shown, chunk[s])
  /\ goto(s, "read")
  /\ UNCHANGED <<chunk, buffer, attached, closing, view, timer, dropped>>

-----------------------------------------------------------------------------
(* Attach, the timer and close                                             *)

(* MUTANT: the replayed buffer is kept.                                    *)
replayKeeping ==
  /\ attached' = TRUE
  /\ shown' = shown \o buffer
  /\ UNCHANGED buffer

(* Under bufMu: attached, and what waits in the buffer is sent.            *)
replay ==
  /\ attached' = TRUE
  /\ shown' = shown \o buffer
  /\ buffer' = <<>>

(* Attach: Get finds a session that is not closed, as often as a terminal  *)
(* view is mounted.                                                        *)
AttachGet ==
  /\ view = "off" /\ timer # "off" /\ closing = "no"
  /\ view' = "got"
  /\ UNCHANGED <<pump, chunk, buffer, attached, closing, timer, shown, dropped>>

Attach ==
  /\ view = "got"
  /\ view' = "off"
  /\ replay
  /\ UNCHANGED <<pump, chunk, closing, timer, dropped>>

(* Connect has registered the session and arms the timer.                  *)
ConnectReturns ==
  /\ timer = "off"
  /\ timer' = "armed"
  /\ UNCHANGED <<pump, chunk, buffer, attached, closing, view, shown, dropped>>

(* MUTANT: the timer attaches and forgets the buffer.                      *)
AutoAttachDiscards ==
  /\ timer = "armed"
  /\ timer' = "fired"
  /\ attached' = TRUE /\ buffer' = <<>>
  /\ UNCHANGED <<pump, chunk, closing, view, shown, dropped>>

(* MUTANT: the timer replays only if it finds the session open.            *)
AutoAttachOpenOnly ==
  /\ timer = "armed"
  /\ timer' = "fired"
  /\ IF attached \/ closing # "no" THEN UNCHANGED <<attached, shown, buffer>> ELSE replay
  /\ UNCHANGED <<pump, chunk, closing, view, dropped>>

AutoAttach ==
  /\ timer = "armed"
  /\ timer' = "fired"
  /\ IF attached THEN UNCHANGED <<attached, shown, buffer>> ELSE replay
  /\ UNCHANGED <<pump, chunk, closing, view, dropped>>

(* close: the done channel first, the buffer later.                        *)
CloseDone ==
  /\ closing = "no"
  /\ closing' = "done"
  /\ UNCHANGED <<pump, chunk, buffer, attached, view, timer, shown, dropped>>

CloseBuffer ==
  /\ closing = "done"
  /\ closing' = "yes"
  /\ buffer' = <<>>
  /\ dropped' = dropped \cup ToSet(buffer)
  /\ UNCHANGED <<pump, chunk, attached, view, timer, shown>>

PumpStep(s) == PumpRead(s) \/ PumpStore(s) \/ PumpEmit(s)

CloseStep == CloseDone \/ CloseBuffer

Next ==
  \/ \E s \in Streams : PumpStep(s)
  \/ AttachGet \/ Attach
  \/ ConnectReturns \/ AutoAttach
  \/ CloseStep

Spec == Init /\ [][Next]_vars

(* The pumps run, Connect returns, the timer fires, and neither Attach nor *)
(* close stops half way; nobody has to attach or to close.                 *)
Fairness ==
  /\ \A s \in Streams : WF_vars(PumpStep(s))
  /\ WF_vars(Attach) /\ WF_vars(ConnectReturns) /\ WF_vars(AutoAttach)
  /\ WF_vars(CloseBuffer)

FairSpec == Spec /\ Fairness

-----------------------------------------------------------------------------
(* Properties.                                                             *)

(* The chunks that were shown, and after them those that wait.             *)
Queue == shown \o buffer

(* The output of a stream is shown once and in the order it was read,      *)
(* although it takes two ways (the buffer, and the event sent without the  *)
(* mutex) and Attach may be called again and together with the timer; what *)
(* a pump holds comes after all that is shown or buffered of its stream.   *)
OrderKept ==
  \A i \in DOMAIN Queue :
    /\ \A j \in DOMAIN Queue :
         i < j /\ Queue[i].stream = Queue[j].stream => Queue[i].n < Queue[j].n
    /\ \A s \in Streams :
         Queue[i].stream = s /\ Holds(s) => Queue[i].n < chunk[s].n

(* Every number up to the last one read is shown, buffered, held by its    *)
(* pump or was dropped.                                                    *)
Accounted ==
  \A s \in Streams : \A n \in 1 .. chunk[s].n :
    \/ \E i \in DOMAIN Queue : Queue[i].stream = s /\ Queue[i].n = n
    \/ Holds(s) /\ chunk[s].n = n
    \/ \E k \in dropped : k.stream = s /\ k.n = n

(* The buffer is above its limit by no more than a part of its last chunk, *)
(* and until the view attaches or close drops it, it is full if anything   *)
(* was dropped.                                                            *)
LimitKept ==
  /\ buffer # <<>> => used(Front(buffer)) < Limit
  /\ ~attached /\ closing # "yes" /\ dropped # {} => ~(used(buffer) < Limit)

(* No chunk of pumpOutput disappears without being counted as dropped; the *)
(* buffer keeps its limit, and before the view attaches or close comes     *)
(* only a full buffer drops anything.                                      *)
NothingElseIsLost == Accounted /\ LimitKept

(* Early output does not wait for ever: the timer replays it, also when    *)
(* the terminal view never attaches, and nothing is buffered from then on. *)
BufferIsReplayed == (buffer # <<>>) ~> [](buffer = <<>>)
=============================================================================
