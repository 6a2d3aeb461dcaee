------------------------ MODULE TerminalOutput_proofs -------------------------
(***************************************************************************)
(* Theorems about TerminalOutput: for any number of streams and chunks,    *)
(* and for every limit, the output of a stream is shown in the order it    *)
(* was read and nothing is lost but to a full buffer or to close.          *)
(*                                                                         *)
(* The order is not inductive as it stands.  A live chunk is shown after   *)
(* the mutex was released, so it must find the buffer empty: nobody is on  *)
(* the way to show a chunk before the view is attached, and nothing is     *)
(* buffered afterwards (LiveInv).  A chunk that is read must come after    *)
(* all others of its stream, so none of them has a number the pump has not *)
(* reached (ReachInv).  That the buffer is still full when a chunk was     *)
(* dropped needs no arithmetic: as long as it is, nothing is appended.     *)
(***************************************************************************)
EXTENDS TerminalOutput, SequenceTheorems, TLAPS

LiveInv ==
  /\ \A s \in Streams : pump[s] = "emit" => attached
  /\ attached => buffer = <<>>

ReachInv ==
  \A i \in DOMAIN Queue : Queue[i].n <= chunk[Queue[i].stream].n

OutputInv == TypeOK /\ LiveInv /\ ReachInv /\ OrderKept /\ NothingElseIsLost

-----------------------------------------------------------------------------
(* Every step keeps the types.                                             *)
LEMMA OutputTypeStep ==
  ASSUME TypeOK, [Next]_vars
  PROVE  TypeOK'
<1> USE DEF TypeOK
<1>1. ASSUME NEW s \in Streams, PumpRead(s) PROVE TypeOK'
  <2>1. pump' \in [Streams -> {"read", "got", "emit", "eof"}]
    BY <1>1 DEF PumpRead, goto
  <2>2. chunk' \in [Streams -> Chunks] /\ \A t \in Streams : chunk'[t].stream = t
    <3>1. CASE UNCHANGED chunk
      BY <3>1
    <3>2. ASSUME NEW z \in Sizes, chunk[s].n < MaxChunks,
                 chunk' = [chunk EXCEPT ![s] = [stream |-> s, n |-> chunk[s].n + 1, size |-> z]]
          PROVE  chunk' \in [Streams -> Chunks] /\ \A t \in Streams : chunk'[t].stream = t
      <4>1. chunk[s].n + 1 \in 0 .. MaxChunks
        BY <3>2, SizesAssumption DEF Chunks
      <4>2. QED
        BY <3>2, <4>1 DEF Chunks
    <3>3. QED
      BY <1>1, <3>1, <3>2 DEF PumpRead
  <2>3. QED
    BY <1>1, <2>1, <2>2 DEF PumpRead
<1>2. ASSUME NEW s \in Streams, PumpStore(s) PROVE TypeOK'
  <2>1. Append(buffer, chunk[s]) \in Seq(Chunks) /\ chunk[s] \in Chunks
    BY AppendProperties
  <2>2. pump' \in [Streams -> {"read", "got", "emit", "eof"}]
    BY <1>2 DEF PumpStore, goto
  <2>3. buffer' \in Seq(Chunks) /\ dropped' \subseteq Chunks
    BY <1>2, <2>1 DEF PumpStore
  <2>4. QED
    BY <1>2, <2>2, <2>3 DEF PumpStore
<1>3. ASSUME NEW s \in Streams, PumpEmit(s) PROVE TypeOK'
  BY <1>3, AppendProperties DEF PumpEmit, goto
<1>4. CASE AttachGet
  BY <1>4 DEF AttachGet
<1>r. replay => shown' \in Seq(Chunks) /\ buffer' \in Seq(Chunks) /\ attached' \in BOOLEAN
  <2>1. shown \o buffer \in Seq(Chunks) /\ <<>> \in Seq(Chunks)
    BY ConcatProperties, EmptySeq
  <2>2. QED
    BY <2>1 DEF replay
<1>5. CASE Attach
  BY <1>5, <1>r DEF Attach
<1>6. CASE ConnectReturns
  BY <1>6 DEF ConnectReturns
<1>7. CASE AutoAttach
  BY <1>7, <1>r DEF AutoAttach
<1>8. CASE CloseDone
  BY <1>8 DEF CloseDone
<1>9. CASE CloseBuffer
  <2>1. ToSet(buffer) \subseteq Chunks
    BY LenProperties DEF ToSet
  <2>2. QED
    BY <1>9, <2>1, EmptySeq DEF CloseBuffer
<1>10. CASE UNCHANGED vars
  BY <1>10 DEF vars
<1>11. QED
  BY <1>1, <1>2, <1>3, <1>4, <1>5, <1>6, <1>7, <1>8, <1>9, <1>10
  DEF Next, PumpStep, CloseStep

(* Every step keeps the two ways of the output apart.                      *)
LEMMA LiveStep ==
  ASSUME TypeOK, LiveInv, [Next]_vars
  PROVE  LiveInv'
<1> USE DEF TypeOK, LiveInv
<1>1. ASSUME NEW s \in Streams, PumpRead(s) PROVE LiveInv'
  BY <1>1 DEF PumpRead, goto
<1>2. ASSUME NEW s \in Streams, PumpStore(s) PROVE LiveInv'
  BY <1>2 DEF PumpStore, goto
<1>3. ASSUME NEW s \in Streams, PumpEmit(s) PROVE LiveInv'
  BY <1>3 DEF PumpEmit, goto
<1>4. CASE AttachGet \/ ConnectReturns \/ CloseDone \/ CloseBuffer
  BY <1>4 DEF AttachGet, ConnectReturns, CloseDone, CloseBuffer
<1>5. CASE Attach \/ AutoAttach
  BY <1>5 DEF Attach, AutoAttach, replay
<1>6. CASE UNCHANGED vars
  BY <1>6 DEF vars
<1>7. QED
  BY <1>1, <1>2, <1>3, <1>4, <1>5, <1>6 DEF Next, PumpStep, CloseStep

-----------------------------------------------------------------------------
FlowInv == ReachInv /\ OrderKept /\ Accounted

(* The queue is a sequence of chunks.                                      *)
LEMMA QueueType ==
  ASSUME TypeOK
  PROVE  /\ Queue \in Seq(Chunks) /\ Len(Queue) = Len(shown) + Len(buffer)
         /\ Len(Queue) \in Nat /\ DOMAIN Queue = 1 .. Len(Queue)
         /\ \A i \in DOMAIN Queue :
              /\ Queue[i].stream \in Streams /\ Queue[i].n \in Nat
              /\ Queue[i] = IF i <= Len(shown) THEN shown[i] ELSE buffer[i - Len(shown)]
<1>1. /\ Queue \in Seq(Chunks) /\ Len(Queue) = Len(shown) + Len(buffer)
      /\ \A i \in 1 .. Len(shown) + Len(buffer) :
           Queue[i] = IF i <= Len(shown) THEN shown[i] ELSE buffer[i - Len(shown)]
  BY ConcatProperties DEF TypeOK, Queue
<1>2. Len(Queue) \in Nat /\ DOMAIN Queue = 1 .. Len(Queue)
      /\ \A i \in 1 .. Len(Queue) : Queue[i] \in Chunks
  BY <1>1, LenProperties
<1>3. \A k \in Chunks : k.stream \in Streams /\ k.n \in Nat
  BY SizesAssumption DEF Chunks
<1>4. QED
  BY <1>1, <1>2, <1>3

(* A step that leaves queue and chunks alone.                              *)
LEMMA SameQueue ==
  ASSUME TypeOK, FlowInv, Queue' = Queue, chunk' = chunk, dropped \subseteq dropped',
         \A s \in Streams : Holds(s) => Holds(s)' \/ chunk[s] \in dropped',
         \A s \in Streams : Holds(s)' => Holds(s)
  PROVE  FlowInv'
<1>1. ReachInv'
  BY DEF FlowInv, ReachInv
<1>2. OrderKept'
  BY DEF FlowInv, OrderKept
<1>3. Accounted'
  <2>1. ASSUME NEW s \in Streams, NEW n \in 1 .. chunk[s].n
        PROVE  \/ \E i \in DOMAIN Queue : Queue[i].stream = s /\ Queue[i].n = n
               \/ Holds(s)' /\ chunk[s].n = n
               \/ \E k \in dropped' : k.stream = s /\ k.n = n
    <3>1. CASE Holds(s) /\ chunk[s].n = n
      <4>1. chunk[s].stream = s
        BY DEF TypeOK
      <4>2. QED
        BY <3>1, <4>1
    <3>2. QED
      BY <3>1 DEF FlowInv, Accounted
  <2>2. QED
    BY <2>1 DEF Accounted
<1>4. QED
  BY <1>1, <1>2, <1>3 DEF FlowInv

(* A pump puts the chunk it holds at the end of the queue.                 *)
LEMMA LongerQueue ==
  ASSUME TypeOK, FlowInv, NEW s \in Streams, Holds(s), ~Holds(s)',
         \A t \in Streams \ {s} : Holds(t)' <=> Holds(t),
         Queue' = Append(Queue, chunk[s]), UNCHANGED <<chunk, dropped>>
  PROVE  FlowInv'
<1> DEFINE N == Len(Queue)
<1>1. /\ N \in Nat /\ DOMAIN Queue = 1 .. N
      /\ DOMAIN Queue' = 1 .. N + 1
      /\ \A i \in 1 .. N : Queue'[i] = Queue[i]
      /\ Queue'[N + 1] = chunk[s]
  <2>1. chunk[s] \in Chunks
    BY DEF TypeOK
  <2>2. Append(Queue, chunk[s]) \in Seq(Chunks)
        /\ Len(Append(Queue, chunk[s])) = N + 1
        /\ (\A i \in 1 .. N : Append(Queue, chunk[s])[i] = Queue[i])
        /\ Append(Queue, chunk[s])[N + 1] = chunk[s]
    BY <2>1, QueueType, AppendProperties
  <2>3. DOMAIN Append(Queue, chunk[s]) = 1 .. N + 1
    BY <2>2, LenProperties
  <2>4. QED
    BY <2>2, <2>3, QueueType
<1>2. /\ chunk[s].stream = s /\ chunk[s].n \in Nat
      /\ \A i \in 1 .. N : Queue[i].stream \in Streams /\ Queue[i].n \in Nat
      /\ \A t \in Streams : chunk[t].n \in Nat
  <2>1. \A i \in 1 .. N : Queue[i].stream \in Streams /\ Queue[i].n \in Nat
    BY <1>1, QueueType
  <2>2. QED
    BY <2>1, SizesAssumption DEF TypeOK, Chunks
<1> HIDE DEF N
<1>3. ReachInv'
  <2>1. \A i \in 1 .. N : Queue[i].n <= chunk[Queue[i].stream].n
    BY <1>1 DEF FlowInv, ReachInv
  <2>2. \A i \in 1 .. N + 1 : Queue'[i].n <= chunk[Queue'[i].stream].n
    BY <1>1, <1>2, <2>1
  <2>3. QED
    BY <1>1, <2>2 DEF ReachInv
<1>4. OrderKept'
  <2>1. \A i, j \in 1 .. N :
          i < j /\ Queue[i].stream = Queue[j].stream => Queue[i].n < Queue[j].n
    BY <1>1 DEF FlowInv, OrderKept
  <2>2. \A i \in 1 .. N : \A t \in Streams :
          Queue[i].stream = t /\ Holds(t) => Queue[i].n < chunk[t].n
    BY <1>1 DEF FlowInv, OrderKept
  <2>3. ASSUME NEW i \in 1 .. N + 1, NEW j \in 1 .. N + 1, i < j,
               Queue'[i].stream = Queue'[j].stream
        PROVE  Queue'[i].n < Queue'[j].n
    <3>1. CASE j \in 1 .. N
      BY <1>1, <2>1, <2>3, <3>1
    <3>2. CASE j = N + 1
      <4>1. i \in 1 .. N
        BY <1>1, <2>3, <3>2
      <4>2. QED
        BY <1>1, <1>2, <2>2, <2>3, <3>2, <4>1
    <3>3. QED
      BY <1>1, <3>1, <3>2
  <2>4. ASSUME NEW i \in 1 .. N + 1, NEW t \in Streams, Queue'[i].stream = t, Holds(t)'
        PROVE  Queue'[i].n < chunk'[t].n
    BY <1>1, <1>2, <2>2, <2>4
  <2>5. QED
    BY <1>1, <2>3, <2>4 DEF OrderKept
<1>5. Accounted'
  <2>1. ASSUME NEW t \in Streams, NEW n \in 1 .. chunk[t].n
        PROVE  \/ \E i \in DOMAIN Queue' : Queue'[i].stream = t /\ Queue'[i].n = n
               \/ Holds(t)' /\ chunk[t].n = n
               \/ \E k \in dropped : k.stream = t /\ k.n = n
    <3>1. CASE \E i \in DOMAIN Queue : Queue[i].stream = t /\ Queue[i].n = n
      BY <1>1, <3>1
    <3>2. CASE Holds(t) /\ chunk[t].n = n
      BY <1>1, <1>2, <3>2
    <3>3. QED
      BY <3>1, <3>2 DEF FlowInv, Accounted
  <2>2. QED
    BY <2>1 DEF Accounted
<1>6. QED
  BY <1>3, <1>4, <1>5 DEF FlowInv

-----------------------------------------------------------------------------
(* Every step keeps order and loss as they should be.                      *)
LEMMA FlowStep ==
  ASSUME TypeOK, LiveInv, FlowInv, [Next]_vars
  PROVE  FlowInv'
<1>a. shown \in Seq(Chunks) /\ buffer \in Seq(Chunks) /\ \A s \in Streams : chunk[s] \in Chunks
  BY DEF TypeOK
<1>b. replay => Queue' = Queue
  BY <1>a, ConcatProperties, ConcatEmptySeq DEF replay, Queue
<1>1. ASSUME NEW s \in Streams, PumpRead(s) PROVE FlowInv'
  <2>1. Queue' = Queue /\ dropped' = dropped
    BY <1>1 DEF PumpRead, Queue
  <2>2. \A t \in Streams \ {s} : Holds(t)' <=> Holds(t)
    BY <1>1 DEF PumpRead, Holds, goto, TypeOK
  <2>3. ~Holds(s)
    BY <1>1 DEF PumpRead, Holds
  <2>4. CASE chunk' = chunk /\ goto(s, "eof")
    <3>1. ~Holds(s)'
      BY <2>4 DEF Holds, goto, TypeOK
    <3>2. QED
      BY <2>1, <2>2, <2>3, <2>4, <3>1, SameQueue
  <2>5. ASSUME NEW z \in Sizes, goto(s, "got"),
               chunk' = [chunk EXCEPT ![s] = [stream |-> s, n |-> chunk[s].n + 1, size |-> z]]
        PROVE  FlowInv'
    <3>1. /\ chunk'[s].n = chunk[s].n + 1 /\ chunk[s].n \in Nat
          /\ \A t \in Streams \ {s} : chunk'[t] = chunk[t]
      BY <2>5, SizesAssumption DEF TypeOK, Chunks
    <3>2. Holds(s)'
      BY <2>5 DEF Holds, goto, TypeOK
    <3>3. \A i \in DOMAIN Queue :
            Queue[i].stream \in Streams /\ Queue[i].n \in Nat
            /\ Queue[i].n <= chunk[Queue[i].stream].n
      BY QueueType DEF FlowInv, ReachInv
    <3>4. ReachInv'
      BY <2>1, <3>1, <3>3 DEF ReachInv
    <3>5. OrderKept'
      BY <2>1, <2>2, <3>1, <3>3 DEF FlowInv, OrderKept
    <3>6. Accounted'
      BY <2>1, <2>2, <2>3, <3>1, <3>2 DEF FlowInv, Accounted
    <3>7. QED
      BY <3>4, <3>5, <3>6 DEF FlowInv
  <2>6. QED
    BY <1>1, <2>4, <2>5 DEF PumpRead
<1>2. ASSUME NEW s \in Streams, PumpStore(s) PROVE FlowInv'
  <2>1. Holds(s) /\ chunk' = chunk /\ shown' = shown
    BY <1>2 DEF PumpStore, Holds
  <2>2. \A t \in Streams \ {s} : Holds(t)' <=> Holds(t)
    BY <1>2 DEF PumpStore, Holds, goto, TypeOK
  <2>3. CASE attached
    <3>1. Holds(s)' /\ Queue' = Queue /\ dropped' = dropped
      BY <1>2, <2>3 DEF PumpStore, Holds, goto, TypeOK, Queue
    <3>2. QED
      BY <2>1, <2>2, <3>1, SameQueue
  <2>4. CASE ~attached /\ buffer' = Append(buffer, chunk[s]) /\ dropped' = dropped
    <3>1. ~Holds(s)'
      BY <1>2, <2>4 DEF PumpStore, Holds, goto, TypeOK
    <3>2. Queue' = Append(Queue, chunk[s])
      BY <1>a, <2>1, <2>4, AppendIsConcat, ConcatAssociative, ConcatProperties DEF Queue
    <3>3. QED
      BY <2>1, <2>2, <2>4, <3>1, <3>2, LongerQueue
  <2>5. CASE ~attached /\ dropped' = dropped \cup {chunk[s]} /\ buffer' = buffer
    <3>1. ~Holds(s)' /\ Queue' = Queue
      BY <1>2, <2>1, <2>5 DEF PumpStore, Holds, goto, TypeOK, Queue
    <3>2. QED
      BY <2>1, <2>2, <2>5, <3>1, SameQueue
  <2>6. QED
    BY <1>2, <2>3, <2>4, <2>5 DEF PumpStore
<1>3. ASSUME NEW s \in Streams, PumpEmit(s) PROVE FlowInv'
  <2>1. /\ Holds(s) /\ ~Holds(s)' /\ UNCHANGED <<chunk, dropped>>
        /\ \A t \in Streams \ {s} : Holds(t)' <=> Holds(t)
    BY <1>3 DEF PumpEmit, Holds, goto, TypeOK
  <2>2. buffer = <<>> /\ buffer' = <<>> /\ shown' = Append(shown, chunk[s])
    BY <1>3 DEF PumpEmit, LiveInv
  <2>3. Queue = shown /\ Queue' = Append(shown, chunk[s])
    BY <1>a, <2>2, AppendProperties, ConcatEmptySeq DEF Queue
  <2>4. QED
    BY <2>1, <2>3, LongerQueue
<1>4. CASE AttachGet \/ ConnectReturns \/ CloseDone \/ UNCHANGED vars
  <2>1. UNCHANGED <<pump, chunk, shown, buffer, dropped>>
    BY <1>4 DEF AttachGet, ConnectReturns, CloseDone, vars
  <2>2. QED
    BY <2>1, SameQueue DEF Queue, Holds
<1>5. CASE Attach \/ AutoAttach
  <2>1. UNCHANGED <<pump, chunk, dropped>>
    BY <1>5 DEF Attach, AutoAttach
  <2>2. Queue' = Queue
    BY <1>5, <1>b DEF Attach, AutoAttach, Queue
  <2>3. QED
    BY <2>1, <2>2, SameQueue DEF Holds
<1>6. CASE CloseBuffer
  <2> DEFINE M == Len(shown)
  <2>1. /\ UNCHANGED <<pump, chunk, shown>> /\ buffer' = <<>>
        /\ dropped' = dropped \cup ToSet(buffer)
    BY <1>6 DEF CloseBuffer
  <2>2. Queue' = shown
    BY <1>a, <2>1, ConcatEmptySeq DEF Queue
  <2>3. M \in Nat /\ Len(buffer) \in Nat /\ DOMAIN shown = 1 .. M /\ DOMAIN buffer = 1 .. Len(buffer)
    BY <1>a, LenProperties
  <2>4. /\ DOMAIN Queue = 1 .. M + Len(buffer)
        /\ \A i \in DOMAIN Queue : Queue[i] = IF i <= M THEN shown[i] ELSE buffer[i - M]
    BY QueueType
  <2> HIDE DEF M
  <2>5. \A i \in DOMAIN shown : i \in DOMAIN Queue /\ Queue[i] = shown[i]
    BY <2>3, <2>4
  <2>6. \A i \in DOMAIN Queue : i \notin DOMAIN shown => Queue[i] \in ToSet(buffer)
    BY <2>3, <2>4 DEF ToSet
  <2>7. \A s \in Streams : Holds(s)' <=> Holds(s)
    BY <2>1 DEF Holds
  <2>8. ReachInv'
    BY <2>1, <2>2, <2>5 DEF FlowInv, ReachInv
  <2>9. OrderKept'
    BY <2>1, <2>2, <2>5, <2>7 DEF FlowInv, OrderKept
  <2>10. Accounted'
    <3>1. ASSUME NEW s \in Streams, NEW n \in 1 .. chunk[s].n
          PROVE  \/ \E i \in DOMAIN shown : shown[i].stream = s /\ shown[i].n = n
                 \/ Holds(s) /\ chunk[s].n = n
                 \/ \E k \in dropped' : k.stream = s /\ k.n = n
      <4>1. CASE \E i \in DOMAIN Queue : Queue[i].stream = s /\ Queue[i].n = n
        BY <2>1, <2>5, <2>6, <4>1
      <4>2. QED
        BY <2>1, <4>1 DEF FlowInv, Accounted
    <3>2. QED
      BY <2>1, <2>2, <2>7, <3>1 DEF Accounted
  <2>11. QED
    BY <2>8, <2>9, <2>10 DEF FlowInv
<1>7. QED
  BY <1>1, <1>2, <1>3, <1>4, <1>5, <1>6 DEF Next, PumpStep, CloseStep

-----------------------------------------------------------------------------
(* Every step keeps the buffer within its limit, and full once a chunk was *)
(* dropped.                                                                *)
LEMMA LimitStep ==
  ASSUME TypeOK, LimitKept, [Next]_vars
  PROVE  LimitKept'
<1>1. ASSUME buffer' = <<>>, attached' \/ closing' = "yes" PROVE LimitKept'
  BY <1>1 DEF LimitKept
<1>2. ASSUME UNCHANGED <<buffer, dropped>>, attached => attached', closing' = closing
      PROVE  LimitKept'
  BY <1>2 DEF LimitKept
<1>3. ASSUME NEW s \in Streams, PumpStore(s) PROVE LimitKept'
  <2>1. UNCHANGED <<attached, closing>>
    BY <1>3 DEF PumpStore
  <2>2. CASE UNCHANGED <<buffer, dropped>>
    BY <1>2, <2>1, <2>2
  <2>3. CASE ~(used(buffer) < Limit) /\ buffer' = buffer
    BY <2>1, <2>3 DEF LimitKept
  <2>4. CASE ~attached /\ used(buffer) < Limit /\ buffer' = Append(buffer, chunk[s])
             /\ dropped' = dropped
    <3>1. Front(buffer') = buffer
      <4>1. buffer \in Seq(Chunks) /\ chunk[s] \in Chunks
        BY DEF TypeOK
      <4>2. QED
        BY <2>4, <4>1 DEF Front
    <3>2. closing # "yes" => dropped = {}
      BY <2>4 DEF LimitKept
    <3>3. QED
      BY <2>1, <2>4, <3>1, <3>2 DEF LimitKept
  <2>5. QED
    BY <1>3, <2>2, <2>3, <2>4 DEF PumpStore
<1>4. ASSUME NEW s \in Streams, PumpRead(s) \/ PumpEmit(s) PROVE LimitKept'
  BY <1>2, <1>4 DEF PumpRead, PumpEmit
<1>5. CASE AttachGet \/ ConnectReturns \/ UNCHANGED vars
  BY <1>2, <1>5 DEF AttachGet, ConnectReturns, vars
<1>6. CASE CloseDone
  BY <1>6 DEF CloseDone, LimitKept
<1>7. CASE CloseBuffer
  BY <1>1, <1>7 DEF CloseBuffer
<1>8. CASE Attach \/ AutoAttach
  BY <1>1, <1>2, <1>8 DEF Attach, AutoAttach, replay
<1>9. QED
  BY <1>3, <1>4, <1>5, <1>6, <1>7, <1>8 DEF Next, PumpStep, CloseStep

-----------------------------------------------------------------------------
(* The inductive invariant holds in every state.                           *)
THEOREM OutputInvariant == Spec => []OutputInv
<1>1. Init => OutputInv
  <2> SUFFICES ASSUME Init PROVE OutputInv
    OBVIOUS
  <2>1. TypeOK
    <3>1. <<>> \in Seq(Chunks)
      BY EmptySeq
    <3>2. \A s \in Streams : [stream |-> s, n |-> 0, size |-> 0] \in Chunks
      BY SizesAssumption DEF Chunks
    <3>3. QED
      BY <3>1, <3>2 DEF Init, TypeOK
  <2>2. LiveInv
    BY DEF Init, LiveInv
  <2>3. DOMAIN Queue = {}
    <3>1. Len(Queue) = 0 /\ DOMAIN Queue = 1 .. Len(Queue)
      BY <2>1, QueueType, EmptySeq DEF Init
    <3>2. QED
      BY <3>1
  <2>4. \A s \in Streams : 1 .. chunk[s].n = {}
    BY DEF Init
  <2>5. QED
    BY <2>1, <2>2, <2>3, <2>4
    DEF Init, OutputInv, ReachInv, OrderKept, NothingElseIsLost, Accounted, LimitKept
<1>2. OutputInv /\ [Next]_vars => OutputInv'
  BY OutputTypeStep, LiveStep, FlowStep, LimitStep DEF OutputInv, FlowInv, NothingElseIsLost
<1>3. QED
  BY <1>1, <1>2, PTL DEF Spec

(* The state of the pumps, the buffer and the view is well formed.         *)
THEOREM OutputTypeCorrect == Spec => []TypeOK
<1>1. OutputInv => TypeOK
  BY DEF OutputInv
<1>2. QED
  BY <1>1, OutputInvariant, PTL

(* The chunks of a stream are shown once and in the order pumpOutput read  *)
(* them, whoever attaches, however often and whenever the timer fires.     *)
THEOREM OutputInOrder == Spec => []OrderKept
<1>1. OutputInv => OrderKept
  BY DEF OutputInv
<1>2. QED
  BY <1>1, OutputInvariant, PTL

(* A chunk that was read is shown, waits, is held by its pump or was       *)
(* dropped; before a close, chunks are only missing while the buffer is at *)
(* its limit, which it passes by no more than a part of its last chunk.    *)
THEOREM OutputAccountedFor == Spec => []NothingElseIsLost
<1>1. OutputInv => NothingElseIsLost
  BY DEF OutputInv
<1>2. QED
  BY <1>1, OutputInvariant, PTL

(* The safety half of BufferIsReplayed: from the first Attach or from the  *)
(* firing of the timer on nothing is ever buffered again, neither by a     *)
(* pump that had its chunk before nor after a close.                       *)
THEOREM ReplayIsFinal ==
  Spec => []((attached \/ timer = "fired") => [](buffer = <<>>))
<1> DEFINE Fired == timer = "fired" => attached
<1>1. Init => Fired
  BY DEF Init
<1>2. OutputInv /\ Fired /\ [Next]_vars => Fired' /\ (attached => attached')
  <2> SUFFICES ASSUME OutputInv, Fired, [Next]_vars
               PROVE  Fired' /\ (attached => attached')
    OBVIOUS
  <2>1. ASSUME NEW s \in Streams, PumpStep(s)
        PROVE  timer' = timer /\ attached' = attached
    BY <2>1 DEF PumpStep, PumpRead, PumpStore, PumpEmit
  <2>2. CASE AttachGet \/ ConnectReturns \/ CloseStep
    BY <2>2 DEF AttachGet, ConnectReturns, CloseStep, CloseDone, CloseBuffer
  <2>3. CASE Attach \/ AutoAttach
    BY <2>3 DEF Attach, AutoAttach, replay
  <2>4. CASE UNCHANGED vars
    BY <2>4 DEF vars
  <2> QED
    BY <2>1, <2>2, <2>3, <2>4 DEF Next
<1>3. OutputInv /\ attached => buffer = <<>>
  BY DEF OutputInv, LiveInv
<1>4. Fired /\ (attached \/ timer = "fired") => attached
  OBVIOUS
<1> HIDE DEF Fired
<1> QED
  BY <1>1, <1>2, <1>3, <1>4, OutputInvariant, PTL DEF Spec
=============================================================================
