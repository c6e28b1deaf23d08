------------------------- MODULE DriverQueueProofs -------------------------
(***************************************************************************)
(* The invariants of the driver's queue, for any number of threads,        *)
(* buffers, QBUFs and events: queued_bufs never wraps; and as long as no   *)
(* ioctl crosses the completion of a buffer, the flags of the buffers, the *)
(* counter, the list and the fences agree, and no completion is lost, or   *)
(* taken for that of another QBUF.                                         *)
(***************************************************************************)
EXTENDS DriverQueue, FiniteSetTheorems, SequenceTheorems, TLAPS

-----------------------------------------------------------------------------
(* The inductive invariant: what always holds.                             *)

QueueTyped ==
    /\ streaming \in BOOLEAN /\ import_needs_cancel \in BOOLEAN /\ is_capture_last \in BOOLEAN
    /\ allocated_bufs \in 0 .. MaxBufs /\ copying \in BOOLEAN
    /\ slots \in [Slot -> SUBSET Flag] /\ pending_dqbufs \in Seq(Slot) /\ armed \subseteq Slot
ThreadTyped ==
    /\ vlock \in Thread \cup {None} /\ events_lock \in Thread \cup {Worker, None}
    /\ pc \in [Thread -> Pc] /\ call \in [Thread -> Ioctl \cup {"none"}]
    /\ arg \in [Thread -> 0 .. MaxBufs] /\ old_flags \in [Thread -> SUBSET Flag]
    /\ reply \in {"none", "ok", "error", "late"}
DeviceTyped ==
    /\ disconnected \in BOOLEAN /\ stopped \in BOOLEAN /\ error \in BOOLEAN
    /\ eventq \in Seq(Event) /\ completing \in Event \cup {NoEvent}
    /\ dev_queue \subseteq Slot \X (1 .. MaxQbufs) /\ dev_streaming \in BOOLEAN
HistoryTyped ==
    /\ qbufs \in 0 .. MaxQbufs
    /\ slot_qbuf \in [Slot -> 0 .. MaxQbufs] /\ done_qbuf \in [Slot -> 0 .. MaxQbufs]
    /\ wild \in {"none", "empty list", "freed node", "linked twice"} /\ disturbed \in BOOLEAN
Typed == QueueTyped /\ ThreadTyped /\ DeviceTyped /\ HistoryTyped

\* Where a thread is while it holds vlock, and while it does not.
Inside == {"queueing", "command", "stopping", "replied", "drain", "clear", "copy"}
Outside == {"idle", "test", "sleep", "relock"}
Cancel == {"streamoff", "reqbufs"}

\* A thread is inside an ioctl exactly while it holds vlock, and the reply is that to
\* its command.
ThreadOK(t) ==
    /\ vlock = t => pc[t] \in Inside /\ call[t] \in Ioctl \ {"dqbuf"}
    /\ vlock # t => pc[t] \in Outside
    /\ pc[t] = "drain" <=> events_lock = t
    /\ pc[t] \in {"queueing", "command"} => reply = "none"
    /\ pc[t] = "queueing" => call[t] = "qbuf"
    /\ pc[t] = "stopping" => disconnected /\ reply \in {"none", "late"}
    /\ pc[t] = "replied" => reply \in {"ok", "error"}
    /\ pc[t] \in {"drain", "clear"} => reply = "ok" /\ call[t] \in Cancel
    /\ pc[t] = "copy" => reply = "ok" /\ call[t] = "create_bufs"

\* Events that nobody will process any more.
Sealed == disconnected /\ events_lock = None
IsDone(e) == ~e.error

\* A cancelled queue is empty at the device, and its completions are processed.
CancelOK(t) ==
    /\ vlock = t /\ call[t] \in Cancel /\ reply = "ok" => dev_queue = {} /\ ~dev_streaming
    /\ pc[t] = "clear" => Sealed \/ \A k \in DOMAIN eventq : ~IsDone(eventq[k])

StoppedOK == stopped => disconnected /\ dev_queue = {} /\ eventq = <<>> /\ ~dev_streaming

LocksOK ==
    /\ \A t \in Thread : ThreadOK(t)
    /\ \A t \in Thread : CancelOK(t)
    /\ vlock = None => reply = "none"
    /\ events_lock = None => completing = NoEvent
    /\ StoppedOK

\* The buffer an ioctl works on stays in the array.
ArgsOK(t) ==
    vlock = t =>
        /\ call[t] \in {"qbuf", "prepare_buf"} => arg[t] \in Slot /\ arg[t] <= allocated_bufs
        /\ call[t] = "create_bufs" => allocated_bufs <= arg[t]
        /\ pc[t] = "queueing" => ~import_needs_cancel /\ qbufs < MaxQbufs

\* The buffer of a QBUF that has not returned is queued, completed, or in between; and
\* it was not queued before.
QbufOK(t) ==
    vlock = t /\ call[t] = "qbuf" =>
        IF pc[t] = "queueing" THEN "QUEUED" \notin slots[arg[t]]
        ELSE /\ slot_qbuf[arg[t]] # 0 /\ "QUEUED" \notin old_flags[t]
             /\ slots[arg[t]] \cap {"QUEUED", "DONE"} # {} \/ Completing(arg[t])

\* No buffer outside the array has flags or fences, and queued_bufs does not wrap.
BoundsOK ==
    /\ \A i \in Slot : slots[i] # {} => i <= allocated_bufs
    /\ \A i \in armed : i <= allocated_bufs
    /\ completing # NoEvent => completing.slot <= allocated_bufs
CountOK == queued_bufs \in Nat /\ queued_bufs >= Counted

Sound ==
    /\ \A t \in Thread : ArgsOK(t)
    /\ \A t \in Thread : QbufOK(t)
    /\ BoundsOK /\ CountOK

Base == Typed /\ LocksOK /\ Sound

-----------------------------------------------------------------------------
(* What holds while no ioctl crosses the completion of a buffer.           *)

\* PendingIsDone, place by place.
ListOK ==
    /\ \A k \in DOMAIN pending_dqbufs : "DONE" \in slots[pending_dqbufs[k]]
    /\ \A i \in Slot : "DONE" \in slots[i] => \E k \in DOMAIN pending_dqbufs : pending_dqbufs[k] = i
    /\ \A k, l \in DOMAIN pending_dqbufs : pending_dqbufs[k] = pending_dqbufs[l] => k = l

\* Neither queued nor done.
Unused(i) == slots[i] \cap {"QUEUED", "DONE"} = {}
\* A QBUF has found its buffer unused, and not half completed.
OpenOK(t) ==
    vlock = t /\ call[t] = "qbuf" =>
        IF pc[t] = "queueing" THEN Unused(arg[t]) /\ ~Completing(arg[t])
                              ELSE old_flags[t] \cap {"QUEUED", "DONE"} = {}

SlotsOK ==
    /\ \A t \in Thread : OpenOK(t)
    /\ \A i \in Slot : "QUEUED" \in slots[i] => "DONE" \notin slots[i]
    /\ completing # NoEvent => slots[completing.slot] = EventFlags(completing)
    /\ queued_bufs = Counted
    /\ ListOK
    /\ Memory = "DMABUF" => armed = Queued

\* A QBUF that is answered with an error has not been executed, or blocks the queue.
ErrorsBlock == Memory = "DMABUF" \/ ~FaultyReplies

\* A buffer of the device, and a completion on the eventq, are those of the last QBUF of
\* a queued buffer.  What else there may be is left by a failed QBUF, for which the queue
\* is blocked, or is not processed any more.
Held ==
    \A b \in dev_queue :
        /\ "QUEUED" \in slots[b[1]] \/ import_needs_cancel
        /\ "QUEUED" \in slots[b[1]] => b[2] = slot_qbuf[b[1]]
Reported ==
    \A k \in DOMAIN eventq : IsDone(eventq[k]) =>
        /\ "QUEUED" \in slots[eventq[k].slot] \/ import_needs_cancel \/ Sealed
        /\ "QUEUED" \in slots[eventq[k].slot] => eventq[k].qbuf = slot_qbuf[eventq[k].slot]

\* A buffer is with the device or on its way back, once.
Once ==
    /\ \A b, c \in dev_queue : b[1] = c[1] => b = c
    /\ \A k, l \in DOMAIN eventq :
          IsDone(eventq[k]) /\ IsDone(eventq[l]) /\ eventq[k].slot = eventq[l].slot => k = l
    /\ \A b \in dev_queue : \A k \in DOMAIN eventq :
          IsDone(eventq[k]) => eventq[k].slot # b[1]

WithDevice(i) == \E b \in dev_queue : b[1] = i
OnItsWay(i) == \E k \in DOMAIN eventq : IsDone(eventq[k]) /\ eventq[k].slot = i
InFlight(i) == WithDevice(i) \/ OnItsWay(i)

\* FreshCompletion, from the moment the event is copied.
FreshOK == \A i \in Slot : "DONE" \in slots[i] \/ Completing(i) => done_qbuf[i] = slot_qbuf[i]

\* What a QBUF that holds vlock knows of the device from the reply it has.
CallOK(t) ==
    vlock = t /\ call[t] = "qbuf" =>
        /\ reply = "none" => ~InFlight(arg[t])
        /\ reply = "none" /\ pc[t] # "queueing" => "QUEUED" \in slots[arg[t]]
        /\ reply = "error" /\ Memory # "DMABUF" => ~InFlight(arg[t])
        /\ reply = "ok" /\ "QUEUED" \in slots[arg[t]] => InFlight(arg[t]) \/ disconnected

\* CompletionsComing, for the thread that holds vlock.
Queueing(i) == \E t \in Thread : vlock = t /\ call[t] = "qbuf" /\ arg[t] = i
Cancelling == \E t \in Thread : vlock = t /\ call[t] \in Cancel /\ reply = "ok"
NoneLost ==
    \A i \in Slot : "QUEUED" \in slots[i] =>
        InFlight(i) \/ Queueing(i) \/ Cancelling \/ disconnected

Flight == Held /\ Reported /\ Once /\ FreshOK /\ (\A t \in Thread : CallOK(t)) /\ NoneLost

-----------------------------------------------------------------------------
(* Facts about the state.                                                  *)

\* The worker, the threads and nobody are different.
LEMMA Names ==
    /\ None \notin Thread /\ Worker \notin Thread /\ Worker # None
    /\ MaxBufs \in Nat /\ MaxQbufs \in Nat
    /\ \A t \in Thread : t # None /\ t # Worker
BY QueueAssumption

\* An element that is pushed is the last one.
LEMMA Pushed ==
    ASSUME NEW S, NEW s \in Seq(S), NEW e \in S
    PROVE  /\ Append(s, e) \in Seq(S)
           /\ DOMAIN Append(s, e) = 1 .. Len(s) + 1 /\ DOMAIN s = 1 .. Len(s)
           /\ Len(s) \in Nat /\ Append(s, e)[Len(s) + 1] = e
           /\ \A k \in DOMAIN s : k \in DOMAIN Append(s, e) /\ Append(s, e)[k] = s[k]
           /\ \A k \in DOMAIN Append(s, e) : k \in DOMAIN s \/ k = Len(s) + 1
           /\ Len(s) + 1 \notin DOMAIN s
OBVIOUS

\* The first element is popped, the others move up.
LEMMA Popped ==
    ASSUME NEW S, NEW s \in Seq(S), s # <<>>
    PROVE  /\ Head(s) \in S /\ Head(s) = s[1] /\ 1 \in DOMAIN s /\ Tail(s) \in Seq(S)
           /\ \A k \in DOMAIN Tail(s) : /\ k + 1 \in DOMAIN s /\ k + 1 # 1
                                        /\ Tail(s)[k] = s[k + 1]
           /\ \A k \in DOMAIN s : k = 1 \/ (k - 1 \in DOMAIN Tail(s) /\ Tail(s)[k - 1] = s[k])
           /\ \A k, l \in DOMAIN Tail(s) : k + 1 = l + 1 => k = l
OBVIOUS

\* The slots with a flag are finitely many.
LEMMA SlotsFinite ==
    IsFiniteSet(Queued) /\ Cardinality(Queued) \in Nat
<1>1. IsFiniteSet(1 .. MaxBufs)
  BY Names, FS_Interval
<1>2. Queued \subseteq 1 .. MaxBufs
  BY DEF Queued, Slot
<1> QED BY <1>1, <1>2, FS_Subset, FS_CardinalityType

\* The thread that is inside an ioctl holds vlock.
LEMMA Owner ==
    ASSUME Base, NEW t \in Thread, pc[t] \in Inside
    PROVE  vlock = t /\ vlock # None
BY Names DEF Base, LocksOK, ThreadOK, Inside, Outside

\* No event is an event of no slot.
LEMMA EventSlots ==
    /\ NoEvent \notin Event /\ NoEvent.slot = 0 /\ 0 \notin Slot
    /\ \A e \in Event : /\ e.slot \in Slot /\ e.qbuf \in 0 .. MaxQbufs
                        /\ e.error \in BOOLEAN /\ e.last \in BOOLEAN
<1>1. 0 \notin Slot /\ NoEvent.slot = 0
  BY Names DEF Slot, NoEvent
<1>2. \A e \in Event : /\ e.slot \in Slot /\ e.qbuf \in 0 .. MaxQbufs
                       /\ e.error \in BOOLEAN /\ e.last \in BOOLEAN
  BY DEF Event
<1> QED BY <1>1, <1>2

\* The event that is being processed is one of a slot, or none.
LEMMA CompletingSlot ==
    ASSUME completing \in Event \cup {NoEvent}
    PROVE  /\ completing # NoEvent => completing \in Event /\ completing.slot \in Slot
           /\ \A i \in Slot : Completing(i) => completing # NoEvent
BY EventSlots DEF Completing

\* What a step leaves alone keeps its type.
LEMMA SameTypes ==
    ASSUME Base
    PROVE  /\ UNCHANGED queueVars => QueueTyped'
           /\ UNCHANGED historyVars => HistoryTyped'
           /\ UNCHANGED deviceVars => DeviceTyped'
           /\ UNCHANGED threadVars => ThreadTyped'
<1>1. UNCHANGED queueVars => QueueTyped'
  BY DEF Base, Typed, QueueTyped, queueVars, flagVars, arrayVars, bufferVars
<1>2. UNCHANGED historyVars => HistoryTyped'
  BY DEF Base, Typed, HistoryTyped, historyVars
<1>3. UNCHANGED deviceVars => DeviceTyped'
  BY DEF Base, Typed, DeviceTyped, deviceVars, eventVars
<1>4. UNCHANGED threadVars => ThreadTyped'
  BY DEF Base, Typed, ThreadTyped, threadVars, callVars
<1> QED BY <1>1, <1>2, <1>3, <1>4

-----------------------------------------------------------------------------
(* Init.                                                                   *)

\* A session starts with no buffer, no lock and nothing at the device.
LEMMA InitBase == Init => Base /\ SlotsOK
<1> SUFFICES ASSUME Init PROVE Base /\ SlotsOK
  OBVIOUS
<1>1. Typed
  <2>1. QueueTyped
    <3>1. 0 \in 0 .. MaxBufs /\ <<>> \in Seq(Slot) /\ [i \in Slot |-> {}] \in [Slot -> SUBSET Flag]
      BY Names
    <3> QED BY <3>1 DEF Init, QueueTyped
  <2>2. ThreadTyped
    BY Names DEF Init, ThreadTyped, Pc
  <2>3. DeviceTyped /\ HistoryTyped
    <3>1. 0 \in 0 .. MaxQbufs /\ <<>> \in Seq(Event)
      BY Names
    <3> QED BY <3>1 DEF Init, DeviceTyped, HistoryTyped
  <2> QED BY <2>1, <2>2, <2>3 DEF Typed
<1>2. LocksOK
  BY Names DEF Init, LocksOK, ThreadOK, CancelOK, StoppedOK, Outside
<1>3. Queued = {} /\ Cardinality({}) = 0
  BY FS_EmptySet DEF Init, Queued
<1>4. Counted = 0 /\ queued_bufs = 0
  BY <1>3 DEF Init, Counted
<1>5. Sound
  <2>1. \A t \in Thread : ArgsOK(t) /\ QbufOK(t)
    BY Names DEF Init, ArgsOK, QbufOK
  <2>2. BoundsOK /\ CountOK
    BY <1>4 DEF Init, BoundsOK, CountOK
  <2> QED BY <2>1, <2>2 DEF Sound
<1>6. SlotsOK
  <2>1. \A t \in Thread : OpenOK(t)
    BY Names DEF Init, OpenOK
  <2>2. ListOK
    BY DEF Init, ListOK
  <2> QED BY <1>3, <1>4, <2>1, <2>2 DEF Init, SlotsOK
<1> QED BY <1>1, <1>2, <1>5, <1>6 DEF Base

-----------------------------------------------------------------------------
(* Steps that leave the buffers alone.                                     *)

\* Nothing happens to the buffers, and a QBUF that goes on is the one before.
Still ==
    /\ UNCHANGED <<slots, allocated_bufs, slot_qbuf, queued_bufs, pending_dqbufs, armed,
                   completing>>
    /\ \A t \in Thread : vlock' = t /\ call'[t] = "qbuf" =>
          /\ vlock = t /\ call[t] = "qbuf" /\ arg'[t] = arg[t] /\ old_flags'[t] = old_flags[t]
          /\ pc'[t] = "queueing" <=> pc[t] = "queueing"

\* Every ioctl that goes on is the one before.
SameCall ==
    /\ UNCHANGED <<allocated_bufs, import_needs_cancel, qbufs>>
    /\ \A t \in Thread : vlock' = t =>
          /\ vlock = t /\ call'[t] = call[t] /\ arg'[t] = arg[t]
          /\ pc'[t] = "queueing" => pc[t] = "queueing"

\* The arguments are those of the call before.
LEMMA SameArgs ==
    ASSUME Sound, SameCall
    PROVE  \A t \in Thread : ArgsOK(t)'
BY DEF Sound, SameCall, ArgsOK

\* What holds of the buffers goes on to hold.
LEMMA StillSound ==
    ASSUME Sound, Still, \A t \in Thread : ArgsOK(t)'
    PROVE  Sound'
<1>1. \A t \in Thread : QbufOK(t)'
  BY DEF Sound, QbufOK, Still, Completing
<1>2. Counted' = Counted
  BY DEF Still, Counted, Queued
<1>3. BoundsOK' /\ CountOK'
  BY <1>2 DEF Sound, BoundsOK, CountOK, Still
<1> QED BY <1>1, <1>3 DEF Sound

LEMMA StillSlots ==
    ASSUME SlotsOK, Still
    PROVE  SlotsOK'
<1>1. \A t \in Thread : OpenOK(t)'
  BY DEF SlotsOK, OpenOK, Still, Completing, Unused
<1>2. Counted' = Counted /\ Queued' = Queued
  BY DEF Still, Counted, Queued
<1>3. ListOK'
  BY DEF SlotsOK, ListOK, Still
<1> QED BY <1>1, <1>2, <1>3 DEF SlotsOK, Still, EventFlags

\* A step that is quiet in both ways, and keeps the types and the locks.
LEMMA StillBase ==
    ASSUME Base, Still, SameCall, Typed', LocksOK'
    PROVE  Base'
BY SameArgs, StillSound DEF Base

\* A thread that holds vlock is a thread; and one outside an ioctl does not hold it.
LEMMA Holder ==
    ASSUME Base
    PROVE  /\ vlock # None => vlock \in Thread
           /\ \A t \in Thread : pc[t] \in Outside => vlock # t
BY DEF Base, Typed, ThreadTyped, LocksOK, ThreadOK, Inside, Outside

\* An ioctl that sends its command at once.
Begins(t, c, a) ==
    /\ Enter(t, c) /\ Send(t, c, a)
    /\ UNCHANGED <<queueVars, old_flags, historyVars>>
AtOnce == Ioctl \ {"qbuf", "dqbuf"}
Proper(c, a) ==
    /\ a \in 0 .. MaxBufs
    /\ c = "prepare_buf" => a \in Slot /\ a <= allocated_bufs
    /\ c = "create_bufs" => allocated_bufs <= a

\* The ioctl has vlock, and waits for a reply.
LEMMA BeginsBase ==
    ASSUME Base, NEW t \in Thread, NEW c \in AtOnce, NEW a, Proper(c, a), Begins(t, c, a)
    PROVE  Base' /\ Still /\ UNCHANGED disturbed
<1>1. /\ pc[t] = "idle" /\ vlock = None /\ vlock' = t
      /\ call' = [call EXCEPT ![t] = c] /\ arg' = [arg EXCEPT ![t] = a]
      /\ pc' = [pc EXCEPT ![t] = "command"]
      /\ UNCHANGED <<events_lock, reply, old_flags>> /\ UNCHANGED deviceVars
      /\ UNCHANGED queueVars /\ UNCHANGED historyVars
  BY DEF Begins, Enter, Send, Goto
<1>2. Typed'
  <2>1. QueueTyped' /\ HistoryTyped' /\ DeviceTyped'
    BY <1>1, SameTypes
  <2>2. ThreadTyped'
    BY <1>1 DEF Base, Typed, ThreadTyped, Pc, AtOnce, Proper
  <2> QED BY <2>1, <2>2 DEF Typed
<1>3. /\ pc'[t] = "command" /\ call'[t] = c /\ arg'[t] = a /\ reply = "none"
      /\ \A u \in Thread : u # t => pc'[u] = pc[u] /\ vlock' # u /\ vlock # u
      /\ UNCHANGED <<disconnected, dev_queue, dev_streaming, eventq, completing, stopped,
                     allocated_bufs, slots, slot_qbuf, queued_bufs, pending_dqbufs, armed, disturbed>>
  BY <1>1, Names DEF Base, LocksOK, Typed, ThreadTyped, deviceVars, eventVars, queueVars, arrayVars,
                     bufferVars, historyVars
<1>4. LocksOK'
  <2>1. ASSUME NEW u \in Thread PROVE ThreadOK(u)'
    BY <1>1, <1>3, Names DEF Base, LocksOK, ThreadOK, Inside, Outside, AtOnce
  <2>2. ASSUME NEW u \in Thread PROVE CancelOK(u)'
    BY <1>1, <1>3 DEF Base, LocksOK, CancelOK, Sealed
  <2>3. vlock' # None /\ StoppedOK' /\ (events_lock' = None => completing' = NoEvent)
    BY <1>1, <1>3, Names DEF Base, LocksOK, StoppedOK
  <2> QED BY <2>1, <2>2, <2>3 DEF LocksOK
<1>5. Still
  BY <1>1, <1>3 DEF Still, AtOnce
<1>6. Sound'
  <2>1. ASSUME NEW u \in Thread PROVE ArgsOK(u)'
    BY <1>1, <1>3 DEF ArgsOK, AtOnce, Proper
  <2> QED BY <1>5, <2>1, StillSound DEF Base
<1> QED BY <1>2, <1>3, <1>4, <1>5, <1>6 DEF Base

\* An ioctl that returns without touching a buffer.
Ends(t) ==
    /\ pc[t] = "replied" /\ Return(t)
    /\ call[t] = "qbuf" => reply = "ok"
    /\ call[t] \in Cancel => reply = "error"
    /\ streaming' \in BOOLEAN /\ is_capture_last' \in BOOLEAN
    /\ UNCHANGED <<import_needs_cancel, arrayVars, bufferVars, events_lock, deviceVars,
                   historyVars>>

\* What a return does to the threads.
LEMMA Returned ==
    ASSUME Base, NEW t \in Thread, pc[t] \in Inside \ {"drain"}, Return(t), UNCHANGED events_lock,
           UNCHANGED deviceVars
    PROVE  /\ ThreadTyped' /\ DeviceTyped' /\ LocksOK'
           /\ vlock = t /\ vlock' = None /\ reply' = "none" /\ \A u \in Thread : vlock' # u
           /\ UNCHANGED <<disconnected, stopped, eventq, completing, dev_queue, dev_streaming>>
<1>1. /\ vlock' = None /\ reply' = "none"
      /\ call' = [call EXCEPT ![t] = "none"] /\ arg' = [arg EXCEPT ![t] = 0]
      /\ old_flags' = [old_flags EXCEPT ![t] = {}] /\ pc' = [pc EXCEPT ![t] = "idle"]
  BY DEF Return, Goto
<1>2. ThreadTyped' /\ DeviceTyped'
  <2>1. DeviceTyped'
    BY SameTypes
  <2>2. ThreadTyped'
    BY <1>1, Names DEF Base, Typed, ThreadTyped, Pc
  <2> QED BY <2>1, <2>2
<1>3. vlock = t
  BY Owner
<1>4. /\ pc'[t] = "idle" /\ \A u \in Thread : u # t => pc'[u] = pc[u] /\ call'[u] = call[u]
      /\ UNCHANGED <<disconnected, stopped, eventq, completing, dev_queue, dev_streaming>>
      /\ \A u \in Thread : vlock' # u
  BY <1>1, Names DEF Base, Typed, ThreadTyped, deviceVars, eventVars
<1>5. LocksOK'
  <2>1. ASSUME NEW u \in Thread PROVE ThreadOK(u)'
    BY <1>1, <1>3, <1>4, Names DEF Base, LocksOK, ThreadOK, Inside, Outside
  <2>2. ASSUME NEW u \in Thread PROVE CancelOK(u)'
    BY <1>1, <1>4 DEF Base, LocksOK, CancelOK, Sealed
  <2>3. StoppedOK' /\ (events_lock' = None => completing' = NoEvent)
    BY <1>4 DEF Base, LocksOK, StoppedOK
  <2> QED BY <1>1, <2>1, <2>2, <2>3 DEF LocksOK
<1> QED BY <1>1, <1>2, <1>3, <1>4, <1>5

\* vlock is free.
LEMMA EndsBase ==
    ASSUME Base, NEW t \in Thread, Ends(t)
    PROVE  Base' /\ Still /\ UNCHANGED disturbed
<1>1. /\ ThreadTyped' /\ DeviceTyped' /\ LocksOK' /\ completing' = completing
      /\ \A u \in Thread : vlock' # u
  BY Returned DEF Ends, Inside
<1>2. QueueTyped' /\ HistoryTyped'
  BY DEF Ends, Base, Typed, QueueTyped, HistoryTyped, arrayVars, bufferVars, historyVars
<1>3. Still /\ SameCall /\ UNCHANGED disturbed
  BY <1>1 DEF Ends, Still, SameCall, arrayVars, bufferVars, historyVars
<1> QED BY <1>1, <1>2, <1>3, StillBase DEF Typed

\* A thread that waits in DQBUF, without vlock, goes on waiting or returns.
Waits(t) ==
    /\ pc[t] \in Outside /\ \E l \in Outside : Goto(t, l)
    /\ UNCHANGED <<queueVars, vlock, events_lock, callVars, reply, deviceVars, historyVars>>

\* What a step does that changes neither calls, vlock nor buffers.
LEMMA Unmoved ==
    ASSUME Base, UNCHANGED vlock, UNCHANGED callVars, UNCHANGED queueVars, UNCHANGED historyVars,
           UNCHANGED completing, \A t \in Thread : pc'[t] = "queueing" <=> pc[t] = "queueing"
    PROVE  Still /\ SameCall /\ UNCHANGED disturbed
BY DEF Still, SameCall, callVars, queueVars, flagVars, arrayVars, bufferVars, historyVars

\* Nobody notices.
LEMMA WaitsBase ==
    ASSUME Base, NEW t \in Thread, Waits(t)
    PROVE  Base' /\ Still /\ UNCHANGED disturbed
<1>1. PICK l \in Outside : pc' = [pc EXCEPT ![t] = l]
  BY DEF Waits, Goto
<1>2. /\ pc[t] \in Outside /\ UNCHANGED <<vlock, events_lock, reply>> /\ UNCHANGED callVars
      /\ UNCHANGED queueVars /\ UNCHANGED deviceVars /\ UNCHANGED historyVars
  BY DEF Waits
<1>3. Typed'
  <2>1. QueueTyped' /\ HistoryTyped' /\ DeviceTyped'
    BY <1>2, SameTypes
  <2>2. ThreadTyped'
    BY <1>1, <1>2 DEF Base, Typed, ThreadTyped, Pc, Outside, callVars
  <2> QED BY <2>1, <2>2 DEF Typed
<1>4. /\ pc'[t] \in Outside /\ \A u \in Thread : u # t => pc'[u] = pc[u]
      /\ UNCHANGED <<call, disconnected, stopped, eventq, completing, dev_queue, dev_streaming>>
  BY <1>1, <1>2 DEF Base, Typed, ThreadTyped, deviceVars, eventVars, callVars
<1>5. LocksOK'
  <2>1. ASSUME NEW u \in Thread PROVE ThreadOK(u)'
    BY <1>2, <1>4 DEF Base, LocksOK, ThreadOK, Inside, Outside
  <2>2. ASSUME NEW u \in Thread PROVE CancelOK(u)'
    BY <1>2, <1>4 DEF Base, LocksOK, CancelOK, Sealed, Outside
  <2>3. StoppedOK' /\ (vlock' = None => reply' = "none") /\ (events_lock' = None => completing' = NoEvent)
    BY <1>2, <1>4 DEF Base, LocksOK, StoppedOK
  <2> QED BY <2>1, <2>2, <2>3 DEF LocksOK
<1>6. \A u \in Thread : pc'[u] = "queueing" <=> pc[u] = "queueing"
  BY <1>2, <1>4 DEF Outside
<1> QED BY <1>2, <1>3, <1>4, <1>5, <1>6, Unmoved, StillBase

\* virtio_media_create_bufs goes on with a new array.
LEMMA CreateBufsSwitchBase ==
    ASSUME Base, NEW t \in Thread, CreateBufsSwitch(t)
    PROVE  Base' /\ Still /\ UNCHANGED disturbed
<1>1. /\ pc[t] = "replied" /\ call[t] = "create_bufs" /\ reply = "ok" /\ copying' = TRUE
      /\ pc' = [pc EXCEPT ![t] = "copy"]
      /\ UNCHANGED <<vlock, events_lock, reply, allocated_bufs>> /\ UNCHANGED callVars
      /\ UNCHANGED flagVars /\ UNCHANGED bufferVars /\ UNCHANGED deviceVars /\ UNCHANGED historyVars
  BY DEF CreateBufsSwitch, Replied, Goto
<1>2. Typed'
  <2>1. HistoryTyped' /\ DeviceTyped'
    BY <1>1, SameTypes
  <2>2. QueueTyped' /\ ThreadTyped'
    BY <1>1 DEF Base, Typed, QueueTyped, ThreadTyped, Pc, flagVars, bufferVars, callVars
  <2> QED BY <2>1, <2>2 DEF Typed
<1>3. vlock = t
  BY <1>1, Owner DEF Inside
<1>4. /\ pc'[t] = "copy" /\ \A u \in Thread : u # t => pc'[u] = pc[u]
      /\ UNCHANGED <<call, disconnected, stopped, eventq, completing, dev_queue, dev_streaming>>
  BY <1>1 DEF Base, Typed, ThreadTyped, deviceVars, eventVars, callVars
<1>5. LocksOK'
  <2>1. ASSUME NEW u \in Thread PROVE ThreadOK(u)'
    BY <1>1, <1>3, <1>4, Names DEF Base, LocksOK, ThreadOK, Inside, Outside
  <2>2. ASSUME NEW u \in Thread PROVE CancelOK(u)'
    BY <1>1, <1>4 DEF Base, LocksOK, CancelOK, Sealed
  <2>3. StoppedOK' /\ (vlock' = None => reply' = "none") /\ (events_lock' = None => completing' = NoEvent)
    BY <1>1, <1>4 DEF Base, LocksOK, StoppedOK
  <2> QED BY <2>1, <2>2, <2>3 DEF LocksOK
<1>6. Still /\ SameCall /\ UNCHANGED disturbed
  BY <1>1, <1>4 DEF Still, SameCall, callVars, flagVars, bufferVars, historyVars
<1> QED BY <1>2, <1>5, <1>6, StillBase

-----------------------------------------------------------------------------
(* The events lock, the device and its removal.                            *)

\* events_lock is taken by a thread in STREAMOFF or REQBUFS.
LEMMA StartDrainBase ==
    ASSUME Base, NEW t \in Thread, StartDrain(t)
    PROVE  Base' /\ Still /\ UNCHANGED disturbed
<1>1. /\ pc[t] = "replied" /\ call[t] \in Cancel /\ reply = "ok" /\ events_lock = None
      /\ \/ disconnected /\ pc' = [pc EXCEPT ![t] = "clear"] /\ events_lock' = None
         \/ ~disconnected /\ pc' = [pc EXCEPT ![t] = "drain"] /\ events_lock' = t
      /\ UNCHANGED <<vlock, reply>> /\ UNCHANGED callVars
      /\ UNCHANGED queueVars /\ UNCHANGED historyVars /\ UNCHANGED deviceVars
  BY DEF StartDrain, Replied, Goto, Cancel
<1>2. Typed'
  <2>1. QueueTyped' /\ HistoryTyped' /\ DeviceTyped'
    BY <1>1, SameTypes
  <2>2. ThreadTyped'
    BY <1>1 DEF Base, Typed, ThreadTyped, Pc, callVars
  <2> QED BY <2>1, <2>2 DEF Typed
<1>3. vlock = t /\ completing = NoEvent
  BY <1>1, Owner DEF Inside, Base, LocksOK
<1>4. /\ \/ disconnected /\ pc'[t] = "clear" /\ events_lock' = None
         \/ ~disconnected /\ pc'[t] = "drain" /\ events_lock' = t
      /\ \A u \in Thread : u # t => pc'[u] = pc[u]
      /\ UNCHANGED <<call, disconnected, stopped, eventq, completing, dev_queue, dev_streaming>>
  BY <1>1 DEF Base, Typed, ThreadTyped, deviceVars, eventVars, callVars
<1>5. LocksOK'
  <2>1. ASSUME NEW u \in Thread PROVE ThreadOK(u)'
    BY <1>1, <1>3, <1>4, Names DEF Base, LocksOK, ThreadOK, Inside, Outside, Cancel
  <2>2. ASSUME NEW u \in Thread PROVE CancelOK(u)'
    BY <1>1, <1>3, <1>4 DEF Base, LocksOK, CancelOK, ThreadOK, Sealed, Outside
  <2>3. StoppedOK' /\ (vlock' = None => reply' = "none") /\ (events_lock' = None => completing' = NoEvent)
    BY <1>1, <1>3, <1>4 DEF Base, LocksOK, StoppedOK
  <2> QED BY <2>1, <2>2, <2>3 DEF LocksOK
<1>6. \A u \in Thread : pc'[u] = "queueing" <=> pc[u] = "queueing"
  BY <1>1, <1>4
<1> QED BY <1>1, <1>2, <1>4, <1>5, <1>6, Unmoved, StillBase

\* The thread lets events_lock go once the eventq is empty.
LEMMA DrainedBase ==
    ASSUME Base, NEW t \in Thread, Drained(t)
    PROVE  Base' /\ Still /\ UNCHANGED disturbed
<1>1. /\ pc[t] = "drain" /\ pc' = [pc EXCEPT ![t] = "clear"] /\ events_lock' = None
      /\ eventq = <<>> /\ completing = NoEvent
      /\ UNCHANGED <<vlock, reply>> /\ UNCHANGED callVars
      /\ UNCHANGED queueVars /\ UNCHANGED historyVars /\ UNCHANGED deviceVars
  BY DEF Drained, Goto
<1>2. Typed'
  <2>1. QueueTyped' /\ HistoryTyped' /\ DeviceTyped'
    BY <1>1, SameTypes
  <2>2. ThreadTyped'
    BY <1>1 DEF Base, Typed, ThreadTyped, Pc, callVars
  <2> QED BY <2>1, <2>2 DEF Typed
<1>3. vlock = t
  BY <1>1, Owner DEF Inside
<1>4. /\ pc'[t] = "clear" /\ \A u \in Thread : u # t => pc'[u] = pc[u]
      /\ UNCHANGED <<call, disconnected, stopped, eventq, completing, dev_queue, dev_streaming>>
  BY <1>1 DEF Base, Typed, ThreadTyped, deviceVars, eventVars, callVars
<1>5. LocksOK'
  <2>1. ASSUME NEW u \in Thread PROVE ThreadOK(u)'
    BY <1>1, <1>3, <1>4, Names DEF Base, LocksOK, ThreadOK, Inside, Outside
  <2>2. ASSUME NEW u \in Thread PROVE CancelOK(u)'
    BY <1>1, <1>3, <1>4 DEF Base, LocksOK, CancelOK
  <2>3. StoppedOK' /\ (vlock' = None => reply' = "none") /\ (events_lock' = None => completing' = NoEvent)
    BY <1>1, <1>4 DEF Base, LocksOK, StoppedOK
  <2> QED BY <2>1, <2>2, <2>3 DEF LocksOK
<1>6. \A u \in Thread : pc'[u] = "queueing" <=> pc[u] = "queueing"
  BY <1>1, <1>4
<1> QED BY <1>1, <1>2, <1>4, <1>5, <1>6, Unmoved, StillBase

\* The worker takes or releases events_lock.
LEMMA WorkerBase ==
    ASSUME Base, WorkerEnters \/ WorkerLeaves
    PROVE  Base' /\ Still /\ UNCHANGED disturbed
<1>1. /\ events_lock \in {None, Worker} /\ events_lock' \in {None, Worker}
      /\ completing = NoEvent /\ (Sealed => Sealed')
      /\ UNCHANGED <<vlock, pc, reply>> /\ UNCHANGED callVars
      /\ UNCHANGED queueVars /\ UNCHANGED historyVars /\ UNCHANGED deviceVars
  BY Names DEF WorkerEnters, WorkerLeaves, Base, LocksOK, Sealed, deviceVars
<1>2. Typed'
  <2>1. QueueTyped' /\ HistoryTyped' /\ DeviceTyped'
    BY <1>1, SameTypes
  <2>2. ThreadTyped'
    BY <1>1 DEF Base, Typed, ThreadTyped, callVars
  <2> QED BY <2>1, <2>2 DEF Typed
<1>3. UNCHANGED <<call, disconnected, stopped, eventq, completing, dev_queue, dev_streaming>>
  BY <1>1 DEF deviceVars, eventVars, callVars
<1>4. LocksOK'
  <2>1. ASSUME NEW u \in Thread PROVE ThreadOK(u)'
    BY <1>1, <1>3, Names DEF Base, LocksOK, ThreadOK
  <2>2. ASSUME NEW u \in Thread PROVE CancelOK(u)'
    BY <1>1, <1>3 DEF Base, LocksOK, CancelOK
  <2>3. StoppedOK' /\ (vlock' = None => reply' = "none") /\ (events_lock' = None => completing' = NoEvent)
    BY <1>1, <1>3 DEF Base, LocksOK, StoppedOK
  <2> QED BY <2>1, <2>2, <2>3 DEF LocksOK
<1> QED BY <1>1, <1>2, <1>3, <1>4, Unmoved, StillBase

\* The device is marked as gone, by the thread whose command has timed out or by the
\* removal of the driver.
LEMMA GoneBase ==
    ASSUME Base, RemoveDevice \/ \E t \in Thread : Timeout(t)
    PROVE  Base' /\ Still /\ UNCHANGED disturbed
<1>1. /\ disconnected' = TRUE
      /\ UNCHANGED <<vlock, events_lock, reply, stopped, error, dev_queue, dev_streaming>>
      /\ UNCHANGED callVars /\ UNCHANGED queueVars /\ UNCHANGED historyVars /\ UNCHANGED eventVars
  <2>1. CASE RemoveDevice
    BY <2>1 DEF RemoveDevice, threadVars
  <2>2. CASE \E t \in Thread : Timeout(t)
    BY <2>2 DEF Timeout
  <2> QED BY <2>1, <2>2
<1>2. \/ UNCHANGED pc
      \/ \E t \in Thread : pc[t] = "command" /\ pc' = [pc EXCEPT ![t] = "stopping"]
  BY DEF RemoveDevice, Timeout, threadVars, Goto
<1>3. Typed'
  <2>1. QueueTyped' /\ HistoryTyped'
    BY <1>1, SameTypes
  <2>2. ThreadTyped'
    BY <1>1, <1>2 DEF Base, Typed, ThreadTyped, Pc, callVars
  <2>3. DeviceTyped'
    BY <1>1 DEF Base, Typed, DeviceTyped, eventVars
  <2> QED BY <2>1, <2>2, <2>3 DEF Typed
<1>4. /\ \A u \in Thread : pc'[u] = pc[u] \/ (pc[u] = "command" /\ pc'[u] = "stopping")
      /\ UNCHANGED <<call, eventq, completing>>
  BY <1>1, <1>2 DEF Base, Typed, ThreadTyped, eventVars, callVars
<1>5. LocksOK'
  <2>1. ASSUME NEW u \in Thread PROVE ThreadOK(u)'
    <3>1. pc'[u] = pc[u] \/ (pc[u] = "command" /\ pc'[u] = "stopping")
      BY <1>4
    <3> QED BY <1>1, <1>4, <3>1, Names DEF Base, LocksOK, ThreadOK, Inside, Outside
  <2>2. ASSUME NEW u \in Thread PROVE CancelOK(u)'
    BY <1>1, <1>4 DEF Base, LocksOK, CancelOK, Sealed
  <2>3. StoppedOK' /\ (vlock' = None => reply' = "none") /\ (events_lock' = None => completing' = NoEvent)
    BY <1>1, <1>4 DEF Base, LocksOK, StoppedOK
  <2> QED BY <2>1, <2>2, <2>3 DEF LocksOK
<1>6. \A u \in Thread : pc'[u] = "queueing" <=> pc[u] = "queueing"
  BY <1>4
<1> QED BY <1>1, <1>3, <1>4, <1>5, <1>6, Unmoved, StillBase

\* The device is reset; the command in flight has failed.
LEMMA StopQueuesBase ==
    ASSUME Base, StopQueues
    PROVE  Base' /\ Still /\ UNCHANGED disturbed
<1>1. /\ disconnected /\ disconnected' /\ events_lock = None /\ stopped' = TRUE
      /\ dev_queue' = {} /\ dev_streaming' = FALSE /\ eventq' = <<>>
      /\ reply' = IF \E t \in Thread : pc[t] \in {"command", "stopping"} THEN "error" ELSE reply
      /\ UNCHANGED <<vlock, events_lock, error, disconnected, completing>>
      /\ UNCHANGED callVars /\ UNCHANGED queueVars /\ UNCHANGED historyVars
  BY DEF StopQueues
<1>2. /\ DOMAIN pc' = Thread
      /\ \A u \in Thread : pc'[u] = IF pc[u] \in {"command", "stopping"} THEN "replied"
                                    ELSE IF pc[u] = "sleep" THEN "test" ELSE pc[u]
  BY DEF StopQueues, Woken
<1>3. pc' \in [Thread -> Pc]
  <2>1. pc' = [t \in Thread |-> pc'[t]]
    BY DEF StopQueues, Woken
  <2>2. \A u \in Thread : pc'[u] \in Pc
    BY <1>2 DEF Base, Typed, ThreadTyped, Pc
  <2> QED BY <2>1, <2>2
<1>4. Typed'
  <2>1. QueueTyped' /\ HistoryTyped'
    BY <1>1, SameTypes
  <2>2. ThreadTyped'
    BY <1>1, <1>3 DEF Base, Typed, ThreadTyped, callVars
  <2>3. <<>> \in Seq(Event) /\ {} \subseteq Slot \X (1 .. MaxQbufs)
    OBVIOUS
  <2>4. DeviceTyped'
    BY <1>1, <2>3 DEF Base, Typed, DeviceTyped
  <2> QED BY <2>1, <2>2, <2>4 DEF Typed
<1>5. LocksOK'
  <2>1. ASSUME NEW u \in Thread PROVE ThreadOK(u)'
    <3>1. ThreadOK(u)
      BY DEF Base, LocksOK
    <3>2. CASE vlock = u
      <4>1. \A t \in Thread : t # u => pc[t] \notin {"command", "stopping"}
        BY <3>2 DEF Base, LocksOK, ThreadOK, Outside
      <4>2. reply' = IF pc[u] \in {"command", "stopping"} THEN "error" ELSE reply
        BY <1>1, <4>1
      <4> QED BY <1>1, <1>2, <3>1, <3>2, <4>2, Names DEF ThreadOK, Inside, callVars
    <3>3. CASE vlock # u
      BY <1>1, <1>2, <3>1, <3>3, Names DEF ThreadOK, Outside, callVars
    <3> QED BY <3>2, <3>3
  <2>2. vlock = None => \A t \in Thread : pc[t] \notin {"command", "stopping"}
    BY Names DEF Base, LocksOK, ThreadOK, Outside
  <2>3. \A u \in Thread : CancelOK(u)'
    BY <1>1 DEF CancelOK, Sealed
  <2>4. StoppedOK' /\ (vlock' = None => reply' = "none") /\ (events_lock' = None => completing' = NoEvent)
    BY <1>1, <2>2 DEF Base, LocksOK, StoppedOK
  <2> QED BY <2>1, <2>3, <2>4 DEF LocksOK
<1>6. \A u \in Thread : pc'[u] = "queueing" <=> pc[u] = "queueing"
  BY <1>2
<1> QED BY <1>1, <1>4, <1>5, <1>6, Unmoved, StillBase

\* What the device may do with the command of thread t: take the buffer, stop, start or
\* nothing; and what the thread sees of it.
Executes(t) ==
    \/ /\ call[t] = "qbuf" /\ \A b \in dev_queue : b[1] # arg[t]
       /\ dev_queue' = dev_queue \cup {<<arg[t], slot_qbuf[arg[t]]>>}
       /\ UNCHANGED dev_streaming
       /\ Answer(t, "ok") \/ (FaultyReplies /\ Answer(t, "error"))
    \/ call[t] \in Cancel /\ dev_queue' = {} /\ dev_streaming' = FALSE /\ Answer(t, "ok")
    \/ dev_streaming' \in BOOLEAN /\ UNCHANGED dev_queue /\ Answer(t, "error")
    \/ /\ call[t] \notin Cancel \cup {"qbuf"}
       /\ dev_streaming' \in BOOLEAN /\ UNCHANGED dev_queue /\ Answer(t, "ok")

\* The device executes a command and answers it: the driver's own state stays.
LEMMA DeviceExecutesBase ==
    ASSUME Base, NEW t \in Thread, DeviceExecutes(t)
    PROVE  Base' /\ Still /\ UNCHANGED disturbed
<1>1. /\ pc[t] \in {"command", "stopping"} /\ reply = "none" /\ ~stopped
      /\ UNCHANGED <<vlock, events_lock, disconnected, stopped, error>> /\ UNCHANGED eventVars
      /\ UNCHANGED callVars /\ UNCHANGED queueVars /\ UNCHANGED historyVars
  BY DEF DeviceExecutes
<1>2. Executes(t)
  BY DEF DeviceExecutes, DeviceQbuf, Executes, Cancel, Base, Typed, DeviceTyped
<1>3. \/ pc[t] = "command" /\ pc' = [pc EXCEPT ![t] = "replied"] /\ reply' \in {"ok", "error"}
      \/ pc[t] = "stopping" /\ pc' = pc /\ reply' = "late"
  BY <1>1, <1>2 DEF Executes, Answer, Goto
<1>4. vlock = t /\ vlock # None
  BY <1>1, Owner DEF Inside
<1>5. Typed'
  <2>1. QueueTyped' /\ HistoryTyped'
    BY <1>1, SameTypes
  <2>2. ThreadTyped'
    BY <1>1, <1>3 DEF Base, Typed, ThreadTyped, Pc, callVars
  <2>3. call[t] = "qbuf" => <<arg[t], slot_qbuf[arg[t]]>> \in Slot \X (1 .. MaxQbufs)
    <3>1. call[t] = "qbuf" => arg[t] \in Slot /\ slot_qbuf[arg[t]] # 0
      BY <1>1, <1>4 DEF Base, Sound, ArgsOK, QbufOK
    <3>2. \A i \in Slot : slot_qbuf[i] \in 0 .. MaxQbufs
      BY DEF Base, Typed, HistoryTyped
    <3>3. \A n \in 0 .. MaxQbufs : n # 0 => n \in 1 .. MaxQbufs
      BY Names
    <3> QED BY <3>1, <3>2, <3>3
  <2>4. dev_queue' \subseteq Slot \X (1 .. MaxQbufs) /\ dev_streaming' \in BOOLEAN
    BY <1>2, <2>3 DEF Executes, Base, Typed, DeviceTyped
  <2>5. DeviceTyped'
    BY <1>1, <2>4 DEF Base, Typed, DeviceTyped, eventVars
  <2> QED BY <2>1, <2>2, <2>5 DEF Typed
<1>6. /\ \A u \in Thread : u # t => pc'[u] = pc[u]
      /\ \/ pc[t] = "command" /\ pc'[t] = "replied" /\ reply' \in {"ok", "error"}
         \/ pc[t] = "stopping" /\ pc'[t] = "stopping" /\ reply' = "late"
      /\ UNCHANGED <<call, eventq, completing>>
  BY <1>1, <1>3 DEF Base, Typed, ThreadTyped, eventVars, callVars
<1>7. LocksOK'
  <2>1. ASSUME NEW u \in Thread PROVE ThreadOK(u)'
    <3>1. ThreadOK(u) /\ ThreadOK(t)
      BY DEF Base, LocksOK
    <3> QED BY <1>1, <1>4, <1>6, <3>1, Names DEF ThreadOK, Inside, Outside
  <2>2. ASSUME NEW u \in Thread PROVE CancelOK(u)'
    <3>1. call[t] \in Cancel /\ reply' = "ok" => dev_queue' = {} /\ ~dev_streaming'
      BY <1>1, <1>2 DEF Executes, Answer, Cancel
    <3>2. pc'[u] = "clear" => u # t /\ pc[u] = "clear" /\ vlock # u
      BY <1>4, <1>6
    <3>3. pc'[u] # "clear"
      BY <3>2 DEF Base, LocksOK, ThreadOK, Outside
    <3> QED BY <1>1, <1>4, <1>6, <3>1, <3>3 DEF CancelOK
  <2>3. StoppedOK' /\ (vlock' = None => reply' = "none") /\ (events_lock' = None => completing' = NoEvent)
    BY <1>1, <1>4, <1>6 DEF StoppedOK, Base, LocksOK
  <2> QED BY <2>1, <2>2, <2>3 DEF LocksOK
<1>8. \A u \in Thread : pc'[u] = "queueing" <=> pc[u] = "queueing"
  BY <1>6
<1> QED BY <1>1, <1>5, <1>6, <1>7, <1>8, Unmoved, StillBase

\* The device reports a completed buffer, or an error.
Reports == DeviceFails \/ \E b \in dev_queue, last \in BOOLEAN : DeviceCompletes(b, last)

\* The driver's own state stays; a buffer is completed only while the device streams.
LEMMA DeviceReportsBase ==
    ASSUME Base, Reports
    PROVE  Base' /\ Still /\ UNCHANGED disturbed
<1>1. /\ UNCHANGED threadVars /\ UNCHANGED queueVars /\ UNCHANGED historyVars
      /\ UNCHANGED <<disconnected, stopped, error, dev_streaming, completing>>
      /\ ~stopped /\ dev_queue' \subseteq dev_queue
  <2>1. CASE DeviceFails
    BY <2>1 DEF DeviceFails
  <2>2. CASE \E b \in dev_queue, last \in BOOLEAN : DeviceCompletes(b, last)
    BY <2>2 DEF DeviceCompletes, Base, LocksOK, StoppedOK
  <2> QED BY <2>1, <2>2 DEF Reports
<1>2. \E e \in Event : eventq' = Append(eventq, e) /\ (IsDone(e) => dev_streaming)
  <2>1. CASE DeviceFails
    <3>1. [slot |-> 1, qbuf |-> 0, last |-> FALSE, error |-> TRUE] \in Event
      BY QueueAssumption DEF Event, Slot
    <3> QED BY <2>1, <3>1 DEF DeviceFails, IsDone
  <2>2. ASSUME NEW b \in dev_queue, NEW last \in BOOLEAN, DeviceCompletes(b, last)
        PROVE  \E e \in Event : eventq' = Append(eventq, e) /\ (IsDone(e) => dev_streaming)
    <3>1. b[1] \in Slot /\ b[2] \in 0 .. MaxQbufs
      BY Names DEF Base, Typed, DeviceTyped
    <3>2. [slot |-> b[1], qbuf |-> b[2], last |-> last, error |-> FALSE] \in Event
      BY <3>1 DEF Event
    <3> QED BY <2>2, <3>2 DEF DeviceCompletes
  <2> QED BY <2>1, <2>2 DEF Reports
<1>3. PICK e \in Event : eventq' = Append(eventq, e) /\ (IsDone(e) => dev_streaming)
  BY <1>2
<1>4. eventq \in Seq(Event)
  BY DEF Base, Typed, DeviceTyped
<1>5. Typed'
  <2>1. QueueTyped' /\ HistoryTyped' /\ ThreadTyped'
    BY <1>1, SameTypes
  <2>2. eventq' \in Seq(Event)
    BY <1>3, <1>4
  <2>3. DeviceTyped'
    BY <1>1, <2>2 DEF Base, Typed, DeviceTyped
  <2> QED BY <2>1, <2>3 DEF Typed
<1>6. UNCHANGED <<vlock, events_lock, pc, call, reply>> /\ UNCHANGED callVars
  BY <1>1 DEF threadVars, callVars
<1>7. LocksOK'
  <2>1. ASSUME NEW u \in Thread PROVE ThreadOK(u)'
    BY <1>1, <1>6 DEF Base, LocksOK, ThreadOK
  <2>2. ASSUME NEW u \in Thread PROVE CancelOK(u)'
    <3>1. pc[u] = "clear" => ~dev_streaming
      BY DEF Base, LocksOK, ThreadOK, CancelOK, Outside
    <3>2. \A k \in DOMAIN eventq' : (k \in DOMAIN eventq /\ eventq'[k] = eventq[k]) \/ eventq'[k] = e
      BY <1>3, <1>4, Pushed
    <3>3. vlock = u /\ call[u] \in Cancel /\ reply = "ok" => dev_queue' = {} /\ ~dev_streaming'
      BY <1>1 DEF Base, LocksOK, CancelOK
    <3>4. pc[u] = "clear" => Sealed' \/ \A k \in DOMAIN eventq' : ~IsDone(eventq'[k])
      BY <1>1, <1>3, <1>6, <3>1, <3>2 DEF Base, LocksOK, CancelOK, Sealed
    <3> QED BY <1>6, <3>3, <3>4 DEF CancelOK
  <2>3. StoppedOK' /\ (vlock' = None => reply' = "none") /\ (events_lock' = None => completing' = NoEvent)
    BY <1>1, <1>6 DEF Base, LocksOK, StoppedOK
  <2> QED BY <2>1, <2>2, <2>3 DEF LocksOK
<1> QED BY <1>1, <1>5, <1>6, <1>7, Unmoved, StillBase

\* Sleepers are woken, and nobody else moves.
LEMMA WokenThreads ==
    ASSUME Base, pc' = Woken(pc) \/ pc' = pc, UNCHANGED <<vlock, events_lock, reply, disconnected>>,
           UNCHANGED callVars
    PROVE  /\ ThreadTyped' /\ \A u \in Thread : ThreadOK(u)'
           /\ \A u \in Thread : \A l \in Pc \ {"sleep", "test"} : pc'[u] = l <=> pc[u] = l
<1>1. \A u \in Thread : pc'[u] = pc[u] \/ (pc[u] = "sleep" /\ pc'[u] = "test")
  BY DEF Woken
<1>2. pc' \in [Thread -> Pc]
  <2>1. CASE pc' = pc
    BY <2>1 DEF Base, Typed, ThreadTyped
  <2>2. CASE pc' = Woken(pc)
    <3>1. pc' = [t \in Thread |-> pc'[t]]
      BY <2>2 DEF Woken
    <3>2. \A u \in Thread : pc'[u] \in Pc
      BY <1>1 DEF Base, Typed, ThreadTyped, Pc
    <3> QED BY <3>1, <3>2
  <2> QED BY <2>1, <2>2
<1>3. ThreadTyped'
  BY <1>2 DEF Base, Typed, ThreadTyped, callVars
<1>4. ASSUME NEW u \in Thread PROVE ThreadOK(u)'
  <2>1. ThreadOK(u) /\ pc[u] \in Pc
    BY DEF Base, LocksOK, Typed, ThreadTyped
  <2> QED BY <1>1, <2>1 DEF ThreadOK, Inside, Outside, callVars
<1> QED BY <1>1, <1>3, <1>4 DEF Pc

\* What every event does to the threads, the device and the locks: one that is taken from
\* the eventq, and one that is finished.
LEMMA EventLocks ==
    ASSUME Base, pc' = Woken(pc) \/ pc' = pc, UNCHANGED callVars, events_lock # None,
           eventq' = eventq \/ (eventq # <<>> /\ eventq' = Tail(eventq)),
           completing' \in Event \cup {NoEvent}, error' \in BOOLEAN,
           UNCHANGED <<vlock, events_lock, reply, disconnected, stopped, dev_queue, dev_streaming>>
    PROVE  /\ ThreadTyped' /\ DeviceTyped' /\ LocksOK'
           /\ \A u \in Thread : pc'[u] = "queueing" <=> pc[u] = "queueing"
<1>1. /\ ThreadTyped' /\ \A u \in Thread : ThreadOK(u)'
      /\ \A u \in Thread : \A l \in Pc \ {"sleep", "test"} : pc'[u] = l <=> pc[u] = l
  BY WokenThreads
<1>2. eventq \in Seq(Event)
  BY DEF Base, Typed, DeviceTyped
<1>3. eventq' \in Seq(Event)
  BY <1>2
<1>4. DeviceTyped'
  BY <1>3 DEF Base, Typed, DeviceTyped
<1>5. \A k \in DOMAIN eventq' : \E l \in DOMAIN eventq : eventq'[k] = eventq[l]
  <2>1. CASE eventq' = eventq
    BY <2>1
  <2>2. CASE eventq # <<>> /\ eventq' = Tail(eventq)
    BY <1>2, <2>2, Popped
  <2> QED BY <2>1, <2>2
<1>6. ASSUME NEW u \in Thread PROVE CancelOK(u)'
  <2>1. pc'[u] = "clear" => pc[u] = "clear"
    BY <1>1 DEF Pc
  <2>2. vlock' = u /\ call'[u] \in Cancel /\ reply' = "ok" => dev_queue' = {} /\ ~dev_streaming'
    BY DEF Base, LocksOK, CancelOK, callVars
  <2>3. pc[u] = "clear" => \A k \in DOMAIN eventq : ~IsDone(eventq[k])
    BY DEF Base, LocksOK, CancelOK, Sealed
  <2> QED BY <1>5, <2>1, <2>2, <2>3 DEF CancelOK
<1>7. StoppedOK' /\ (vlock' = None => reply' = "none") /\ (events_lock' = None => completing' = NoEvent)
  BY DEF Base, LocksOK, StoppedOK
<1> QED BY <1>1, <1>4, <1>6, <1>7 DEF LocksOK, Pc

\* An event that does not complete a buffer leaves all of them alone.
LEMMA NoCompletionBase ==
    ASSUME Base, ErrorEvent \/ IgnoreEvent
    PROVE  Base' /\ Still /\ (disturbed => disturbed')
<1>1. /\ events_lock # None /\ eventq # <<>> /\ eventq' = Tail(eventq)
      /\ pc' = Woken(pc) \/ pc' = pc
      /\ error' = TRUE \/ UNCHANGED error
      /\ UNCHANGED <<vlock, events_lock, reply, disconnected, stopped, dev_queue, dev_streaming,
                     completing, qbufs, slot_qbuf, done_qbuf, wild>>
      /\ UNCHANGED flagVars /\ UNCHANGED arrayVars /\ UNCHANGED bufferVars /\ UNCHANGED callVars
  <2>1. CASE ErrorEvent
    BY <2>1 DEF ErrorEvent, TakeEvent
  <2>2. CASE IgnoreEvent
    BY <2>2 DEF IgnoreEvent, TakeEvent
  <2> QED BY <2>1, <2>2
<1>2. completing' \in Event \cup {NoEvent} /\ error' \in BOOLEAN
  BY <1>1 DEF Base, Typed, DeviceTyped
<1>3. /\ ThreadTyped' /\ DeviceTyped' /\ LocksOK'
      /\ \A u \in Thread : pc'[u] = "queueing" <=> pc[u] = "queueing"
  BY <1>1, <1>2, EventLocks
<1>4. disturbed' \in BOOLEAN /\ (disturbed => disturbed')
  BY DEF ErrorEvent, IgnoreEvent, Base, Typed, HistoryTyped
<1>5. Typed'
  BY <1>1, <1>3, <1>4 DEF Base, Typed, QueueTyped, HistoryTyped, flagVars, arrayVars, bufferVars
<1>6. Still /\ SameCall
  BY <1>1, <1>3 DEF Still, SameCall, flagVars, arrayVars, bufferVars, callVars
<1> QED BY <1>3, <1>4, <1>5, <1>6, StillBase

-----------------------------------------------------------------------------
(* Steps that change the flags of a buffer, or the array.                  *)

\* How many slots are queued after a step.
LEMMA Counts ==
    ASSUME NEW S \in SUBSET Slot, NEW T \in SUBSET Slot
    PROVE  /\ Cardinality(S) \in Nat /\ Cardinality(T) \in Nat
           /\ T \subseteq S => Cardinality(T) <= Cardinality(S)
           /\ \A i \in Slot \ S : T = S \cup {i} => Cardinality(T) = Cardinality(S) + 1
           /\ \A i \in S : T = S \ {i} => Cardinality(T) = Cardinality(S) - 1
<1>1. IsFiniteSet(1 .. MaxBufs)
  BY Names, FS_Interval
<1>2. IsFiniteSet(S) /\ IsFiniteSet(T)
  BY <1>1, FS_Subset DEF Slot
<1> QED BY <1>2, FS_CardinalityType, FS_Subset, FS_AddElement, FS_RemoveElement

\* The buffers that are queued, and the counter.
LEMMA Tally ==
    ASSUME Typed
    PROVE  /\ Queued \in SUBSET Slot /\ Queued' \in SUBSET Slot
           /\ Counted = Cardinality(Queued) + (IF completing = NoEvent THEN 0 ELSE 1)
           /\ Counted' = Cardinality(Queued') + (IF completing' = NoEvent THEN 0 ELSE 1)
           /\ Cardinality(Queued) \in Nat /\ Cardinality(Queued') \in Nat
<1>1. Queued \in SUBSET Slot /\ Queued' \in SUBSET Slot
  BY DEF Queued
<1> QED BY <1>1, Counts DEF Counted

\* The list is right as long as the same slots are done.
LEMMA SameList ==
    ASSUME Typed, ListOK, UNCHANGED pending_dqbufs,
           \A j \in Slot : "DONE" \in slots'[j] <=> "DONE" \in slots[j]
    PROVE  ListOK'
<1>1. \A k \in DOMAIN pending_dqbufs : pending_dqbufs[k] \in Slot
  BY DEF Typed, QueueTyped
<1> QED BY <1>1 DEF ListOK

\* QBUF has found the flags it needs.
LEMMA QbufBase ==
    ASSUME Base, NEW t \in Thread, NEW i \in Slot, Qbuf(t, i)
    PROVE  Base' /\ (disturbed => disturbed') /\ (SlotsOK /\ ~disturbed' => SlotsOK')
<1>1. /\ pc[t] = "idle" /\ vlock = None /\ vlock' = t
      /\ call' = [call EXCEPT ![t] = "qbuf"] /\ arg' = [arg EXCEPT ![t] = i]
      /\ pc' = [pc EXCEPT ![t] = "queueing"]
      /\ UNCHANGED <<events_lock, reply, old_flags, qbufs, slot_qbuf, done_qbuf, wild>>
      /\ UNCHANGED deviceVars /\ UNCHANGED queueVars
  BY DEF Qbuf, Enter, Goto
<1>2. /\ i \in 1 .. allocated_bufs /\ qbufs < MaxQbufs /\ ~import_needs_cancel
      /\ slots[i] \cap {"QUEUED", "DONE"} = {} /\ disturbed' = (disturbed \/ Completing(i))
  BY DEF Qbuf, Allocated
<1>3. Typed'
  <2>1. QueueTyped' /\ DeviceTyped'
    BY <1>1, SameTypes
  <2>2. i \in 0 .. MaxBufs /\ disturbed' \in BOOLEAN
    BY <1>2, Names DEF Slot
  <2>3. ThreadTyped'
    BY <1>1, <2>2 DEF Base, Typed, ThreadTyped, Pc, Ioctl
  <2>4. HistoryTyped'
    BY <1>1, <2>2 DEF Base, Typed, HistoryTyped
  <2> QED BY <2>1, <2>3, <2>4 DEF Typed
<1>4. /\ pc'[t] = "queueing" /\ call'[t] = "qbuf" /\ arg'[t] = i /\ reply = "none"
      /\ \A u \in Thread : u # t => pc'[u] = pc[u] /\ vlock' # u /\ vlock # u
      /\ UNCHANGED <<disconnected, dev_queue, dev_streaming, eventq, completing, stopped,
                     allocated_bufs, slots, queued_bufs, pending_dqbufs, armed, import_needs_cancel>>
  BY <1>1, Names DEF Base, LocksOK, Typed, ThreadTyped, deviceVars, eventVars, queueVars, flagVars,
                     arrayVars, bufferVars
<1>5. LocksOK'
  <2>1. ASSUME NEW u \in Thread PROVE ThreadOK(u)'
    BY <1>1, <1>4, Names DEF Base, LocksOK, ThreadOK, Inside, Outside, Ioctl
  <2>2. ASSUME NEW u \in Thread PROVE CancelOK(u)'
    BY <1>1, <1>4 DEF Base, LocksOK, CancelOK, Sealed
  <2>3. vlock' # None /\ StoppedOK' /\ (events_lock' = None => completing' = NoEvent)
    BY <1>1, <1>4, Names DEF Base, LocksOK, StoppedOK
  <2> QED BY <2>1, <2>2, <2>3 DEF LocksOK
<1>6. Counted' = Counted /\ Queued' = Queued
  BY <1>4 DEF Counted, Queued
<1>7. Sound'
  <2>1. ASSUME NEW u \in Thread PROVE ArgsOK(u)' /\ QbufOK(u)'
    <3>1. CASE u = t
      <4>1. i <= allocated_bufs
        BY <1>2 DEF Base, Typed, QueueTyped
      <4>2. ArgsOK(t)'
        BY <1>1, <1>2, <1>4, <4>1 DEF ArgsOK
      <4>3. QbufOK(t)'
        BY <1>2, <1>4 DEF QbufOK
      <4> QED BY <3>1, <4>2, <4>3
    <3>2. CASE u # t
      BY <1>4, <3>2 DEF ArgsOK, QbufOK
    <3> QED BY <3>1, <3>2
  <2>2. BoundsOK' /\ CountOK'
    BY <1>4, <1>6 DEF Base, Sound, BoundsOK, CountOK
  <2> QED BY <2>1, <2>2 DEF Sound
<1>8. ASSUME SlotsOK, ~disturbed' PROVE SlotsOK'
  <2>1. ASSUME NEW u \in Thread PROVE OpenOK(u)'
    BY <1>2, <1>4, <1>8 DEF OpenOK, Unused, Completing
  <2>2. ListOK'
    BY <1>4, <1>8 DEF SlotsOK, ListOK
  <2> QED BY <1>4, <1>6, <1>8, <2>1, <2>2 DEF SlotsOK, EventFlags
<1> QED BY <1>2, <1>3, <1>5, <1>7, <1>8 DEF Base

\* The flags of one slot.
Put(i, f) == slots' = [slots EXCEPT ![i] = f]

\* Only that slot changes.
LEMMA PutSlots ==
    ASSUME Typed, NEW i \in Slot, NEW f \in SUBSET Flag, Put(i, f)
    PROVE  /\ slots' \in [Slot -> SUBSET Flag]
           /\ slots'[i] = f /\ \A j \in Slot : j # i => slots'[j] = slots[j]
           /\ Queued' = IF "QUEUED" \in f THEN Queued \cup {i} ELSE Queued \ {i}
<1>1. slots \in [Slot -> SUBSET Flag]
  BY DEF Typed, QueueTyped
<1>2. /\ slots' \in [Slot -> SUBSET Flag]
      /\ slots'[i] = f /\ \A j \in Slot : j # i => slots'[j] = slots[j]
  BY <1>1 DEF Put
<1> QED BY <1>2 DEF Queued

\* QBUF prepares the imports, and marks the slot queued.
LEMMA QbufMarkBase ==
    ASSUME Base, NEW t \in Thread, QbufMark(t)
    PROVE  Base' /\ UNCHANGED disturbed /\ (SlotsOK => SlotsOK')
<1>1. PICK i : i = arg[t]
  OBVIOUS
<1>2. /\ pc[t] = "queueing" /\ armed' = PrepareImports(i) /\ Put(i, {"QUEUED"})
      /\ old_flags' = [old_flags EXCEPT ![t] = slots[i]]
      /\ queued_bufs' = queued_bufs + 1 /\ qbufs' = qbufs + 1
      /\ slot_qbuf' = [slot_qbuf EXCEPT ![i] = qbufs + 1]
      /\ \/ disconnected /\ pc' = [pc EXCEPT ![t] = "replied"] /\ reply' = "error"
         \/ pc' = [pc EXCEPT ![t] = "command"] /\ reply' = reply
      /\ UNCHANGED <<vlock, events_lock, call, arg, done_qbuf, wild, disturbed, pending_dqbufs,
                     allocated_bufs, copying, streaming, import_needs_cancel, is_capture_last>>
      /\ UNCHANGED deviceVars
  BY <1>1 DEF QbufMark, Goto, Put, flagVars, arrayVars
<1>3. vlock = t /\ call[t] = "qbuf" /\ reply = "none"
  BY <1>2, Owner DEF Inside, Base, LocksOK, ThreadOK
<1>4. /\ i \in Slot /\ i <= allocated_bufs /\ qbufs < MaxQbufs /\ "QUEUED" \notin slots[i]
      /\ slots[i] \in SUBSET Flag
  BY <1>1, <1>2, <1>3 DEF Base, Sound, ArgsOK, QbufOK, Typed, QueueTyped
<1>5. qbufs + 1 \in 0 .. MaxQbufs /\ qbufs + 1 # 0
  <2>1. qbufs \in 0 .. MaxQbufs /\ MaxQbufs \in Nat
    BY Names DEF Base, Typed, HistoryTyped
  <2> QED BY <1>4, <2>1
<1>6. /\ slots' \in [Slot -> SUBSET Flag]
      /\ slots'[i] = {"QUEUED"} /\ \A j \in Slot : j # i => slots'[j] = slots[j]
      /\ Queued' = Queued \cup {i} /\ i \notin Queued
  <2>1. {"QUEUED"} \in SUBSET Flag
    BY DEF Flag
  <2> QED BY <1>2, <1>4, <2>1, PutSlots DEF Base, Queued
<1>7. Typed'
  <2>1. QueueTyped'
    BY <1>2, <1>4, <1>6 DEF Base, Typed, QueueTyped, PrepareImports
  <2>2. ThreadTyped'
    BY <1>2, <1>4 DEF Base, Typed, ThreadTyped, Pc
  <2>3. DeviceTyped'
    BY <1>2, SameTypes
  <2>4. HistoryTyped'
    BY <1>2, <1>5 DEF Base, Typed, HistoryTyped
  <2> QED BY <2>1, <2>2, <2>3, <2>4 DEF Typed
<1>8. /\ \/ disconnected /\ pc'[t] = "replied" /\ reply' = "error"
         \/ pc'[t] = "command" /\ reply' = "none"
      /\ \A u \in Thread : u # t => pc'[u] = pc[u]
      /\ old_flags'[t] = slots[i] /\ slot_qbuf'[i] # 0
      /\ UNCHANGED <<disconnected, stopped, eventq, completing, dev_queue, dev_streaming>>
  BY <1>2, <1>3, <1>4, <1>5 DEF Base, Typed, ThreadTyped, HistoryTyped, deviceVars, eventVars
<1>9. LocksOK'
  <2>1. ASSUME NEW u \in Thread PROVE ThreadOK(u)'
    BY <1>2, <1>3, <1>8, Names DEF Base, LocksOK, ThreadOK, Inside, Outside
  <2>2. ASSUME NEW u \in Thread PROVE CancelOK(u)'
    BY <1>2, <1>3, <1>8 DEF Base, LocksOK, CancelOK, Sealed
  <2>3. StoppedOK' /\ (vlock' = None => reply' = "none") /\ (events_lock' = None => completing' = NoEvent)
    BY <1>2, <1>3, <1>8, Names DEF Base, LocksOK, StoppedOK
  <2> QED BY <2>1, <2>2, <2>3 DEF LocksOK
<1>10. Counted' = Counted + 1 /\ Counted \in Nat
  <2>1. Cardinality(Queued') = Cardinality(Queued) + 1
    BY <1>4, <1>6, Counts, Tally DEF Base
  <2> QED BY <1>8, <2>1, Tally DEF Base
<1>11. Sound'
  <2>1. ASSUME NEW u \in Thread PROVE ArgsOK(u)' /\ QbufOK(u)'
    <3>1. CASE u = t
      <4>1. arg'[t] = i /\ pc'[t] # "queueing"
        BY <1>1, <1>2, <1>8
      <4>2. ArgsOK(t)'
        BY <1>2, <1>3, <1>4, <4>1 DEF ArgsOK
      <4>3. QbufOK(t)'
        BY <1>4, <1>6, <1>8, <4>1 DEF QbufOK
      <4> QED BY <3>1, <4>2, <4>3
    <3>2. CASE u # t
      BY <1>2, <1>3, <3>2 DEF ArgsOK, QbufOK
    <3> QED BY <3>1, <3>2
  <2>2. BoundsOK'
    <3>1. \A j \in armed' : j \in armed \/ j = i
      BY <1>2 DEF PrepareImports
    <3> QED BY <1>2, <1>4, <1>6, <1>8, <3>1 DEF Base, Sound, BoundsOK
  <2>3. CountOK'
    BY <1>2, <1>10 DEF Base, Sound, CountOK
  <2> QED BY <2>1, <2>2, <2>3 DEF Sound
<1>12. ASSUME SlotsOK PROVE SlotsOK'
  <2>1. Unused(i) /\ ~Completing(i)
    BY <1>1, <1>2, <1>3, <1>12 DEF SlotsOK, OpenOK
  <2>2. ASSUME NEW u \in Thread PROVE OpenOK(u)'
    BY <1>2, <1>3, <1>8, <2>1 DEF OpenOK, Unused
  <2>3. \A j \in Slot : "QUEUED" \in slots'[j] => "DONE" \notin slots'[j]
    BY <1>6, <1>12 DEF SlotsOK
  <2>4. completing' # NoEvent => slots'[completing'.slot] = EventFlags(completing)'
    <3>1. completing # NoEvent => completing.slot \in Slot /\ completing.slot # i
      BY <2>1, CompletingSlot DEF Base, Typed, DeviceTyped, Completing
    <3> QED BY <1>6, <1>8, <1>12, <3>1 DEF SlotsOK, EventFlags
  <2>5. queued_bufs' = Counted'
    BY <1>2, <1>10, <1>12 DEF SlotsOK
  <2>6. ListOK'
    <3>1. \A j \in Slot : "DONE" \in slots'[j] <=> "DONE" \in slots[j]
      BY <1>6, <2>1 DEF Unused
    <3> QED BY <1>2, <1>12, <3>1, SameList DEF Base, SlotsOK
  <2>7. Memory = "DMABUF" => armed' = Queued'
    BY <1>2, <1>6, <1>12 DEF SlotsOK, PrepareImports
  <2> QED BY <2>2, <2>3, <2>4, <2>5, <2>6, <2>7 DEF SlotsOK
<1> QED BY <1>2, <1>7, <1>9, <1>11, <1>12 DEF Base

\* Nobody holds vlock after a return.
LEMMA Nobody ==
    ASSUME \A u \in Thread : vlock' # u
    PROVE  \A u \in Thread : ArgsOK(u)' /\ QbufOK(u)' /\ OpenOK(u)'
BY DEF ArgsOK, QbufOK, OpenOK

\* The failure path of virtio_media_qbuf.
LEMMA QbufFailsBase ==
    ASSUME Base, NEW t \in Thread, QbufFails(t)
    PROVE  Base' /\ UNCHANGED disturbed /\ (SlotsOK => SlotsOK')
<1>1. PICK i : i = arg[t]
  OBVIOUS
<1>2. PICK f : f = IF "DONE" \in slots[i] THEN slots[i] ELSE old_flags[t]
  OBVIOUS
<1>3. /\ pc[t] = "replied" /\ call[t] = "qbuf" /\ Return(t) /\ events_lock = None
      /\ import_needs_cancel' = (import_needs_cancel \/ Memory = "DMABUF")
      /\ armed' = armed \ {i} /\ Put(i, f)
      /\ queued_bufs' = IF "DONE" \in slots[i] THEN queued_bufs ELSE queued_bufs - 1
      /\ UNCHANGED <<streaming, is_capture_last, allocated_bufs, copying, pending_dqbufs, events_lock>>
      /\ UNCHANGED deviceVars /\ UNCHANGED historyVars
  BY <1>1, <1>2 DEF QbufFails, Replied, CompleteImports, Put, arrayVars
<1>4. /\ vlock = t /\ \A u \in Thread : vlock' # u
      /\ ThreadTyped' /\ DeviceTyped' /\ LocksOK' /\ completing' = completing
      /\ completing = NoEvent
  <2>1. pc[t] \in Inside \ {"drain"}
    BY <1>3 DEF Inside
  <2> QED BY <1>3, <2>1, Returned DEF Base, LocksOK
<1>5. /\ i \in Slot /\ i <= allocated_bufs /\ "QUEUED" \notin old_flags[t]
      /\ "QUEUED" \in slots[i] \/ "DONE" \in slots[i]
      /\ slots[i] \in SUBSET Flag /\ f \in SUBSET Flag /\ old_flags[t] \in SUBSET Flag
  <2>1. i \in Slot /\ i <= allocated_bufs
    BY <1>1, <1>3, <1>4 DEF Base, Sound, ArgsOK
  <2>2. ~Completing(i)
    BY <1>4, <2>1, EventSlots DEF Completing
  <2>3. "QUEUED" \notin old_flags[t] /\ slots[i] \cap {"QUEUED", "DONE"} # {}
    BY <1>1, <1>3, <1>4, <2>2 DEF Base, Sound, QbufOK
  <2>4. slots[i] \in SUBSET Flag /\ old_flags[t] \in SUBSET Flag
    BY <2>1 DEF Base, Typed, QueueTyped, ThreadTyped
  <2> QED BY <1>2, <2>1, <2>3, <2>4
<1>6. /\ slots' \in [Slot -> SUBSET Flag]
      /\ slots'[i] = f /\ \A j \in Slot : j # i => slots'[j] = slots[j]
      /\ Queued' = IF "QUEUED" \in f THEN Queued \cup {i} ELSE Queued \ {i}
  BY <1>3, <1>5, PutSlots DEF Base
<1>7. Typed'
  <2>1. import_needs_cancel' \in BOOLEAN
    BY <1>3
  <2>2. QueueTyped'
    BY <1>3, <1>6, <2>1 DEF Base, Typed, QueueTyped
  <2>3. HistoryTyped'
    BY <1>3, SameTypes
  <2> QED BY <1>4, <2>2, <2>3 DEF Typed
<1>8. CASE "DONE" \in slots[i]
  <2>1. \A j \in Slot : slots'[j] = slots[j]
    BY <1>2, <1>6, <1>8
  <2>2. Queued' = Queued /\ Counted' = Counted
    BY <1>4, <2>1 DEF Queued, Counted
  <2>3. Sound'
    <3>1. BoundsOK' /\ CountOK'
      BY <1>3, <1>4, <1>8, <2>1, <2>2 DEF Base, Sound, BoundsOK, CountOK
    <3> QED BY <1>4, <3>1, Nobody DEF Sound
  <2>4. ASSUME SlotsOK PROVE SlotsOK'
    <3>1. ListOK'
      BY <1>3, <2>1, <2>4, SameList DEF Base, SlotsOK
    <3>2. Memory = "DMABUF" => armed' = Queued'
      BY <1>3, <1>5, <1>8, <2>2, <2>4 DEF SlotsOK, Queued
    <3> QED BY <1>3, <1>4, <1>8, <2>1, <2>2, <2>4, <3>1, <3>2, Nobody DEF SlotsOK
  <2> QED BY <1>3, <1>4, <1>7, <2>3, <2>4 DEF Base, historyVars
<1>9. CASE "DONE" \notin slots[i]
  <2>1. f = old_flags[t] /\ "QUEUED" \notin f /\ i \in Queued /\ Queued' = Queued \ {i}
    BY <1>2, <1>5, <1>6, <1>9 DEF Queued
  <2>2. Cardinality(Queued') = Cardinality(Queued) - 1
    BY <2>1, Counts, Tally DEF Base
  <2>3. Counted' = Counted - 1 /\ Counted \in Nat /\ Counted' \in Nat
    BY <1>4, <2>2, Tally DEF Base
  <2>4. Sound'
    <3>1. CountOK'
      BY <1>3, <1>9, <2>3 DEF Base, Sound, CountOK
    <3>2. BoundsOK'
      BY <1>3, <1>4, <1>5, <1>6 DEF Base, Sound, BoundsOK
    <3> QED BY <1>4, <3>1, <3>2, Nobody DEF Sound
  <2>5. ASSUME SlotsOK PROVE SlotsOK'
    <3>1. f \cap {"QUEUED", "DONE"} = {}
      BY <1>3, <1>4, <2>1, <2>5 DEF SlotsOK, OpenOK
    <3>2. ListOK'
      <4>1. \A j \in Slot : "DONE" \in slots'[j] <=> "DONE" \in slots[j]
        BY <1>6, <1>9, <3>1
      <4> QED BY <1>3, <2>5, <4>1, SameList DEF Base, SlotsOK
    <3>3. \A j \in Slot : "QUEUED" \in slots'[j] => "DONE" \notin slots'[j]
      BY <1>6, <2>5, <3>1 DEF SlotsOK
    <3>4. Memory = "DMABUF" => armed' = Queued'
      BY <1>3, <2>1, <2>5 DEF SlotsOK
    <3>5. queued_bufs' = Counted'
      BY <1>3, <1>9, <2>3, <2>5 DEF SlotsOK
    <3> QED BY <1>4, <3>2, <3>3, <3>4, <3>5, Nobody DEF SlotsOK
  <2> QED BY <1>3, <1>4, <1>7, <2>4, <2>5 DEF Base, historyVars
<1> QED BY <1>8, <1>9

\* PREPARE_BUF overwrites the flags.
LEMMA PrepareBufBase ==
    ASSUME Base, NEW t \in Thread, PrepareBufReturn(t)
    PROVE  Base' /\ (disturbed => disturbed') /\ (SlotsOK /\ ~disturbed' => SlotsOK')
<1>1. PICK i : i = arg[t]
  OBVIOUS
<1>2. /\ pc[t] = "replied" /\ call[t] = "prepare_buf" /\ Return(t) /\ Put(i, {"PREPARED"})
      /\ disturbed' = (disturbed \/ Completing(i) \/ slots[i] \cap {"QUEUED", "DONE"} # {})
      /\ UNCHANGED <<allocated_bufs, copying, queued_bufs, pending_dqbufs, armed, events_lock,
                     qbufs, slot_qbuf, done_qbuf, wild>>
      /\ UNCHANGED deviceVars /\ UNCHANGED flagVars
  BY <1>1 DEF PrepareBufReturn, Replied, Put, arrayVars
<1>3. /\ vlock = t /\ \A u \in Thread : vlock' # u
      /\ ThreadTyped' /\ DeviceTyped' /\ LocksOK' /\ completing' = completing
  <2>1. pc[t] \in Inside \ {"drain"}
    BY <1>2 DEF Inside
  <2> QED BY <1>2, <2>1, Returned
<1>4. i \in Slot /\ i <= allocated_bufs
  BY <1>1, <1>2, <1>3 DEF Base, Sound, ArgsOK
<1>5. /\ slots' \in [Slot -> SUBSET Flag]
      /\ slots'[i] = {"PREPARED"} /\ \A j \in Slot : j # i => slots'[j] = slots[j]
      /\ Queued' = Queued \ {i}
  <2>1. {"PREPARED"} \in SUBSET Flag
    BY DEF Flag
  <2> QED BY <1>2, <1>4, <2>1, PutSlots DEF Base
<1>6. Typed'
  <2>1. QueueTyped'
    BY <1>2, <1>5 DEF Base, Typed, QueueTyped, flagVars
  <2>2. disturbed' \in BOOLEAN
    BY <1>2
  <2>3. HistoryTyped'
    BY <1>2, <2>2 DEF Base, Typed, HistoryTyped
  <2> QED BY <1>3, <2>1, <2>3 DEF Typed
<1>7. Sound'
  <2>1. Counted' <= Counted /\ Counted \in Nat /\ Counted' \in Nat
    <3>1. Cardinality(Queued') <= Cardinality(Queued)
      BY <1>5, Counts, Tally DEF Base
    <3> QED BY <1>3, <3>1, Tally DEF Base
  <2>2. CountOK'
    BY <1>2, <2>1 DEF Base, Sound, CountOK
  <2>3. BoundsOK'
    BY <1>2, <1>3, <1>4, <1>5 DEF Base, Sound, BoundsOK
  <2> QED BY <1>3, <2>2, <2>3, Nobody DEF Sound
<1>8. ASSUME SlotsOK, ~disturbed' PROVE SlotsOK'
  <2>1. ~Completing(i) /\ "QUEUED" \notin slots[i] /\ "DONE" \notin slots[i]
    BY <1>2, <1>8
  <2>2. Queued' = Queued /\ Counted' = Counted
    BY <1>3, <1>5, <2>1 DEF Queued, Counted
  <2>3. ListOK'
    <3>1. \A j \in Slot : "DONE" \in slots'[j] <=> "DONE" \in slots[j]
      BY <1>5, <2>1
    <3> QED BY <1>2, <1>8, <3>1, SameList DEF Base, SlotsOK
  <2>4. completing' # NoEvent => slots'[completing'.slot] = EventFlags(completing)'
    <3>1. completing # NoEvent => completing.slot \in Slot /\ completing.slot # i
      BY <2>1, CompletingSlot DEF Base, Typed, DeviceTyped, Completing
    <3> QED BY <1>3, <1>5, <1>8, <3>1 DEF SlotsOK, EventFlags
  <2>5. \A j \in Slot : "QUEUED" \in slots'[j] => "DONE" \notin slots'[j]
    BY <1>5, <1>8 DEF SlotsOK
  <2> QED BY <1>2, <1>3, <1>8, <2>2, <2>3, <2>4, <2>5, Nobody DEF SlotsOK
<1> QED BY <1>2, <1>3, <1>6, <1>7, <1>8 DEF Base

\* virtio_media_clear_queue: no slot of the array is in use after it, whatever was before.
LEMMA ClearBase ==
    ASSUME Base, NEW t \in Thread, Clear(t)
    PROVE  Base' /\ SlotsOK' /\ \A i \in Slot : slots'[i] = {}
<1>1. /\ pc[t] = "clear" /\ Return(t) /\ events_lock = None
      /\ pending_dqbufs' = <<>> /\ queued_bufs' = 0
      /\ slots' = [i \in Slot |-> IF i \in 1 .. allocated_bufs THEN {} ELSE slots[i]]
      /\ armed' = armed \ (1 .. allocated_bufs)
      /\ streaming' = FALSE /\ import_needs_cancel' = FALSE /\ is_capture_last' = FALSE
      /\ disturbed' = (disturbed /\ disconnected)
      /\ UNCHANGED <<copying, events_lock, qbufs, slot_qbuf, done_qbuf, wild>> /\ UNCHANGED deviceVars
  BY DEF Clear, ClearQueue, CompleteImports, Allocated
<1>2. allocated_bufs' \in 0 .. MaxBufs
  BY Names DEF Clear, Base, Typed, QueueTyped
<1>3. /\ vlock = t /\ \A u \in Thread : vlock' # u
      /\ ThreadTyped' /\ DeviceTyped' /\ LocksOK' /\ completing' = completing
      /\ completing = NoEvent
  <2>1. pc[t] \in Inside \ {"drain"}
    BY <1>1 DEF Inside
  <2> QED BY <1>1, <2>1, Returned DEF Base, LocksOK
<1>4. \A i \in Slot : slots'[i] = {}
  <2>1. \A i \in Slot : i \in 1 .. allocated_bufs \/ slots[i] = {}
    BY Names DEF Base, Sound, BoundsOK, Slot, Typed, QueueTyped
  <2> QED BY <1>1, <2>1
<1>5. armed' = {}
  <2>1. \A i \in armed : i \in 1 .. allocated_bufs
    BY Names DEF Base, Sound, BoundsOK, Slot, Typed, QueueTyped
  <2> QED BY <1>1, <2>1
<1>6. Typed'
  <2>1. slots' \in [Slot -> SUBSET Flag]
    BY <1>1, <1>4
  <2>2. <<>> \in Seq(Slot) /\ disturbed' \in BOOLEAN
    BY <1>1
  <2>3. QueueTyped'
    BY <1>1, <1>2, <1>5, <2>1, <2>2 DEF Base, Typed, QueueTyped
  <2>4. HistoryTyped'
    BY <1>1, <2>2 DEF Base, Typed, HistoryTyped
  <2> QED BY <1>3, <2>3, <2>4 DEF Typed
<1>7. Queued' = {} /\ Cardinality({}) = 0
  BY <1>4, FS_EmptySet DEF Queued
<1>8. Counted' = 0
  BY <1>3, <1>7, Tally DEF Base
<1>9. Sound'
  <2>1. BoundsOK' /\ CountOK'
    BY <1>1, <1>3, <1>4, <1>5, <1>8 DEF BoundsOK, CountOK
  <2> QED BY <1>3, <2>1, Nobody DEF Sound
<1>10. SlotsOK'
  <2>1. ListOK'
    BY <1>1, <1>4 DEF ListOK
  <2> QED BY <1>1, <1>3, <1>4, <1>5, <1>7, <1>8, <2>1, Nobody DEF SlotsOK
<1> QED BY <1>3, <1>4, <1>6, <1>9, <1>10 DEF Base

\* CREATE_BUFS has filled the larger array.
LEMMA CreateBufsCopyBase ==
    ASSUME Base, NEW t \in Thread, CreateBufsCopy(t)
    PROVE  Base' /\ UNCHANGED disturbed /\ (SlotsOK => SlotsOK')
<1>1. /\ pc[t] = "copy" /\ Return(t) /\ copying' = FALSE /\ allocated_bufs' = arg[t]
      /\ wild' \in {wild, "freed node"}
      /\ UNCHANGED <<slots, queued_bufs, pending_dqbufs, armed, events_lock, qbufs, slot_qbuf,
                     done_qbuf, disturbed>>
      /\ UNCHANGED flagVars /\ UNCHANGED deviceVars
  BY DEF CreateBufsCopy, bufferVars
<1>2. /\ vlock = t /\ \A u \in Thread : vlock' # u
      /\ ThreadTyped' /\ DeviceTyped' /\ LocksOK' /\ completing' = completing
  <2>1. pc[t] \in Inside \ {"drain"}
    BY <1>1 DEF Inside
  <2> QED BY <1>1, <2>1, Returned
<1>3. arg[t] \in 0 .. MaxBufs /\ allocated_bufs <= arg[t] /\ allocated_bufs \in 0 .. MaxBufs
  BY <1>1, <1>2 DEF Base, Typed, ThreadTyped, QueueTyped, LocksOK, ThreadOK, Sound, ArgsOK
<1>4. Typed'
  BY <1>1, <1>2, <1>3 DEF Base, Typed, QueueTyped, HistoryTyped, flagVars
<1>5. Queued' = Queued /\ Counted' = Counted
  BY <1>1, <1>2 DEF Queued, Counted
<1>6. Sound'
  <2>1. \A n \in Slot : n <= allocated_bufs => n <= arg[t]
    BY <1>3, Names DEF Slot
  <2>2. armed \subseteq Slot /\ (completing # NoEvent => completing.slot \in Slot)
    BY CompletingSlot DEF Base, Typed, QueueTyped, DeviceTyped
  <2>3. BoundsOK' /\ CountOK'
    BY <1>1, <1>2, <1>5, <2>1, <2>2 DEF Base, Sound, BoundsOK, CountOK
  <2> QED BY <1>2, <2>3, Nobody DEF Sound
<1>7. ASSUME SlotsOK PROVE SlotsOK'
  <2>1. ListOK'
    BY <1>1, <1>7 DEF SlotsOK, ListOK
  <2> QED BY <1>1, <1>2, <1>5, <1>7, <2>1, Nobody DEF SlotsOK, EventFlags
<1> QED BY <1>1, <1>2, <1>4, <1>6, <1>7 DEF Base

\* DQBUF takes the first buffer of the list, or follows a pointer to none.
LEMMA DqbufTakeBase ==
    ASSUME Base, NEW t \in Thread, DqbufTake(t)
    PROVE  Base' /\ UNCHANGED disturbed /\ (SlotsOK => SlotsOK')
<1>1. /\ pc[t] = "relock" /\ vlock = None /\ pc' = [pc EXCEPT ![t] = "idle"]
      /\ UNCHANGED <<streaming, import_needs_cancel, allocated_bufs, copying, queued_bufs,
                     armed, vlock, events_lock, reply, qbufs, slot_qbuf, done_qbuf, disturbed>>
      /\ UNCHANGED callVars /\ UNCHANGED deviceVars
  BY DEF DqbufTake, Goto, arrayVars
<1>2. Typed /\ slots \in [Slot -> SUBSET Flag] /\ pending_dqbufs \in Seq(Slot)
  BY DEF Base, Typed, QueueTyped
<1>3. /\ pc'[t] = "idle" /\ \A u \in Thread : u # t => pc'[u] = pc[u]
      /\ \A u \in Thread : vlock' # u /\ vlock # u
      /\ UNCHANGED <<call, disconnected, stopped, eventq, completing, dev_queue, dev_streaming>>
  BY <1>1, Names DEF Base, Typed, ThreadTyped, deviceVars, eventVars, callVars
<1>4. ThreadTyped' /\ DeviceTyped'
  <2>1. DeviceTyped'
    BY <1>1, SameTypes
  <2>2. ThreadTyped'
    BY <1>1, <1>2 DEF Typed, ThreadTyped, Pc, callVars
  <2> QED BY <2>1, <2>2
<1>5. LocksOK'
  <2>1. ASSUME NEW u \in Thread PROVE ThreadOK(u)'
    BY <1>1, <1>3 DEF Base, LocksOK, ThreadOK, Inside, Outside
  <2>2. ASSUME NEW u \in Thread PROVE CancelOK(u)'
    BY <1>1, <1>3 DEF Base, LocksOK, CancelOK, Sealed
  <2>3. StoppedOK' /\ (vlock' = None => reply' = "none") /\ (events_lock' = None => completing' = NoEvent)
    BY <1>1, <1>3 DEF Base, LocksOK, StoppedOK
  <2> QED BY <2>1, <2>2, <2>3 DEF LocksOK
<1>6. CASE pending_dqbufs = <<>>
  <2>1. wild' = "empty list" /\ UNCHANGED <<pending_dqbufs, slots, is_capture_last>>
    BY <1>6 DEF DqbufTake
  <2>2. QueueTyped' /\ HistoryTyped'
    BY <1>1, <1>2, <2>1 DEF Typed, QueueTyped, HistoryTyped
  <2>3. Still /\ SameCall
    BY <1>1, <1>3, <2>1 DEF Still, SameCall
  <2> QED BY <1>1, <1>4, <1>5, <2>2, <2>3, StillBase, StillSlots DEF Typed
<1>7. CASE pending_dqbufs # <<>>
  <2>1. PICK i : i = Head(pending_dqbufs)
    OBVIOUS
  <2>2. PICK rest : rest = Tail(pending_dqbufs)
    OBVIOUS
  <2>3. /\ i \in Slot /\ i = pending_dqbufs[1] /\ 1 \in DOMAIN pending_dqbufs
        /\ rest \in Seq(Slot)
        /\ \A k \in DOMAIN rest : /\ k + 1 \in DOMAIN pending_dqbufs /\ k + 1 # 1
                                  /\ rest[k] = pending_dqbufs[k + 1]
        /\ \A k \in DOMAIN pending_dqbufs :
              k = 1 \/ (k - 1 \in DOMAIN rest /\ rest[k - 1] = pending_dqbufs[k])
        /\ \A k, l \in DOMAIN rest : k + 1 = l + 1 => k = l
    BY <1>2, <1>7, <2>1, <2>2, Popped
  <2>4. PICK f : f = slots[i] \ {"DONE", "QUEUED"}
    OBVIOUS
  <2>5. /\ pending_dqbufs' = rest /\ Put(i, f)
        /\ is_capture_last' = (is_capture_last \/ "LAST" \in slots[i]) /\ UNCHANGED wild
    BY <1>7, <2>1, <2>2, <2>4 DEF DqbufTake, Put
  <2>6. /\ slots' \in [Slot -> SUBSET Flag]
        /\ slots'[i] = f /\ \A j \in Slot : j # i => slots'[j] = slots[j]
        /\ Queued' = Queued \ {i} /\ "QUEUED" \notin f /\ "DONE" \notin f
    <3>1. f \in SUBSET Flag /\ "QUEUED" \notin f /\ "DONE" \notin f
      BY <1>2, <2>3, <2>4
    <3> QED BY <1>2, <2>3, <2>5, <3>1, PutSlots
  <2>7. Typed'
    <3>1. is_capture_last' \in BOOLEAN
      BY <1>2, <2>5 DEF Typed, QueueTyped
    <3> QED BY <1>1, <1>2, <1>4, <2>3, <2>5, <2>6, <3>1 DEF Typed, QueueTyped, HistoryTyped
  <2>8. Sound'
    <3>1. Cardinality(Queued') <= Cardinality(Queued)
      BY <1>2, <2>6, Counts, Tally
    <3>2. Counted' <= Counted /\ Counted \in Nat /\ Counted' \in Nat
      BY <1>2, <1>3, <3>1, Tally
    <3>3. CountOK'
      BY <1>1, <3>2 DEF Base, Sound, CountOK
    <3>4. f # {} => slots[i] # {}
      BY <2>4
    <3>5. BoundsOK'
      BY <1>1, <1>3, <2>3, <2>6, <3>4 DEF Base, Sound, BoundsOK
    <3> QED BY <1>3, <3>3, <3>5, Nobody DEF Sound
  <2>9. ASSUME SlotsOK PROVE SlotsOK'
    <3>1. "DONE" \in slots[i] /\ "QUEUED" \notin slots[i]
      BY <2>3, <2>9 DEF SlotsOK, ListOK
    <3>2. Queued' = Queued /\ Counted' = Counted
      BY <1>3, <2>6, <3>1 DEF Queued, Counted
    <3>3. completing' # NoEvent => slots'[completing'.slot] = EventFlags(completing)'
      <4>1. completing # NoEvent => completing.slot \in Slot /\ completing.slot # i
        BY <2>9, <3>1, CompletingSlot DEF Base, Typed, DeviceTyped, SlotsOK, EventFlags
      <4> QED BY <1>3, <2>6, <2>9, <4>1 DEF SlotsOK, EventFlags
    <3>4. \A j \in Slot : "QUEUED" \in slots'[j] => "DONE" \notin slots'[j]
      BY <2>6, <2>9 DEF SlotsOK
    <3>5. ListOK'
      <4>1. ASSUME NEW k \in DOMAIN rest PROVE "DONE" \in slots'[rest[k]]
        <5>1. /\ k + 1 \in DOMAIN pending_dqbufs /\ k + 1 # 1 /\ rest[k] = pending_dqbufs[k + 1]
              /\ pending_dqbufs[k + 1] \in Slot
          BY <1>2, <2>3
        <5>2. pending_dqbufs[k + 1] # i /\ "DONE" \in slots[pending_dqbufs[k + 1]]
          BY <2>3, <2>9, <5>1 DEF SlotsOK, ListOK
        <5> QED BY <2>6, <5>1, <5>2
      <4>2. ASSUME NEW j \in Slot, "DONE" \in slots'[j] PROVE \E k \in DOMAIN rest : rest[k] = j
        <5>1. j # i /\ "DONE" \in slots[j]
          BY <2>6, <4>2
        <5>2. PICK k \in DOMAIN pending_dqbufs : pending_dqbufs[k] = j
          BY <2>9, <5>1 DEF SlotsOK, ListOK
        <5>3. k - 1 \in DOMAIN rest /\ rest[k - 1] = j
          BY <2>3, <5>1, <5>2
        <5> QED BY <5>3
      <4>3. ASSUME NEW k \in DOMAIN rest, NEW l \in DOMAIN rest, rest[k] = rest[l] PROVE k = l
        <5>1. k + 1 \in DOMAIN pending_dqbufs /\ l + 1 \in DOMAIN pending_dqbufs
              /\ pending_dqbufs[k + 1] = pending_dqbufs[l + 1]
          BY <2>3, <4>3
        <5>2. k + 1 = l + 1
          BY <2>9, <5>1 DEF SlotsOK, ListOK
        <5> QED BY <2>3, <5>2
      <4> QED BY <2>5, <4>1, <4>2, <4>3 DEF ListOK
    <3> QED BY <1>1, <1>3, <2>9, <3>2, <3>3, <3>4, <3>5, Nobody DEF SlotsOK
  <2> QED BY <1>1, <1>5, <2>7, <2>8, <2>9 DEF Base
<1> QED BY <1>6, <1>7

-----------------------------------------------------------------------------
(* The two steps of a completion.                                          *)

\* The event that is taken, and what is said of it.
LEMMA Taken ==
    ASSUME Base, StartCompletion
    PROVE  \E e \in Event :
              /\ e = Head(eventq) /\ eventq # <<>> /\ eventq' = Tail(eventq) /\ IsDone(e)
              /\ e.slot \in Slot /\ e.qbuf \in 0 .. MaxQbufs /\ e.slot <= allocated_bufs
              /\ "QUEUED" \in slots[e.slot] /\ "DONE" \notin slots[e.slot]
              /\ completing = NoEvent /\ completing' = e /\ e # NoEvent
              /\ armed' = armed \ {e.slot} /\ Put(e.slot, EventFlags(e))
              /\ done_qbuf' = [done_qbuf EXCEPT ![e.slot] = e.qbuf]
<1>1. PICK e : e = Head(eventq)
  OBVIOUS
<1>2. /\ eventq # <<>> /\ eventq' = Tail(eventq) /\ IsDone(e) /\ Accepts(e)
      /\ completing = NoEvent /\ completing' = e
      /\ armed' = armed \ {e.slot} /\ Put(e.slot, EventFlags(e))
      /\ done_qbuf' = [done_qbuf EXCEPT ![e.slot] = e.qbuf]
  BY <1>1 DEF StartCompletion, TakeEvent, IsDone, CompleteImports, Put
<1>3. eventq \in Seq(Event)
  BY DEF Base, Typed, DeviceTyped
<1>4. e \in Event /\ e.slot \in Slot /\ e.qbuf \in 0 .. MaxQbufs /\ e # NoEvent
  <2>1. e \in Event
    BY <1>1, <1>2, <1>3, Popped
  <2> QED BY <2>1, EventSlots
<1>5. e.slot <= allocated_bufs /\ "QUEUED" \in slots[e.slot] /\ "DONE" \notin slots[e.slot]
  BY <1>2, <1>4 DEF Accepts, Awaited, Allocated, Base, Typed, QueueTyped
<1> QED BY <1>1, <1>2, <1>4, <1>5, Zenon

\* The first step: the slot has the flags of the event.
LEMMA StartCompletionBase ==
    ASSUME Base, StartCompletion
    PROVE  Base' /\ UNCHANGED disturbed /\ (SlotsOK => SlotsOK')
<1>1. PICK e \in Event :
              /\ e = Head(eventq) /\ eventq # <<>> /\ eventq' = Tail(eventq) /\ IsDone(e)
              /\ e.slot \in Slot /\ e.qbuf \in 0 .. MaxQbufs /\ e.slot <= allocated_bufs
              /\ "QUEUED" \in slots[e.slot] /\ "DONE" \notin slots[e.slot]
              /\ completing = NoEvent /\ completing' = e /\ e # NoEvent
              /\ armed' = armed \ {e.slot} /\ Put(e.slot, EventFlags(e))
              /\ done_qbuf' = [done_qbuf EXCEPT ![e.slot] = e.qbuf]
  BY Taken
<1>2. /\ events_lock # None /\ pc' = pc
      /\ UNCHANGED <<vlock, events_lock, reply, disconnected, stopped, error, dev_queue,
                     dev_streaming, qbufs, slot_qbuf, wild, disturbed, queued_bufs, pending_dqbufs>>
      /\ UNCHANGED flagVars /\ UNCHANGED arrayVars /\ UNCHANGED callVars
  BY DEF StartCompletion, TakeEvent
<1>3. PICK i : i = e.slot
  OBVIOUS
<1>4. PICK f : f = EventFlags(e) /\ "QUEUED" \notin f /\ "DONE" \notin f /\ f \in SUBSET Flag
  <2>1. PICK f : f = EventFlags(e)
    OBVIOUS
  <2>2. f = {"LAST"} \/ f = {}
    BY <2>1 DEF EventFlags
  <2>3. "QUEUED" \notin f /\ "DONE" \notin f /\ f \in SUBSET Flag
    BY <2>2 DEF Flag
  <2> QED BY <2>1, <2>3
<1>5. /\ i \in Slot /\ i <= allocated_bufs /\ "QUEUED" \in slots[i] /\ "DONE" \notin slots[i]
      /\ slots' \in [Slot -> SUBSET Flag]
      /\ slots'[i] = f /\ \A j \in Slot : j # i => slots'[j] = slots[j]
      /\ Queued' = Queued \ {i} /\ i \in Queued
      /\ armed' = armed \ {i} /\ completing'.slot = i
  BY <1>1, <1>3, <1>4, PutSlots DEF Base, Queued
<1>6. /\ ThreadTyped' /\ DeviceTyped' /\ LocksOK'
  <2>1. completing' \in Event \cup {NoEvent} /\ error' \in BOOLEAN
    BY <1>1, <1>2 DEF Base, Typed, DeviceTyped
  <2> QED BY <1>1, <1>2, <2>1, EventLocks
<1>7. Typed'
  <2>1. done_qbuf' \in [Slot -> 0 .. MaxQbufs]
    BY <1>1 DEF Base, Typed, HistoryTyped
  <2> QED BY <1>2, <1>5, <1>6, <2>1 DEF Base, Typed, QueueTyped, HistoryTyped, flagVars, arrayVars
<1>8. Counted' = Counted
  <2>1. Cardinality(Queued') = Cardinality(Queued) - 1
    BY <1>5, Counts, Tally DEF Base
  <2> QED BY <1>1, <2>1, Tally DEF Base
<1>9. \A u \in Thread : vlock = u /\ call[u] = "qbuf" => arg[u] \in Slot
  BY DEF Base, Sound, ArgsOK
<1>10. \A j \in Slot : ~Completing(j)
  BY <1>1, EventSlots DEF Completing
<1>11. Sound'
  <2>1. \A u \in Thread : ArgsOK(u)'
    BY <1>2 DEF Base, Sound, ArgsOK, flagVars, arrayVars, callVars
  <2>2. ASSUME NEW u \in Thread PROVE QbufOK(u)'
    <3>1. QbufOK(u)
      BY DEF Base, Sound
    <3> QED BY <1>2, <1>4, <1>5, <1>9, <1>10, <3>1 DEF QbufOK, callVars, Completing
  <2>3. BoundsOK'
    BY <1>2, <1>5 DEF Base, Sound, BoundsOK, arrayVars
  <2>4. CountOK'
    BY <1>2, <1>8 DEF Base, Sound, CountOK
  <2> QED BY <2>1, <2>2, <2>3, <2>4 DEF Sound
<1>12. ASSUME SlotsOK PROVE SlotsOK'
  <2>1. ASSUME NEW u \in Thread PROVE OpenOK(u)'
    <3>1. OpenOK(u)
      BY <1>12 DEF SlotsOK
    <3> QED BY <1>2, <1>4, <1>5, <1>9, <3>1 DEF OpenOK, callVars, Completing, Unused
  <2>2. \A j \in Slot : "QUEUED" \in slots'[j] => "DONE" \notin slots'[j]
    BY <1>4, <1>5, <1>12 DEF SlotsOK
  <2>3. slots'[completing'.slot] = EventFlags(completing)'
    BY <1>1, <1>4, <1>5 DEF EventFlags
  <2>4. ListOK'
    <3>1. \A j \in Slot : "DONE" \in slots'[j] <=> "DONE" \in slots[j]
      BY <1>4, <1>5
    <3> QED BY <1>2, <1>12, <3>1, SameList DEF Base, SlotsOK
  <2>5. Memory = "DMABUF" => armed' = Queued'
    BY <1>5, <1>12 DEF SlotsOK
  <2> QED BY <1>2, <1>8, <1>12, <2>1, <2>2, <2>3, <2>4, <2>5 DEF SlotsOK
<1> QED BY <1>2, <1>6, <1>7, <1>11, <1>12 DEF Base

\* The second step: the slot is done, and on the list.
LEMMA EndCompletionBase ==
    ASSUME Base, EndCompletion
    PROVE  Base' /\ UNCHANGED disturbed /\ (SlotsOK => SlotsOK')
<1>1. PICK i : i = completing.slot
  OBVIOUS
<1>2. PICK g : (g = slots[i] \/ g = EventFlags(completing)) /\ Put(i, g \cup {"DONE"})
  BY <1>1 DEF EndCompletion, Put
<1>3. PICK f : f = g \cup {"DONE"}
  OBVIOUS
<1>4. /\ completing # NoEvent /\ completing' = NoEvent /\ pc' = Woken(pc)
      /\ pending_dqbufs' = Append(pending_dqbufs, i) /\ queued_bufs' = queued_bufs - 1
      /\ wild' \in {wild, "linked twice"}
      /\ UNCHANGED <<armed, vlock, events_lock, reply, disconnected, stopped, error, eventq,
                     dev_queue, dev_streaming, qbufs, slot_qbuf, done_qbuf, disturbed>>
      /\ UNCHANGED flagVars /\ UNCHANGED arrayVars /\ UNCHANGED callVars
  <2>1. /\ completing # NoEvent /\ completing' = NoEvent /\ pc' = Woken(pc)
        /\ pending_dqbufs' = Append(pending_dqbufs, i) /\ queued_bufs' = queued_bufs - 1
        /\ wild' \in {wild, "linked twice"}
    BY <1>1 DEF EndCompletion
  <2>2. UNCHANGED <<armed, vlock, events_lock, reply, disconnected, stopped, error, eventq,
                    dev_queue, dev_streaming, qbufs, slot_qbuf, done_qbuf, disturbed>>
        /\ UNCHANGED flagVars /\ UNCHANGED arrayVars /\ UNCHANGED callVars
    BY DEF EndCompletion
  <2> QED BY <2>1, <2>2
<1>5. /\ i \in Slot /\ i <= allocated_bufs /\ completing \in Event /\ events_lock # None
      /\ slots[i] \in SUBSET Flag
  <2>1. completing \in Event /\ i \in Slot
    BY <1>1, <1>4, CompletingSlot DEF Base, Typed, DeviceTyped
  <2> QED BY <1>1, <1>4, <2>1 DEF Base, Sound, BoundsOK, LocksOK, Typed, QueueTyped
<1>6. EventFlags(completing) = {"LAST"} \/ EventFlags(completing) = {}
  BY DEF EventFlags
<1>7. /\ f \in SUBSET Flag /\ "DONE" \in f
      /\ "QUEUED" \in f => "QUEUED" \in slots[i]
  BY <1>2, <1>3, <1>5, <1>6 DEF Flag
<1>8. /\ slots' \in [Slot -> SUBSET Flag]
      /\ slots'[i] = f /\ \A j \in Slot : j # i => slots'[j] = slots[j]
      /\ Queued' \subseteq Queued
  <2>1. /\ slots' \in [Slot -> SUBSET Flag]
        /\ slots'[i] = f /\ \A j \in Slot : j # i => slots'[j] = slots[j]
    BY <1>2, <1>3, <1>5, <1>7, PutSlots DEF Base
  <2> QED BY <1>7, <2>1 DEF Queued
<1>9. /\ ThreadTyped' /\ DeviceTyped' /\ LocksOK'
      /\ \A u \in Thread : pc'[u] = "queueing" <=> pc[u] = "queueing"
  <2>1. completing' \in Event \cup {NoEvent} /\ error' \in BOOLEAN
    BY <1>4 DEF Base, Typed, DeviceTyped
  <2> QED BY <1>4, <1>5, <2>1, EventLocks
<1>10. pending_dqbufs \in Seq(Slot)
  BY DEF Base, Typed, QueueTyped
<1>11. Typed'
  <2>1. pending_dqbufs' \in Seq(Slot)
    BY <1>4, <1>5, <1>10, Pushed
  <2> QED BY <1>4, <1>8, <1>9, <2>1 DEF Base, Typed, QueueTyped, HistoryTyped, flagVars, arrayVars
<1>12. /\ Counted' = Cardinality(Queued') /\ Counted = Cardinality(Queued) + 1
       /\ Cardinality(Queued') <= Cardinality(Queued)
       /\ Cardinality(Queued') \in Nat /\ Cardinality(Queued) \in Nat
  <2>1. Cardinality(Queued') <= Cardinality(Queued)
    BY <1>8, Counts, Tally DEF Base
  <2>2. /\ Counted' = Cardinality(Queued') + (IF completing' = NoEvent THEN 0 ELSE 1)
        /\ Counted = Cardinality(Queued) + (IF completing = NoEvent THEN 0 ELSE 1)
        /\ Cardinality(Queued') \in Nat /\ Cardinality(Queued) \in Nat
    BY Tally DEF Base
  <2>3. completing' = NoEvent /\ completing # NoEvent
    BY <1>4
  <2>4. Counted' = Cardinality(Queued') + 0 /\ Counted = Cardinality(Queued) + 1
    BY <2>2, <2>3
  <2> QED BY <2>1, <2>2, <2>4
<1>13. \A u \in Thread : vlock = u /\ call[u] = "qbuf" => arg[u] \in Slot
  BY DEF Base, Sound, ArgsOK
<1>14. \A j \in Slot : (Completing(j) <=> j = i) /\ ~Completing(j)'
  BY <1>1, <1>4, EventSlots DEF Completing
<1>15. Sound'
  <2>1. \A u \in Thread : ArgsOK(u)'
    BY <1>4, <1>9 DEF Base, Sound, ArgsOK, flagVars, arrayVars, callVars
  <2>2. ASSUME NEW u \in Thread PROVE QbufOK(u)'
    <3>1. QbufOK(u)
      BY DEF Base, Sound
    <3>2. arg' = arg /\ call' = call /\ old_flags' = old_flags
      BY <1>4 DEF callVars
    <3> QED BY <1>4, <1>7, <1>8, <1>9, <1>13, <1>14, <3>1, <3>2 DEF QbufOK
  <2>3. BoundsOK'
    BY <1>4, <1>5, <1>8 DEF Base, Sound, BoundsOK, arrayVars
  <2>4. CountOK'
    <3>1. queued_bufs \in Nat /\ queued_bufs >= Counted
      BY DEF Base, Sound, CountOK
    <3>2. queued_bufs' = queued_bufs - 1
      BY <1>4
    <3>3. queued_bufs' \in Nat /\ queued_bufs' >= Counted'
      BY <1>12, <3>1, <3>2
    <3> QED BY <3>3 DEF CountOK
  <2> QED BY <2>1, <2>2, <2>3, <2>4 DEF Sound
<1>16. ASSUME SlotsOK PROVE SlotsOK'
  <2>1. g = EventFlags(completing) /\ slots[i] = g
    BY <1>1, <1>2, <1>4, <1>16 DEF SlotsOK
  <2>2. "QUEUED" \notin f /\ "DONE" \notin slots[i] /\ "QUEUED" \notin slots[i]
    BY <1>3, <1>6, <2>1
  <2>3. Queued' = Queued
    BY <1>8, <2>2 DEF Queued
  <2>4. queued_bufs' = Counted'
    <3>1. queued_bufs = Counted
      BY <1>16 DEF SlotsOK
    <3>2. queued_bufs' = queued_bufs - 1 /\ Cardinality(Queued') = Cardinality(Queued)
      BY <1>4, <2>3
    <3> QED BY <1>12, <3>1, <3>2
  <2>5. ASSUME NEW u \in Thread PROVE OpenOK(u)'
    <3>1. OpenOK(u)
      BY <1>16 DEF SlotsOK
    <3>2. arg' = arg /\ call' = call /\ old_flags' = old_flags
      BY <1>4 DEF callVars
    <3> QED BY <1>4, <1>8, <1>9, <1>13, <1>14, <3>1, <3>2 DEF OpenOK, Unused
  <2>6. \A j \in Slot : "QUEUED" \in slots'[j] => "DONE" \notin slots'[j]
    BY <1>8, <1>16, <2>2 DEF SlotsOK
  <2>7. ListOK'
    <3> DEFINE n == Len(pending_dqbufs) + 1
    <3>1. PICK list : list = Append(pending_dqbufs, i)
      OBVIOUS
    <3>2. /\ list[n] = i /\ n \in DOMAIN list
          /\ \A k \in DOMAIN pending_dqbufs : k \in DOMAIN list /\ list[k] = pending_dqbufs[k]
          /\ \A k \in DOMAIN list : k \in DOMAIN pending_dqbufs \/ k = n
      BY <1>5, <1>10, <3>1, Pushed
    <3> HIDE DEF n
    <3>3. \A k \in DOMAIN pending_dqbufs : /\ "DONE" \in slots[pending_dqbufs[k]]
                                           /\ pending_dqbufs[k] \in Slot
                                           /\ pending_dqbufs[k] # i
      BY <1>10, <1>16, <2>2 DEF SlotsOK, ListOK
    <3>4. \A k \in DOMAIN list : "DONE" \in slots'[list[k]]
      BY <1>7, <1>8, <3>2, <3>3
    <3>5. ASSUME NEW j \in Slot, "DONE" \in slots'[j] PROVE \E k \in DOMAIN list : list[k] = j
      <4>1. CASE j = i
        BY <3>2, <4>1
      <4>2. CASE j # i
        <5>1. PICK k \in DOMAIN pending_dqbufs : pending_dqbufs[k] = j
          BY <1>8, <1>16, <3>5, <4>2 DEF SlotsOK, ListOK
        <5> QED BY <3>2, <5>1
      <4> QED BY <4>1, <4>2
    <3>6. ASSUME NEW k \in DOMAIN list, NEW l \in DOMAIN list, list[k] = list[l] PROVE k = l
      BY <1>16, <3>2, <3>3, <3>6 DEF SlotsOK, ListOK
    <3> QED BY <1>4, <3>1, <3>4, <3>5, <3>6 DEF ListOK
  <2>8. Memory = "DMABUF" => armed' = Queued'
    BY <1>4, <1>16, <2>3 DEF SlotsOK
  <2> QED BY <1>4, <2>4, <2>5, <2>6, <2>7, <2>8 DEF SlotsOK
<1> QED BY <1>4, <1>9, <1>11, <1>15, <1>16 DEF Base

-----------------------------------------------------------------------------
(* Every step is one of these.                                             *)

\* Steps that leave the buffers alone ...
Quiet ==
    \/ \E t \in Thread : \E c \in AtOnce, a \in 0 .. MaxBufs : Proper(c, a) /\ Begins(t, c, a)
    \/ \E t \in Thread : Waits(t) \/ Ends(t) \/ CreateBufsSwitch(t)
    \/ \E t \in Thread : StartDrain(t) \/ Drained(t) \/ DeviceExecutes(t)
    \/ WorkerEnters \/ WorkerLeaves \/ ErrorEvent \/ IgnoreEvent
    \/ RemoveDevice \/ \E t \in Thread : Timeout(t)
    \/ StopQueues \/ Reports

\* ... and those that do not, or that replace the array.
Busy ==
    \/ \E t \in Thread : \E i \in Slot : Qbuf(t, i)
    \/ \E t \in Thread : QbufMark(t) \/ QbufFails(t) \/ PrepareBufReturn(t) \/ DqbufTake(t)
    \/ \E t \in Thread : CreateBufsCopy(t)
    \/ StartCompletion \/ EndCompletion

Clears == \E t \in Thread : Clear(t)
Step == Quiet \/ Busy \/ Clears

\* An ioctl that starts queues a buffer, only sends a command, or waits.
LEMMA StartSteps ==
    ASSUME Base, NEW t \in Thread, Start(t)
    PROVE  Step
<1>1. 0 \in 0 .. MaxBufs /\ allocated_bufs \in 0 .. MaxBufs /\ MaxBufs \in Nat
  BY Names DEF Base, Typed, QueueTyped
<1>2. \/ \E i \in Slot : Qbuf(t, i)
      \/ \E i \in Slot : PrepareBuf(t, i)
      \/ StreamOn(t) \/ StreamOff(t) \/ CreateBufs(t) \/ DecoderStart(t) \/ Dqbuf(t)
      \/ \E n \in 0 .. MaxBufs : ReqBufs(t, n)
  BY DEF Start
<1>3. ASSUME NEW i \in Slot, Qbuf(t, i) PROVE Step
  BY <1>3 DEF Step, Busy
<1>4. ASSUME NEW c \in AtOnce, NEW a, Proper(c, a), Begins(t, c, a)
      PROVE  Step
  <2>1. a \in 0 .. MaxBufs
    BY <1>4 DEF Proper
  <2> QED BY <1>4, <2>1 DEF Step, Quiet
<1>5. ASSUME NEW i \in Slot, PrepareBuf(t, i) PROVE Step
  <2>1. Begins(t, "prepare_buf", i) /\ i \in 1 .. allocated_bufs
    BY <1>5 DEF PrepareBuf, Begins, Allocated
  <2>2. i \in 0 .. MaxBufs /\ i <= allocated_bufs
    BY <1>1, <2>1 DEF Slot
  <2>3. Proper("prepare_buf", i) /\ "prepare_buf" \in AtOnce
    BY <2>2 DEF Proper, AtOnce, Ioctl
  <2> QED BY <1>4, <2>1, <2>3
<1>6. CASE StreamOn(t)
  <2>1. Begins(t, "streamon", 0) /\ Proper("streamon", 0) /\ "streamon" \in AtOnce
    BY <1>1, <1>6 DEF StreamOn, Begins, Proper, AtOnce, Ioctl
  <2> QED BY <1>4, <2>1
<1>7. CASE StreamOff(t)
  <2>1. Begins(t, "streamoff", 0) /\ Proper("streamoff", 0) /\ "streamoff" \in AtOnce
    BY <1>1, <1>7 DEF StreamOff, Begins, Proper, AtOnce, Ioctl
  <2> QED BY <1>4, <2>1
<1>8. CASE DecoderStart(t)
  <2>1. Begins(t, "decoder_start", 0) /\ Proper("decoder_start", 0) /\ "decoder_start" \in AtOnce
    BY <1>1, <1>8 DEF DecoderStart, Begins, Proper, AtOnce, Ioctl
  <2> QED BY <1>4, <2>1
<1>9. ASSUME NEW n \in 0 .. MaxBufs, ReqBufs(t, n) PROVE Step
  <2>1. Begins(t, "reqbufs", n) /\ Proper("reqbufs", n) /\ "reqbufs" \in AtOnce
    BY <1>9 DEF ReqBufs, Begins, Proper, AtOnce, Ioctl
  <2> QED BY <1>4, <2>1
<1>10. CASE CreateBufs(t)
  <2>1. Begins(t, "create_bufs", allocated_bufs + 1) /\ allocated_bufs < MaxBufs
    BY <1>10 DEF CreateBufs, Begins
  <2>2. allocated_bufs + 1 \in 0 .. MaxBufs /\ allocated_bufs <= allocated_bufs + 1
    BY <1>1, <2>1
  <2>3. Proper("create_bufs", allocated_bufs + 1) /\ "create_bufs" \in AtOnce
    BY <2>2 DEF Proper, AtOnce, Ioctl
  <2> QED BY <1>4, <2>1, <2>3
<1>11. CASE Dqbuf(t)
  <2>1. Waits(t)
    BY <1>11 DEF Dqbuf, Enter, Waits, Outside
  <2> QED BY <2>1 DEF Step, Quiet
<1> QED BY <1>2, <1>3, <1>5, <1>6, <1>7, <1>8, <1>9, <1>10, <1>11

\* An ioctl that goes on returns, waits, or works on the queue.
LEMMA ContinueSteps ==
    ASSUME Base, NEW t \in Thread, Continue(t)
    PROVE  Step
<1>1. streaming \in BOOLEAN /\ is_capture_last \in BOOLEAN
  BY DEF Base, Typed, QueueTyped
<1>2. ASSUME Ends(t) PROVE Step
  BY <1>2 DEF Step, Quiet
<1>3. CASE QbufSucceeds(t)
  <2>1. Ends(t)
    BY <1>1, <1>3 DEF QbufSucceeds, Replied, Ends, Cancel, queueVars, flagVars
  <2> QED BY <1>2, <2>1
<1>4. CASE CommandFails(t)
  <2>1. Ends(t)
    BY <1>1, <1>4 DEF CommandFails, Replied, Ends, queueVars, flagVars
  <2> QED BY <1>2, <2>1
<1>5. CASE StreamOnReturn(t)
  <2>1. Ends(t)
    BY <1>1, <1>5 DEF StreamOnReturn, Replied, Ends, Cancel
  <2> QED BY <1>2, <2>1
<1>6. CASE DecoderStartReturn(t)
  <2>1. Ends(t)
    BY <1>1, <1>6 DEF DecoderStartReturn, Replied, Ends, Cancel
  <2> QED BY <1>2, <2>1
<1>7. CASE CreateBufsNothing(t)
  <2>1. Ends(t)
    BY <1>1, <1>7 DEF CreateBufsNothing, Replied, Ends, Cancel, queueVars, flagVars
  <2> QED BY <1>2, <2>1
<1>8. CASE DqbufTest(t) \/ DqbufNoDevice(t)
  <2>1. Waits(t)
    BY <1>8 DEF DqbufTest, DqbufNoDevice, Waits, Outside
  <2> QED BY <2>1 DEF Step, Quiet
<1>9. CASE QbufMark(t) \/ QbufFails(t) \/ PrepareBufReturn(t) \/ DqbufTake(t) \/ CreateBufsCopy(t)
  BY <1>9 DEF Step, Busy
<1>10. CASE StartDrain(t) \/ Drained(t) \/ CreateBufsSwitch(t)
  BY <1>10 DEF Step, Quiet
<1>11. CASE Clear(t)
  BY <1>11 DEF Step, Clears
<1> QED BY <1>3, <1>4, <1>5, <1>6, <1>7, <1>8, <1>9, <1>10, <1>11 DEF Continue

\* Every step is one of the steps treated above.
LEMMA NextSteps ==
    ASSUME Base, Next
    PROVE  Step
<1>1. ASSUME NEW t \in Thread, Start(t) \/ Continue(t) \/ DqbufInterrupted(t) PROVE Step
  <2>1. CASE DqbufInterrupted(t)
    <3>1. Waits(t)
      BY <2>1 DEF DqbufInterrupted, Waits, Outside
    <3> QED BY <3>1 DEF Step, Quiet
  <2> QED BY <1>1, <2>1, StartSteps, ContinueSteps
<1>2. ASSUME NEW t \in Thread, Timeout(t) \/ DeviceExecutes(t) PROVE Step
  BY <1>2 DEF Step, Quiet
<1>3. ASSUME \/ WorkerEnters \/ WorkerLeaves \/ ErrorEvent \/ IgnoreEvent
             \/ RemoveDevice \/ StopQueues \/ DeviceFails
             \/ \E b \in dev_queue, last \in BOOLEAN : DeviceCompletes(b, last)
      PROVE  Step
  BY <1>3 DEF Step, Quiet, Reports
<1>4. ASSUME StartCompletion \/ EndCompletion PROVE Step
  BY <1>4 DEF Step, Busy
<1> QED BY <1>1, <1>2, <1>3, <1>4 DEF Next, EventWork

\* A quiet step preserves what is known of the queue ...
LEMMA QuietBase ==
    ASSUME Base, Quiet
    PROVE  Base' /\ Still /\ (disturbed => disturbed')
BY BeginsBase, WaitsBase, EndsBase, CreateBufsSwitchBase, StartDrainBase, DrainedBase,
   DeviceExecutesBase, WorkerBase, NoCompletionBase, GoneBase, StopQueuesBase, DeviceReportsBase
   DEF Quiet

\* ... and so does a step that changes it, unless it crosses a completion.
LEMMA BusyBase ==
    ASSUME Base, Busy
    PROVE  Base' /\ (disturbed => disturbed') /\ (SlotsOK /\ ~disturbed' => SlotsOK')
BY QbufBase, QbufMarkBase, QbufFailsBase, PrepareBufBase, DqbufTakeBase, CreateBufsCopyBase,
   StartCompletionBase, EndCompletionBase DEF Busy

\* What is known of the queue.
Calm == disturbed \/ SlotsOK
Known == Base /\ Calm

LEMMA NextKnown == Known /\ [Next]_vars => Known'
<1>1. ASSUME Known, Next PROVE Known'
  <2>1. Base /\ Step /\ (disturbed \/ SlotsOK)
    BY <1>1, NextSteps DEF Known, Calm
  <2>2. CASE Quiet
    BY <2>1, <2>2, QuietBase, StillSlots DEF Known, Calm
  <2>3. CASE Busy
    BY <2>1, <2>3, BusyBase DEF Known, Calm
  <2>4. CASE Clears
    BY <2>1, <2>4, ClearBase DEF Known, Calm, Clears
  <2> QED BY <2>1, <2>2, <2>3, <2>4 DEF Step
<1>2. ASSUME Known, UNCHANGED vars PROVE Known'
  <2>1. /\ UNCHANGED threadVars /\ UNCHANGED queueVars /\ UNCHANGED historyVars
        /\ UNCHANGED deviceVars /\ Base
    BY <1>2 DEF vars, Known
  <2>2. Typed'
    BY <2>1, SameTypes DEF Typed
  <2>3. UNCHANGED <<vlock, events_lock, pc, call, reply, disconnected, stopped, eventq, completing,
                    dev_queue, dev_streaming>> /\ UNCHANGED callVars
    BY <2>1 DEF threadVars, callVars, deviceVars, eventVars
  <2>4. LocksOK'
    BY <2>1, <2>3 DEF Base, LocksOK, ThreadOK, CancelOK, Sealed, StoppedOK
  <2>5. Still /\ SameCall /\ UNCHANGED disturbed
    BY <2>1, <2>3, Unmoved
  <2>6. Base'
    BY <2>1, <2>2, <2>4, <2>5, StillBase
  <2> QED BY <1>2, <2>5, <2>6, StillSlots DEF Known, Calm
<1> QED BY <1>1, <1>2

-----------------------------------------------------------------------------
(* Completions: steps that leave them where they are.                      *)

\* Where the buffers of the device and of the events are.
LEMMA FlightTypes ==
    ASSUME Base
    PROVE  /\ \A b \in dev_queue : b[1] \in Slot
           /\ \A k \in DOMAIN eventq : eventq[k] \in Event /\ eventq[k].slot \in Slot
           /\ \A t \in Thread : vlock = t /\ call[t] = "qbuf" => arg[t] \in Slot
<1>1. eventq \in Seq(Event) /\ dev_queue \subseteq Slot \X (1 .. MaxQbufs)
  BY DEF Base, Typed, DeviceTyped
<1>2. \A k \in DOMAIN eventq : eventq[k] \in Event
  BY <1>1
<1>3. \A t \in Thread : vlock = t /\ call[t] = "qbuf" => arg[t] \in Slot
  BY DEF Base, Sound, ArgsOK
<1> QED BY <1>1, <1>2, <1>3, EventSlots

\* The same buffers are queued, and no more are done.
FlightStill ==
    /\ UNCHANGED <<dev_queue, eventq, import_needs_cancel, slot_qbuf, done_qbuf>>
    /\ \A i \in Slot : /\ "QUEUED" \in slots'[i] <=> "QUEUED" \in slots[i]
                       /\ "DONE" \in slots'[i] \/ Completing(i)' => "DONE" \in slots[i] \/ Completing(i)
    /\ Sealed => Sealed'

\* Such a step leaves every buffer in flight where it is.
LEMMA StillFlight ==
    ASSUME Base, Flight, FlightStill
    PROVE  /\ Held' /\ Reported' /\ Once' /\ FreshOK'
           /\ \A i : InFlight(i)' <=> InFlight(i)
<1>1. /\ \A b \in dev_queue : b[1] \in Slot
      /\ \A k \in DOMAIN eventq : eventq[k].slot \in Slot
  BY FlightTypes
<1>2. Held' /\ Reported'
  BY <1>1 DEF Flight, Held, Reported, FlightStill
<1>3. Once'
  BY DEF Flight, Once, FlightStill
<1>4. FreshOK'
  BY DEF Flight, FreshOK, FlightStill
<1>5. \A i : InFlight(i)' <=> InFlight(i)
  BY DEF InFlight, WithDevice, OnItsWay, FlightStill
<1> QED BY <1>2, <1>3, <1>4, <1>5

\* The ioctls stay where they are, too.
Stays ==
    /\ FlightStill
    /\ UNCHANGED <<vlock, reply, call, arg>>
    /\ disconnected => disconnected'
    /\ \A t \in Thread : pc'[t] = "queueing" <=> pc[t] = "queueing"

LEMMA StaysFlight ==
    ASSUME Base, Flight, Stays
    PROVE  Flight'
<1>1. /\ Held' /\ Reported' /\ Once' /\ FreshOK' /\ \A i : InFlight(i)' <=> InFlight(i)
  BY StillFlight DEF Stays
<1>2. \A i \in Slot : "QUEUED" \in slots'[i] <=> "QUEUED" \in slots[i]
  BY DEF Stays, FlightStill
<1>3. ASSUME NEW t \in Thread PROVE CallOK(t)'
  <2>1. CallOK(t) /\ (vlock = t /\ call[t] = "qbuf" => arg[t] \in Slot)
    BY FlightTypes DEF Flight
  <2> QED BY <1>1, <1>2, <2>1 DEF CallOK, Stays
<1>4. NoneLost'
  BY <1>1, <1>2 DEF Flight, NoneLost, Queueing, Cancelling, Stays
<1> QED BY <1>1, <1>3, <1>4 DEF Flight

\* The ioctl returns; a QBUF that succeeds leaves its buffer with the device, or done.
Leaves(t) ==
    /\ FlightStill
    /\ vlock = t /\ \A u \in Thread : vlock' # u
    /\ UNCHANGED disconnected
    /\ call[t] = "qbuf" => reply = "ok"
    /\ call[t] \in Cancel => reply # "ok"

LEMMA LeavesFlight ==
    ASSUME Base, Flight, NEW t \in Thread, Leaves(t)
    PROVE  Flight'
<1>1. /\ Held' /\ Reported' /\ Once' /\ FreshOK' /\ \A i : InFlight(i)' <=> InFlight(i)
  BY StillFlight DEF Leaves
<1>2. \A u \in Thread : CallOK(u)'
  BY DEF Leaves, CallOK
<1>3. ASSUME NEW i \in Slot, "QUEUED" \in slots'[i] PROVE InFlight(i) \/ disconnected
  <2>1. "QUEUED" \in slots[i]
    BY <1>3 DEF Leaves, FlightStill
  <2>2. ~Cancelling
    BY DEF Leaves, Cancelling
  <2>3. Queueing(i) => InFlight(i) \/ disconnected
    BY <2>1 DEF Queueing, Flight, CallOK, Leaves
  <2> QED BY <2>1, <2>2, <2>3 DEF Flight, NoneLost
<1>4. NoneLost'
  BY <1>1, <1>3 DEF NoneLost, Leaves
<1> QED BY <1>1, <1>2, <1>4 DEF Flight

\* vlock was free, and nothing has been answered yet.
Arrives(t) ==
    /\ FlightStill
    /\ vlock = None /\ vlock' = t
    /\ reply' = "none"
    /\ UNCHANGED disconnected
    /\ call'[t] = "qbuf" => pc'[t] = "queueing" /\ ~InFlight(arg'[t])

LEMMA ArrivesFlight ==
    ASSUME Base, Flight, NEW t \in Thread, Arrives(t)
    PROVE  Flight'
<1>1. /\ Held' /\ Reported' /\ Once' /\ FreshOK' /\ \A i : InFlight(i)' <=> InFlight(i)
  BY StillFlight DEF Arrives
<1>2. ASSUME NEW u \in Thread PROVE CallOK(u)'
  BY <1>1 DEF Arrives, CallOK
<1>3. \A i \in Slot : "QUEUED" \in slots[i] => InFlight(i) \/ disconnected
  BY Names DEF Arrives, Flight, NoneLost, Queueing, Cancelling
<1>4. NoneLost'
  BY <1>1, <1>3 DEF NoneLost, Arrives, FlightStill
<1> QED BY <1>1, <1>2, <1>4 DEF Flight

\* An ioctl that sends its command at once ...
LEMMA BeginsFlight ==
    ASSUME Base, Flight, NEW t \in Thread, NEW c \in AtOnce, NEW a, Begins(t, c, a)
    PROVE  Flight'
<1>1. /\ vlock = None /\ vlock' = t /\ call'[t] = c /\ c # "qbuf"
      /\ UNCHANGED <<reply, disconnected, events_lock, slots, completing, dev_queue, eventq,
                     import_needs_cancel, slot_qbuf, done_qbuf>>
  BY DEF Begins, Enter, Send, Base, Typed, ThreadTyped, AtOnce, deviceVars, eventVars, queueVars,
         flagVars, bufferVars, historyVars
<1>2. reply = "none"
  BY <1>1 DEF Base, LocksOK
<1>3. Arrives(t)
  BY <1>1, <1>2 DEF Arrives, FlightStill, Sealed, Completing
<1> QED BY <1>3, ArrivesFlight

\* ... and one that returns without touching a buffer.
LEMMA EndsFlight ==
    ASSUME Base, Flight, NEW t \in Thread, Ends(t)
    PROVE  Flight'
<1>1. vlock = t /\ \A u \in Thread : vlock' # u
  BY Returned DEF Ends, Inside
<1>2. UNCHANGED <<disconnected, events_lock, slots, completing, dev_queue, eventq,
                  import_needs_cancel, slot_qbuf, done_qbuf>>
  BY DEF Ends, deviceVars, eventVars, bufferVars, historyVars
<1>3. Leaves(t)
  BY <1>1, <1>2 DEF Ends, Leaves, FlightStill, Sealed, Completing
<1> QED BY <1>3, LeavesFlight

\* A thread that waits, the array of a CREATE_BUFS, and the drain.
LEMMA WaitsFlight ==
    ASSUME Base, Flight, NEW t \in Thread,
           Waits(t) \/ CreateBufsSwitch(t) \/ StartDrain(t) \/ Drained(t)
    PROVE  Flight'
<1>1. UNCHANGED <<vlock, reply, call, arg, disconnected, slots, completing, dev_queue, eventq,
                  import_needs_cancel, slot_qbuf, done_qbuf>>
  <2>1. CASE Waits(t)
    BY <2>1 DEF Waits, callVars, deviceVars, eventVars, queueVars, flagVars, bufferVars, historyVars
  <2>2. CASE CreateBufsSwitch(t)
    BY <2>2 DEF CreateBufsSwitch, Replied, callVars, deviceVars, eventVars, flagVars, bufferVars,
                historyVars
  <2>3. CASE StartDrain(t)
    BY <2>3 DEF StartDrain, Replied, callVars, deviceVars, eventVars, queueVars, flagVars,
                bufferVars, historyVars
  <2>4. CASE Drained(t)
    BY <2>4 DEF Drained, callVars, deviceVars, eventVars, queueVars, flagVars, bufferVars, historyVars
  <2> QED BY <2>1, <2>2, <2>3, <2>4
<1>2. pc[t] # "queueing" /\ \E l \in Pc \ {"queueing"} : pc' = [pc EXCEPT ![t] = l]
  <2>1. CASE Waits(t)
    BY <2>1 DEF Waits, Goto, Outside, Pc
  <2>2. CASE CreateBufsSwitch(t)
    BY <2>2 DEF CreateBufsSwitch, Replied, Goto, Pc
  <2>3. CASE StartDrain(t)
    BY <2>3 DEF StartDrain, Replied, Goto, Pc
  <2>4. CASE Drained(t)
    BY <2>4 DEF Drained, Goto, Pc
  <2> QED BY <2>1, <2>2, <2>3, <2>4
<1>3. \A u \in Thread : pc'[u] = "queueing" <=> pc[u] = "queueing"
  BY <1>2 DEF Base, Typed, ThreadTyped
<1>4. Sealed => Sealed'
  <2>1. CASE Waits(t)
    BY <1>1, <2>1 DEF Waits, Sealed
  <2>2. CASE CreateBufsSwitch(t)
    BY <1>1, <2>2 DEF CreateBufsSwitch, Sealed
  <2>3. CASE StartDrain(t)
    BY <1>1, <2>3 DEF StartDrain, Sealed
  <2>4. CASE Drained(t)
    BY <1>1, <2>4 DEF Drained, Sealed
  <2> QED BY <2>1, <2>2, <2>3, <2>4
<1>5. Stays
  BY <1>1, <1>3, <1>4 DEF Stays, FlightStill, Completing
<1> QED BY <1>5, StaysFlight

\* The worker enters only while the device is there, and a device that is gone stays so.
LEMMA OthersFlight ==
    ASSUME Base, Flight,
           WorkerEnters \/ WorkerLeaves \/ RemoveDevice \/ \E t \in Thread : Timeout(t)
    PROVE  Flight'
<1>1. /\ UNCHANGED <<vlock, reply, call, arg, slots, completing, dev_queue, eventq,
                     import_needs_cancel, slot_qbuf, done_qbuf>>
      /\ disconnected => disconnected'
      /\ Sealed => Sealed'
      /\ \A u \in Thread : pc'[u] = "queueing" <=> pc[u] = "queueing"
  <2>1. CASE WorkerEnters \/ WorkerLeaves
    BY <2>1 DEF WorkerEnters, WorkerLeaves, Sealed, callVars, deviceVars, eventVars, queueVars,
                flagVars, bufferVars, historyVars
  <2>2. CASE RemoveDevice
    BY <2>2 DEF RemoveDevice, Sealed, threadVars, callVars, eventVars, queueVars, flagVars,
                bufferVars, historyVars
  <2>3. ASSUME NEW t \in Thread, Timeout(t)
        PROVE  /\ UNCHANGED <<vlock, reply, call, arg, slots, completing, dev_queue, eventq,
                              import_needs_cancel, slot_qbuf, done_qbuf>>
               /\ disconnected' /\ (Sealed => Sealed')
               /\ \A u \in Thread : pc'[u] = "queueing" <=> pc[u] = "queueing"
    <3>1. /\ UNCHANGED <<vlock, reply, call, arg, slots, completing, dev_queue, eventq,
                         import_needs_cancel, slot_qbuf, done_qbuf, events_lock>>
          /\ disconnected'
      BY <2>3 DEF Timeout, callVars, eventVars, queueVars, flagVars, bufferVars, historyVars
    <3>2. \A u \in Thread : pc'[u] = "queueing" <=> pc[u] = "queueing"
      BY <2>3 DEF Timeout, Goto, Base, Typed, ThreadTyped
    <3> QED BY <3>1, <3>2 DEF Sealed
  <2> QED BY <2>1, <2>2, <2>3
<1>2. Stays
  BY <1>1 DEF Stays, FlightStill, Completing
<1> QED BY <1>2, StaysFlight

-----------------------------------------------------------------------------
(* Completions: the device.                                                *)

\* The reset takes what the device and the eventq hold.
LEMMA StopQueuesFlight ==
    ASSUME Base, Flight, StopQueues
    PROVE  Flight'
<1>1. /\ disconnected' /\ dev_queue' = {} /\ eventq' = <<>>
      /\ UNCHANGED <<vlock, call, arg, slots, completing, import_needs_cancel, slot_qbuf, done_qbuf>>
  BY DEF StopQueues, callVars, queueVars, flagVars, bufferVars, historyVars
<1>2. reply' = "error" \/ reply' = reply
  BY DEF StopQueues
<1>3. \A t \in Thread : pc'[t] # "queueing" => pc[t] # "queueing"
  BY DEF StopQueues, Woken
<1>4. Held' /\ Reported' /\ Once' /\ \A i : ~InFlight(i)'
  BY <1>1 DEF Held, Reported, Once, InFlight, WithDevice, OnItsWay
<1>5. FreshOK'
  BY <1>1 DEF Flight, FreshOK, Completing
<1>6. ASSUME NEW t \in Thread PROVE CallOK(t)'
  BY <1>1, <1>2, <1>3, <1>4 DEF Flight, CallOK
<1>7. NoneLost'
  BY <1>1 DEF NoneLost
<1> QED BY <1>4, <1>5, <1>6, <1>7 DEF Flight

\* The device takes the buffer of a QBUF, gives up all of them, or does nothing to them.
LEMMA DeviceExecutesFlight ==
    ASSUME ErrorsBlock, Base, Flight, NEW t \in Thread, DeviceExecutes(t)
    PROVE  Flight'
<1>1. /\ pc[t] \in {"command", "stopping"} /\ reply = "none"
      /\ UNCHANGED <<vlock, call, arg, events_lock, disconnected, eventq, slots, completing,
                     import_needs_cancel, slot_qbuf, done_qbuf>>
  BY DEF DeviceExecutes, callVars, eventVars, queueVars, flagVars, bufferVars, historyVars
<1>2. Executes(t)
  BY DEF DeviceExecutes, DeviceQbuf, Executes, Cancel, Base, Typed, DeviceTyped
<1>3. /\ vlock = t /\ (pc[t] = "stopping" => disconnected) /\ pc[t] # "queueing"
      /\ \A u \in Thread : u # t => vlock' # u
  BY <1>1, Owner DEF Inside, Base, LocksOK, ThreadOK
<1>4. \A r \in {"ok", "error"} : Answer(t, r) => reply' = r \/ (reply' = "late" /\ disconnected)
  BY <1>1, <1>3 DEF Answer
<1>5. Reported' /\ FreshOK'
  BY <1>1 DEF Flight, Reported, FreshOK, Completing, Sealed
<1>6. ~Cancelling
  BY <1>1 DEF Cancelling
<1>7. CASE /\ call[t] = "qbuf" /\ \A b \in dev_queue : b[1] # arg[t]
           /\ dev_queue' = dev_queue \cup {<<arg[t], slot_qbuf[arg[t]]>>}
           /\ Answer(t, "ok") \/ (FaultyReplies /\ Answer(t, "error"))
  <2>1. PICK i : i = arg[t]
    OBVIOUS
  <2>2. "QUEUED" \in slots[i] /\ ~InFlight(i)
    BY <1>1, <1>3, <1>7, <2>1 DEF Flight, CallOK
  <2>3. PICK new : dev_queue' = dev_queue \cup {new} /\ new[1] = i /\ new[2] = slot_qbuf[i]
    <3>1. dev_queue' = dev_queue \cup {<<i, slot_qbuf[i]>>}
      BY <1>7, <2>1
    <3>2. <<i, slot_qbuf[i]>>[1] = i /\ <<i, slot_qbuf[i]>>[2] = slot_qbuf[i]
      OBVIOUS
    <3> QED BY <3>1, <3>2, Zenon
  <2>4. Held'
    BY <1>1, <2>2, <2>3 DEF Flight, Held
  <2>5. Once'
    <3>1. \A b \in dev_queue : b[1] # i
      BY <2>2 DEF InFlight, WithDevice
    <3>2. \A k \in DOMAIN eventq : IsDone(eventq[k]) => eventq[k].slot # i
      BY <2>2 DEF InFlight, OnItsWay
    <3> QED BY <1>1, <2>3, <3>1, <3>2 DEF Flight, Once
  <2>6. InFlight(i)' /\ \A j : InFlight(j) => InFlight(j)'
    BY <1>1, <2>3 DEF InFlight, WithDevice, OnItsWay
  <2>7. ASSUME NEW u \in Thread PROVE CallOK(u)'
    <3>1. arg'[t] = i
      BY <1>1, <2>1
    <3>2. reply' \in {"ok", "late"} \/ (FaultyReplies /\ reply' = "error")
      BY <1>4, <1>7
    <3> QED BY <1>3, <2>6, <3>1, <3>2 DEF CallOK, ErrorsBlock
  <2>8. NoneLost'
    BY <1>1, <1>6, <2>6 DEF Flight, NoneLost, Queueing
  <2> QED BY <1>5, <2>4, <2>5, <2>7, <2>8 DEF Flight
<1>8. CASE call[t] \in Cancel /\ dev_queue' = {} /\ Answer(t, "ok")
  <2>1. Held' /\ Once'
    BY <1>1, <1>8 DEF Flight, Held, Once
  <2>2. reply' = "ok" \/ (reply' = "late" /\ disconnected)
    BY <1>4, <1>8
  <2>3. call'[t] \in Cancel /\ call'[t] # "qbuf" /\ vlock' = t
    BY <1>1, <1>3, <1>8 DEF Cancel
  <2>4. \A u \in Thread : CallOK(u)'
    BY <1>3, <2>3 DEF CallOK
  <2>5. NoneLost'
    BY <1>1, <2>2, <2>3 DEF NoneLost, Cancelling
  <2> QED BY <1>5, <2>1, <2>4, <2>5 DEF Flight
<1>9. CASE /\ UNCHANGED dev_queue
           /\ Answer(t, "error") \/ (call[t] \notin Cancel \cup {"qbuf"} /\ Answer(t, "ok"))
  <2>1. Held' /\ Once' /\ \A i : InFlight(i)' <=> InFlight(i)
    BY <1>1, <1>9 DEF Flight, Held, Once, InFlight, WithDevice, OnItsWay
  <2>2. reply' \in {"error", "late"} \/ (call[t] # "qbuf" /\ reply' = "ok")
    BY <1>4, <1>9
  <2>3. ASSUME NEW u \in Thread PROVE CallOK(u)'
    <3>1. call'[t] = call[t] /\ arg'[t] = arg[t]
      BY <1>1
    <3>2. call[t] = "qbuf" => ~InFlight(arg[t])
      BY <1>1, <1>3 DEF Flight, CallOK
    <3> QED BY <1>3, <2>1, <2>2, <3>1, <3>2 DEF CallOK
  <2>4. NoneLost'
    BY <1>1, <1>6, <2>1 DEF Flight, NoneLost, Queueing
  <2> QED BY <1>5, <2>1, <2>3, <2>4 DEF Flight
<1> QED BY <1>2, <1>7, <1>8, <1>9 DEF Executes

\* A completion is of a buffer that the device held.
LEMMA DeviceCompletesFlight ==
    ASSUME Base, Flight, NEW b \in dev_queue, NEW last \in BOOLEAN, DeviceCompletes(b, last)
    PROVE  Flight'
<1> DEFINE e == [slot |-> b[1], qbuf |-> b[2], last |-> last, error |-> FALSE]
           n == Len(eventq) + 1
<1>1. /\ dev_streaming /\ dev_queue' = dev_queue \ {b} /\ eventq' = Append(eventq, e)
      /\ UNCHANGED <<vlock, call, arg, pc, reply, events_lock, disconnected, slots, completing,
                     import_needs_cancel, slot_qbuf, done_qbuf>>
  BY DEF DeviceCompletes, threadVars, callVars, queueVars, flagVars, bufferVars, historyVars
<1>2. e \in Event /\ e.slot = b[1] /\ e.qbuf = b[2] /\ IsDone(e)
  BY Names DEF Event, IsDone, Base, Typed, DeviceTyped
<1>3. /\ n \in DOMAIN eventq' /\ eventq'[n] = e /\ n \notin DOMAIN eventq
      /\ \A k \in DOMAIN eventq : k \in DOMAIN eventq' /\ eventq'[k] = eventq[k]
      /\ \A k \in DOMAIN eventq' : k \in DOMAIN eventq \/ k = n
  <2>1. eventq \in Seq(Event)
    BY DEF Base, Typed, DeviceTyped
  <2> QED BY <1>1, <1>2, <2>1, Pushed
<1> HIDE DEF e, n
<1>4. Held' /\ FreshOK' /\ (Sealed' <=> Sealed)
  BY <1>1 DEF Flight, Held, FreshOK, Completing, Sealed
<1>5. Reported'
  <2>1. ASSUME NEW k \in DOMAIN eventq', IsDone(eventq'[k])
        PROVE  /\ "QUEUED" \in slots[eventq'[k].slot] \/ import_needs_cancel \/ Sealed
               /\ "QUEUED" \in slots[eventq'[k].slot] => eventq'[k].qbuf = slot_qbuf[eventq'[k].slot]
    <3>1. CASE k = n
      BY <1>2, <1>3, <3>1 DEF Flight, Held
    <3>2. CASE k # n
      BY <1>3, <2>1, <3>2 DEF Flight, Reported
    <3> QED BY <3>1, <3>2
  <2> QED BY <1>1, <1>4, <2>1 DEF Reported
<1>6. Once'
  <2>1. \A c, d \in dev_queue' : c[1] = d[1] => c = d
    BY <1>1 DEF Flight, Once
  <2>2. \A k \in DOMAIN eventq : IsDone(eventq[k]) => eventq[k].slot # e.slot
    BY <1>2 DEF Flight, Once
  <2>3. ASSUME NEW k \in DOMAIN eventq', NEW l \in DOMAIN eventq',
               IsDone(eventq'[k]), IsDone(eventq'[l]), eventq'[k].slot = eventq'[l].slot
        PROVE  k = l
    BY <1>3, <2>2, <2>3 DEF Flight, Once
  <2>4. ASSUME NEW c \in dev_queue', NEW k \in DOMAIN eventq', IsDone(eventq'[k])
        PROVE  eventq'[k].slot # c[1]
    <3>1. c \in dev_queue /\ c # b /\ c[1] # b[1]
      BY <1>1 DEF Flight, Once
    <3> QED BY <1>2, <1>3, <2>4, <3>1 DEF Flight, Once
  <2> QED BY <2>1, <2>3, <2>4 DEF Once
<1>7. ASSUME NEW i PROVE InFlight(i)' <=> InFlight(i)
  <2>1. OnItsWay(i)' <=> OnItsWay(i) \/ i = b[1]
    BY <1>2, <1>3 DEF OnItsWay
  <2>2. WithDevice(i) => WithDevice(i)' \/ i = b[1]
    BY <1>1 DEF WithDevice
  <2>3. WithDevice(i)' => WithDevice(i)
    BY <1>1 DEF WithDevice
  <2>4. WithDevice(b[1])
    BY DEF WithDevice
  <2> QED BY <2>1, <2>2, <2>3, <2>4 DEF InFlight
<1>8. ASSUME NEW t \in Thread PROVE CallOK(t)'
  BY <1>1, <1>7 DEF Flight, CallOK
<1>9. NoneLost'
  BY <1>1, <1>7 DEF Flight, NoneLost, Queueing, Cancelling
<1> QED BY <1>4, <1>5, <1>6, <1>8, <1>9 DEF Flight

\* An error event is no completion.
LEMMA DeviceFailsFlight ==
    ASSUME Base, Flight, DeviceFails
    PROVE  Flight'
<1> DEFINE e == [slot |-> 1, qbuf |-> 0, last |-> FALSE, error |-> TRUE]
           n == Len(eventq) + 1
<1>1. /\ eventq' = Append(eventq, e)
      /\ UNCHANGED <<vlock, call, arg, pc, reply, events_lock, disconnected, dev_queue, slots,
                     completing, import_needs_cancel, slot_qbuf, done_qbuf>>
  BY DEF DeviceFails, threadVars, callVars, queueVars, flagVars, bufferVars, historyVars
<1>2. e \in Event /\ ~IsDone(e)
  BY QueueAssumption DEF Event, IsDone, Slot
<1>3. /\ n \in DOMAIN eventq' /\ eventq'[n] = e /\ n \notin DOMAIN eventq
      /\ \A k \in DOMAIN eventq : k \in DOMAIN eventq' /\ eventq'[k] = eventq[k]
      /\ \A k \in DOMAIN eventq' : k \in DOMAIN eventq \/ k = n
  <2>1. eventq \in Seq(Event)
    BY DEF Base, Typed, DeviceTyped
  <2> QED BY <1>1, <1>2, <2>1, Pushed
<1> HIDE DEF e, n
<1>4. \A k \in DOMAIN eventq' : IsDone(eventq'[k]) =>
          k \in DOMAIN eventq /\ IsDone(eventq[k]) /\ eventq'[k] = eventq[k]
  BY <1>2, <1>3
<1>5. Held' /\ FreshOK' /\ (Sealed' <=> Sealed)
  BY <1>1 DEF Flight, Held, FreshOK, Completing, Sealed
<1>6. Reported' /\ Once'
  BY <1>1, <1>4, <1>5 DEF Flight, Reported, Once
<1>7. \A i : InFlight(i)' <=> InFlight(i)
  BY <1>1, <1>3, <1>4 DEF InFlight, WithDevice, OnItsWay
<1>8. ASSUME NEW t \in Thread PROVE CallOK(t)'
  BY <1>1, <1>7 DEF Flight, CallOK
<1>9. NoneLost'
  BY <1>1, <1>7 DEF Flight, NoneLost, Queueing, Cancelling
<1> QED BY <1>5, <1>6, <1>8, <1>9 DEF Flight

-----------------------------------------------------------------------------
(* Completions: the driver.                                                *)

\* A buffer that can be queued is not in flight: its completion cannot come late.
LEMMA QbufFlight ==
    ASSUME Base, Flight, NEW t \in Thread, NEW i \in Slot, Qbuf(t, i)
    PROVE  Flight'
<1>1. /\ vlock = None /\ vlock' = t /\ ~disconnected /\ ~import_needs_cancel
      /\ "QUEUED" \notin slots[i]
      /\ call' = [call EXCEPT ![t] = "qbuf"] /\ arg' = [arg EXCEPT ![t] = i]
      /\ pc' = [pc EXCEPT ![t] = "queueing"]
      /\ UNCHANGED <<reply, disconnected, events_lock, slots, completing, dev_queue, eventq,
                     import_needs_cancel, slot_qbuf, done_qbuf>>
  BY DEF Qbuf, Enter, Goto, deviceVars, eventVars, queueVars, flagVars, bufferVars
<1>2. reply = "none" /\ pc'[t] = "queueing" /\ arg'[t] = i
  BY <1>1 DEF Base, LocksOK, Typed, ThreadTyped
<1>3. ~InFlight(i)
  BY <1>1 DEF Flight, Held, Reported, Sealed, InFlight, WithDevice, OnItsWay
<1>4. Arrives(t)
  BY <1>1, <1>2, <1>3 DEF Arrives, FlightStill, Sealed, Completing
<1> QED BY <1>4, ArrivesFlight

\* It is not when it is marked, either.
LEMMA QbufMarkFlight ==
    ASSUME Base, SlotsOK, Flight, NEW t \in Thread, QbufMark(t)
    PROVE  Flight'
<1>1. PICK i : i = arg[t]
  OBVIOUS
<1>2. /\ pc[t] = "queueing" /\ Put(i, {"QUEUED"})
      /\ slot_qbuf' = [slot_qbuf EXCEPT ![i] = qbufs + 1]
      /\ UNCHANGED <<vlock, call, arg, disconnected, events_lock, completing, dev_queue, eventq,
                     import_needs_cancel, done_qbuf>>
  BY <1>1 DEF QbufMark, Put, deviceVars, eventVars, flagVars
<1>3. vlock = t /\ call[t] = "qbuf" /\ reply = "none" /\ reply' \in {"none", "error"}
  BY <1>2, Owner DEF Inside, Base, LocksOK, ThreadOK, QbufMark
<1>4. i \in Slot /\ ~InFlight(i) /\ ~Completing(i)
  BY <1>1, <1>2, <1>3, FlightTypes DEF Flight, CallOK, SlotsOK, OpenOK
<1>5. \A j \in Slot : /\ slots'[j] = IF j = i THEN {"QUEUED"} ELSE slots[j]
                      /\ j # i => slot_qbuf'[j] = slot_qbuf[j]
  <2>1. slots \in [Slot -> SUBSET Flag] /\ slot_qbuf \in [Slot -> 0 .. MaxQbufs]
    BY DEF Base, Typed, QueueTyped, HistoryTyped
  <2> QED BY <1>2, <1>4, <2>1 DEF Put
<1>6. /\ \A b \in dev_queue : b[1] \in Slot /\ b[1] # i
      /\ \A k \in DOMAIN eventq : eventq[k].slot \in Slot
      /\ \A k \in DOMAIN eventq : IsDone(eventq[k]) => eventq[k].slot # i
  BY <1>4, FlightTypes DEF InFlight, WithDevice, OnItsWay
<1>7. Held' /\ Reported'
  BY <1>2, <1>5, <1>6 DEF Flight, Held, Reported, Sealed
<1>8. Once' /\ \A j : InFlight(j)' <=> InFlight(j)
  BY <1>2 DEF Flight, Once, InFlight, WithDevice, OnItsWay
<1>9. FreshOK'
  BY <1>2, <1>4, <1>5 DEF Flight, FreshOK, Completing
<1>10. ASSUME NEW u \in Thread PROVE CallOK(u)'
  <2>1. u # t => vlock' # u
    BY <1>2, <1>3
  <2>2. arg'[t] = i /\ "QUEUED" \in slots'[i] /\ ~InFlight(i)'
    BY <1>1, <1>2, <1>4, <1>5, <1>8
  <2> QED BY <1>3, <2>1, <2>2 DEF CallOK
<1>11. NoneLost'
  <2>1. Queueing(i)' /\ ~Cancelling
    BY <1>1, <1>2, <1>3 DEF Queueing, Cancelling
  <2>2. ASSUME NEW j \in Slot, "QUEUED" \in slots'[j], j # i
        PROVE  InFlight(j)' \/ Queueing(j)' \/ disconnected'
    BY <1>2, <1>5, <1>8, <2>1, <2>2 DEF Flight, NoneLost, Queueing
  <2> QED BY <2>1, <2>2 DEF NoneLost
<1> QED BY <1>7, <1>8, <1>9, <1>10, <1>11 DEF Flight

\* What a failed QBUF may have left with the device blocks the queue.
LEMMA QbufFailsFlight ==
    ASSUME Base, SlotsOK, Flight, NEW t \in Thread, QbufFails(t)
    PROVE  Flight'
<1>1. PICK i : i = arg[t]
  OBVIOUS
<1>2. PICK f : f = IF "DONE" \in slots[i] THEN slots[i] ELSE old_flags[t]
  OBVIOUS
<1>3. /\ pc[t] = "replied" /\ call[t] = "qbuf" /\ reply = "error" /\ vlock' = None
      /\ import_needs_cancel' = (import_needs_cancel \/ Memory = "DMABUF")
      /\ Put(i, f)
      /\ UNCHANGED <<events_lock, disconnected, dev_queue, eventq, completing, slot_qbuf, done_qbuf>>
  BY <1>1, <1>2 DEF QbufFails, Replied, Return, Put, deviceVars, eventVars, historyVars
<1>4. vlock = t
  BY <1>3, Owner DEF Inside
<1>5. i \in Slot
  BY <1>1, <1>3, <1>4, FlightTypes
<1>6. old_flags[t] \cap {"QUEUED", "DONE"} = {}
  BY <1>3, <1>4 DEF SlotsOK, OpenOK
<1>7. "QUEUED" \notin f /\ ("DONE" \in f => "DONE" \in slots[i])
  BY <1>2, <1>5, <1>6 DEF SlotsOK
<1>8. \A j \in Slot : /\ "QUEUED" \in slots'[j] <=> "QUEUED" \in slots[j] /\ j # i
                      /\ "DONE" \in slots'[j] => "DONE" \in slots[j]
  <2>1. slots \in [Slot -> SUBSET Flag]
    BY DEF Base, Typed, QueueTyped
  <2> QED BY <1>3, <1>5, <1>7, <2>1 DEF Put
<1>9. /\ \A b \in dev_queue : b[1] \in Slot
      /\ \A k \in DOMAIN eventq : eventq[k].slot \in Slot
  BY FlightTypes
<1>10. Memory # "DMABUF" =>
         /\ \A b \in dev_queue : b[1] # i
         /\ \A k \in DOMAIN eventq : IsDone(eventq[k]) => eventq[k].slot # i
  <2>1. Memory # "DMABUF" => ~InFlight(i)
    BY <1>1, <1>3, <1>4 DEF Flight, CallOK
  <2> QED BY <2>1 DEF InFlight, WithDevice, OnItsWay
<1>11. Held' /\ Reported'
  BY <1>3, <1>8, <1>9, <1>10 DEF Flight, Held, Reported, Sealed
<1>12. Once' /\ \A j : InFlight(j)' <=> InFlight(j)
  BY <1>3 DEF Flight, Once, InFlight, WithDevice, OnItsWay
<1>13. FreshOK'
  BY <1>3, <1>8 DEF Flight, FreshOK, Completing
<1>14. \A u \in Thread : CallOK(u)'
  BY <1>3, Names DEF CallOK
<1>15. NoneLost'
  <2>1. ASSUME NEW j \in Slot, "QUEUED" \in slots'[j] PROVE InFlight(j) \/ disconnected
    <3>1. "QUEUED" \in slots[j] /\ ~Queueing(j) /\ ~Cancelling
      BY <1>1, <1>3, <1>4, <1>8, <2>1 DEF Queueing, Cancelling
    <3> QED BY <3>1 DEF Flight, NoneLost
  <2> QED BY <1>3, <1>12, <2>1 DEF NoneLost
<1> QED BY <1>11, <1>12, <1>13, <1>14, <1>15 DEF Flight

\* PREPARE_BUF of a buffer that is not in flight, and the new array of a CREATE_BUFS.
LEMMA ReturnsFlight ==
    ASSUME Base, Flight, NEW t \in Thread,
           (PrepareBufReturn(t) /\ ~disturbed') \/ CreateBufsCopy(t)
    PROVE  Flight'
<1>1. CASE PrepareBufReturn(t) /\ ~disturbed'
  <2>1. PICK i : i = arg[t]
    OBVIOUS
  <2>2. /\ pc[t] = "replied" /\ call[t] = "prepare_buf" /\ Return(t) /\ Put(i, {"PREPARED"})
        /\ ~Completing(i) /\ slots[i] \cap {"QUEUED", "DONE"} = {}
        /\ UNCHANGED <<events_lock, import_needs_cancel, slot_qbuf, done_qbuf>> /\ UNCHANGED deviceVars
    BY <1>1, <2>1 DEF PrepareBufReturn, Replied, Put, flagVars
  <2>3. /\ vlock = t /\ \A u \in Thread : vlock' # u
        /\ UNCHANGED <<disconnected, eventq, completing, dev_queue>>
    <3>1. pc[t] \in Inside \ {"drain"}
      BY <2>2 DEF Inside
    <3> QED BY <2>2, <3>1, Returned
  <2>4. \A j \in Slot : /\ "QUEUED" \in slots'[j] <=> "QUEUED" \in slots[j]
                        /\ "DONE" \in slots'[j] => "DONE" \in slots[j]
    <3>1. slots \in [Slot -> SUBSET Flag]
      BY DEF Base, Typed, QueueTyped
    <3> QED BY <2>2, <3>1 DEF Put
  <2>5. Leaves(t)
    BY <2>2, <2>3, <2>4 DEF Leaves, FlightStill, Sealed, Completing, Cancel
  <2> QED BY <2>5, LeavesFlight
<1>2. CASE CreateBufsCopy(t)
  <2>1. /\ pc[t] = "copy" /\ Return(t)
        /\ UNCHANGED <<slots, events_lock, import_needs_cancel, slot_qbuf, done_qbuf>>
        /\ UNCHANGED deviceVars
    BY <1>2 DEF CreateBufsCopy, flagVars, bufferVars
  <2>2. /\ vlock = t /\ \A u \in Thread : vlock' # u
        /\ UNCHANGED <<disconnected, eventq, completing, dev_queue>>
    <3>1. pc[t] \in Inside \ {"drain"}
      BY <2>1 DEF Inside
    <3> QED BY <2>1, <3>1, Returned
  <2>3. call[t] = "create_bufs"
    BY <2>1 DEF Base, LocksOK, ThreadOK
  <2>4. Leaves(t)
    BY <2>1, <2>2, <2>3 DEF Leaves, FlightStill, Sealed, Completing, Cancel
  <2> QED BY <2>4, LeavesFlight
<1> QED BY <1>1, <1>2

\* DQBUF takes a buffer that is done.
LEMMA DqbufTakeFlight ==
    ASSUME Base, SlotsOK, Flight, NEW t \in Thread, DqbufTake(t)
    PROVE  Flight'
<1>1. /\ pc[t] = "relock" /\ pc' = [pc EXCEPT ![t] = "idle"]
      /\ UNCHANGED <<vlock, reply, call, arg, disconnected, events_lock, completing, dev_queue,
                     eventq, import_needs_cancel, slot_qbuf, done_qbuf>>
  BY DEF DqbufTake, Goto, callVars, deviceVars, eventVars
<1>2. \A j \in Slot : /\ "QUEUED" \in slots'[j] <=> "QUEUED" \in slots[j]
                      /\ "DONE" \in slots'[j] => "DONE" \in slots[j]
  <2>1. CASE pending_dqbufs = <<>>
    BY <2>1 DEF DqbufTake
  <2>2. CASE pending_dqbufs # <<>>
    <3>1. PICK i : i = Head(pending_dqbufs)
      OBVIOUS
    <3>2. pending_dqbufs \in Seq(Slot) /\ slots \in [Slot -> SUBSET Flag]
      BY DEF Base, Typed, QueueTyped
    <3>3. i \in Slot /\ i = pending_dqbufs[1] /\ 1 \in DOMAIN pending_dqbufs
      BY <2>2, <3>1, <3>2, Popped
    <3>4. "DONE" \in slots[i] /\ "QUEUED" \notin slots[i]
      BY <3>3 DEF SlotsOK, ListOK
    <3>5. Put(i, slots[i] \ {"DONE", "QUEUED"})
      BY <2>2, <3>1 DEF DqbufTake, Put
    <3> QED BY <3>2, <3>3, <3>4, <3>5 DEF Put
  <2> QED BY <2>1, <2>2
<1>3. \A u \in Thread : pc'[u] = "queueing" <=> pc[u] = "queueing"
  BY <1>1 DEF Base, Typed, ThreadTyped
<1>4. Stays
  BY <1>1, <1>2, <1>3 DEF Stays, FlightStill, Sealed, Completing
<1> QED BY <1>4, StaysFlight

\* A buffer is done when its completion has been processed.
LEMMA EndCompletionFlight ==
    ASSUME Base, SlotsOK, Flight, EndCompletion
    PROVE  Flight'
<1>1. PICK i : i = completing.slot
  OBVIOUS
<1>2. PICK g : (g = slots[i] \/ g = EventFlags(completing)) /\ Put(i, g \cup {"DONE"})
  BY <1>1 DEF EndCompletion, Put
<1>3. /\ completing # NoEvent /\ completing' = NoEvent /\ pc' = Woken(pc)
      /\ UNCHANGED <<vlock, events_lock, reply, disconnected, eventq, dev_queue, slot_qbuf, done_qbuf>>
      /\ UNCHANGED flagVars /\ UNCHANGED callVars
  BY DEF EndCompletion
<1>4. i \in Slot /\ Completing(i) /\ \A j \in Slot : ~Completing(j)'
  BY <1>1, <1>3, EventSlots, CompletingSlot DEF Completing, Base, Typed, DeviceTyped
<1>5. "QUEUED" \notin g /\ "QUEUED" \notin slots[i]
  <2>1. slots[i] = EventFlags(completing)
    BY <1>1, <1>3 DEF SlotsOK
  <2>2. "QUEUED" \notin EventFlags(completing)
    BY DEF EventFlags
  <2> QED BY <1>2, <2>1, <2>2
<1>6. \A j \in Slot : /\ "QUEUED" \in slots'[j] <=> "QUEUED" \in slots[j]
                      /\ "DONE" \in slots'[j] => "DONE" \in slots[j] \/ j = i
  <2>1. slots \in [Slot -> SUBSET Flag]
    BY DEF Base, Typed, QueueTyped
  <2> QED BY <1>2, <1>4, <1>5, <2>1 DEF Put
<1>7. \A u \in Thread : pc'[u] = "queueing" <=> pc[u] = "queueing"
  BY <1>3 DEF Woken
<1>8. Stays
  BY <1>3, <1>4, <1>6, <1>7 DEF Stays, FlightStill, Sealed, flagVars, callVars
<1> QED BY <1>8, StaysFlight

\* What taking the first event does to those that are left.
LEMMA TakesFlight ==
    ASSUME Base, Flight, NEW e \in Event, e = Head(eventq), eventq # <<>>, eventq' = Tail(eventq),
           UNCHANGED dev_queue
    PROVE  /\ Once' /\ e = eventq[1] /\ 1 \in DOMAIN eventq
           /\ \A k \in DOMAIN eventq' :
                 /\ \E l \in DOMAIN eventq : eventq'[k] = eventq[l]
                 /\ IsDone(e) /\ IsDone(eventq'[k]) => eventq'[k].slot # e.slot
           /\ \A i : /\ InFlight(i)' => InFlight(i)
                     /\ InFlight(i) => InFlight(i)' \/ (IsDone(e) /\ e.slot = i)
<1>1. /\ e = eventq[1] /\ 1 \in DOMAIN eventq
      /\ \A k \in DOMAIN eventq' : /\ k + 1 \in DOMAIN eventq /\ k + 1 # 1
                                   /\ eventq'[k] = eventq[k + 1]
      /\ \A k \in DOMAIN eventq :
            k = 1 \/ (k - 1 \in DOMAIN eventq' /\ eventq'[k - 1] = eventq[k])
      /\ \A k, l \in DOMAIN eventq' : k + 1 = l + 1 => k = l
  <2>1. eventq \in Seq(Event)
    BY DEF Base, Typed, DeviceTyped
  <2> QED BY <2>1, Popped
<1>2. \A k \in DOMAIN eventq' : IsDone(e) /\ IsDone(eventq'[k]) => eventq'[k].slot # e.slot
  BY <1>1 DEF Flight, Once
<1>3. Once'
  <2>1. ASSUME NEW k \in DOMAIN eventq', NEW l \in DOMAIN eventq',
               IsDone(eventq'[k]), IsDone(eventq'[l]), eventq'[k].slot = eventq'[l].slot
        PROVE  k = l
    <3>1. k + 1 = l + 1
      BY <1>1, <2>1 DEF Flight, Once
    <3> QED BY <1>1, <3>1
  <2>2. \A b \in dev_queue : \A k \in DOMAIN eventq' : IsDone(eventq'[k]) => eventq'[k].slot # b[1]
    BY <1>1 DEF Flight, Once
  <2>3. \A b, c \in dev_queue : b[1] = c[1] => b = c
    BY DEF Flight, Once
  <2> QED BY <2>1, <2>2, <2>3 DEF Once
<1>4. ASSUME NEW i PROVE /\ InFlight(i)' => InFlight(i)
                         /\ InFlight(i) => InFlight(i)' \/ (IsDone(e) /\ e.slot = i)
  <2>1. OnItsWay(i)' => OnItsWay(i)
    BY <1>1 DEF OnItsWay
  <2>2. OnItsWay(i) => OnItsWay(i)' \/ (IsDone(e) /\ e.slot = i)
    BY <1>1 DEF OnItsWay
  <2>3. WithDevice(i)' <=> WithDevice(i)
    BY DEF WithDevice
  <2> QED BY <2>1, <2>2, <2>3 DEF InFlight
<1>5. \A k \in DOMAIN eventq' : \E l \in DOMAIN eventq : eventq'[k] = eventq[l]
  BY <1>1
<1> QED BY <1>1, <1>2, <1>3, <1>4, <1>5

\* An event that completes no buffer was not waited for.
LEMMA DropsFlight ==
    ASSUME Base, SlotsOK, Flight, ErrorEvent \/ IgnoreEvent, ~disturbed'
    PROVE  Flight'
<1>1. PICK e : e = Head(eventq)
  OBVIOUS
<1>2. /\ eventq # <<>> /\ eventq' = Tail(eventq) /\ (pc' = Woken(pc) \/ pc' = pc)
      /\ events_lock # None
      /\ UNCHANGED <<vlock, events_lock, reply, disconnected, dev_queue, completing, slot_qbuf,
                     done_qbuf, slots, allocated_bufs>>
      /\ UNCHANGED flagVars /\ UNCHANGED callVars
  <2>1. CASE ErrorEvent
    BY <2>1 DEF ErrorEvent, TakeEvent, bufferVars, arrayVars
  <2>2. CASE IgnoreEvent
    BY <2>2 DEF IgnoreEvent, TakeEvent, bufferVars, arrayVars
  <2> QED BY <2>1, <2>2
<1>3. e \in Event /\ e.slot \in Slot
  <2>1. eventq \in Seq(Event)
    BY DEF Base, Typed, DeviceTyped
  <2>2. e \in Event
    BY <1>1, <1>2, <2>1, Popped
  <2> QED BY <2>2, EventSlots
<1>4. IsDone(e) => "QUEUED" \notin slots[e.slot]
  <2>1. IsDone(e) => ~Awaited(e)
    <3>1. CASE ErrorEvent
      BY <1>1, <3>1 DEF ErrorEvent, IsDone
    <3>2. CASE IgnoreEvent
      BY <1>1, <3>2 DEF IgnoreEvent, Accepts
    <3> QED BY <3>1, <3>2
  <2>2. "QUEUED" \in slots[e.slot] => e.slot <= allocated_bufs /\ "DONE" \notin slots[e.slot]
    BY <1>3 DEF Base, Sound, BoundsOK, SlotsOK
  <2>3. e.slot <= allocated_bufs => e.slot \in Allocated
    BY <1>3, Names DEF Allocated, Slot, Base, Typed, QueueTyped
  <2> QED BY <2>1, <2>2, <2>3 DEF Awaited
<1>5. /\ Once'
      /\ \A k \in DOMAIN eventq' : \E l \in DOMAIN eventq : eventq'[k] = eventq[l]
      /\ \A i : /\ InFlight(i)' => InFlight(i)
                /\ InFlight(i) => InFlight(i)' \/ (IsDone(e) /\ e.slot = i)
  BY <1>1, <1>2, <1>3, TakesFlight
<1>6. \A i : "QUEUED" \in slots[i] => (InFlight(i)' <=> InFlight(i))
  BY <1>4, <1>5
<1>7. Held' /\ FreshOK'
  BY <1>2 DEF Flight, Held, FreshOK, Completing, flagVars
<1>8. Reported'
  BY <1>2, <1>5 DEF Flight, Reported, Sealed, flagVars
<1>9. ASSUME NEW t \in Thread PROVE CallOK(t)'
  <2>1. pc'[t] = "queueing" <=> pc[t] = "queueing"
    BY <1>2 DEF Woken
  <2>2. CallOK(t)
    BY DEF Flight
  <2> QED BY <1>2, <1>5, <1>6, <2>1, <2>2 DEF CallOK, callVars
<1>10. NoneLost'
  BY <1>2, <1>6 DEF Flight, NoneLost, Queueing, Cancelling, callVars
<1> QED BY <1>5, <1>7, <1>8, <1>9, <1>10 DEF Flight

\* A completion that is accepted is that of the last QBUF.
LEMMA StartCompletionFlight ==
    ASSUME Base, Flight, StartCompletion
    PROVE  Flight'
<1>1. PICK e \in Event :
              /\ e = Head(eventq) /\ eventq # <<>> /\ eventq' = Tail(eventq) /\ IsDone(e)
              /\ e.slot \in Slot /\ e.qbuf \in 0 .. MaxQbufs /\ e.slot <= allocated_bufs
              /\ "QUEUED" \in slots[e.slot] /\ "DONE" \notin slots[e.slot]
              /\ completing = NoEvent /\ completing' = e /\ e # NoEvent
              /\ armed' = armed \ {e.slot} /\ Put(e.slot, EventFlags(e))
              /\ done_qbuf' = [done_qbuf EXCEPT ![e.slot] = e.qbuf]
  BY Taken
<1>2. /\ events_lock # None /\ pc' = pc
      /\ UNCHANGED <<vlock, events_lock, reply, disconnected, dev_queue, slot_qbuf>>
      /\ UNCHANGED flagVars /\ UNCHANGED callVars
  BY DEF StartCompletion, TakeEvent
<1>3. PICK i : i = e.slot
  OBVIOUS
<1>4. /\ Once' /\ e = eventq[1] /\ 1 \in DOMAIN eventq
      /\ \A k \in DOMAIN eventq' :
            /\ \E l \in DOMAIN eventq : eventq'[k] = eventq[l]
            /\ IsDone(e) /\ IsDone(eventq'[k]) => eventq'[k].slot # e.slot
      /\ \A j : /\ InFlight(j)' => InFlight(j)
                /\ InFlight(j) => InFlight(j)' \/ (IsDone(e) /\ e.slot = j)
  BY <1>1, <1>2, TakesFlight
<1>5. i \in Slot /\ \A j \in Slot : /\ "QUEUED" \in slots'[j] <=> "QUEUED" \in slots[j] /\ j # i
                                    /\ "DONE" \in slots'[j] => "DONE" \in slots[j] /\ j # i
                                    /\ Completing(j)' <=> j = i
  <2>1. slots \in [Slot -> SUBSET Flag]
    BY DEF Base, Typed, QueueTyped
  <2>2. "QUEUED" \notin EventFlags(e) /\ "DONE" \notin EventFlags(e)
    BY DEF EventFlags
  <2>3. \A j \in Slot : Completing(j)' <=> j = i
    BY <1>1, <1>3 DEF Completing
  <2> QED BY <1>1, <1>3, <2>1, <2>2, <2>3 DEF Put
<1>6. e.qbuf = slot_qbuf[i] /\ \A b \in dev_queue : b[1] # i
  BY <1>1, <1>3, <1>4 DEF Flight, Reported, Once
<1>7. /\ \A b \in dev_queue : b[1] \in Slot
      /\ \A k \in DOMAIN eventq : eventq[k].slot \in Slot
      /\ \A t \in Thread : vlock = t /\ call[t] = "qbuf" => arg[t] \in Slot
  BY FlightTypes
<1>8. Held'
  BY <1>2, <1>5, <1>6, <1>7 DEF Flight, Held, flagVars
<1>9. Reported'
  <2>1. ASSUME NEW k \in DOMAIN eventq', IsDone(eventq'[k])
        PROVE  /\ "QUEUED" \in slots'[eventq'[k].slot] \/ import_needs_cancel
               /\ "QUEUED" \in slots'[eventq'[k].slot] => eventq'[k].qbuf = slot_qbuf[eventq'[k].slot]
    <3>1. PICK l \in DOMAIN eventq : eventq'[k] = eventq[l]
      BY <1>4
    <3>2. eventq[l].slot # i /\ IsDone(eventq[l]) /\ eventq[l].slot \in Slot
      BY <1>1, <1>3, <1>4, <1>7, <2>1, <3>1
    <3>3. ~Sealed
      BY <1>2 DEF Sealed
    <3> QED BY <1>5, <3>1, <3>2, <3>3 DEF Flight, Reported
  <2> QED BY <1>2, <2>1 DEF Reported, flagVars
<1>10. FreshOK'
  <2>1. done_qbuf \in [Slot -> 0 .. MaxQbufs]
    BY DEF Base, Typed, HistoryTyped
  <2>2. \A j \in Slot : done_qbuf'[j] = IF j = i THEN slot_qbuf[i] ELSE done_qbuf[j]
    BY <1>1, <1>3, <1>6, <2>1
  <2> QED BY <1>2, <1>5, <2>2 DEF Flight, FreshOK
<1>11. InFlight(i) /\ \A j : j # i => (InFlight(j)' <=> InFlight(j))
  <2>1. InFlight(i)
    BY <1>1, <1>3, <1>4 DEF InFlight, OnItsWay
  <2> QED BY <1>3, <1>4, <2>1
<1>12. ASSUME NEW t \in Thread PROVE CallOK(t)'
  <2>1. CallOK(t)
    BY DEF Flight
  <2> QED BY <1>2, <1>4, <1>5, <1>7, <1>11, <2>1 DEF CallOK, callVars
<1>13. NoneLost'
  BY <1>2, <1>5, <1>11 DEF Flight, NoneLost, Queueing, Cancelling, callVars
<1> QED BY <1>4, <1>8, <1>9, <1>10, <1>12, <1>13 DEF Flight

\* When the queue is cleared nothing is in flight that anybody will look at.
LEMMA ClearFlight ==
    ASSUME Base, disturbed \/ Flight, NEW t \in Thread, Clear(t), ~disturbed'
    PROVE  Flight'
<1>1. /\ pc[t] = "clear" /\ events_lock = None /\ vlock' = None
      /\ disturbed' = (disturbed /\ disconnected)
      /\ UNCHANGED <<events_lock, disconnected, dev_queue, eventq, completing>>
  BY DEF Clear, Return, deviceVars, eventVars
<1>2. \A i \in Slot : slots'[i] = {}
  BY ClearBase
<1>3. vlock = t
  BY <1>1, Owner DEF Inside
<1>4. reply = "ok" /\ call[t] \in Cancel
  BY <1>1 DEF Base, LocksOK, ThreadOK
<1>5. dev_queue = {} /\ (Sealed \/ \A k \in DOMAIN eventq : ~IsDone(eventq[k]))
  BY <1>1, <1>3, <1>4 DEF Base, LocksOK, CancelOK
<1>6. \A k \in DOMAIN eventq : eventq[k].slot \in Slot
  BY FlightTypes
<1>7. Flight \/ \A k \in DOMAIN eventq : ~IsDone(eventq[k])
  BY <1>1, <1>5 DEF Sealed
<1>8. Held'
  BY <1>1, <1>5 DEF Held
<1>9. Once'
  BY <1>1, <1>5, <1>7 DEF Flight, Once
<1>10. Reported'
  BY <1>1, <1>2, <1>5, <1>6 DEF Reported, Sealed
<1>11. FreshOK'
  <2>1. \A i \in Slot : ~Completing(i)'
    BY <1>1, EventSlots DEF Base, LocksOK, Completing
  <2> QED BY <1>2, <2>1 DEF FreshOK
<1>12. NoneLost' /\ \A u \in Thread : CallOK(u)'
  BY <1>1, <1>2, Names DEF NoneLost, CallOK
<1> QED BY <1>8, <1>9, <1>10, <1>11, <1>12 DEF Flight

-----------------------------------------------------------------------------
(* The theorems.                                                           *)

\* Nothing is in flight in a new session.
LEMMA InitFlight == Init => Flight
<1> SUFFICES ASSUME Init PROVE Flight
  OBVIOUS
<1>1. Held /\ Reported /\ Once
  BY DEF Init, Held, Reported, Once
<1>2. FreshOK /\ (\A t \in Thread : CallOK(t)) /\ NoneLost
  <2>1. \A i \in Slot : ~Completing(i)
    BY EventSlots DEF Init, Completing
  <2> QED BY <2>1, Names DEF Init, FreshOK, CallOK, NoneLost
<1> QED BY <1>1, <1>2 DEF Flight

\* What is known of the completions.
Followed == disturbed \/ Flight

\* The steps that leave the buffers alone preserve it ...
LEMMA QuietFlight ==
    ASSUME ErrorsBlock, Base, SlotsOK, Flight, Quiet, ~disturbed'
    PROVE  Flight'
BY BeginsFlight, EndsFlight, WaitsFlight, OthersFlight, StopQueuesFlight, DeviceExecutesFlight,
   DeviceCompletesFlight, DeviceFailsFlight, DropsFlight DEF Quiet, Reports

\* ... and so do the others.
LEMMA BusyFlight ==
    ASSUME Base, SlotsOK, Flight, Busy, ~disturbed'
    PROVE  Flight'
BY QbufFlight, QbufMarkFlight, QbufFailsFlight, ReturnsFlight, DqbufTakeFlight,
   StartCompletionFlight, EndCompletionFlight DEF Busy

\* Followed is inductive, given Known.
LEMMA NextFollowed ==
    ASSUME ErrorsBlock
    PROVE  Known /\ Followed /\ [Next]_vars => Followed'
<1>1. ASSUME Known, Followed, Next PROVE Followed'
  <2>1. Base /\ Step /\ (disturbed \/ SlotsOK) /\ (disturbed \/ Flight)
    BY <1>1, NextSteps DEF Known, Calm, Followed
  <2>2. CASE Quiet
    BY <2>1, <2>2, QuietBase, QuietFlight DEF Followed
  <2>3. CASE Busy
    BY <2>1, <2>3, BusyBase, BusyFlight DEF Followed
  <2>4. CASE Clears
    BY <2>1, <2>4, ClearFlight DEF Followed, Clears
  <2> QED BY <2>1, <2>2, <2>3, <2>4 DEF Step
<1>2. ASSUME Known, Followed, UNCHANGED vars PROVE Followed'
  <2>1. UNCHANGED <<vlock, call, arg, pc, reply, events_lock, disconnected, dev_queue, eventq,
                    completing, slots, import_needs_cancel, slot_qbuf, done_qbuf, disturbed>>
    BY <1>2 DEF vars, threadVars, callVars, queueVars, flagVars, bufferVars, deviceVars, eventVars,
                historyVars
  <2>2. Stays
    BY <2>1 DEF Stays, FlightStill, Sealed, Completing
  <2> QED BY <1>2, <2>1, <2>2, StaysFlight DEF Known, Followed
<1> QED BY <1>1, <1>2

\* The invariant of the buffers, for every application, device and schedule: faulty replies,
\* time-outs, removal, and ioctls that cross a completion included.
THEOREM QueueInvariant == Spec => []Known
<1>1. Init => Known
  BY InitBase DEF Known, Calm
<1> QED BY <1>1, NextKnown, PTL DEF Spec

\* The state keeps its type; in particular queued_bufs never wraps below zero.
THEOREM QueueTypeCorrect == Spec => []TypeOK
<1>1. ASSUME Known PROVE TypeOK
  <2>1. queued_bufs \in Nat /\ Typed
    BY <1>1 DEF Known, Base, Sound, CountOK
  <2> QED BY <2>1 DEF Typed, QueueTyped, ThreadTyped, DeviceTyped, HistoryTyped, TypeOK
<1> QED BY <1>1, QueueInvariant, PTL

\* queued_bufs never counts too few buffers, whatever is interleaved: QBUFs, failed ones
\* included, the two steps of a completion, and cancellations (virtio_media_qbuf,
\* virtio_media_process_dqbuf_event, virtio_media_clear_queue); and it counts none too many
\* until an ioctl crosses a completion.
THEOREM QueuedAlwaysCounted == Spec => []QueuedAccounting
<1>1. Known => QueuedAccounting
  BY DEF Known, Calm, Base, Sound, CountOK, SlotsOK, QueuedAccounting
<1> QED BY <1>1, QueueInvariant, PTL

\* pending_dqbufs links the done buffers, each once, until an ioctl crosses a completion.
THEOREM PendingAlwaysDone == Spec => []PendingIsDone
<1>1. ASSUME Base, SlotsOK PROVE PendingIsDone
  <2> DEFINE n == Len(pending_dqbufs)
             D == Done
  <2>1. pending_dqbufs \in Seq(Slot) /\ ListOK
    BY <1>1 DEF Base, Typed, QueueTyped, SlotsOK
  <2>2. n \in Nat /\ DOMAIN pending_dqbufs = 1 .. n /\ \A k \in 1 .. n : pending_dqbufs[k] \in Slot
    BY <2>1
  <2>3. ToSet(pending_dqbufs) = D
    BY <2>1, <2>2 DEF ToSet, ListOK, Done
  <2>4. pending_dqbufs \in [1 .. n -> D]
    BY <2>1, <2>2 DEF ListOK, Done
  <2>5. pending_dqbufs \in Bijection(1 .. n, D)
    <3>1. \A k, l \in 1 .. n : pending_dqbufs[k] = pending_dqbufs[l] => k = l
      BY <2>1, <2>2 DEF ListOK
    <3>2. \A i \in D : \E k \in 1 .. n : pending_dqbufs[k] = i
      BY <2>1, <2>2 DEF ListOK, Done
    <3> HIDE DEF n, D
    <3> QED BY <2>2, <2>4, <3>1, <3>2 DEF Bijection, Injection, Surjection, IsInjective
  <2>6. Cardinality(D) = n
    <3> HIDE DEF n, D
    <3>1. ExistsBijection(1 .. n, D)
      BY <2>5 DEF ExistsBijection
    <3> QED BY <2>2, <3>1, FS_CountingElements
  <2> QED BY <2>3, <2>6 DEF PendingIsDone
<1>2. Known => PendingIsDone
  BY <1>1 DEF Known, Calm, PendingIsDone
<1> QED BY <1>2, QueueInvariant, PTL

\* The fence of an imported buffer is armed exactly while the buffer is queued
\* (virtio_media_dmabuf.c), until a QBUF crosses a completion.
THEOREM FencesAlwaysFollow == Spec => []FencesFollowSlots
<1>1. Known => FencesFollowSlots
  BY DEF Known, Calm, SlotsOK, FencesFollowSlots
<1> QED BY <1>1, QueueInvariant, PTL

\* The invariant of the completions, when a QBUF whose reply is an error either was not
\* executed or is of an imported buffer.
THEOREM FlightInvariant ==
    ASSUME ErrorsBlock
    PROVE  Spec => [](Known /\ Followed)
<1>1. Init => Known /\ Followed
  BY InitBase, InitFlight DEF Known, Calm, Followed
<1> QED BY <1>1, NextKnown, NextFollowed, PTL DEF Spec

\* No buffer is handed to the application for the completion of an earlier QBUF, unless a
\* QBUF has found it half completed.
THEOREM CompletionsAlwaysFresh ==
    ASSUME ErrorsBlock
    PROVE  Spec => []FreshCompletion
<1>1. Followed => FreshCompletion
  BY DEF Followed, Flight, FreshOK, FreshCompletion, Done
<1> QED BY <1>1, FlightInvariant, PTL

\* No completion of a queued buffer is dropped (virtio_media_process_dqbuf_event), but when
\* an ioctl writes the flags, or CREATE_BUFS replaces the array, while it comes.
THEOREM CompletionsNeverLost ==
    ASSUME ErrorsBlock
    PROVE  Spec => []NoLostCompletion
<1>1. ASSUME Base, Flight PROVE CompletionsComing
  <2> SUFFICES ASSUME NEW i \in Queued
               PROVE  \/ <<i, slot_qbuf[i]>> \in dev_queue
                      \/ \E k \in DOMAIN eventq : eventq[k].slot = i /\ eventq[k].qbuf = slot_qbuf[i]
                      \/ \E t \in Thread : Running(t, "qbuf") /\ arg[t] = i
                      \/ \E t \in Thread : (Running(t, "streamoff") \/ Running(t, "reqbufs"))
                                           /\ pc[t] \in {"replied", "drain", "clear"} /\ reply = "ok"
                      \/ disconnected
    BY DEF CompletionsComing
  <2>1. i \in Slot /\ "QUEUED" \in slots[i]
    BY DEF Queued
  <2>2. CASE WithDevice(i)
    <3>1. PICK b \in dev_queue : b[1] = i
      BY <2>2 DEF WithDevice
    <3>2. b[2] = slot_qbuf[i]
      BY <1>1, <2>1, <3>1 DEF Flight, Held
    <3>3. b = <<b[1], b[2]>>
      BY <1>1, <3>1 DEF Base, Typed, DeviceTyped
    <3> QED BY <3>1, <3>2, <3>3
  <2>3. CASE OnItsWay(i)
    BY <1>1, <2>1, <2>3 DEF OnItsWay, Flight, Reported
  <2>4. CASE Queueing(i)
    BY <2>4 DEF Queueing, Running
  <2>5. CASE Cancelling
    <3>1. PICK t \in Thread : vlock = t /\ call[t] \in Cancel /\ reply = "ok"
      BY <2>5 DEF Cancelling
    <3>2. pc[t] \in {"replied", "drain", "clear"}
      BY <1>1, <3>1 DEF Base, LocksOK, ThreadOK, Inside, Cancel
    <3>3. Running(t, "streamoff") \/ Running(t, "reqbufs")
      BY <3>1 DEF Running, Cancel
    <3> QED BY <3>1, <3>2, <3>3
  <2> QED BY <1>1, <2>1, <2>2, <2>3, <2>4, <2>5 DEF Flight, NoneLost, InFlight
<1>2. Known /\ Followed => NoLostCompletion
  BY <1>1 DEF Known, Followed, NoLostCompletion
<1> QED BY <1>2, FlightInvariant, PTL

\* The device holds a buffer only while the driver regards it as queued, or the queue is
\* blocked until it is cancelled, unless a QBUF has crossed a completion.
THEOREM DeviceAlwaysHoldsQueued ==
    ASSUME ErrorsBlock
    PROVE  Spec => []DeviceHoldsQueued
<1>1. ASSUME Known, Followed PROVE DeviceHoldsQueued
  BY <1>1, FlightTypes DEF Known, Followed, Flight, Held, DeviceHoldsQueued, Queued
<1> QED BY <1>1, FlightInvariant, PTL

\* virtio_media_device_poll does not report an error while a completion can still come,
\* unless an ioctl has crossed one.
THEOREM PollAlwaysKeepsWaiting ==
    ASSUME ErrorsBlock
    PROVE  Spec => [](disturbed \/ PollKeepsWaiting)
<1>1. ASSUME Base, Flight, streaming, ~import_needs_cancel,
             dev_queue # {} \/ \E k \in DOMAIN eventq : ~eventq[k].error
      PROVE  CapturePoll # "err"
  <2>1. CASE disconnected \/ error
    BY <2>1 DEF CapturePoll
  <2>2. CASE ~(disconnected \/ error)
    <3>1. PICK i \in Slot : "QUEUED" \in slots[i]
      BY <1>1, <2>2, FlightTypes DEF Flight, Held, Reported, Sealed, IsDone
    <3>2. i \in Queued /\ IsFiniteSet(Queued) /\ Cardinality(Queued) \in Nat
      BY <3>1, SlotsFinite DEF Queued
    <3>3. Cardinality(Queued) # 0
      BY <3>2, FS_EmptySet
    <3>4. queued_bufs # 0
      BY <1>1, <3>2, <3>3 DEF Base, Sound, CountOK, Counted
    <3> QED BY <1>1, <2>2, <3>4 DEF CapturePoll
  <2> QED BY <2>1, <2>2
<1>2. Known /\ Followed => disturbed \/ PollKeepsWaiting
  BY <1>1 DEF Known, Followed, PollKeepsWaiting
<1> QED BY <1>2, FlightInvariant, PTL

-----------------------------------------------------------------------------
(* When DQBUF finds the list it was woken for.                             *)

\* A thread that dequeues is the only one that dequeues or cancels.  The application may
\* use PREPARE_BUF and CREATE_BUFS.
Alone ==
    \A t, u \in Thread :
        "dqbuf" \in Calls[t] /\ u # t => Calls[u] \cap {"dqbuf", "streamoff", "reqbufs"} = {}

\* What a DQBUF has tested without vlock still holds when it has vlock again.
WaitOK ==
    /\ pc \in [Thread -> Pc] /\ call \in [Thread -> Ioctl \cup {"none"}]
    /\ \E S : pending_dqbufs \in Seq(S)
    /\ \A t \in Thread : pc[t] \in {"test", "sleep", "relock"} => "dqbuf" \in Calls[t]
    /\ \A t \in Thread : call[t] # "none" => call[t] \in Calls[t]
    /\ \A t \in Thread : pc[t] \in {"drain", "clear"} => call[t] \in {"streamoff", "reqbufs"}
    /\ \A t \in Thread : pc[t] = "relock" => pending_dqbufs # <<>> \/ disconnected \/ error
    /\ DequeuesFromList

\* A step that moves only thread t, to a place where it does not wait, and leaves the list,
\* keeps WaitOK.
LEMMA MoveWait ==
    ASSUME WaitOK, NEW t \in Thread, NEW l \in Pc, NEW c \in Calls[t] \cup {"none"},
           Calls[t] \subseteq Ioctl, l \notin {"test", "sleep", "relock"},
           l \in {"drain", "clear"} => c \in {"streamoff", "reqbufs"},
           pc' = [pc EXCEPT ![t] = l], call' = [call EXCEPT ![t] = c],
           UNCHANGED pending_dqbufs, disconnected => disconnected', UNCHANGED error,
           wild' # "empty list"
    PROVE  WaitOK'
BY DEF WaitOK, DequeuesFromList

\* A step that keeps the threads and the list, or wakes sleepers and adds to the list.
LEMMA StayWait ==
    ASSUME WaitOK, UNCHANGED call, wild' # "empty list",
           pc' \in [Thread -> Pc],
           \A t \in Thread : \/ pc'[t] = pc[t]
                             \/ pc[t] = "sleep" /\ pc'[t] = "test"
                             \/ pc'[t] = "replied",
           \E S : pending_dqbufs' \in Seq(S),
           pending_dqbufs # <<>> => pending_dqbufs' # <<>>,
           disconnected => disconnected', error => error'
    PROVE  WaitOK'
BY DEF WaitOK, DequeuesFromList

LEMMA InitWait == Init => WaitOK
<1> SUFFICES ASSUME Init PROVE WaitOK
  OBVIOUS
<1>1. \E S : pending_dqbufs \in Seq(S)
  <2>1. pending_dqbufs \in Seq({})
    BY DEF Init
  <2> QED BY <2>1
<1> QED BY <1>1 DEF Init, WaitOK, DequeuesFromList, Pc

\* The ioctls up to their command.
LEMMA StartWait ==
    ASSUME WaitOK, NEW t \in Thread, Start(t), wild = "none" PROVE WaitOK'
<1>1. Calls[t] \subseteq Ioctl
  BY QueueAssumption
<1>2. CASE Dqbuf(t)
  BY <1>2 DEF Dqbuf, Enter, Goto, WaitOK, DequeuesFromList, callVars, queueVars, bufferVars,
              deviceVars, historyVars, Pc
<1>3. CASE \E i \in Slot : Qbuf(t, i)
  <2>1. /\ pc' = [pc EXCEPT ![t] = "queueing"] /\ call' = [call EXCEPT ![t] = "qbuf"]
        /\ "qbuf" \in Calls[t] /\ wild' = wild
        /\ UNCHANGED <<pending_dqbufs, disconnected, error>>
    BY <1>3 DEF Qbuf, Enter, Goto, queueVars, bufferVars, deviceVars
  <2> QED BY <1>1, <2>1, MoveWait DEF Pc
<1>4. CASE ~Dqbuf(t) /\ ~\E i \in Slot : Qbuf(t, i)
  <2>1. PICK c \in Calls[t] : \E a : Send(t, c, a)
    BY <1>4 DEF Start, PrepareBuf, StreamOn, StreamOff, CreateBufs, DecoderStart, ReqBufs,
                Enter
  <2>2. UNCHANGED pending_dqbufs /\ wild' = wild
    BY <1>4 DEF Start, PrepareBuf, StreamOn, StreamOff, CreateBufs, DecoderStart, ReqBufs,
                queueVars, bufferVars, historyVars
  <2>3. /\ pc' = [pc EXCEPT ![t] = "command"] /\ call' = [call EXCEPT ![t] = c]
        /\ UNCHANGED <<disconnected, error>>
    BY <2>1 DEF Send, Goto, deviceVars
  <2> QED BY <1>1, <2>2, <2>3, MoveWait DEF Pc
<1> QED BY <1>2, <1>3, <1>4

\* The ioctls after their command, and DQBUF after its wait.  Those that take buffers off the
\* list run while no other thread waits for one.
LEMMA ContinueWait ==
    ASSUME Alone, WaitOK, NEW t \in Thread, Continue(t) \/ DqbufInterrupted(t), wild = "none"
    PROVE  WaitOK'
<1>1. Calls[t] \subseteq Ioctl
  BY QueueAssumption
<1>2. ASSUME Return(t), UNCHANGED <<pending_dqbufs, disconnected, error>>,
             wild' # "empty list"
      PROVE  WaitOK'
  BY <1>1, <1>2, MoveWait DEF Return, Goto, Pc
<1>3. CASE QbufSucceeds(t) \/ QbufFails(t) \/ PrepareBufReturn(t) \/ CommandFails(t)
           \/ StreamOnReturn(t) \/ DecoderStartReturn(t) \/ CreateBufsNothing(t)
           \/ CreateBufsCopy(t)
  <2>1. Return(t) /\ UNCHANGED <<pending_dqbufs, disconnected, error>>
    BY <1>3 DEF QbufSucceeds, QbufFails, PrepareBufReturn, CommandFails, StreamOnReturn,
                DecoderStartReturn, CreateBufsNothing, CreateBufsCopy, Replied, deviceVars,
                queueVars, bufferVars
  <2>2. wild' # "empty list"
    BY <1>3 DEF QbufSucceeds, QbufFails, PrepareBufReturn, CommandFails, StreamOnReturn,
                DecoderStartReturn, CreateBufsNothing, CreateBufsCopy, historyVars
  <2> QED BY <1>2, <2>1, <2>2
<1>4. CASE StartDrain(t) \/ Drained(t) \/ CreateBufsSwitch(t)
  <2>1. PICK l \in {"clear", "drain", "copy"} : pc' = [pc EXCEPT ![t] = l]
    BY <1>4 DEF StartDrain, Drained, CreateBufsSwitch, Goto
  <2>2. UNCHANGED <<call, pending_dqbufs, disconnected, error, wild>>
    BY <1>4 DEF StartDrain, Drained, CreateBufsSwitch, Replied, callVars, deviceVars, queueVars,
                bufferVars, historyVars
  <2>3. l \in {"drain", "clear"} => call[t] \in {"streamoff", "reqbufs"}
    BY <1>4, <2>1 DEF StartDrain, Drained, CreateBufsSwitch, Replied, Goto, WaitOK
  <2>4. call[t] \in Calls[t] \cup {"none"} /\ call' = [call EXCEPT ![t] = call[t]]
    BY <2>2 DEF WaitOK
  <2>5. l \in Pc /\ l \notin {"test", "sleep", "relock"}
    BY DEF Pc
  <2> QED BY <1>1, <2>1, <2>2, <2>3, <2>4, <2>5, MoveWait
<1>5. CASE Clear(t)
  <2>1. call[t] \in {"streamoff", "reqbufs"} /\ call[t] \in Calls[t]
    BY <1>5 DEF Clear, WaitOK
  <2>2. \A u \in Thread : pc[u] \notin {"test", "sleep", "relock"}
    BY <1>5, <2>1 DEF Clear, WaitOK, Alone
  <2>3. \E S : pending_dqbufs' \in Seq(S)
    <3>1. pending_dqbufs' \in Seq({})
      BY <1>5 DEF Clear, ClearQueue
    <3> QED BY <3>1
  <2> QED BY <1>5, <2>2, <2>3 DEF Clear, Return, Goto, WaitOK, DequeuesFromList, historyVars, Pc
<1>6. CASE DqbufTest(t)
  BY <1>6 DEF DqbufTest, Goto, WaitOK, DequeuesFromList, callVars, queueVars, bufferVars,
              deviceVars, historyVars, Pc
<1>7. CASE DqbufNoDevice(t) \/ DqbufInterrupted(t)
  <2>1. pc' = [pc EXCEPT ![t] = "idle"]
    BY <1>7 DEF DqbufNoDevice, DqbufInterrupted, Goto
  <2>2. UNCHANGED <<call, pending_dqbufs, disconnected, error, wild>>
    BY <1>7 DEF DqbufNoDevice, DqbufInterrupted, callVars, queueVars, bufferVars, deviceVars,
                historyVars
  <2> QED BY <2>1, <2>2 DEF WaitOK, DequeuesFromList, Pc
<1>8. CASE DqbufTake(t)
  <2>1. pending_dqbufs # <<>>
    BY <1>8 DEF DqbufTake, WaitOK
  <2>2. \A u \in Thread : u # t => pc[u] \notin {"test", "sleep", "relock"}
    BY <1>8 DEF DqbufTake, WaitOK, Alone
  <2>3. \E S : pending_dqbufs' \in Seq(S)
    <3>1. PICK S : pending_dqbufs \in Seq(S)
      BY DEF WaitOK
    <3>2. pending_dqbufs' = Tail(pending_dqbufs)
      BY <1>8, <2>1 DEF DqbufTake
    <3>3. pending_dqbufs' \in Seq(S)
      BY <2>1, <3>1, <3>2
    <3> QED BY <3>3
  <2> QED BY <1>8, <2>1, <2>2, <2>3 DEF DqbufTake, Goto, WaitOK, DequeuesFromList, callVars, Pc
<1>9. CASE QbufMark(t)
  <2>1. PICK l \in {"replied", "command"} : pc' = [pc EXCEPT ![t] = l]
    BY <1>9 DEF QbufMark, Goto
  <2>2. UNCHANGED <<call, pending_dqbufs, disconnected, error, wild>>
    BY <1>9 DEF QbufMark, deviceVars
  <2>3. call[t] \in Calls[t] \cup {"none"} /\ call' = [call EXCEPT ![t] = call[t]]
    BY <2>2 DEF WaitOK
  <2>4. l \in Pc /\ l \notin {"test", "sleep", "relock", "drain", "clear"}
    BY DEF Pc
  <2> QED BY <1>1, <2>1, <2>2, <2>3, <2>4, MoveWait
<1> QED BY <1>3, <1>4, <1>5, <1>6, <1>7, <1>8, <1>9 DEF Continue

\* The event worker, the device and its removal only add to the list.
LEMMA OthersWait ==
    ASSUME WaitOK, wild = "none",
           \/ \E t \in Thread : Timeout(t) \/ DeviceExecutes(t)
           \/ EventWork \/ RemoveDevice \/ StopQueues
           \/ \E b \in dev_queue, last \in BOOLEAN : DeviceCompletes(b, last)
           \/ DeviceFails
    PROVE  WaitOK'
<1>1. CASE \E t \in Thread : Timeout(t)
  <2>1. PICK t \in Thread : Timeout(t)
    BY <1>1
  <2>2. Calls[t] \subseteq Ioctl
    BY QueueAssumption
  <2>3. call[t] \in Calls[t] \cup {"none"} /\ call' = [call EXCEPT ![t] = call[t]]
    BY <2>1 DEF WaitOK, Timeout, callVars
  <2> QED BY <2>1, <2>2, <2>3, MoveWait DEF Timeout, Goto, queueVars, bufferVars, historyVars, Pc
<1>2. CASE \E t \in Thread : DeviceExecutes(t)
  <2>1. PICK t \in Thread : DeviceExecutes(t)
    BY <1>2
  <2>2. UNCHANGED pc \/ pc' = [pc EXCEPT ![t] = "replied"]
    BY <2>1 DEF DeviceExecutes, DeviceQbuf, Answer, Goto
  <2>3. UNCHANGED <<call, wild, pending_dqbufs, disconnected, error>>
    BY <2>1 DEF DeviceExecutes, callVars, queueVars, bufferVars, historyVars
  <2>4. pc' \in [Thread -> Pc] /\ \A u \in Thread : pc'[u] = pc[u] \/ pc'[u] = "replied"
    BY <2>2 DEF WaitOK, Pc
  <2>5. \E S : pending_dqbufs' \in Seq(S)
    BY <2>3 DEF WaitOK
  <2> QED BY <2>3, <2>4, <2>5, StayWait
<1>3. CASE ErrorEvent \/ IgnoreEvent \/ StartCompletion \/ EndCompletion
  <2>1. UNCHANGED <<call, disconnected>> /\ (error => error') /\ wild' # "empty list"
    <3>1. CASE ErrorEvent
      BY <3>1 DEF ErrorEvent, TakeEvent, callVars
    <3>2. CASE IgnoreEvent
      BY <3>2 DEF IgnoreEvent, TakeEvent, callVars
    <3>3. CASE StartCompletion
      BY <3>3 DEF StartCompletion, TakeEvent, callVars
    <3>4. CASE EndCompletion
      BY <3>4 DEF EndCompletion, callVars
    <3> QED BY <1>3, <3>1, <3>2, <3>3, <3>4
  <2>2. pc' = pc \/ pc' = Woken(pc)
    BY <1>3 DEF ErrorEvent, IgnoreEvent, StartCompletion, EndCompletion, TakeEvent
  <2>3. /\ pc' \in [Thread -> Pc]
        /\ \A t \in Thread : pc'[t] = pc[t] \/ (pc[t] = "sleep" /\ pc'[t] = "test")
    BY <2>2 DEF WaitOK, Woken, Pc
  <2>4. PICK e : pending_dqbufs' = pending_dqbufs \/ pending_dqbufs' = Append(pending_dqbufs, e)
    BY <1>3 DEF ErrorEvent, IgnoreEvent, StartCompletion, EndCompletion, bufferVars
  <2>5. PICK S : pending_dqbufs \in Seq(S)
    BY DEF WaitOK
  <2>6. pending_dqbufs \in Seq(S \cup {e})
    BY <2>5
  <2>7. pending_dqbufs' \in Seq(S \cup {e}) /\ (pending_dqbufs # <<>> => pending_dqbufs' # <<>>)
    BY <2>4, <2>6
  <2>8. \E R : pending_dqbufs' \in Seq(R)
    BY <2>7
  <2> QED BY <2>1, <2>3, <2>7, <2>8, StayWait
<1>4. CASE StopQueues
  <2>1. UNCHANGED <<call, wild, pending_dqbufs, disconnected, error>>
    BY <1>4 DEF StopQueues, callVars, queueVars, bufferVars, historyVars
  <2>2. /\ pc' \in [Thread -> Pc]
        /\ \A t \in Thread : \/ pc'[t] = pc[t]
                             \/ pc[t] = "sleep" /\ pc'[t] = "test"
                             \/ pc'[t] = "replied"
    BY <1>4 DEF StopQueues, Woken, WaitOK, Pc
  <2>3. \E S : pending_dqbufs' \in Seq(S)
    BY <2>1 DEF WaitOK
  <2> QED BY <2>1, <2>2, <2>3, StayWait
<1>5. CASE \/ WorkerEnters \/ WorkerLeaves \/ RemoveDevice \/ DeviceFails
           \/ \E b \in dev_queue, last \in BOOLEAN : DeviceCompletes(b, last)
  <2>1. UNCHANGED <<pc, call, wild, pending_dqbufs, error>>
    BY <1>5 DEF WorkerEnters, WorkerLeaves, RemoveDevice, DeviceFails, DeviceCompletes,
                threadVars, callVars, queueVars, bufferVars, deviceVars, historyVars
  <2>2. disconnected => disconnected'
    BY <1>5 DEF WorkerEnters, WorkerLeaves, RemoveDevice, DeviceFails, DeviceCompletes,
                threadVars, callVars, queueVars, bufferVars, deviceVars, historyVars
  <2> QED BY <2>1, <2>2 DEF WaitOK, DequeuesFromList
<1> QED BY <1>1, <1>2, <1>3, <1>4, <1>5 DEF EventWork

LEMMA NextWait == ASSUME Alone, WaitOK, [Next]_vars PROVE WaitOK'
<1>1. CASE UNCHANGED vars
  BY <1>1 DEF vars, queueVars, bufferVars, threadVars, callVars, deviceVars, historyVars, WaitOK,
              DequeuesFromList
<1>2. CASE Next
  BY <1>2, StartWait, ContinueWait, OthersWait DEF Next
<1> QED BY <1>1, <1>2

\* DQBUF never takes a buffer from an empty list when the thread that dequeues is the only
\* one that dequeues or cancels, whatever the other threads, the worker and the device do:
\* only a second DQBUF, a STREAMOFF or a REQBUFS can empty the list between the test in
\* wait_event_interruptible and virtio_media_dqbuf's list_first_entry.
THEOREM DequeuesAlwaysFromList ==
    ASSUME Alone
    PROVE  Spec => []DequeuesFromList
<1>1. WaitOK => DequeuesFromList
  BY DEF WaitOK
<1> QED BY <1>1, InitWait, NextWait, PTL DEF Spec

=============================================================================
