----------------------------- MODULE DriverQueue -----------------------------
(***************************************************************************)
(* The capture queue of a session of the guest driver                      *)
(* (driver/virtio_media_ioctls.c, virtio_media_driver.c, session.h), used  *)
(* by several threads of an application, with the event worker that        *)
(* completes buffers and a device on the other side.  An ioctl holds vlock *)
(* until it returns, except that DQBUF releases it while it waits; the     *)
(* event worker takes events_lock and never vlock, so it runs between any  *)
(* two steps of an ioctl; and it completes a buffer in two steps, between  *)
(* which an ioctl sees flags that are neither QUEUED nor DONE.             *)
(***************************************************************************)
EXTENDS Integers, FiniteSets, SequencesExt

CONSTANTS
    Thread,         \* threads of the application that share the file
    Worker, None,   \* the event worker, and nobody
    Calls,          \* Calls[t]: the ioctls thread t makes
    MaxBufs,        \* bound on the number of buffers of the queue
    MaxQbufs,       \* bound on the number of QBUFs in a behaviour
    EventBufs,      \* event buffers on the eventq, VIRTIO_MEDIA_NUM_EVENT_BUFS
    Memory,         \* memory type of the queue, "MMAP" or "DMABUF"
    NonBlocking,    \* session->nonblocking_dequeue
    FaultyReplies   \* the device may execute a QBUF and answer it with garbage

Ioctl == {"qbuf", "dqbuf", "prepare_buf", "streamon", "streamoff", "reqbufs",
          "create_bufs", "decoder_start"}

ASSUME QueueAssumption ==
    /\ Worker \notin Thread /\ None \notin Thread /\ Worker # None
    /\ Calls \in [Thread -> SUBSET Ioctl]
    /\ MaxBufs \in Nat \ {0} /\ MaxQbufs \in Nat /\ EventBufs \in Nat
    /\ Memory \in {"MMAP", "DMABUF"}
    /\ NonBlocking \in BOOLEAN /\ FaultyReplies \in BOOLEAN

VARIABLES
    \* struct virtio_media_queue_state
    streaming, import_needs_cancel, is_capture_last,
    allocated_bufs,
    copying,        \* create_bufs has replaced queue->buffers and not filled it yet
    slots,          \* flags of queue->buffers
    queued_bufs,
    pending_dqbufs, \* the slots of the list, in order
    armed,          \* slots whose imports have been prepared and not completed
    \* the threads and their locks
    vlock, events_lock, pc, call, arg, old_flags, reply,
    \* the device as the driver sees it
    disconnected, stopped, error, eventq,
    event_bufs,     \* event buffers the device and the driver pass to each other
    completing,     \* the event virtio_media_process_dqbuf_event is at, if any
    \* the device's own queue (external)
    dev_queue, dev_streaming,
    \* history: the QBUF a slot was last filled by and last completed for; the
    \* list operation that went astray, if any; and whether an ioctl has crossed
    \* the completion of a buffer since the queue was last cancelled
    qbufs, slot_qbuf, done_qbuf, wild, disturbed

flagVars == <<streaming, import_needs_cancel, is_capture_last>>
arrayVars == <<allocated_bufs, copying>>
bufferVars == <<slots, queued_bufs, pending_dqbufs, armed>>
queueVars == <<flagVars, arrayVars, bufferVars>>
callVars == <<call, arg, old_flags>>
threadVars == <<vlock, events_lock, pc, callVars, reply>>
eventVars == <<eventq, event_bufs, completing>>
deviceVars == <<disconnected, stopped, error, eventVars, dev_queue, dev_streaming>>
historyVars == <<qbufs, slot_qbuf, done_qbuf, wild, disturbed>>
vars == <<queueVars, threadVars, deviceVars, historyVars>>

Slot == 1 .. MaxBufs
Allocated == 1 .. allocated_bufs
Flag == {"QUEUED", "DONE", "PREPARED", "LAST"}
Pc == {"idle", "queueing", "command", "stopping", "replied", "drain", "clear", "copy",
       "test", "sleep", "relock"}
Event == [slot : Slot, qbuf : 0 .. MaxQbufs, last : BOOLEAN, error : BOOLEAN]
NoEvent == [slot |-> 0, qbuf |-> 0, last |-> FALSE, error |-> FALSE]

Init ==
    /\ streaming = FALSE /\ import_needs_cancel = FALSE /\ is_capture_last = FALSE
    /\ allocated_bufs = 0 /\ copying = FALSE
    /\ slots = [i \in Slot |-> {}]
    /\ queued_bufs = 0 /\ pending_dqbufs = <<>> /\ armed = {}
    /\ vlock = None /\ events_lock = None
    /\ pc = [t \in Thread |-> "idle"] /\ call = [t \in Thread |-> "none"]
    /\ arg = [t \in Thread |-> 0] /\ old_flags = [t \in Thread |-> {}]
    /\ reply = "none"
    /\ disconnected = FALSE /\ stopped = FALSE /\ error = FALSE
    /\ eventq = <<>> /\ event_bufs = EventBufs /\ completing = NoEvent
    /\ dev_queue = {} /\ dev_streaming = FALSE
    /\ qbufs = 0 /\ slot_qbuf = [i \in Slot |-> 0] /\ done_qbuf = [i \in Slot |-> 0]
    /\ wild = "none" /\ disturbed = FALSE

Goto(t, l) == pc' = [pc EXCEPT ![t] = l]

\* The ioctl returns: virtio_media_device_ioctl drops vlock, and the ioctl's local
\* variables are gone.
Return(t) ==
    /\ Goto(t, "idle") /\ vlock' = None /\ reply' = "none"
    /\ call' = [call EXCEPT ![t] = "none"]
    /\ arg' = [arg EXCEPT ![t] = 0]
    /\ old_flags' = [old_flags EXCEPT ![t] = {}]

\* virtio_media_device_ioctl takes vlock; a disconnected device or a session
\* that has failed refuses every ioctl with ENODEV, which changes nothing.
Enter(t, c) ==
    /\ pc[t] = "idle" /\ vlock = None /\ c \in Calls[t]
    /\ ~disconnected /\ ~error

\* The ioctl sends its command, keeps vlock and waits for the reply.
Send(t, c, a) ==
    /\ vlock' = t
    /\ call' = [call EXCEPT ![t] = c]
    /\ arg' = [arg EXCEPT ![t] = a]
    /\ Goto(t, "command")
    /\ UNCHANGED <<events_lock, reply, deviceVars>>

\* The ioctl c of thread t goes on with the reply r to its command.
Replied(t, c, r) ==
    /\ pc[t] = "replied" /\ call[t] = c /\ reply = r
    /\ UNCHANGED deviceVars

-----------------------------------------------------------------------------
\* virtio_media_prepare_imports arms the fences of an imported buffer's planes, all
\* of them or none; when it fails QBUF changes nothing.
PrepareImports(i) == IF Memory = "DMABUF" THEN armed \cup {i} ELSE armed

\* virtio_media_complete_imports and virtio_media_release_imports signal the fences
\* of the slots s; without imports there are none.
CompleteImports(s) == armed \ s

\* The slot is being completed: its flags are those of the event, without DONE yet.
Completing(i) == completing.slot = i

\* virtio_media_qbuf tests the flags, under vlock alone ...
Qbuf(t, i) ==
    /\ Enter(t, "qbuf") /\ i \in Allocated /\ qbufs < MaxQbufs
    /\ ~import_needs_cancel
    /\ slots[i] \cap {"QUEUED", "DONE"} = {}
    /\ vlock' = t
    /\ call' = [call EXCEPT ![t] = "qbuf"]
    /\ arg' = [arg EXCEPT ![t] = i]
    /\ Goto(t, "queueing")
    /\ disturbed' = (disturbed \/ Completing(i))
    /\ UNCHANGED <<queueVars, events_lock, old_flags, reply, deviceVars,
                   qbufs, slot_qbuf, done_qbuf, wild>>

\* ... prepares the imports and marks the slot queued before the device is asked; a
\* device that has gone by now is not asked any more.
QbufMark(t) ==
    LET i == arg[t]
    IN  /\ pc[t] = "queueing"
        /\ armed' = PrepareImports(i)
        /\ old_flags' = [old_flags EXCEPT ![t] = slots[i]]
        /\ slots' = [slots EXCEPT ![i] = {"QUEUED"}]
        /\ queued_bufs' = queued_bufs + 1
        /\ qbufs' = qbufs + 1
        /\ slot_qbuf' = [slot_qbuf EXCEPT ![i] = qbufs + 1]
        /\ IF disconnected THEN Goto(t, "replied") /\ reply' = "error"
                           ELSE Goto(t, "command") /\ UNCHANGED reply
        /\ UNCHANGED <<flagVars, arrayVars, pending_dqbufs, vlock, events_lock, call, arg,
                       deviceVars, done_qbuf, wild, disturbed>>

QbufSucceeds(t) ==
    /\ Replied(t, "qbuf", "ok")
    /\ Return(t)
    /\ UNCHANGED <<queueVars, events_lock, historyVars>>

\* Faulty variant: an early completion is not looked at.
QbufFailsBlindly(t) ==
    /\ Replied(t, "qbuf", "error") /\ events_lock = None
    /\ import_needs_cancel' = (import_needs_cancel \/ Memory = "DMABUF")
    /\ armed' = armed \ {arg[t]}
    /\ queued_bufs' = queued_bufs - 1
    /\ slots' = [slots EXCEPT ![arg[t]] = old_flags[t]]
    /\ Return(t)
    /\ UNCHANGED <<streaming, is_capture_last, arrayVars, pending_dqbufs,
                   events_lock, historyVars>>

\* Faulty variant: a failed import is treated like any other buffer.
QbufFailsLeniently(t) ==
    LET done == "DONE" \in slots[arg[t]]
    IN  /\ Replied(t, "qbuf", "error") /\ events_lock = None
        /\ queued_bufs' = IF done THEN queued_bufs ELSE queued_bufs - 1
        /\ slots' = IF done THEN slots ELSE [slots EXCEPT ![arg[t]] = old_flags[t]]
        /\ Return(t)
        /\ UNCHANGED <<flagVars, arrayVars, pending_dqbufs, armed, events_lock, historyVars>>

\* The failure path of virtio_media_qbuf, under events_lock: a failed import
\* blocks the queue, and the slot is given back unless it has been completed.
QbufFails(t) ==
    LET i == arg[t]
    IN  /\ Replied(t, "qbuf", "error") /\ events_lock = None
        /\ import_needs_cancel' = (import_needs_cancel \/ Memory = "DMABUF")
        /\ armed' = CompleteImports({i})
        /\ queued_bufs' = IF "DONE" \in slots[i] THEN queued_bufs ELSE queued_bufs - 1
        /\ slots' = [slots EXCEPT ![i] = IF "DONE" \in @ THEN @ ELSE old_flags[t]]
        /\ Return(t)
        /\ UNCHANGED <<streaming, is_capture_last, arrayVars, pending_dqbufs,
                       events_lock, historyVars>>

\* virtio_media_prepare_buf looks at the slot's flags neither before nor after
\* its command, and overwrites them.
PrepareBuf(t, i) ==
    /\ Enter(t, "prepare_buf") /\ Memory # "DMABUF" /\ i \in Allocated
    /\ Send(t, "prepare_buf", i)
    /\ UNCHANGED <<queueVars, old_flags, historyVars>>

PrepareBufReturn(t) ==
    /\ Replied(t, "prepare_buf", "ok")
    /\ slots' = [slots EXCEPT ![arg[t]] = {"PREPARED"}]
    /\ disturbed' = (disturbed \/ Completing(arg[t]) \/ slots[arg[t]] \cap {"QUEUED", "DONE"} # {})
    /\ Return(t)
    /\ UNCHANGED <<flagVars, arrayVars, queued_bufs, pending_dqbufs, armed,
                   events_lock, qbufs, slot_qbuf, done_qbuf, wild>>

-----------------------------------------------------------------------------
\* virtio_media_streamon, virtio_media_streamoff, virtio_media_reqbufs,
\* virtio_media_create_bufs and virtio_media_decoder_cmd up to their command.
StreamOn(t) ==
    /\ Enter(t, "streamon") /\ ~import_needs_cancel
    /\ Send(t, "streamon", 0)
    /\ UNCHANGED <<queueVars, old_flags, historyVars>>

StreamOff(t) ==
    /\ Enter(t, "streamoff")
    /\ Send(t, "streamoff", 0)
    /\ UNCHANGED <<queueVars, old_flags, historyVars>>

ReqBufs(t, n) ==
    /\ Enter(t, "reqbufs") /\ ~(streaming /\ n > 0)
    /\ Send(t, "reqbufs", n)
    /\ UNCHANGED <<queueVars, old_flags, historyVars>>

CreateBufs(t) ==
    /\ Enter(t, "create_bufs") /\ Memory # "DMABUF" /\ allocated_bufs < MaxBufs
    /\ Send(t, "create_bufs", allocated_bufs + 1)
    /\ UNCHANGED <<queueVars, old_flags, historyVars>>

DecoderStart(t) ==
    /\ Enter(t, "decoder_start")
    /\ Send(t, "decoder_start", 0)
    /\ UNCHANGED <<queueVars, old_flags, historyVars>>

\* A failed command ends these ioctls at once.
CommandFails(t) ==
    /\ \E c \in Ioctl \ {"qbuf"} : Replied(t, c, "error")
    /\ Return(t)
    /\ UNCHANGED <<queueVars, events_lock, historyVars>>

StreamOnReturn(t) ==
    /\ Replied(t, "streamon", "ok")
    /\ streaming' = TRUE
    /\ Return(t)
    /\ UNCHANGED <<import_needs_cancel, is_capture_last, arrayVars, bufferVars,
                   events_lock, historyVars>>

DecoderStartReturn(t) ==
    /\ Replied(t, "decoder_start", "ok")
    /\ is_capture_last' = FALSE
    /\ Return(t)
    /\ UNCHANGED <<streaming, import_needs_cancel, arrayVars, bufferVars,
                   events_lock, historyVars>>

\* Faulty variant: the queue is cleared although the device has refused to stop.
StartDrainAnyway(t) ==
    /\ \E c \in {"streamoff", "reqbufs"}, r \in {"ok", "error"} : Replied(t, c, r)
    /\ events_lock = None
    /\ Goto(t, "drain") /\ events_lock' = t
    /\ UNCHANGED <<queueVars, vlock, callVars, reply, historyVars>>

\* Faulty variant: the early return for a disconnected device keeps events_lock.
StartDrainKeepsLock(t) ==
    /\ \E c \in {"streamoff", "reqbufs"} : Replied(t, c, "ok")
    /\ events_lock = None
    /\ events_lock' = t
    /\ Goto(t, IF disconnected THEN "clear" ELSE "drain")
    /\ UNCHANGED <<queueVars, vlock, callVars, reply, historyVars>>

\* STREAMOFF and REQBUFS first process the events already delivered: they enter
\* virtio_media_process_events, which does nothing on a disconnected device ...
StartDrain(t) ==
    /\ \E c \in {"streamoff", "reqbufs"} : Replied(t, c, "ok")
    /\ events_lock = None
    /\ IF disconnected THEN Goto(t, "clear") /\ UNCHANGED events_lock
                       ELSE Goto(t, "drain") /\ events_lock' = t
    /\ UNCHANGED <<queueVars, vlock, callVars, reply, historyVars>>

\* Faulty variant: events are left on the eventq.
DrainedEarly(t) ==
    /\ pc[t] = "drain" /\ completing = NoEvent
    /\ Goto(t, "clear") /\ events_lock' = None
    /\ UNCHANGED <<queueVars, vlock, callVars, reply, deviceVars, historyVars>>

\* ... and leave it when the eventq is empty.
Drained(t) ==
    /\ pc[t] = "drain" /\ eventq = <<>> /\ completing = NoEvent
    /\ Goto(t, "clear") /\ events_lock' = None
    /\ UNCHANGED <<queueVars, vlock, callVars, reply, deviceVars, historyVars>>

\* Faulty variant: a buffer that waited to be dequeued keeps its flags.
ClearQueueKeepsDone ==
    /\ pending_dqbufs' = <<>>
    /\ slots' = [i \in Slot |-> slots[i] \cap {"DONE"}]
    /\ armed' = {}
    /\ queued_bufs' = 0
    /\ streaming' = FALSE /\ import_needs_cancel' = FALSE /\ is_capture_last' = FALSE

\* virtio_media_clear_queue
ClearQueue ==
    /\ pending_dqbufs' = <<>>
    /\ slots' = [i \in Slot |-> IF i \in Allocated THEN {} ELSE slots[i]]
    /\ armed' = CompleteImports(Allocated)
    /\ queued_bufs' = 0
    /\ streaming' = FALSE
    /\ import_needs_cancel' = FALSE
    /\ is_capture_last' = FALSE

\* STREAMOFF clears the queue, under events_lock; REQBUFS also replaces the array
\* by one of the size the device granted, or by none if it cannot allocate it.
Clear(t) ==
    /\ pc[t] = "clear" /\ events_lock = None
    /\ ClearQueue
    /\ IF call[t] = "reqbufs"
       THEN allocated_bufs' \in IF arg[t] = 0 THEN {0} ELSE 0 .. MaxBufs
       ELSE UNCHANGED allocated_bufs
    /\ disturbed' = (disturbed /\ disconnected)
    /\ Return(t)
    /\ UNCHANGED <<copying, events_lock, deviceVars, qbufs, slot_qbuf, done_qbuf, wild>>

\* virtio_media_create_bufs switches to a zeroed array, without any lock the
\* event worker takes ...
CreateBufsSwitch(t) ==
    /\ Replied(t, "create_bufs", "ok")
    /\ copying' = TRUE
    /\ Goto(t, "copy")
    /\ UNCHANGED <<flagVars, allocated_bufs, bufferVars, vlock, events_lock, callVars, reply,
                   historyVars>>

\* ... or returns ENOMEM when it has no memory for it, and EINVAL or 0 when the
\* device gave it no new buffer.
CreateBufsNothing(t) ==
    /\ Replied(t, "create_bufs", "ok")
    /\ Return(t)
    /\ UNCHANGED <<queueVars, events_lock, historyVars>>

\* ... copies the old buffers into it, and frees the old array.  The nodes of
\* pending_dqbufs are left in the old one, and so is a buffer that is being completed.
CreateBufsCopy(t) ==
    /\ pc[t] = "copy"
    /\ copying' = FALSE
    /\ allocated_bufs' = arg[t]
    /\ wild' = IF pending_dqbufs # <<>> \/ completing # NoEvent THEN "freed node" ELSE wild
    /\ Return(t)
    /\ UNCHANGED <<flagVars, bufferVars, events_lock, deviceVars,
                   qbufs, slot_qbuf, done_qbuf, disturbed>>

-----------------------------------------------------------------------------
\* virtio_media_dqbuf up to the point where it releases vlock to wait.
Dqbuf(t) ==
    /\ Enter(t, "dqbuf")
    /\ ~is_capture_last
    /\ IF NonBlocking THEN pending_dqbufs # <<>>
                      ELSE allocated_bufs > 0 /\ streaming
    /\ Goto(t, "test")
    /\ UNCHANGED <<queueVars, vlock, events_lock, callVars, reply, deviceVars, historyVars>>

\* wait_event_interruptible tests its condition, without any lock ...
DqbufTest(t) ==
    /\ pc[t] = "test"
    /\ Goto(t, IF pending_dqbufs # <<>> \/ disconnected \/ error THEN "relock" ELSE "sleep")
    /\ UNCHANGED <<queueVars, vlock, events_lock, callVars, reply, deviceVars, historyVars>>

\* ... and a signal ends it: DQBUF returns EINTR, or ENODEV.
DqbufInterrupted(t) ==
    /\ pc[t] = "sleep" /\ vlock = None
    /\ Goto(t, "idle")
    /\ UNCHANGED <<queueVars, vlock, events_lock, callVars, reply, deviceVars, historyVars>>

\* DQBUF has vlock again; the device or the session has failed.
DqbufNoDevice(t) ==
    /\ pc[t] = "relock" /\ vlock = None /\ (disconnected \/ error)
    /\ Goto(t, "idle")
    /\ UNCHANGED <<queueVars, vlock, events_lock, callVars, reply, deviceVars, historyVars>>

\* DQBUF has vlock again and takes the first buffer of the list, without looking
\* whether there still is one.
DqbufTake(t) ==
    /\ pc[t] = "relock" /\ vlock = None /\ ~disconnected /\ ~error
    /\ Goto(t, "idle")
    /\ IF pending_dqbufs # <<>>
       THEN LET i == Head(pending_dqbufs)
            IN  /\ pending_dqbufs' = Tail(pending_dqbufs)
                /\ slots' = [slots EXCEPT ![i] = @ \ {"DONE", "QUEUED"}]
                /\ is_capture_last' = (is_capture_last \/ "LAST" \in slots[i])
                /\ UNCHANGED wild
       ELSE wild' = "empty list" /\ UNCHANGED <<pending_dqbufs, slots, is_capture_last>>
    /\ UNCHANGED <<streaming, import_needs_cancel, arrayVars, queued_bufs, armed, vlock,
                   events_lock, callVars, reply, deviceVars, qbufs, slot_qbuf, done_qbuf, disturbed>>

-----------------------------------------------------------------------------
\* Faulty variant: dqbuf_wait is not woken.
WokenNever(p) == p

\* wake_up(&session->dqbuf_wait): sleepers test their condition again.
Woken(p) == [t \in Thread |-> IF p[t] = "sleep" THEN "test" ELSE p[t]]

\* The flags of a buffer as the device sends them: QUEUED and DONE are the driver's.
EventFlags(e) == IF e.last THEN {"LAST"} ELSE {}

\* The buffer of the event is queued and not completed.
Awaited(e) == e.slot \in Allocated /\ "QUEUED" \in slots[e.slot] /\ "DONE" \notin slots[e.slot]

\* Faulty variant: the last buffer of the array is taken for an invalid one.
AcceptsBelow(e) == e.slot < allocated_bufs /\ Awaited(e) /\ ~copying

\* virtio_media_process_dqbuf_event ignores an event unless its buffer is awaited;
\* in an array that is not filled yet none is.
Accepts(e) == Awaited(e) /\ ~copying

\* The event worker enters virtio_media_process_events when there is an event ...
WorkerEnters ==
    /\ events_lock = None /\ ~disconnected /\ eventq # <<>>
    /\ events_lock' = Worker
    /\ UNCHANGED <<queueVars, vlock, pc, callVars, reply, deviceVars, historyVars>>

\* ... whoever is inside takes one event after the other ...
TakeEvent ==
    /\ events_lock # None /\ completing = NoEvent /\ eventq # <<>>
    /\ eventq' = Tail(eventq)
    /\ UNCHANGED <<flagVars, arrayVars, vlock, events_lock, callVars, reply,
                   disconnected, stopped, dev_queue, dev_streaming, qbufs, slot_qbuf, wild>>

\* ... and gives its buffer back to the device; when
\* virtio_media_send_event_buffer fails, the buffer is lost.
SendEventBuffer == event_bufs' \in {event_bufs, event_bufs - 1}

\* The session has failed, for good.
ErrorEvent ==
    /\ TakeEvent /\ Head(eventq).error
    /\ error' = TRUE
    /\ pc' = Woken(pc)
    /\ SendEventBuffer
    /\ UNCHANGED <<bufferVars, completing, done_qbuf, disturbed>>

\* virtio_media_process_dqbuf_event for an event it does not accept.
IgnoreEvent ==
    LET e == Head(eventq)
    IN  /\ TakeEvent /\ ~e.error /\ ~Accepts(e)
        /\ disturbed' = (disturbed \/ (copying /\ Awaited(e)))
        /\ SendEventBuffer
        /\ UNCHANGED <<bufferVars, pc, error, completing, done_qbuf>>

\* virtio_media_process_dqbuf_event for one it accepts: the fences are signalled and
\* the event's buffer, flags included, is copied over the slot, without vlock ...
StartCompletion ==
    LET e == Head(eventq)
    IN  /\ TakeEvent /\ ~e.error /\ Accepts(e)
        /\ completing' = e
        /\ armed' = CompleteImports({e.slot})
        /\ slots' = [slots EXCEPT ![e.slot] = EventFlags(e)]
        /\ done_qbuf' = [done_qbuf EXCEPT ![e.slot] = e.qbuf]
        /\ UNCHANGED <<queued_bufs, pending_dqbufs, pc, error, event_bufs, disturbed>>

\* ... then DONE is added to the flags, which may undo what an ioctl has written since
\* they were read; the slot is put on the list, and sleepers are woken.
EndCompletion ==
    LET i == completing.slot
    IN  /\ completing # NoEvent
        /\ \E flags \in {slots[i], EventFlags(completing)} :
              slots' = [slots EXCEPT ![i] = flags \cup {"DONE"}]
        /\ pending_dqbufs' = Append(pending_dqbufs, i)
        /\ wild' = IF i \in ToSet(pending_dqbufs) THEN "linked twice" ELSE wild
        /\ queued_bufs' = queued_bufs - 1
        /\ pc' = Woken(pc)
        /\ completing' = NoEvent
        /\ SendEventBuffer
        /\ UNCHANGED <<flagVars, arrayVars, armed, vlock, events_lock, callVars, reply,
                       disconnected, stopped, error, eventq, dev_queue, dev_streaming,
                       qbufs, slot_qbuf, done_qbuf, disturbed>>

\* ... and the worker leaves when there is none left.
WorkerLeaves ==
    /\ events_lock = Worker /\ eventq = <<>> /\ completing = NoEvent
    /\ events_lock' = None
    /\ UNCHANGED <<queueVars, vlock, pc, callVars, reply, deviceVars, historyVars>>

\* virtio_media_kick_command has waited long enough and calls
\* virtio_media_stop_queues; virtio_media_remove calls it at any time.  First
\* every later command and event is refused ...
Timeout(t) ==
    /\ pc[t] = "command"
    /\ Goto(t, "stopping")
    /\ disconnected' = TRUE
    /\ UNCHANGED <<queueVars, vlock, events_lock, callVars, reply,
                   stopped, error, eventVars, dev_queue, dev_streaming, historyVars>>

RemoveDevice ==
    /\ ~disconnected
    /\ disconnected' = TRUE
    /\ UNCHANGED <<queueVars, threadVars, stopped, error, eventVars, dev_queue, dev_streaming,
                   historyVars>>

\* ... then, when nobody processes events, the device is reset, the command in
\* flight fails, and sleepers wake.
StopQueues ==
    /\ disconnected /\ ~stopped /\ events_lock = None
    /\ stopped' = TRUE
    /\ dev_queue' = {} /\ dev_streaming' = FALSE /\ eventq' = <<>>
    /\ pc' = Woken([t \in Thread |-> IF pc[t] \in {"command", "stopping"} THEN "replied"
                                                                       ELSE pc[t]])
    /\ reply' = IF \E t \in Thread : pc[t] \in {"command", "stopping"} THEN "error" ELSE reply
    /\ UNCHANGED <<queueVars, vlock, events_lock, callVars, disconnected, error, event_bufs,
                   completing, historyVars>>

-----------------------------------------------------------------------------
\* The device (external).  It answers commands in order, completes buffers only
\* while it streams, and has delivered their events when it answers.  The answer
\* to a command that has timed out comes too late.
Answer(t, r) ==
    IF pc[t] = "command" THEN reply' = r /\ Goto(t, "replied")
                         ELSE reply' = "late" /\ UNCHANGED pc

\* A slot the device already holds is refused.
DeviceQbuf(t) ==
    LET i == arg[t]
        accepted == /\ \A b \in dev_queue : b[1] # i
                    /\ dev_queue' = dev_queue \cup {<<i, slot_qbuf[i]>>}
    IN  \/ accepted /\ Answer(t, "ok")
        \/ Answer(t, "error") /\ UNCHANGED dev_queue
        \/ FaultyReplies /\ accepted /\ Answer(t, "error")

DeviceExecutes(t) ==
    /\ pc[t] \in {"command", "stopping"} /\ reply = "none" /\ ~stopped
    /\ \/ call[t] = "qbuf" /\ DeviceQbuf(t) /\ UNCHANGED dev_streaming
       \/ /\ call[t] = "streamon"
          /\ dev_streaming' = TRUE /\ Answer(t, "ok") /\ UNCHANGED dev_queue
       \/ /\ call[t] \in {"streamoff", "reqbufs"}
          /\ dev_streaming' = FALSE /\ dev_queue' = {} /\ Answer(t, "ok")
       \/ /\ call[t] = "prepare_buf" /\ \A b \in dev_queue : b[1] # arg[t]
          /\ Answer(t, "ok") /\ UNCHANGED <<dev_queue, dev_streaming>>
       \/ /\ call[t] \in {"create_bufs", "decoder_start"}
          /\ Answer(t, "ok") /\ UNCHANGED <<dev_queue, dev_streaming>>
       \/ /\ call[t] # "qbuf"
          /\ Answer(t, "error") /\ UNCHANGED <<dev_queue, dev_streaming>>
    /\ UNCHANGED <<queueVars, vlock, events_lock, callVars,
                   disconnected, stopped, error, eventVars, historyVars>>

\* An event needs an event buffer that the driver does not have.
CanReport == Len(eventq) + (IF completing = NoEvent THEN 0 ELSE 1) < event_bufs

\* A buffer is completed, in any order.
DeviceCompletes(b, last) ==
    /\ b \in dev_queue /\ dev_streaming
    /\ CanReport
    /\ dev_queue' = dev_queue \ {b}
    /\ eventq' = Append(eventq, [slot |-> b[1], qbuf |-> b[2], last |-> last, error |-> FALSE])
    /\ UNCHANGED <<queueVars, threadVars, disconnected, stopped, error, event_bufs, completing,
                   dev_streaming, historyVars>>

\* The device reports an unrecoverable error for the session.
DeviceFails ==
    /\ ~stopped /\ ~error /\ CanReport
    /\ \A i \in DOMAIN eventq : ~eventq[i].error
    /\ eventq' = Append(eventq, [slot |-> 1, qbuf |-> 0, last |-> FALSE, error |-> TRUE])
    /\ UNCHANGED <<queueVars, threadVars, disconnected, stopped, error, event_bufs, completing,
                   dev_queue, dev_streaming, historyVars>>

\* Faulty variant: an empty list alone is an error.
CapturePollHasty ==
    IF disconnected \/ error THEN "hup"
    ELSE IF ~streaming \/ queued_bufs = 0 \/ pending_dqbufs = <<>> THEN "err"
    ELSE "in"

\* What virtio_media_device_poll answers to a request for the capture queue.
CapturePoll ==
    IF disconnected \/ error THEN "hup"
    ELSE IF ~streaming \/ (queued_bufs = 0 /\ pending_dqbufs = <<>>) THEN "err"
    ELSE IF pending_dqbufs # <<>> THEN "in"
    ELSE "wait"

-----------------------------------------------------------------------------
Start(t) ==
    \/ \E i \in Slot : Qbuf(t, i) \/ PrepareBuf(t, i)
    \/ StreamOn(t) \/ StreamOff(t) \/ CreateBufs(t) \/ DecoderStart(t) \/ Dqbuf(t)
    \/ \E n \in 0 .. MaxBufs : ReqBufs(t, n)

Continue(t) ==
    \/ QbufMark(t) \/ QbufSucceeds(t) \/ QbufFails(t) \/ PrepareBufReturn(t) \/ CommandFails(t)
    \/ StreamOnReturn(t) \/ DecoderStartReturn(t)
    \/ StartDrain(t) \/ Drained(t) \/ Clear(t)
    \/ CreateBufsSwitch(t) \/ CreateBufsNothing(t) \/ CreateBufsCopy(t)
    \/ DqbufTest(t) \/ DqbufNoDevice(t) \/ DqbufTake(t)

EventWork ==
    \/ WorkerEnters \/ WorkerLeaves
    \/ ErrorEvent \/ IgnoreEvent \/ StartCompletion \/ EndCompletion

\* Nothing is said of the memory after a list operation has gone astray.
Next ==
    /\ wild = "none"
    /\ \/ \E t \in Thread : Start(t) \/ Continue(t) \/ DqbufInterrupted(t)
       \/ \E t \in Thread : Timeout(t) \/ DeviceExecutes(t)
       \/ EventWork \/ RemoveDevice \/ StopQueues
       \/ \E b \in dev_queue, last \in BOOLEAN : DeviceCompletes(b, last)
       \/ DeviceFails

Spec == Init /\ [][Next]_vars

\* The kernel runs its threads and its worker; a mutex is handed to a thread that
\* waits for it, so DQBUF gets vlock back although others use it; a command is
\* answered or times out.
Fairness ==
    /\ WF_vars(wild = "none" /\ EventWork)
    /\ WF_vars(wild = "none" /\ StopQueues)
    /\ \A t \in Thread :
        /\ SF_vars(wild = "none" /\ Continue(t))
        /\ WF_vars(wild = "none" /\ (DeviceExecutes(t) \/ Timeout(t)))

LiveSpec == Spec /\ Fairness

-----------------------------------------------------------------------------
\* Type invariant of the queue, its threads and the device.
TypeOK ==
    /\ streaming \in BOOLEAN /\ import_needs_cancel \in BOOLEAN /\ is_capture_last \in BOOLEAN
    /\ allocated_bufs \in 0 .. MaxBufs /\ copying \in BOOLEAN
    /\ slots \in [Slot -> SUBSET Flag]
    /\ queued_bufs \in Nat
    /\ pending_dqbufs \in Seq(Slot)
    /\ armed \subseteq Slot
    /\ vlock \in Thread \cup {None} /\ events_lock \in Thread \cup {Worker, None}
    /\ pc \in [Thread -> Pc] /\ call \in [Thread -> Ioctl \cup {"none"}]
    /\ arg \in [Thread -> 0 .. MaxBufs] /\ old_flags \in [Thread -> SUBSET Flag]
    /\ reply \in {"none", "ok", "error", "late"}
    /\ disconnected \in BOOLEAN /\ stopped \in BOOLEAN /\ error \in BOOLEAN
    /\ eventq \in Seq(Event) /\ completing \in Event \cup {NoEvent}
    /\ dev_queue \subseteq Slot \X (1 .. MaxQbufs) /\ dev_streaming \in BOOLEAN
    /\ qbufs \in 0 .. MaxQbufs
    /\ slot_qbuf \in [Slot -> 0 .. MaxQbufs] /\ done_qbuf \in [Slot -> 0 .. MaxQbufs]
    /\ wild \in {"none", "empty list", "freed node", "linked twice"} /\ disturbed \in BOOLEAN

Queued == {i \in Slot : "QUEUED" \in slots[i]}
Done == {i \in Slot : "DONE" \in slots[i]}

\* The buffers queued_bufs should count: those flagged QUEUED, and the one that is being
\* completed, which is not any more.
Counted == Cardinality(Queued) + (IF completing = NoEvent THEN 0 ELSE 1)

\* queued_bufs, which poll relies on, never counts too few, so that it does not wrap
\* below zero; and it counts exactly the queued buffers, although a QBUF that fails, an
\* event and STREAMOFF all change both, unless an ioctl has crossed a completion.
QueuedAccounting == queued_bufs >= Counted /\ (disturbed \/ queued_bufs = Counted)

\* pending_dqbufs links exactly the slots that are done, each of them once:
\* virtio_media_process_dqbuf_event, DQBUF and virtio_media_clear_queue keep the
\* flags and the list together, unless an ioctl has written the flags of a buffer
\* while it was being completed.
PendingIsDone ==
    disturbed \/ (ToSet(pending_dqbufs) = Done /\ Len(pending_dqbufs) = Cardinality(Done))

\* A buffer that waits to be dequeued was completed for the QBUF that filled it
\* last, never for an earlier one whose completion came late: what
\* import_needs_cancel and the drain in STREAMOFF and REQBUFS are for.  It takes a QBUF
\* that found the buffer half completed to break it.
FreshCompletion == disturbed \/ \A i \in Done : done_qbuf[i] = slot_qbuf[i]

\* Thread t holds vlock in a call of c and has not returned.
Running(t, c) == vlock = t /\ call[t] = c

\* A buffer the driver regards as queued is with the device, or its completion is
\* on the eventq, or the ioctl that queues it or cancels it has not returned.
CompletionsComing ==
    \A i \in Queued :
        \/ <<i, slot_qbuf[i]>> \in dev_queue
        \/ \E k \in DOMAIN eventq : eventq[k].slot = i /\ eventq[k].qbuf = slot_qbuf[i]
        \/ \E t \in Thread : Running(t, "qbuf") /\ arg[t] = i
        \/ \E t \in Thread : (Running(t, "streamoff") \/ Running(t, "reqbufs"))
                             /\ pc[t] \in {"replied", "drain", "clear"} /\ reply = "ok"
        \/ disconnected

\* No event is dropped that should have completed a buffer, and queued_bufs is "how many
\* buffers are currently queued on the device"; only an ioctl that writes the flags, or
\* replaces the array, while a buffer is being completed loses a completion.
NoLostCompletion == disturbed \/ CompletionsComing

\* The device holds a buffer only while the driver refuses to queue it again or to
\* hand it to the application.  The exceptions are a QBUF that failed although the
\* device may have executed it: of an imported buffer, import_needs_cancel remembers it
\* until the queue is cancelled; and one that crossed the completion before.
DeviceHoldsQueued ==
    disturbed \/ \A b \in dev_queue : b[1] \in Queued \/ import_needs_cancel

\* The fence of an imported buffer is armed exactly while the buffer is queued: a
\* completion, a failed QBUF and a cancelled queue all signal it, unless a QBUF has
\* crossed the completion.
FencesFollowSlots == Memory = "DMABUF" => (disturbed \/ armed = Queued)

\* poll never tells an application to give up on a streaming queue while a buffer
\* is with the device or on its way back, but for one of a failed QBUF.
PollKeepsWaiting ==
    streaming /\ dev_streaming /\ ~import_needs_cancel
    /\ (dev_queue # {} \/ \E k \in DOMAIN eventq : ~eventq[k].error)
        => CapturePoll # "err"

\* Every ioctl that holds vlock lets it go, whether the device answers or not.
CallsReturn == \A t \in Thread : vlock = t ~> (vlock # t \/ wild # "none")

\* Once the device is gone every ioctl returns, a sleeping DQBUF included.
GoneReleasesAll ==
    disconnected ~> ((\A t \in Thread : pc[t] = "idle") \/ wild # "none")

\* A DQBUF that waits while there is a completed buffer returns, unless somebody
\* else empties the list.
WaiterServed ==
    \A t \in Thread :
        pc[t] \in {"test", "sleep", "relock"} /\ pending_dqbufs # <<>>
            ~> (pc[t] = "idle" \/ pending_dqbufs = <<>> \/ wild # "none")

\* DQBUF takes its buffer from pending_dqbufs, the "buffers that are available for
\* being dequeued": it never takes one from an empty list.
DequeuesFromList == wild # "empty list"

\* The buffers on pending_dqbufs are "available for being dequeued": the device holds
\* none of them.  A QBUF that is accepted while its buffer is being completed breaks it.
PendingAvailable == \A b \in dev_queue : b[1] \notin ToSet(pending_dqbufs)

=============================================================================
