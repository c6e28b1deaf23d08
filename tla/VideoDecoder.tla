---------------------------- MODULE VideoDecoder ----------------------------
(***************************************************************************)
(* A session of the stateful video decoder device                          *)
(* (device/src/devices/video_decoder.rs): its streaming state, the buffers *)
(* of its two queues, the CAPTURE buffers it keeps back until they can be  *)
(* decoded into, and the events it sends.  The decoding backend is behind  *)
(* a trait and is external; the guest is the driver of this repository.    *)
(* The device runs one command or one event at a time, so each of them is  *)
(* one step.                                                               *)
(***************************************************************************)
EXTENDS Integers, FiniteSets, SequencesExt

CONSTANTS
    MaxBufs,        \* bound on the buffers of a queue
    MaxQbufs,       \* bound on the number of QBUFs in a behaviour
    MaxEvents,      \* bound on the events the backend keeps
    MaxChanges,     \* bound on the format changes of the stream
    MaxLeaked,      \* bound on the buffers left registered by failed REQBUFS
    Orderly,        \* the guest sends REQBUFS for a queue that neither streams nor has
                    \* buffers queued, and stops OUTPUT once it has all buffers back
    FailingBackend, \* the backend may fail to allocate or to take a buffer
    MarksChange,    \* the backend marks the last frame of the old format as LAST
    Subscribable    \* the events that the guest subscribes to

ASSUME DecoderAssumption ==
    /\ MaxBufs \in Nat \ {0} /\ MaxQbufs \in Nat /\ MaxEvents \in Nat
    /\ MaxChanges \in Nat /\ MaxLeaked \in Nat
    /\ Orderly \in BOOLEAN /\ FailingBackend \in BOOLEAN /\ MarksChange \in BOOLEAN
    /\ Subscribable \subseteq {"src", "eos"}

VARIABLES
    \* VideoDecoderSession
    state,          \* VideoDecoderStreamingState
    flags,          \* flags[q][i]: flags of buffer i of queue q that matter here
    pending_output_buffers,
    subscribed,     \* src_change_subscribed and eos_subscribed, as a set
    format_change_pending,
    registered,     \* number of buffers the session has in the mmap manager
    life,           \* "open", "closed", or "panicked" when an unwrap ended the device
    \* the backend session (external)
    be_inputs, be_outputs, be_events, be_accepting, be_draining, be_changes,
    \* the guest: the queues it has streaming, the buffers it has queued, and how
    \* many source changes, ends of stream and last frames of a drain it was told of
    guest_streaming, guest_queued, guest_told,
    \* history: QBUFs so far, the last one of each buffer, and whether a DQBUF
    \* event was for an earlier QBUF or for a buffer the guest did not have queued
    qbufs, last_qbuf, stale

backendVars == <<be_inputs, be_outputs, be_events, be_accepting, be_draining, be_changes>>
guestVars == <<guest_streaming, guest_queued, guest_told>>
historyVars == <<qbufs, last_qbuf, stale>>
sessionVars == <<state, flags, pending_output_buffers, subscribed, format_change_pending,
                 registered, life>>
vars == <<sessionVars, backendVars, guestVars, historyVars>>

Queue == {"OUTPUT", "CAPTURE"}
Index == 1 .. MaxBufs

\* A buffer that has been queued, with the number of the QBUF as a history tag.
Tagged == [index : Index, qbuf : 1 .. MaxQbufs]

\* A frame is marked LAST at the end of a drain, and by some backends at the end
\* of the old format.
Mark == {"none", "drain", "change"}

Event == [kind : {"InputBufferDone"}, index : Index, qbuf : 1 .. MaxQbufs, error : BOOLEAN]
         \cup [kind : {"FrameCompleted"}, index : Index, qbuf : 1 .. MaxQbufs, mark : Mark]
         \cup [kind : {"StreamFormatChanged"}]

\* Stopped holds the streaming flag of each queue; in Running and Paused both
\* queues stream.
Stopped(in, out) == [phase |-> "Stopped", in |-> in, out |-> out]
Running == [phase |-> "Running", in |-> TRUE, out |-> TRUE]
Paused == [phase |-> "Paused", in |-> TRUE, out |-> TRUE]

Init ==
    /\ state = Stopped(FALSE, FALSE)
    /\ flags = [q \in Queue |-> <<>>]
    /\ pending_output_buffers = <<>>
    /\ subscribed = {} /\ format_change_pending = FALSE
    /\ registered = 0 /\ life = "open"
    /\ be_inputs = <<>> /\ be_outputs = {} /\ be_events = <<>>
    /\ be_accepting = TRUE /\ be_draining = FALSE /\ be_changes = 0
    /\ guest_streaming = {} /\ guest_queued = [q \in Queue |-> {}]
    /\ guest_told = [src |-> 0, eos |-> 0, drains |-> 0]
    /\ qbufs = 0 /\ last_qbuf = [q \in Queue |-> [i \in Index |-> 0]]
    /\ stale = FALSE

-----------------------------------------------------------------------------
\* VideoDecoderStreamingState: input_streamon, output_streamon.
StreamedOn(s, q) ==
    LET in == s.in \/ q = "OUTPUT"
        out == s.out \/ q = "CAPTURE"
    IN  CASE s.phase # "Stopped" -> s
          [] s = Stopped(in, out) -> s
          [] OTHER -> IF in /\ out THEN Running ELSE Stopped(in, out)

\* VideoDecoderStreamingState: input_streamoff, output_streamoff.
StreamedOff(s, q) ==
    IF q = "OUTPUT" THEN Stopped(FALSE, s.out) ELSE Stopped(s.in, FALSE)

\* VideoDecoderStreamingState::is_output_streaming, which leaves Paused out.
IsOutputStreaming(s) == s.out /\ s.phase # "Paused"

\* Faulty variant of TrySendPending: the list is walked, not drained.
TrySendPendingKept(s, pending, ok) ==
    LET taken == IF be_accepting' THEN ToSet(pending) ELSE {}
    IN  /\ ok /\ pending_output_buffers' = pending
        /\ be_outputs' = be_outputs \cup IF IsOutputStreaming(s) THEN taken ELSE {}
        /\ UNCHANGED life

\* try_send_pending_output_buffers, in the state s and with the CAPTURE buffers
\* that pending lists: an index without a buffer panics, a buffer the backend
\* refuses ends the loop with an error, and either way the list has been drained.
\* A backend that waits for the format change to be handled drops what it is given.
TrySendPending(s, pending, ok) ==
    LET known == {k \in DOMAIN pending : pending[k].index \in DOMAIN flags["CAPTURE"]}
        Send(n) == be_outputs' = be_outputs \cup IF be_accepting' THEN ToSet(SubSeq(pending, 1, n))
                                                                  ELSE {}
    IN  \/ /\ ~IsOutputStreaming(s) /\ ok
           /\ pending_output_buffers' = pending
           /\ UNCHANGED <<be_outputs, life>>
        \/ /\ IsOutputStreaming(s) /\ ok /\ known = DOMAIN pending
           /\ pending_output_buffers' = <<>>
           /\ Send(Len(pending))
           /\ UNCHANGED life
        \/ /\ IsOutputStreaming(s) /\ ok /\ known # DOMAIN pending
           /\ pending_output_buffers' = <<>>
           /\ life' = "panicked"
           /\ UNCHANGED be_outputs
        \/ /\ IsOutputStreaming(s) /\ ~ok /\ FailingBackend
           /\ pending_output_buffers' = <<>>
           /\ \E n \in 0 .. Len(pending) - 1 : 1 .. n + 1 \subseteq known /\ Send(n)
           /\ UNCHANGED life

-----------------------------------------------------------------------------
\* The commands of the guest.

\* When the driver sends REQBUFS: it refuses to reallocate a queue that streams.
MayReqbufs(q, n) ==
    /\ q \in guest_streaming => n = 0
    /\ Orderly => q \notin guest_streaming /\ guest_queued[q] = {}

\* A successful REQBUFS ends the queue generation for the driver.
GuestReqbufs(q) ==
    /\ guest_queued' = [guest_queued EXCEPT ![q] = {}]
    /\ guest_streaming' = guest_streaming \ {q}
    /\ UNCHANGED <<state, pending_output_buffers, subscribed, format_change_pending, life,
                   backendVars, guest_told, historyVars>>

\* reqbufs to a smaller number of buffers: the ones above are unregistered.
Shrink(q, n) ==
    /\ MayReqbufs(q, n) /\ n < Len(flags[q])
    /\ flags' = [flags EXCEPT ![q] = SubSeq(@, 1, n)]
    /\ registered' = registered - (Len(flags[q]) - n)
    /\ GuestReqbufs(q)

\* reqbufs to at least as many: the missing ones are registered and allocated.
Grow(q, n) ==
    /\ MayReqbufs(q, n) /\ n >= Len(flags[q])
    /\ flags' = [flags EXCEPT ![q] = [i \in 1 .. n |-> IF i <= Len(@) THEN @[i] ELSE {}]]
    /\ registered' = registered + (n - Len(flags[q]))
    /\ GuestReqbufs(q)

\* reqbufs that cannot allocate one of the missing buffers: it returns an error,
\* the buffer is unregistered, and the ones allocated before it stay registered.
GrowFails(q, n, allocated) ==
    /\ FailingBackend /\ MayReqbufs(q, n)
    /\ allocated < n - Len(flags[q])
    /\ registered + allocated <= Len(flags["OUTPUT"]) + Len(flags["CAPTURE"]) + MaxLeaked
    /\ registered' = registered + allocated
    /\ UNCHANGED <<state, flags, pending_output_buffers, subscribed, format_change_pending, life,
                   backendVars, guestVars, historyVars>>

\* streamon
StreamOn(q, ok) ==
    /\ flags[q] # <<>>
    /\ state' = StreamedOn(state, q)
    /\ be_accepting' = (be_accepting \/ q = "CAPTURE")
    /\ TrySendPending(state', pending_output_buffers, ok)
    /\ guest_streaming' = IF ok THEN guest_streaming \cup {q} ELSE guest_streaming
    /\ UNCHANGED <<flags, subscribed, format_change_pending, registered, be_inputs, be_events,
                   be_draining, be_changes, guest_queued, guest_told, historyVars>>

Unqueued(q) == [i \in DOMAIN flags[q] |-> flags[q][i] \ {"QUEUED"}]

GuestStopped(q) ==
    /\ guest_streaming' = guest_streaming \ {q}
    /\ guest_queued' = [guest_queued EXCEPT ![q] = {}]
    /\ UNCHANGED guest_told

\* clear_output_buffers (external): the backend forgets the CAPTURE buffers and
\* the frames it has not yet reported.  The other events stay in their order: the nth
\* of them was at place[n].
ClearOutputBuffers ==
    LET stay == {k \in DOMAIN be_events : be_events[k].kind # "FrameCompleted"}
    IN  \E place \in [1 .. Cardinality(stay) -> stay] :
          /\ \A m, n \in DOMAIN place : m < n => place[m] < place[n]
          /\ be_outputs' = {}
          /\ be_events' = [n \in DOMAIN place |-> be_events[place[n]]]

\* Faulty variant of StreamOffCapture: the buffers stay with the backend.
StreamOffCaptureOnly ==
    /\ state' = StreamedOff(state, "CAPTURE")
    /\ pending_output_buffers' = <<>>
    /\ flags' = [flags EXCEPT !["CAPTURE"] = Unqueued("CAPTURE")]
    /\ GuestStopped("CAPTURE")
    /\ UNCHANGED <<subscribed, format_change_pending, registered, life, backendVars, historyVars>>

\* streamoff of CAPTURE takes the buffers back from the backend.
StreamOffCapture ==
    /\ ClearOutputBuffers
    /\ state' = StreamedOff(state, "CAPTURE")
    /\ pending_output_buffers' = <<>>
    /\ flags' = [flags EXCEPT !["CAPTURE"] = Unqueued("CAPTURE")]
    /\ GuestStopped("CAPTURE")
    /\ UNCHANGED <<subscribed, format_change_pending, registered, life, be_inputs, be_accepting,
                   be_draining, be_changes, historyVars>>

\* streamoff of OUTPUT tells the backend nothing.
StreamOffOutput ==
    /\ Orderly => guest_queued["OUTPUT"] = {}
    /\ state' = StreamedOff(state, "OUTPUT")
    /\ flags' = [flags EXCEPT !["OUTPUT"] = Unqueued("OUTPUT")]
    /\ GuestStopped("OUTPUT")
    /\ UNCHANGED <<pending_output_buffers, subscribed, format_change_pending, registered, life,
                   backendVars, historyVars>>

\* The guest queues buffer i, one that its driver does not regard as queued; the
\* driver takes it back when the command fails.
GuestQueues(q, i, ok) ==
    /\ qbufs < MaxQbufs /\ i \in DOMAIN flags[q] /\ i \notin guest_queued[q]
    /\ qbufs' = qbufs + 1
    /\ last_qbuf' = [last_qbuf EXCEPT ![q][i] = qbufs + 1]
    /\ guest_queued' = IF ok THEN [guest_queued EXCEPT ![q] = @ \cup {i}] ELSE guest_queued
    /\ UNCHANGED <<guest_streaming, guest_told, stale>>

\* qbuf on OUTPUT: the data goes to the backend at once.  A backend that fails may
\* have kept the data all the same.
QbufOutput(i, ok) ==
    /\ GuestQueues("OUTPUT", i, ok)
    /\ \/ be_inputs' = Append(be_inputs, [index |-> i, qbuf |-> qbufs + 1])
       \/ ~ok /\ UNCHANGED be_inputs
    /\ ok \/ FailingBackend
    /\ flags' = IF ok THEN [flags EXCEPT !["OUTPUT"][i] = @ \cup {"QUEUED"}] ELSE flags
    /\ UNCHANGED <<state, pending_output_buffers, subscribed, format_change_pending, registered,
                   life, be_outputs, be_events, be_accepting, be_draining, be_changes>>

\* Faulty variant of QbufCapture: the buffer is not marked as queued.
QbufCaptureUnmarked(i, ok) ==
    /\ GuestQueues("CAPTURE", i, ok)
    /\ UNCHANGED <<be_inputs, be_events, be_accepting, be_draining, be_changes>>
    /\ TrySendPending(state, Append(pending_output_buffers, [index |-> i, qbuf |-> qbufs + 1]), ok)
    /\ UNCHANGED <<state, flags, subscribed, format_change_pending, registered>>

\* qbuf on CAPTURE: the buffer is listed, and sent if the queue streams.
QbufCapture(i, ok) ==
    /\ GuestQueues("CAPTURE", i, ok)
    /\ flags' = [flags EXCEPT !["CAPTURE"][i] = (@ \cup {"QUEUED"}) \ {"LAST"}]
    /\ UNCHANGED <<be_inputs, be_events, be_accepting, be_draining, be_changes>>
    /\ TrySendPending(state, Append(pending_output_buffers, [index |-> i, qbuf |-> qbufs + 1]), ok)
    /\ UNCHANGED <<state, subscribed, format_change_pending, registered>>

\* decoder_cmd with Stop: the backend is told to drain, which it may ignore when
\* it has nothing to decode, or fail to do.
CmdStop ==
    /\ IF state.phase # "Stopped"
       THEN state' = Stopped(TRUE, TRUE) /\ be_draining' \in {be_draining, TRUE}
       ELSE UNCHANGED <<state, be_draining>>
    /\ UNCHANGED <<flags, pending_output_buffers, subscribed, format_change_pending, registered,
                   life, be_inputs, be_outputs, be_events, be_accepting, be_changes, guestVars,
                   historyVars>>

\* decoder_cmd with Start: it restarts a decoder whose queues both stream.
CmdStart(ok) ==
    /\ state.phase = "Stopped"
    /\ state' = IF state.in /\ state.out THEN Running ELSE state
    /\ be_accepting' = (be_accepting \/ state' = Running)
    /\ TrySendPending(state', pending_output_buffers, ok)
    /\ UNCHANGED <<flags, subscribed, format_change_pending, registered, be_inputs, be_events,
                   be_draining, be_changes, guestVars, historyVars>>

\* decoder_cmd with Pause and Resume, which try_decoder_cmd refuses when stopped.
CmdPause ==
    /\ state = Running /\ state' = Paused
    /\ UNCHANGED <<flags, pending_output_buffers, subscribed, format_change_pending, registered,
                   life, backendVars, guestVars, historyVars>>

CmdResume ==
    /\ state = Paused /\ state' = Running
    /\ UNCHANGED <<flags, pending_output_buffers, subscribed, format_change_pending, registered,
                   life, backendVars, guestVars, historyVars>>

\* subscribe_event for one event; unsubscribe_event for one or for both.
Subscribe(event) ==
    /\ subscribed' = subscribed \cup {event}
    /\ UNCHANGED <<state, flags, pending_output_buffers, format_change_pending, registered,
                   life, backendVars, guestVars, historyVars>>

Unsubscribe(events) ==
    /\ subscribed' = subscribed \ events
    /\ UNCHANGED <<state, flags, pending_output_buffers, format_change_pending, registered,
                   life, backendVars, guestVars, historyVars>>

\* close_session unregisters the buffers of both queues.
CloseSession ==
    /\ life' = "closed"
    /\ registered' = registered - Len(flags["OUTPUT"]) - Len(flags["CAPTURE"])
    /\ flags' = [q \in Queue |-> <<>>]
    /\ UNCHANGED <<state, pending_output_buffers, subscribed, format_change_pending,
                   backendVars, guestVars, historyVars>>

-----------------------------------------------------------------------------
\* process_events takes one event of the backend; an event for a buffer that is
\* no longer there is dropped.
NextEvent(kind) ==
    /\ be_events # <<>> /\ Head(be_events).kind = kind
    /\ be_events' = Tail(be_events)
    /\ UNCHANGED <<state, pending_output_buffers, subscribed, registered, life,
                   be_inputs, be_outputs, be_accepting, be_draining, be_changes,
                   guest_streaming, qbufs, last_qbuf>>

Dropped ==
    UNCHANGED <<flags, format_change_pending, guest_queued, guest_told, stale>>

\* The DQBUF event for buffer i of queue q, sent for the QBUF with number n.
SendDqbuf(q, i, n) ==
    /\ guest_queued' = [guest_queued EXCEPT ![q] = @ \ {i}]
    /\ stale' = (stale \/ i \notin guest_queued[q] \/ n # last_qbuf[q][i])

\* Faulty variant of InputBufferDone: the buffer of another slot completes.
InputBufferDoneFirst ==
    /\ NextEvent("InputBufferDone")
    /\ IF flags["OUTPUT"] = <<>> THEN Dropped
       ELSE /\ flags' = [flags EXCEPT !["OUTPUT"][1] = @ \ {"QUEUED"}]
            /\ SendDqbuf("OUTPUT", 1, Head(be_events).qbuf)
            /\ UNCHANGED <<format_change_pending, guest_told>>

InputBufferDone ==
    /\ NextEvent("InputBufferDone")
    /\ LET e == Head(be_events)
           rest == flags["OUTPUT"][e.index] \ {"QUEUED"}
       IN  IF e.index \notin DOMAIN flags["OUTPUT"] THEN Dropped
           ELSE /\ flags' = [flags EXCEPT !["OUTPUT"][e.index] =
                                IF e.error THEN rest \cup {"ERROR"} ELSE rest]
                /\ SendDqbuf("OUTPUT", e.index, e.qbuf)
                /\ UNCHANGED <<format_change_pending, guest_told>>

StreamFormatChanged ==
    /\ NextEvent("StreamFormatChanged")
    /\ format_change_pending' = TRUE
    /\ guest_told' = [guest_told EXCEPT !.src = IF "src" \in subscribed THEN @ + 1 ELSE @]
    /\ UNCHANGED <<flags, guest_queued, stale>>

\* Faulty variant of EndOfStream: the LAST frame of a format change ends the stream.
EndOfStreamAlways(last) == last

\* The LAST frame that ends a format change is not the end of the stream.
EndOfStream(last) == last /\ ~format_change_pending

FrameCompleted ==
    /\ NextEvent("FrameCompleted")
    /\ LET e == Head(be_events)
           last == e.mark # "none"
       IN  IF e.index \notin DOMAIN flags["CAPTURE"] THEN Dropped
           ELSE /\ flags' = [flags EXCEPT !["CAPTURE"][e.index] = IF last THEN {"LAST"} ELSE {}]
                /\ SendDqbuf("CAPTURE", e.index, e.qbuf)
                /\ format_change_pending' = (format_change_pending /\ ~last)
                /\ guest_told' = [guest_told EXCEPT
                     !.eos = IF EndOfStream(last) /\ "eos" \in subscribed THEN @ + 1 ELSE @,
                     !.drains = IF e.mark = "drain" THEN @ + 1 ELSE @]

-----------------------------------------------------------------------------
\* The backend (external): it consumes its inputs in order, fills the CAPTURE
\* buffers it has, reports a frame marked LAST once it has drained, and gives
\* its CAPTURE buffers up when the format of the stream changes.
Report(events) ==
    /\ Len(be_events) + Len(events) <= MaxEvents
    /\ be_events' = be_events \o events
    /\ UNCHANGED <<sessionVars, guestVars, historyVars>>

Frame(b, mark) == [kind |-> "FrameCompleted", index |-> b.index, qbuf |-> b.qbuf, mark |-> mark]

BackendConsumes(error) ==
    /\ be_inputs # <<>>
    /\ be_inputs' = Tail(be_inputs)
    /\ Report(<<[kind |-> "InputBufferDone", index |-> Head(be_inputs).index,
                 qbuf |-> Head(be_inputs).qbuf, error |-> error]>>)
    /\ UNCHANGED <<be_outputs, be_accepting, be_draining, be_changes>>

BackendDecodes(b) ==
    /\ be_outputs' = be_outputs \ {b}
    /\ Report(<<Frame(b, "none")>>)
    /\ UNCHANGED <<be_inputs, be_accepting, be_draining, be_changes>>

BackendDrained(b) ==
    /\ be_draining /\ be_inputs = <<>> /\ be_draining' = FALSE
    /\ be_outputs' = be_outputs \ {b}
    /\ Report(<<Frame(b, "drain")>>)
    /\ UNCHANGED <<be_inputs, be_accepting, be_changes>>

BackendChangesFormat ==
    /\ be_changes < MaxChanges /\ be_changes' = be_changes + 1
    /\ be_outputs' = {} /\ be_accepting' = FALSE
    /\ LET changed == <<[kind |-> "StreamFormatChanged"]>>
       IN  IF MarksChange THEN \E b \in be_outputs : Report(Append(changed, Frame(b, "change")))
                          ELSE Report(changed)
    /\ UNCHANGED <<be_inputs, be_draining>>

Reqbufs ==
    \E q \in Queue, n \in 0 .. MaxBufs :
        Shrink(q, n) \/ Grow(q, n) \/ \E k \in 0 .. MaxBufs : GrowFails(q, n, k)

Command ==
    \/ Reqbufs
    \/ \E q \in Queue, ok \in BOOLEAN : StreamOn(q, ok)
    \/ StreamOffCapture \/ StreamOffOutput
    \/ \E i \in Index, ok \in BOOLEAN : QbufOutput(i, ok) \/ QbufCapture(i, ok)
    \/ CmdStop \/ (\E ok \in BOOLEAN : CmdStart(ok)) \/ CmdPause \/ CmdResume
    \/ \E event \in Subscribable : Subscribe(event)
    \/ \E events \in (SUBSET Subscribable) \ {{}} : Unsubscribe(events)
    \/ CloseSession

Backend ==
    \/ \E error \in BOOLEAN : BackendConsumes(error)
    \/ \E b \in be_outputs : BackendDecodes(b) \/ BackendDrained(b)
    \/ BackendChangesFormat

Next ==
    /\ life = "open"
    /\ Command \/ InputBufferDone \/ StreamFormatChanged \/ FrameCompleted \/ Backend

Spec == Init /\ [][Next]_vars

-----------------------------------------------------------------------------
\* Type correctness: in particular the state machine has no state in which it is
\* Running or Paused without both queues streaming (lines 204-226), and no frame
\* or input of the backend is of a buffer that was never allocated.
TypeOK ==
    /\ state \in {Stopped(in, out) : in, out \in BOOLEAN} \cup {Running, Paused}
    /\ flags \in [Queue -> UNION {[1 .. n -> SUBSET {"QUEUED", "ERROR", "LAST"}] : n \in 0 .. MaxBufs}]
    /\ pending_output_buffers \in Seq(Tagged) /\ Len(pending_output_buffers) <= MaxQbufs
    /\ subscribed \subseteq Subscribable /\ format_change_pending \in BOOLEAN
    /\ registered \in 0 .. 2 * MaxBufs + MaxLeaked
    /\ life \in {"open", "closed", "panicked"}
    /\ be_inputs \in Seq(Tagged) /\ be_outputs \subseteq Tagged
    /\ be_events \in Seq(Event) /\ Len(be_events) <= MaxEvents
    /\ be_accepting \in BOOLEAN /\ be_draining \in BOOLEAN /\ be_changes \in 0 .. MaxChanges
    /\ guest_streaming \subseteq Queue
    /\ guest_queued \in [Queue -> SUBSET Index]
    /\ guest_told \in [src : 0 .. MaxChanges, eos : 0 .. MaxQbufs, drains : 0 .. MaxQbufs]
    /\ qbufs \in 0 .. MaxQbufs /\ last_qbuf \in [Queue -> [Index -> 0 .. MaxQbufs]]
    /\ stale \in BOOLEAN

IsFrameOf(e, i) == e.kind = "FrameCompleted" /\ e.index = i

\* Once CAPTURE is streamed off, for whatever guest, the backend holds none of its
\* buffers and no frame is on its way: none can be reported before the next
\* STREAMON (streamoff, lines 1098-1104).
CaptureQuiet ==
    ~state.out => be_outputs = {} /\ \A k \in DOMAIN be_events : be_events[k].kind # "FrameCompleted"

\* The frame that marks a format change is never told to the guest as the end of
\* the stream: there are at most as many EOS events as drains that ended
\* (process_events, lines 776-795).
NoEosAtChange == guest_told.eos <= guest_told.drains

\* Device and guest agree on which buffers are queued.
QueuedAgrees ==
    life = "open" =>
        \A q \in Queue : guest_queued[q] = {i \in DOMAIN flags[q] : "QUEUED" \in flags[q][i]}

\* Until the format changes, a CAPTURE buffer that the guest has queued is in
\* exactly one place: kept back by the session, with the backend, or in a frame
\* on its way.  It is neither lost nor decoded into twice.
CaptureConserved ==
    be_changes = 0 /\ life = "open" =>
        \A i \in Index :
            LET kept == {k \in DOMAIN pending_output_buffers : pending_output_buffers[k].index = i}
                given == {b \in be_outputs : b.index = i}
                done == {k \in DOMAIN be_events : IsFrameOf(be_events[k], i)}
            IN  Cardinality(kept) + Cardinality(given) + Cardinality(done)
                  = IF i \in guest_queued["CAPTURE"] THEN 1 ELSE 0

\* A DQBUF event is for the last QBUF of its buffer, and for a buffer that the
\* guest has queued.
CompletionsFresh == ~stale
=============================================================================
