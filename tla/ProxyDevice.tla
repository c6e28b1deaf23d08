---------------------------- MODULE ProxyDevice ----------------------------
(***************************************************************************)
(* V4l2ProxyDevice (device/src/devices/v4l2_device_proxy.rs): each session *)
(* forwards its ioctls to a V4L2 device of the host, and keeps of them     *)
(* only what it needs to poll that device, to serve MMAP commands and to   *)
(* hold the guest memory the device works on.  The host device, its poll   *)
(* flags included, is external.  A call it refuses changes nothing in the  *)
(* proxy unless an action says so.                                         *)
(***************************************************************************)
EXTENDS Integers, FiniteSets, MmapTable

CONSTANTS
    Session, None,  \* sessions; no session, memory, panic
    Memory,         \* the memory types the guest uses, one in each session
    Addr,           \* host addresses of guest memory
    MaxCapture,     \* bounds on the buffers of the two queues
    MaxOutput,
    MaxQueued,      \* bounds on the counts of queued buffers of the two queues
    MaxOpen,        \* bound on the sessions the host device allows at a time
    MaxMaps         \* bound on the mappings of one buffer

Queue == {"CAPTURE", "OUTPUT"}

\* An entry of userptr_buffers, which has at most one for each address.
V4l2UserPlaneInfo == [addr : Addr, queue : Queue, index : Nat]

\* Only the poller's interest in CaptureReady varies: V4L2Event is always enabled.
\* reused is history: the addresses whose entry was replaced by one of another buffer.
V4l2Session ==
    [memory : Memory, streaming : [Queue -> BOOLEAN], num_queued : [Queue -> Nat],
     polling : BOOLEAN, userptr_buffers : SUBSET V4l2UserPlaneInfo, reused : SUBSET Addr]

ASSUME ProxyDeviceAssumption ==
    /\ Memory \subseteq {"MMAP", "USERPTR"} /\ Memory # {}
    /\ {MaxCapture, MaxOutput, MaxOpen} \subseteq Nat \ {0} /\ MaxMaps \in Nat
    /\ MaxQueued \in [Queue -> Nat \ {0}]
    /\ Addr # {}
    /\ None \notin V4l2Session \cup {"offset", "payload"}

VARIABLES
    sess,           \* V4l2Session
    mmap_buffers,   \* offset -> V4l2MmapPlaneInfo
    table,          \* mmap_manager
    panicked,       \* the unwrap that ended the device, or None
    host,           \* the host device of each session: its two queues
    pending,        \* whether it has V4L2 events for the session
    \* history: whether REQBUFS has left a count behind, and LAST a disabled poller
    stale, after_last

deviceVars == <<sess, mmap_buffers, table, panicked>>
vars == <<deviceVars, host, pending, stale, after_last>>

Index(q) == 1 .. IF q = "CAPTURE" THEN MaxCapture ELSE MaxOutput

\* The offset the host gives buffer i of queue q, the same for every open file, as
\* V4L2 memory-to-memory drivers do.
Offset(q, i) == (IF q = "CAPTURE" THEN MaxOutput ELSE 0) + i - 1

NewSession(mem) ==
    [memory |-> mem, streaming |-> [q \in Queue |-> FALSE], num_queued |-> [q \in Queue |-> 0],
     polling |-> FALSE, userptr_buffers |-> {}, reused |-> {}]

\* A queue of the host: done buffers wait for DQBUF, last is the one of them that is
\* flagged LAST, and eos is set once it is dequeued: DQBUF then fails with EPIPE.  mem
\* has the address of each USERPTR buffer that is prepared or queued.  uncounted is
\* history: the proxy took a QBUF that the host accepted for a failure.
HostQueue(n) ==
    [n |-> n, queued |-> {}, done |-> {}, mem |-> {}, streaming |-> FALSE, last |-> 0,
     eos |-> FALSE, uncounted |-> FALSE]
Held(h) == h.queued \cup h.done

\* The host lets go of the memory of the buffers idx.
Released(mem, idx) == {m \in mem : m[1] \notin idx}

Open == {s \in Session : sess[s] # None}
Alive(s) == panicked = None /\ s \in Open

Init ==
    /\ sess = [s \in Session |-> None] /\ host = [s \in Session |-> None]
    /\ mmap_buffers = <<>> /\ table = <<>> /\ panicked = None
    /\ pending = [s \in Session |-> FALSE]
    /\ stale = [s \in Session |-> FALSE] /\ after_last = [s \in Session |-> FALSE]

\* should_poll_capture
ShouldPollCapture(se) == se.streaming["CAPTURE"] /\ se.num_queued["CAPTURE"] > 0

-----------------------------------------------------------------------------
\* new_session
OpenSession(s, mem) ==
    /\ panicked = None /\ sess[s] = None /\ Cardinality(Open) < MaxOpen
    /\ sess' = [sess EXCEPT ![s] = NewSession(mem)]
    /\ host' = [host EXCEPT ![s] = [q \in Queue |-> HostQueue(0)]]
    /\ UNCHANGED <<mmap_buffers, table, panicked, pending, stale, after_last>>

\* close_session: delete_session unregisters what the session has; the host closes.
CloseSession(s) ==
    /\ Alive(s)
    /\ LET gone == {o \in DOMAIN mmap_buffers : mmap_buffers[o].session = s}
       IN  /\ table' = UnregisterPages(table, gone)
           /\ mmap_buffers' = Restrict(mmap_buffers, DOMAIN mmap_buffers \ gone)
    /\ sess' = [sess EXCEPT ![s] = None]
    /\ host' = [host EXCEPT ![s] = None]
    /\ pending' = [pending EXCEPT ![s] = FALSE]
    /\ stale' = [stale EXCEPT ![s] = FALSE]
    /\ after_last' = [after_last EXCEPT ![s] = FALSE]
    /\ UNCHANGED panicked

\* Register the buffers in new, for the table t and entries kept from before.
RegisterOffsets(s, q, t, kept, new) ==
    IF \A i \in new : CanRegister(t, Offset(q, i))
    THEN LET offsets == {Offset(q, i) : i \in new}
         IN  /\ table' = RegisterPages(t, offsets, None)
             /\ mmap_buffers' = [o \in DOMAIN kept \cup offsets |->
                    IF o \in offsets
                    THEN [session |-> s, queue |-> q,
                          index |-> CHOOSE i \in new : Offset(q, i) = o]
                    ELSE kept[o]]
             /\ UNCHANGED panicked
    ELSE panicked' = "offset" /\ table' = t /\ mmap_buffers' = kept

\* Faulty variant of UpdateMmapOffsets: all buffers of the queue go, not only those
\* from the first new one on.
UpdateMmapOffsetsAll(s, q, first, n) ==
    LET gone == {o \in DOMAIN mmap_buffers :
                    mmap_buffers[o].session = s /\ mmap_buffers[o].queue = q}
    IN  RegisterOffsets(s, q, UnregisterPages(table, gone),
            Restrict(mmap_buffers, DOMAIN mmap_buffers \ gone),
            IF sess[s].memory = "MMAP" THEN first .. first + n - 1 ELSE {})

\* update_mmap_offsets for buffers first .. first + n - 1.  The unwrap panics when an
\* offset is still taken.
UpdateMmapOffsets(s, q, first, n) ==
    LET gone == {o \in DOMAIN mmap_buffers :
                    /\ mmap_buffers[o].session = s /\ mmap_buffers[o].queue = q
                    /\ n = 0 \/ mmap_buffers[o].index >= first}
    IN  RegisterOffsets(s, q, UnregisterPages(table, gone),
            Restrict(mmap_buffers, DOMAIN mmap_buffers \ gone),
            IF sess[s].memory = "MMAP" THEN first .. first + n - 1 ELSE {})

\* A queue stops: what STREAMOFF does, and REQBUFS(0) as "an implicit STREAMOFF".
\* Polling ends only if there was any.
Stopped(se, q) ==
    [se EXCEPT !.streaming[q] = FALSE, !.num_queued[q] = 0,
               !.polling = @ /\ ~(q = "CAPTURE" /\ ShouldPollCapture(se))]

\* The history when queue q of s has stopped.
ForgetHistory(s, q) ==
    /\ stale' = [stale EXCEPT ![s] = @ /\ q # "CAPTURE"]
    /\ after_last' = [after_last EXCEPT ![s] = @ /\ q # "CAPTURE"]

\* reqbufs: the host refuses to reallocate while it streams.  The counts of a queue
\* that has buffers again are left as they are.
Reqbufs(s, q, n) ==
    /\ Alive(s) /\ (host[s][q].streaming => n = 0)
    /\ host' = [host EXCEPT ![s][q] = HostQueue(n)]
    /\ UpdateMmapOffsets(s, q, 1, n)
    /\ IF n = 0
       THEN /\ sess' = [sess EXCEPT ![s] = Stopped(@, q)]
            /\ ForgetHistory(s, q)
       ELSE /\ stale' = [stale EXCEPT ![s] =
                            @ \/ (q = "CAPTURE" /\ sess[s].num_queued[q] > 0)]
            /\ UNCHANGED <<sess, after_last>>
    /\ UNCHANGED pending

\* create_bufs of n more buffers; the host accepts it while it streams.
CreateBufs(s, q, n) ==
    /\ Alive(s)
    /\ LET h == host[s][q]
       IN  /\ h.n + n \in Index(q)
           /\ host' = [host EXCEPT ![s][q] = [h EXCEPT !.n = @ + n]]
           /\ UpdateMmapOffsets(s, q, h.n + 1, n)
    /\ UNCHANGED <<sess, pending, stale, after_last>>

-----------------------------------------------------------------------------
\* The entries that stay when buffers idx of queue q are dequeued.
DropUserptrs(se, q, idx) ==
    {u \in se.userptr_buffers : u.queue # q \/ u.index \notin idx}

\* dequeue_output_buffers: what session se and host h become.  All that is done is
\* reported, or what was before an error; the count stays.
DequeueOutputBuffers(se, h) ==
    LET After(idx, ok) ==
            [se |-> [se EXCEPT !.userptr_buffers = DropUserptrs(se, "OUTPUT", idx)],
             h |-> [h EXCEPT !["OUTPUT"].done = @ \ idx, !["OUTPUT"].mem = Released(@, idx)],
             ok |-> ok]
    IN  IF ~se.streaming["OUTPUT"] \/ se.num_queued["OUTPUT"] = 0
        THEN {After({}, TRUE)}
        ELSE {After(h["OUTPUT"].done, TRUE)}
             \cup {After(idx, FALSE) : idx \in SUBSET h["OUTPUT"].done}

\* Faulty variants of CaptureDequeued: every pointer of the queue is dropped; polling
\* goes on when no buffer is left.
CaptureDequeuedDropsAll(se, i, last) ==
    LET n == se.num_queued["CAPTURE"] - 1
    IN  [se EXCEPT !.userptr_buffers = DropUserptrs(se, "CAPTURE", Index("CAPTURE")),
                   !.num_queued["CAPTURE"] = n,
                   !.polling = @ /\ ~(ShouldPollCapture(se) /\ n = 0) /\ ~last]
CaptureDequeuedPolls(se, i, last) ==
    [se EXCEPT !.userptr_buffers = DropUserptrs(se, "CAPTURE", {i}),
               !.num_queued["CAPTURE"] = @ - 1, !.polling = @ /\ ~last]

\* The session once CAPTURE buffer i has been reported: polling ends with the last
\* buffer of the queue, and with the one flagged LAST.
CaptureDequeued(se, i, last) ==
    LET n == se.num_queued["CAPTURE"] - 1
    IN  [se EXCEPT !.userptr_buffers = DropUserptrs(se, "CAPTURE", {i}),
                   !.num_queued["CAPTURE"] = n,
                   !.polling = @ /\ ~(ShouldPollCapture(se) /\ n = 0) /\ ~last]

\* dequeue_capture_buffer: nothing when none is ready or after LAST.  The host gives
\* the buffer flagged LAST after the others.
DequeueCaptureBuffer(se, h) ==
    LET c == h["CAPTURE"]
        next == IF c.done # {c.last} THEN c.done \ {c.last} ELSE c.done
        After(i) == [se |-> CaptureDequeued(se, i, i = c.last), ok |-> TRUE,
                     h |-> [h EXCEPT !["CAPTURE"].done = @ \ {i},
                                     !["CAPTURE"].mem = Released(@, {i}),
                                     !["CAPTURE"].last = IF i = @ THEN 0 ELSE @,
                                     !["CAPTURE"].eos = @ \/ i = c.last]]
    IN  {[se |-> se, h |-> h, ok |-> FALSE]}
        \cup IF c.eos \/ c.done = {} THEN {[se |-> se, h |-> h, ok |-> TRUE]}
             ELSE {After(i) : i \in next}

\* What a CaptureReady event leads to: a CAPTURE buffer, then all OUTPUT buffers.
OnCaptureReady(se, h) ==
    UNION {IF d.ok THEN DequeueOutputBuffers(d.se, d.h) ELSE {d} :
              d \in DequeueCaptureBuffer(se, h)}

\* The poller signals what it listens to; an error ends the loop over the events.
Ready(s) ==
    (IF /\ sess[s].polling
        /\ host[s]["CAPTURE"].done # {} \/ host[s]["CAPTURE"].eos
     THEN {"CaptureReady"} ELSE {})
    \cup IF pending[s] THEN {"V4L2Event"} ELSE {}

\* process_events; dequeue_events sends all that is pending.
ProcessEvents(s) ==
    /\ Alive(s)
    /\ \E evs \in SUBSET Ready(s) \ {{}} :
          /\ \E d \in IF "CaptureReady" \in evs THEN OnCaptureReady(sess[s], host[s])
                      ELSE {[se |-> sess[s], h |-> host[s]]} :
                /\ sess' = [sess EXCEPT ![s] = d.se]
                /\ host' = [host EXCEPT ![s] = d.h]
          /\ pending' = [pending EXCEPT ![s] = @ /\ "V4L2Event" \notin evs]
    /\ after_last' = [after_last EXCEPT ![s] =
          \/ @
          \/ /\ host[s]["CAPTURE"].last # 0 /\ host'[s]["CAPTURE"].last = 0
             /\ sess'[s].num_queued["CAPTURE"] > 0]
    /\ UNCHANGED <<mmap_buffers, table, panicked, stale>>

-----------------------------------------------------------------------------
\* register_userptr_addresses: an entry that another buffer has at the address goes.
RegisterUserptr(se, q, i, a) ==
    LET entry == [addr |-> a, queue |-> q, index |-> i]
        others == {u \in se.userptr_buffers : u.addr = a /\ u # entry}
    IN  IF se.memory # "USERPTR" THEN se
        ELSE [se EXCEPT !.userptr_buffers = (@ \ others) \cup {entry},
                        !.reused = IF others = {} THEN @ ELSE @ \cup {a}]

\* The memory of buffer i is at a for the host, unless it has been prepared elsewhere.
Given(se, mem, i, a) ==
    IF se.memory # "USERPTR" \/ (\E m \in mem : m[1] = i) THEN mem ELSE mem \cup {<<i, a>>}

\* host_v4l2_buffer_to_guest finds the address at which the host has buffer i.
HostBufferToGuest(se, mem, i) ==
    \A m \in mem : m[1] = i => \E u \in se.userptr_buffers : u.addr = m[2]

\* Faulty variant of Queued: a buffer queued before STREAMON is not counted.
QueuedStreaming(se, q) ==
    LET new == [se EXCEPT !.num_queued[q] = IF se.streaming[q] THEN @ + 1 ELSE @]
    IN  [new EXCEPT !.polling = \/ @
                                \/ ~ShouldPollCapture(se) /\ ShouldPollCapture(new)]

\* The session once the host has queued a buffer: the first one enables polling.
Queued(se, q) ==
    LET new == [se EXCEPT !.num_queued[q] = @ + 1]
    IN  [new EXCEPT !.polling = \/ @
                                \/ ~ShouldPollCapture(se) /\ ShouldPollCapture(new)]

\* qbuf.  OUTPUT buffers are dequeued first, whatever comes of it.  The guest's memory
\* may not be mappable, the host may refuse what has been registered, and it may have
\* queued a buffer whose address is no longer known: the guest is told of a failure.
Qbuf(s, q, i, a) ==
    /\ Alive(s) /\ i <= host[s][q].n
    /\ \E d \in DequeueOutputBuffers(sess[s], host[s]) :
          LET se == RegisterUserptr(d.se, q, i, a)
              mem == Given(se, d.h[q].mem, i, a)
          IN  \/ /\ sess[s].memory = "USERPTR"
                 /\ sess' = [sess EXCEPT ![s] = d.se]
                 /\ host' = [host EXCEPT ![s] = d.h]
              \/ /\ sess' = [sess EXCEPT ![s] = se]
                 /\ host' = [host EXCEPT ![s] = d.h]
              \/ /\ sess[s].num_queued[q] < MaxQueued[q]
                 /\ i \notin Held(d.h[q]) /\ HostBufferToGuest(se, mem, i)
                 /\ sess' = [sess EXCEPT ![s] = Queued(se, q)]
                 /\ host' = [host EXCEPT ![s] =
                       [d.h EXCEPT ![q].queued = @ \cup {i}, ![q].mem = mem]]
              \/ /\ i \notin Held(d.h[q]) /\ ~HostBufferToGuest(se, mem, i)
                 /\ sess' = [sess EXCEPT ![s] = se]
                 /\ host' = [host EXCEPT ![s] =
                       [d.h EXCEPT ![q].queued = @ \cup {i}, ![q].mem = mem,
                                   ![q].uncounted = TRUE]]
    /\ UNCHANGED <<mmap_buffers, table, panicked, pending, stale, after_last>>

\* prepare_buf, which the host may refuse.
PrepareBuf(s, q, i, a) ==
    /\ Alive(s) /\ i <= host[s][q].n
    /\ sess' = [sess EXCEPT ![s] = RegisterUserptr(@, q, i, a)]
    /\ \/ UNCHANGED host
       \/ /\ i \notin Held(host[s][q])
          /\ host' = [host EXCEPT ![s][q].mem = Given(sess[s], @, i, a)]
    /\ UNCHANGED <<mmap_buffers, table, panicked, pending, stale, after_last>>

\* streamon
Streamon(s, q) ==
    /\ Alive(s) /\ host[s][q].n > 0
    /\ host' = [host EXCEPT ![s][q].streaming = TRUE]
    /\ LET new == [sess[s] EXCEPT !.streaming[q] = TRUE]
       IN  sess' = [sess EXCEPT ![s] =
              [new EXCEPT !.polling = @ \/ (/\ q = "CAPTURE" /\ ~sess[s].streaming[q]
                                            /\ ShouldPollCapture(new))]]
    /\ UNCHANGED <<mmap_buffers, table, panicked, pending, stale, after_last>>

\* streamoff: the host gives every buffer of the queue back.
Streamoff(s, q) ==
    /\ Alive(s)
    /\ host' = [host EXCEPT ![s][q] = HostQueue(@.n)]
    /\ sess' = [sess EXCEPT ![s] = Stopped(@, q)]
    /\ ForgetHistory(s, q)
    /\ UNCHANGED <<mmap_buffers, table, panicked, pending>>

-----------------------------------------------------------------------------
\* subscribe_event with SEND_INITIAL: dequeue_events sends the initial event, and all
\* that were pending, before the response.
SubscribeEvent(s) ==
    /\ Alive(s)
    /\ pending' = [pending EXCEPT ![s] = FALSE]
    /\ UNCHANGED <<deviceVars, host, stale, after_last>>

\* decoder_cmd, as the host takes a START after LAST: it goes on with what is queued.
DecoderCmd(s) ==
    /\ Alive(s)
    /\ host' = [host EXCEPT ![s]["CAPTURE"].eos = FALSE]
    /\ UNCHANGED <<deviceVars, pending, stale, after_last>>

\* perform_ext_ctrls_ioctl puts the guest's pointers back in the controls after the
\* call.  It unwraps the mapping of their payloads, which may fail: that is the end of
\* the device and of all it had.
ExtCtrls(s) ==
    /\ Alive(s)
    /\ panicked' = "payload"
    /\ sess' = [r \in Session |-> None] /\ host' = [r \in Session |-> None]
    /\ mmap_buffers' = <<>> /\ table' = <<>>
    /\ pending' = [r \in Session |-> FALSE]
    /\ stale' = [r \in Session |-> FALSE] /\ after_last' = [r \in Session |-> FALSE]

\* do_mmap: the export tells whether this session has such a buffer.
DoMmap(s, o) ==
    /\ Alive(s) /\ o \in DOMAIN mmap_buffers
    /\ LET b == mmap_buffers[o]
       IN  sess[s].memory = "MMAP" /\ b.index <= host[s][b.queue].n
    /\ CanMap(table, o) /\ table[o].maps < MaxMaps
    /\ table' = MapPage(table, o, s)
    /\ UNCHANGED <<sess, mmap_buffers, panicked, host, pending, stale, after_last>>

\* do_munmap
DoMunmap(o) ==
    /\ panicked = None /\ o \in MappedPages(table)
    /\ table' = UnmapPage(table, o)
    /\ UNCHANGED <<sess, mmap_buffers, panicked, host, pending, stale, after_last>>

-----------------------------------------------------------------------------
\* The host completes a buffer, a CAPTURE buffer possibly as the LAST one, or has an
\* event for the session.
HostDone(s, q, i, last) ==
    /\ Alive(s)
    /\ LET h == host[s][q]
       IN  /\ h.streaming /\ i \in h.queued /\ h.last = 0 /\ ~h.eos
           /\ last => q = "CAPTURE"
           /\ host' = [host EXCEPT ![s][q] =
                 [h EXCEPT !.queued = @ \ {i}, !.done = @ \cup {i},
                           !.last = IF last THEN i ELSE @]]
    /\ UNCHANGED <<deviceVars, pending, stale, after_last>>

HostEvent(s) ==
    /\ Alive(s)
    /\ pending' = [pending EXCEPT ![s] = TRUE]
    /\ UNCHANGED <<deviceVars, host, stale, after_last>>

Next ==
    \/ \E s \in Session :
          \/ \E mem \in Memory : OpenSession(s, mem)
          \/ CloseSession(s) \/ ProcessEvents(s) \/ SubscribeEvent(s)
          \/ DecoderCmd(s) \/ ExtCtrls(s) \/ HostEvent(s)
          \/ \E q \in Queue : Streamon(s, q) \/ Streamoff(s, q)
          \/ \E q \in Queue : \E n \in {0} \cup Index(q) : Reqbufs(s, q, n)
          \/ \E q \in Queue : \E n \in Index(q) : CreateBufs(s, q, n)
          \/ \E q \in Queue : \E i \in Index(q) : \E a \in Addr :
                Qbuf(s, q, i, a) \/ PrepareBuf(s, q, i, a)
          \/ \E q \in Queue : \E i \in Index(q), last \in BOOLEAN : HostDone(s, q, i, last)
          \/ \E o \in DOMAIN mmap_buffers : DoMmap(s, o)
    \/ \E o \in DOMAIN table : DoMunmap(o)

Spec == Init /\ [][Next]_vars

-----------------------------------------------------------------------------
\* The proxy's view of the CAPTURE queue is the host's: the count that guards the
\* poller, and is decremented without a check, never underflows, covers the buffers
\* the host holds unless a QBUF that the host accepted was reported as failed, and
\* exceeds them only after a REQBUFS that replaced queued buffers.  The count of OUTPUT,
\* never decremented, never keeps a finished buffer from being dequeued.
CountCoversHost ==
    \A s \in Open : \A q \in Queue :
        LET held == Cardinality(Held(host[s][q]))
            n == sess[s].num_queued[q]
        IN  /\ sess[s].streaming[q] = host[s][q].streaming
            /\ n >= 0
            /\ n >= held \/ host[s][q].uncounted
            /\ q = "CAPTURE" => n = held \/ stale[s] \/ host[s][q].uncounted

\* The poller listens for CAPTURE buffers exactly while should_poll_capture says so,
\* whichever of QBUF, STREAMON, STREAMOFF, REQBUFS and the events came last; only a
\* LAST buffer that leaves others behind turns it off for longer.
PollerFollows ==
    \A s \in Open : sess[s].polling = (ShouldPollCapture(sess[s]) /\ ~after_last[s])

\* The guest memory of every USERPTR buffer that the host has prepared or queued stays
\* mapped, unless a second buffer was registered at the same address.
UserptrsPinned ==
    \A s \in Open : \A q \in Queue : \A m \in host[s][q].mem :
        (\E u \in sess[s].userptr_buffers : u.addr = m[2]) \/ m[2] \in sess[s].reused

\* The offsets that can be mapped are those of the buffers the host has, across REQBUFS,
\* CREATE_BUFS and the end of sessions.
OffsetsMatch ==
    panicked = None =>
        /\ RegisteredPages(table) = DOMAIN mmap_buffers
        /\ DOMAIN mmap_buffers =
              UNION {UNION {IF sess[s].memory = "MMAP"
                            THEN {Offset(q, i) : i \in 1 .. host[s][q].n} ELSE {} :
                                q \in Queue} : s \in Open}
=============================================================================
