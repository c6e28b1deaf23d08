# A TLA+ model of virtio-media

virtio-media lets a guest use the V4L2 devices of its host: a guest driver
forwards the ioctls of applications over a virtio command queue, and a device on
the host executes them and reports completed buffers over an event queue.  This
directory models the parts of it that keep state, checks them with TLC on small
instances, and proves the safety of most of them, for instances of any size, with TLAPS.

Paths below are relative to the repository.

## 1. Inventory

### Guest driver (`driver/`)

| Component | State | Operations | Interacts with |
|---|---|---|---|
| capture and output queues (`virtio_media_ioctls.c`, `session.h`) | per queue: `streaming`, `allocated_bufs`, flags of each buffer, `queued_bufs`, list `pending_dqbufs`, `is_capture_last`, `import_needs_cancel` | QBUF, DQBUF, PREPARE_BUF, QUERYBUF, REQBUFS, CREATE_BUFS, STREAMON, STREAMOFF, DECODER_CMD | commands to the device; the event worker changes the same state |
| events (`virtio_media_driver.c`) | the eventq, `session->error`, wait queues | `virtio_media_process_events`, from the worker and from STREAMOFF and REQBUFS | completes buffers, wakes DQBUF and poll |
| command channel (`virtio_media_driver.c`) | one command under `vlock`, `disconnected`, `queues_stopped` | send, answer, time-out after 5 s, stop of the queues, removal | every ioctl waits on it |
| imports (`virtio_media_dmabuf.c`) | imports of a buffer, armed or not | prepare, complete, release | QBUF, events, STREAMOFF |
| sessions, mmap, expbuf (`virtio_media_driver.c`) | list of sessions, reference counts of VMAs and exports | open, close, mmap, VMA open and close | OPEN, CLOSE, MMAP and MUNMAP commands |
| scatterlist builder | descriptor array, shadow buffer position | add and retrieve payloads | command channel |

Hard: DQBUF releases `vlock` while it waits, so every other ioctl runs in the
middle of it; the event worker takes `events_lock` and never `vlock`, so it runs
in the middle of every ioctl; a command may time out while its answer is on its
way; the device may vanish at any time; completions of a queue that has been
stopped may still be on the eventq.  Correct means: flags, list and counter tell
the same story, no completion is lost or taken for another QBUF, no waiter sleeps
for ever, no ioctl holds `vlock` for ever.

### Device (`device/src/`)

| Component | State | Operations | Interacts with |
|---|---|---|---|
| command runner (`lib.rs`) | session table, id counter | OPEN, CLOSE, IOCTL, MMAP, MUNMAP | the device behind it |
| MMAP range manager (`mmap.rs`) | sorted vector of buffers, each registered or not, with a mapping and its count | `register_buffer`, `unregister_buffer`, `create_mapping`, `remove_mapping` | called by every device; calls the host memory mapper |
| simple capture device (`simple_device.rs`) | active session, queued buffers, state of each buffer | REQBUFS, QBUF, STREAMON, STREAMOFF | mmap manager, event queue |
| video decoder device (`video_decoder.rs`) | streaming state, buffers of two queues, pending CAPTURE buffers, subscriptions, `format_change_pending` | REQBUFS, QBUF, STREAMON, STREAMOFF, decoder commands, subscriptions, backend events | a decoding backend behind a trait |
| V4L2 proxy device (`v4l2_device_proxy.rs`) | offset tables, counters of queued buffers, whether to poll | all of the above, against a host device | host V4L2 device, poller |
| ioctl dispatch, protocol, I/O (`ioctl.rs`, `protocol.rs`, `io.rs`, `memfd.rs`) | none | read and check an input, call the handler, write an output or an error | the driver must expect the same payloads |
| ffmpeg backend (`extras/ffmpeg-decoder`) | jobs, decoded frame, free output frames, drain state, event queue | decode, use_as_output, drain, clear_output_buffers | implements the decoder's backend |

Hard: buffers are freed or unregistered while the guest still maps them, or while
the backend still decodes into them; a frame marked LAST means two things; a
command may fail half way; offsets are 32 bits wide.  Correct means: the guest's
mappings stay what they are until it undoes them, device and guest agree on what
is queued and what streams, each queued buffer is in one place, and a stopped
queue reports nothing more.

`PROJECT.json` lists every component with its status, and under `hazards` the
lines where the code is hard to test.

## 2. Plan

Order, by weight of the behaviour.  Steps 1 to 8 are done.

1. `MmapManager`, with `MmapRange` as what it promises: every device and every
   mapping of the guest depends on it.
2. `MmapManagerProofs`: its invariant, for every range.
3. `DriverQueue`: the concurrent heart of the driver.
4. `VideoDecoder`: the session of the stateful decoder, against an external
   backend and the guest.
5. `Commands`: the driver's entry points composed with the device's runner and the
   ioctl dispatcher, over a command channel that may be cut at any moment.
6. `SimpleDevice`: two sessions that share a camera and the mmap manager, which
   `MmapTable` gives as operators on a table.
7. `ProxyDevice`: polling, counts, offsets and guest memory against a host queue.
8. `FfmpegDecoder`: the backend with its event queue, and the liveness of a drain.
9. More proofs.  Done: the stability of the mappings and the refinement of
   `MmapRange` (`MmapRangeProofs`), and the safety invariants of `VideoDecoder`,
   `SimpleDevice`, `ProxyDevice`, `FfmpegDecoder`, `DriverQueue` and `Commands`: every
   safety property of the passing runs is proved.
10. Left for later: `FfmpegDecoder` as an implementation of the backend inside
    `VideoDecoder`; the selection rectangle and the bounds of the scatterlist
    builder as pure operators.

## 3. Modules

### MmapManager, MmapRange, MCMmapManager

`buffers` is the vector of `mmap.rs`; a record has the fields of `MmapBuffer`, and
a missing mapping is the record `NoMapping`.  One action per public operation;
each error of the code is a disjunct that changes nothing but `ret`, what the
call returned.  `binary_search_by_key` is the position its contract gives: the
index of the key, or the place that keeps the vector sorted.  That the vector is
sorted, which the contract needs, is checked and proved.  The host mapper hands
out an address it has not handed out, or fails; a failed unmap keeps the address
in use.  `owed` is a history variable: MMAPs answered with an address and not yet
undone.  An automatic offset past the last page panics or wraps, as the build
decides.  `is_mapped` and `into_mapper` change nothing.

`MmapRange` is the abstract range: buffers registered at distinct offsets, and
views of them at guest addresses with a count, without a vector.  As the comments of
`mmap.rs` have it, a freed buffer that the guest still sees takes no space: its view
is no longer `live`, its offset may be registered again, and the new buffer is never
taken for it.  The code never uses that freedom, since it refuses such an offset: a
refinement, but not what its comments say (section 4).  `ImplementsRange`, in `MmapManager`, maps a vector to the range; `MCMmapManager` only leaves `ret` out of the
states that TLC tells apart.

### DriverQueue, MCDriverQueue

One queue of one session, the threads of an application, the event worker, the
device.  `slots[i]` has the flags of a buffer that matter, QUEUED, DONE, PREPARED and
LAST; `pending_dqbufs` is the list; `vlock` and `events_lock` are the mutexes, and
`queues_lock`, which is held only around single updates, is in the atomicity of the
steps.  An ioctl takes several steps: up to its command (`StreamOff`, ..., and for
QBUF the test of the flags, `Qbuf`, and their change, `QbufMark`), the device's answer,
and what follows, with `StartDrain` and `Drained` for `virtio_media_process_events`.

Whoever is inside `virtio_media_process_events`, the worker or a STREAMOFF or REQBUFS,
takes events one by one.  A completion takes two steps, as the flags belong to no lock
that the worker and the ioctls share: `StartCompletion` signals the fences and copies
the event's flags, without QUEUED and DONE, over the buffer's (driver.c:511-533), and
`EndCompletion` adds DONE, by a read and a write that may undo an ioctl's, links the
buffer and counts it (549-554).  An ioctl that writes the flags or replaces the array in
between, or PREPARE_BUF of a buffer in use, sets the history variable `disturbed` until
the queue is cancelled.  The properties say what holds until then, and the run
`pending_available` shows what happens after it.
`SendEventBuffer` gives the event buffer back or loses it.  DQBUF is `Dqbuf` (with `vlock`),
`DqbufTest` (without), sleep, and `DqbufTake` (with `vlock` again).  `CREATE_BUFS`
is split where the event worker can see the array half done.  When a list
operation would follow a pointer to no buffer, `wild` says which, and the
behaviour ends: the memory after that is undefined.

The device is external: it answers in order, completes buffers of a streaming
queue in any order, and needs a free event buffer to say so.  It may fail a
command, execute a QBUF and fail to say so (`FaultyReplies`), be too late, or
report an error.  `MCDriverQueue` says which thread makes which ioctl: the
passing runs and `pending_available` are applications that do not cancel under a
waiting DQBUF, `dequeues_from_list` one that does.

### VideoDecoder

One session.  `state` is `VideoDecoderStreamingState`, `flags` the flags of the
buffers of both queues, `pending_output_buffers` the list of that name; `registered`
counts the session's buffers in the mmap manager.  Each command and each backend
event is one step, since the device handles one at a time; `TrySendPending` is
`try_send_pending_output_buffers`, with its panic and its failure.  The backend
(`be_*`) is external and does what its trait says: it consumes inputs in order,
fills CAPTURE buffers, ends a drain with a LAST frame, and gives up its buffers on
a format change.  `MarksChange` chooses between backends that mark the last frame
of the old format and those that, like the ffmpeg one, do not.  The guest
(`guest_*`) is the driver's view, from `virtio_media_ioctls.c`; `Orderly` says
whether it waits for its buffers before it frees or stops a queue.

### Commands, MCCommands

The two ends of the commandq.  A command is a record: what it asks for, the session,
the ioctl, whether its payload is valid, how many readable parts the descriptor
chain has and how much room for a response.  The driver's entry points take `vlock`
and send it (`Open`, `Close`, `Ioctl`, `Mmap`, `VmaClose`), `HandleCommand` is
`handle_command` of `lib.rs` with one operator per command, and the `...Return`
actions are what the entry points do with the response; `Kick` and `SendResult` are
`virtio_media_kick_command` and `virtio_media_send_command` with their lengths.
`Dispatch` is `virtio_media_dispatch_ioctl` as a table: for each ioctl the shape of
its payload and whether its input is checked; `DriverR`, `DriverW`, `DriverWR`,
`DriverBuffer` and `ExtCtrls` are the shapes the driver uses.  The device behind the
runner is external: it succeeds or fails at the ioctls it implements.  A session has
one mapping at a time, for which the VMAs of the guest hold references.  `StopQueues`
may come at any moment, after a time-out or a removal.  `BadCommand` stands for any
other driver: unreadable, unknown, or about no session.

### SimpleDevice, MmapTable

The session record has the fields of `SimpleCaptureDeviceSession` without its format;
a buffer has an offset, a state and memory of its own.  One action per operation,
and `ReqbufsFails` and the failing cases of `Process` where the code returns half way.
History variables hold what the guest waits for.  `MmapTable` gives the mmap manager
for buffers of one page: the part of `MmapManager` the devices see.

### ProxyDevice, MCProxyDevice

`sess` is `V4l2Session` with the counts, the streaming flags, the registered guest
memory by host address, one entry for each, and whether the poller listens for CAPTURE
buffers; `reused` are the addresses whose entry another buffer has replaced; `mmap_buffers` and `table`
are the offset tables.  `host` is the V4L2 device of the host, external: two queues
that hold buffers, complete them in any order, flag one LAST and then refuse DQBUF,
and give the same offsets to every open file.  `process_events` is one step, with
`OnCaptureReady` for its order; a QBUF first dequeues OUTPUT buffers, as the code
does.  A QBUF may fail before the host is asked, at the host, or after the host has
taken the buffer, when the address at which the host has it is no longer known
(`HostBufferToGuest`): such a buffer is not counted, and the history flag `uncounted`
of its queue says so.  The two `unwrap`s that can fail set `panicked`.  A session uses one memory
type.

### FfmpegDecoder

`try_decode` is a loop over `try_output_frame`, `try_receive_frame` and
`try_send_input_job`; each is a step, and `at` says which comes next.  `jobs`,
`drain_state`, `avframe`, `available_output_frames` and the event queue are the
session's fields.  libavcodec is external: a packet may produce a frame, which it
keeps until it is asked; it refuses packets when it is full, and for good once it has
been flushed, since nothing resets it.  `owed` and `given` are the buffers the device
waits for.

## 4. Runs

| Run | Instance | Shows |
|---|---|---|
| `mmap_manager` | 3 pages of 2 bytes, sizes 0, 1, 3, 2 addresses, 2 mappings each | invariants, stability and refinement |
| `driver_queue` | 2 threads, 2 buffers, 3 QBUFs of imported DMA-BUFs, 1 event buffer that may be lost, faulty replies | agreement of flags, list, counter, device and fences; late completions; poll |
| `driver_queue_live` | 2 threads, all ioctls, 1 buffer, 2 QBUFs | every ioctl returns, waiters are served |
| `video_decoder` | 2 buffers per queue, 3 QBUFs, 2 events, a format change | agreement of guest and session, conservation of CAPTURE buffers |
| `video_decoder_any` | 1 buffer per queue, 2 QBUFs, any guest, failing backend | what holds for every command order |
| `commands` | 2 files, all ioctls, 2 references and 2 mappings per session | sessions and mappings in step; outcomes seen |
| `simple_device` | 2 sessions, 2 buffers each, 5 offsets | one owner, its offsets and mappings; the queue |
| `proxy_device` | 2 sessions, MMAP or USERPTR, 1 open at a time, 2 CAPTURE and 1 OUTPUT buffers, 2 addresses | counts, poller, guest memory and offsets |
| `ffmpeg_decoder` | 2 inputs, 2 CAPTURE buffers, 2 formats, 2 jobs | conservation, drains, the eventfd, calls return |

Violation runs, each of one property and one line of the repository that the code
does not live up to (`PROJECT.json` quotes them):

* `dequeues_from_list`: a STREAMOFF or REQBUFS between the wake-up of a DQBUF and its
  lock makes DQBUF take a buffer from an empty list;
* `drain_reported`: a drain that ends while the backend has no CAPTURE buffer is not
  reported when one comes;
* `pending_available`: a QBUF between the copy of a completed buffer's flags and its DONE
  flag is accepted, so that the device holds a buffer which the application can dequeue.

Other disagreements between code and comments, met while modelling and not given a
run:

* mmap.rs: an offset that only an unregistered, still mapped buffer has is refused as
  occupied (180), although such buffers are said to take no space and to be skipped
  (27-29 and 58-59); `unregister_buffer` answers `true` for a buffer that was already
  unregistered; with a buffer in the last page `register_buffer(None, ..)` overflows (136),
  although it is said to fail when the range is full (115), and lower pages may be free.
* ioctls.c: an extended-controls ioctl that gets no response returns success, because the
  length of the header is taken off a length of zero (440), although there is then "no
  valid response" (driver.c:407-410): the exception in `SuccessButForNoResponse`;
  CREATE_BUFS frees the array whose elements the list of completed buffers links (898),
  and a completion that arrives while it fills the new one is dropped (889), one of the
  ways to `disturbed`; of two non-blocking DQBUFs one may sleep (1055, `NonBlocking`);
  PREPARE_BUF clears the DONE flag of a listed buffer (937).
* driver.c: an event buffer that cannot be given back is lost, and completions stop when
  there is none left (651); a session whose OPEN succeeded is not closed when the guest
  cannot allocate its own part (698); `orphans` keeps them in `SessionsOwned`.
* ioctl.rs: SUBSCRIBE_EVENT unwraps an event type and flags that may be unknown (1110),
  and the worker ends (`halted`).
* video_decoder.rs: REQBUFS for fewer buffers leaves the index of a freed one pending,
  although the list is said to hold buffers that are queued (373-374), and the next
  STREAMON panics on it (465); with a backend that does not mark format changes the first
  drain after a change ends without an EOS event (774); RESUME does not send the CAPTURE buffers queued while
  paused (1312); ERROR stays set on an OUTPUT buffer for ever (1232); OUTPUT buffers
  complete after STREAMOFF has returned them (1093, with a TODO), which is why
  `CompletionsFresh` and `QueuedAgrees` are checked for an orderly guest; the crop
  rectangle is clipped with a subtraction that may underflow (1170).
* simple_device.rs: a REQBUFS that fails half way leaves offsets registered (`leaked`)
  and the old buffers without theirs (`stale`); a frame that cannot be written takes its
  buffer out of the queue without a word to the guest (`faulted`).
* v4l2_device_proxy.rs: a REQBUFS that replaces queued buffers leaves the count
  (`stale`), and the next STREAMON polls an empty queue; a LAST buffer that leaves others
  behind disables the poller until CAPTURE is stopped (`after_last`); OUTPUT buffers are
  dequeued only by a QBUF or a CAPTURE buffer; of two USERPTR buffers at one address the
  entry of the first is lost (325, `reused`), and a QBUF whose reply cannot be converted
  leaves a buffer that the host has and the proxy does not count (742, `uncounted`); an
  offset that the host gives again while the guest still maps the old buffer at it is
  refused by the manager, and the proxy unwraps the refusal (437), as it does for a second
  session that gets the offsets of the first.
* ffmpeg-decoder: after a drain libavcodec stays at the end of the stream, as its reset
  is never called, so later inputs stay jobs; an error in one call of decode may drop the
  job of an earlier one; when the converter for a new format cannot be created the format
  changes without an event.

**Bounds.** Three pages let a buffer be first, between and last, and the allocator
run over the end; two addresses let the mapper run out.  Two buffers let
completions overtake each other, and a third QBUF reuses a slot, which is what a
late completion needs; one event buffer is the smallest eventq, on which each
completion has to wait for the one before it, and the one whose loss stops them all.  Two decoder buffers are enough for
REQBUFS to free one and keep one.  Two files, sessions or inputs are the fewest
that can compete; two references let a VMA be split and one half closed; four buffers
and five offsets let the camera's owner change twice; two CAPTURE buffers let LAST
leave one behind, and two addresses let USERPTR buffers share one or not; with one open
session of the proxy at a time the only panics of its offset update are those of buffers
still mapped, since the host gives a second one the offsets of the first.  `MCProxyDevice`
explores USERPTR sessions without V4L2 events and without MMAP buffers that are left
mapped (`Unmixed`), neither of which bears on its counts, its poller or its memory.  Deadlock checking is off where the system may
stop: the mmap manager after a panic, the driver once the device is gone or the
QBUFs are used up, the decoder once it is closed, the commands once the device is gone
or its worker has ended, the others when a bound is reached.

**Fairness** (`DriverQueue!Fairness`): the worker runs when there are events (the
kernel's work queue); a thread inside an ioctl goes on, strongly fair because
mutexes of the kernel hand over to waiters, so DQBUF gets `vlock` back although
others keep taking it; a command is answered or times out (`wait_event_timeout`
is bounded); a stop of the queues that has begun goes on.  Nothing is assumed of
the application or of the device, which may never complete a buffer.
`FfmpegDecoder!Fairness`: a call that has begun goes on, and events are taken while
the eventfd is readable, since the worker polls it; no further call is assumed.

**Faulty variants.** Next to the definitions are variants with a plausible mistake
(a guard dropped, a reset forgotten, an order swapped), each of which TLC shows to
violate a property: what the properties would catch.

## 5. Proofs

`MmapManagerProofs` proves, for every page size, offset type, set of sizes, set of
guest addresses and bound on mappings, `TypeCorrect`, `AlwaysSorted`,
`MappingsAlwaysCounted` and `NeverDeadBuffer`, from `ConstantsAssumption` (the page
size divides the range, sizes are naturals, `NoAddr` is no address).

The inductive invariant `Inv` is the conjunction of the four.  They need each
other: that `remove_mapping` decrements the right count rests on at most one
buffer being mapped at an address (part of `MappingsCounted`); that a new first
mapping keeps this rests on every mapped address being in `host`, which the mapper
does not hand out again; that unregistering or unmapping removes the entry of
that buffer and no other rests on `Sorted`.  The proof has one lemma per action,
over three facts about the vector: inserting (`InsertInv`), replacing (`UpdateInv`)
and removing (`RemoveInv`) an element keep `Inv` under stated conditions, and those
rest on what `InsertAt` and `RemoveAt` do to positions.

`MmapRangeProofs` proves over the same `Inv` what relates two states, or two
specifications.  `MappingStable` says that the buffer behind a guest address with
mappings left is the same before and after a step: an action moves, unregisters or
counts buffers, and only one that undoes the last mapping takes the address away.
`RangeImplemented` shows that every step on the vector is a step of `MmapRange` on
the registered offsets and the counted views, or changes neither; it needs `Inv`
because a search that misses a buffer of an unsorted vector would be a step the
abstract range does not have, and because at most one buffer has an offset, which keeps
the views that are not `live` apart from what is registered.

`VideoDecoderProofs` has two invariants.  `Inv` holds for every guest and every
backend: types, `CaptureQuiet`, `NoEosAtChange`, and `ChangesMarked`, that a frame which
marks a format change comes right after the event of that change or with
`format_change_pending` set, without which the last frame of the old format could be
taken for the end of a drain.  `OInv` is proved under `Orderly` and `~FailingBackend`,
the constants under which the run `video_decoder` checks the same properties: the
code does not keep them otherwise (section 4).  It says where each queued buffer is.
`OutputPlaces` and `CapturePlaces` list the places (kept back, input, output, event),
say that a buffer is in at most one of them, queued, and there with the number of its
last QBUF; `NoneLost` adds, until the format changes, that it is in one.  From these
follow `QueuedAgrees`, `CompletionsFresh` and `CaptureConserved`.

`SimpleDeviceProofs` states the invariant of one session as a relation (`SessionOK`)
between its record, what the guest waits for and whether a step failed half way, and
adds `BuffersOwned` and `MapsShowBuffers`, which tie the sessions to the table of pages.
Distinct offsets within a session are what makes unregistering one buffer leave the
others alone.  From `SimpleDeviceAssumption`: bounds are naturals, `None` is no session
and no session's record.

`ProxyDeviceProofs` does the same for a session of the proxy and the host's queues
(`SessionOK`, one `QueueOK` per queue, `PollerOK`).  `PollerFollows` alone is not
inductive: that `after_last` is only set while `should_poll_capture` holds is needed,
or a QBUF or STREAMON that turns the poller on would contradict it.  The counts need the sets of
queued and of completed buffers to be disjoint; that they do not underflow even after a
QBUF that failed late rests on the poller: a buffer is only dequeued while it listens, and
then the count is above zero.  `UserptrsPinned` needs the entry at an address to be that
of the buffer the host has there, unless the address is `reused`.  The offsets are tied
to the host's buffers over all sessions.  All of them hold for any `MaxOpen`.

`FfmpegDecoderProofs` replaces the counts of `FramesConserved` and `InputsConserved` by
places: an element of each queue at most once, no element in two queues, each element
given or owed, and each owed input somewhere.  `DrainIsClean` needs that libavcodec has
been flushed while the LAST frame is due, so that nothing fills it again.  What
`clear_output_buffers` keeps of the event queue is the image of an ascending function,
whose existence is proved from a least counterexample in size.

`DriverQueueProofs` treats the driver's queue with any number of threads in two layers.
`Known` is `Base`, which ties the locks to the program counters (a thread is inside an
ioctl exactly while it holds `vlock`, `reply` is that to its command, and a completion
is half done only under `events_lock`) and bounds the counter from below, and `Calm`:
unless `disturbed`, the flags of the buffers agree with the counter, the list and the
fences, the one that is being completed counted apart.  `Followed` says, unless
`disturbed`, where each buffer in flight is (`Flight`): a buffer of the device, or a
completion on the eventq, is that of the last QBUF of a queued buffer, is there once, and
is missing only while an ioctl that holds `vlock` is about to account for it (`CallOK`,
what a reply tells of the device).  Two things in the
code carry the argument: `import_needs_cancel`, without which the buffer of a QBUF that
failed would be queued again while the device may have it, and the drain of the
eventq under `events_lock` between the reply to a STREAMOFF or REQBUFS and the clearing
of the flags, without which an old completion would meet a new QBUF.  Time-outs, late
replies, removal, device errors, lost event buffers and DQBUFs that race with a
cancellation are all in, and so are the states after a list operation has gone astray
(`wild`).

`Known` has no hypotheses: any application may make any ioctl on any memory type, and
the theorems that follow from it (`QueueTypeCorrect`, `QueuedAlwaysCounted`,
`PendingAlwaysDone`, `FencesAlwaysFollow`) hold as long as no ioctl has crossed a
completion since the queue was last cancelled, the count's lower bound even after it.
The crossing cannot be excluded, as the code has no lock against it
(`pending_available`); the theorems say that it is the only way.  `PollAlwaysKeepsWaiting`
is stated with that exception too, which the property of the run does not need on its
instance.  `Followed` needs `ErrorsBlock`, that the buffers are imported or the device does not answer a QBUF it
executed with an error, since only an imported buffer's failure is remembered; it holds
of the run `driver_queue`.

`DequeuesAlwaysFromList` delimits the race of `dequeues_from_list`.  Its hypothesis is
`Alone`: a thread that dequeues is the only one that dequeues or cancels,
as in the run `driver_queue`.  Its invariant `WaitOK` says that what a DQBUF tested
without `vlock` stays true until it has `vlock` again: the events only add to the list,
`disconnected` and `error` are never reset, and whoever takes from the list is, by
`Alone`, not another thread.

`CommandsProofs` follows one command from the driver to the device and back, in four
parts.  `SentOK`: which command is in flight for the entry point that holds `vlock`, with
which session, payload and parts.  `AnsweredOK`: what a reply and the outcome of the
handler say of that command.  `SessionsOK`: the runner's sessions are those of the open
files, the orphans, and the one that the command in flight has just opened, without the
one it has just closed; ids are handed out below `session_id_counter`, which does not exceed
the number of files opened, so there is an id for each.  `MapsOK`: the host's mappings are
the guest's, but for the session whose MMAP or MUNMAP is `Between` the handler and
the return.  Neither `SessionsOwned` nor `MapsBalanced`, which speak of the moments
without a command, is inductive without them.  That an ioctl returns the outcome of its
handler (`OutcomeSeen`, `CtrlErrorsArrive`) rests on two facts about the tables of both
ends, proved ioctl by ioctl: the dispatcher answers without a payload only ioctls from
which the driver expects none (`WriteOnlyAgrees`), and it answers the driver's
extended-controls ioctls with the controls even if they fail (`ExtCtrlsAgree`).  There
are no hypotheses but the assumptions on constants.  `SuccessAlwaysReal`: an ioctl succeeds without having been performed only when it is an extended-controls one
that got no response.

All of these hold for every number of files, buffers, sessions, inputs, QBUFs and
events, from the assumption on constants of the module and the hypotheses named above.

Only model-checked: liveness (`CallsReturn`, `GoneReleasesAll`, `WaiterServed`,
`CallsEnd`), and the counterexamples of the violation runs.  Beyond the prover, and
left to TLC: liveness under fairness and anything with ENABLED; induction over data, as
the induction theorems take an operator that the installed provers cannot
instantiate; recursive operators, which the modules proved about therefore do not use.

## 6. Not modelled

* Byte order and layout of the wire structures, memory files, the libav bindings and the
  conversion of frames: no state of their own, or calls to libraries.
* The scatterlist builder: the assembly of descriptors is data; `Commands` keeps the
  parts of a chain and their lengths.
* Driver: EXPBUF (its exports block reallocation as mappings do), poll of the OUTPUT
  queue, session events, `session->error` in `Commands`, the storage of a command against
  a late answer, and the order of `vlock` and the kernel's `mmap_lock`.  One queue stands
  for the driver's queues; every run opens files in blocking mode.
* Proxy: ioctls that are only forwarded, a QUERYBUF that fails while offsets are updated
  (skipped with a warning), errors of the poller (logged), memory types mixed in one session.
* Formats, selection, plane layouts, timestamps, sequence numbers and the contents of
  buffers, everywhere.
