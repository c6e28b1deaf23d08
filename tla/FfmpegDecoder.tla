--------------------------- MODULE FfmpegDecoder ---------------------------
(***************************************************************************)
(* FfmpegDecoderSession (extras/ffmpeg-decoder/src/lib.rs), the backend    *)
(* behind VideoDecoder: inputs become jobs, jobs packets of libavcodec,    *)
(* its frames fill the CAPTURE buffers, and events report both.  decode    *)
(* and drain run try_decode, a loop over three steps; a step is an action  *)
(* and no other call comes between two of them.  libavcodec is external:   *)
(* it keeps some frames back until it is flushed, refuses input when it is *)
(* full and, once it is flushed, for good.                                 *)
(***************************************************************************)
EXTENDS Integers, FiniteSets, Sequences

CONSTANTS
    None,
    Input, Capture, \* OUTPUT and CAPTURE buffers
    MaxJobs,        \* bound on the jobs waiting
    MaxInside,      \* the frames libavcodec keeps at most
    MaxFormats,     \* bound on the formats of the stream
    MaxEvents,      \* bound on the events not yet taken
    Failing         \* whether libavcodec and the converter may fail

ASSUME FfmpegDecoderAssumption ==
    /\ {MaxJobs, MaxInside, MaxFormats, MaxEvents} \subseteq Nat \ {0}
    /\ Failing \in BOOLEAN /\ "Drain" \notin Input /\ None \notin Capture

VARIABLES
    \* DecodingContext
    context,        \* whether it has been created
    jobs, accepting_output_buffers, drain_state,
    avframe,        \* the format of the frame received, or None
    codec,          \* av_context: frames inside, whether it has been flushed
    \* FfmpegDecoderSession
    stream_format,  \* stream_params
    available_output_frames,
    events,         \* pending_events of the EventQueue,
    signalled,      \* and whether its eventfd is readable
    at,             \* the step of try_decode that is next, None outside of it
    \* history: the inputs and CAPTURE buffers the device waits for, and whether a
    \* call has failed
    owed, given, failed

contextVars == <<context, jobs, accepting_output_buffers, drain_state, avframe, codec>>
queueVars == <<stream_format, available_output_frames, events, signalled>>
historyVars == <<owed, given, failed>>
vars == <<contextVars, queueVars, at, historyVars>>

DrainState == {"None", "Initiated", "AwaitingFinalFrame"}
Done(i) == [type |-> "InputBufferDone", id |-> i]
Frame(b, last) == [type |-> "FrameCompleted", id |-> b, is_last |-> last]
Changed == [type |-> "StreamFormatChanged"]

Init ==
    /\ context = FALSE /\ jobs = <<>> /\ accepting_output_buffers = TRUE
    /\ drain_state = "None" /\ avframe = None
    /\ codec = [inside |-> 0, flushed |-> FALSE]
    /\ stream_format = 1 /\ available_output_frames = <<>>
    /\ events = <<>> /\ signalled = FALSE /\ at = None
    /\ owed = {} /\ given = {} /\ failed = FALSE

\* queue_event: the eventfd is written for the first event only.
QueueEvent(e) ==
    /\ events' = Append(events, e)
    /\ signalled' = (signalled \/ events = <<>>)

-----------------------------------------------------------------------------
\* try_output_frame.  A drain ends with an empty frame marked LAST; a frame that
\* cannot be converted is lost with its buffer.
TryOutputFrame ==
    /\ at = "output"
    /\ \/ /\ \/ available_output_frames = <<>>
             \/ drain_state = "AwaitingFinalFrame" /\ avframe # None
             \/ drain_state # "AwaitingFinalFrame" /\ avframe = None
          /\ at' = "receive"
          /\ UNCHANGED <<drain_state, avframe, available_output_frames, events,
                         signalled, failed>>
       \/ /\ available_output_frames # <<>>
          /\ drain_state = "AwaitingFinalFrame" /\ avframe = None
          /\ drain_state' = "None"
          /\ QueueEvent(Frame(Head(available_output_frames), TRUE))
          /\ available_output_frames' = Tail(available_output_frames)
          /\ UNCHANGED <<avframe, at, failed>>
       \/ /\ available_output_frames # <<>>
          /\ drain_state # "AwaitingFinalFrame" /\ avframe # None
          /\ avframe' = None
          /\ available_output_frames' = Tail(available_output_frames)
          /\ \/ /\ QueueEvent(Frame(Head(available_output_frames), FALSE))
                /\ UNCHANGED <<at, failed>>
             \/ /\ Failing /\ failed' = TRUE /\ at' = None
                /\ UNCHANGED <<events, signalled>>
          /\ UNCHANGED drain_state
    /\ UNCHANGED <<context, jobs, accepting_output_buffers, codec, stream_format,
                   owed, given>>

\* A frame of another format discards the buffers, and no more are accepted until
\* CAPTURE starts streaming again.
ReceiveFormat(fmt) ==
    IF fmt = stream_format
    THEN UNCHANGED <<available_output_frames, accepting_output_buffers, events, signalled>>
    ELSE /\ available_output_frames' = <<>>
         /\ accepting_output_buffers' = FALSE
         /\ QueueEvent(Changed)

\* try_receive_frame, one case for each answer of libavcodec.
Received(fmt) ==
    /\ avframe = None /\ codec.inside > 0
    /\ fmt \in {stream_format, stream_format + 1} /\ fmt <= MaxFormats
    /\ ReceiveFormat(fmt)
    /\ stream_format' = fmt /\ avframe' = fmt
    /\ codec' = [codec EXCEPT !.inside = @ - 1]
    /\ at' = "output"
    /\ UNCHANGED <<drain_state, failed>>

\* The new converter cannot be created: the format is changed all the same.
ReceivedNoConverter ==
    /\ Failing /\ avframe = None /\ codec.inside > 0 /\ stream_format < MaxFormats
    /\ stream_format' = stream_format + 1
    /\ codec' = [codec EXCEPT !.inside = @ - 1]
    /\ failed' = TRUE /\ at' = None
    /\ UNCHANGED <<avframe, drain_state, available_output_frames,
                   accepting_output_buffers, events, signalled>>

TryAgain ==
    /\ avframe = None /\ ~codec.flushed
    /\ \/ /\ drain_state = "Initiated"
          /\ codec' = [codec EXCEPT !.flushed = TRUE]
          /\ UNCHANGED <<drain_state, at, failed>>
       \/ /\ drain_state = "Initiated" /\ Failing
          /\ drain_state' = "None" /\ failed' = TRUE /\ at' = None
          /\ UNCHANGED codec
       \/ /\ drain_state # "Initiated" /\ at' = "send"
          /\ UNCHANGED <<codec, drain_state, failed>>
    /\ UNCHANGED <<avframe, stream_format, available_output_frames,
                   accepting_output_buffers, events, signalled>>

\* Faulty variant: the end of the flush counts as progress each time.
FlushCompletedAgain ==
    /\ avframe = None /\ codec.flushed /\ codec.inside = 0
    /\ drain_state' = IF drain_state = "Initiated" THEN "AwaitingFinalFrame" ELSE drain_state
    /\ at' = "output"
    /\ UNCHANGED <<avframe, codec, stream_format, available_output_frames,
                   accepting_output_buffers, events, signalled, failed>>

FlushCompleted ==
    /\ avframe = None /\ codec.flushed /\ codec.inside = 0
    /\ IF drain_state = "Initiated"
       THEN drain_state' = "AwaitingFinalFrame" /\ at' = "output"
       ELSE at' = "send" /\ UNCHANGED drain_state
    /\ UNCHANGED <<avframe, codec, stream_format, available_output_frames,
                   accepting_output_buffers, events, signalled, failed>>

\* Invalid data is skipped; any other error ends the call.
ReceiveError ==
    /\ avframe = None /\ codec.inside > 0
    /\ codec' = [codec EXCEPT !.inside = @ - 1]
    /\ \/ at' = "output" /\ UNCHANGED failed
       \/ Failing /\ at' = None /\ failed' = TRUE
    /\ UNCHANGED <<avframe, drain_state, stream_format, available_output_frames,
                   accepting_output_buffers, events, signalled>>

\* A frame that waits for a buffer is not overtaken.
FrameWaits ==
    /\ avframe # None /\ at' = "send"
    /\ UNCHANGED <<avframe, drain_state, codec, stream_format, available_output_frames,
                   accepting_output_buffers, events, signalled, failed>>

TryReceiveFrame ==
    /\ at = "receive"
    /\ \/ FrameWaits \/ TryAgain \/ FlushCompleted \/ ReceiveError \/ ReceivedNoConverter
       \/ \E fmt \in 1 .. MaxFormats : Received(fmt)
    /\ UNCHANGED <<context, jobs, owed, given>>

\* Faulty variant of SendDrain: the drain does not wait for libavcodec to be flushed.
SendDrainAtOnce ==
    /\ jobs # <<>> /\ Head(jobs) = "Drain"
    /\ drain_state' = "AwaitingFinalFrame" /\ jobs' = Tail(jobs) /\ at' = "output"
    /\ UNCHANGED <<codec, events, signalled, failed>>

\* try_send_input_job.  A drain starts here, and is sent on by TryAgain.
SendDrain ==
    /\ jobs # <<>> /\ Head(jobs) = "Drain"
    /\ drain_state' = "Initiated" /\ jobs' = Tail(jobs) /\ at' = "output"
    /\ UNCHANGED <<codec, events, signalled, failed>>

\* Faulty variant of SendPacket: a packet that is refused is reported all the same.
SendPacketAnyway ==
    /\ jobs # <<>> /\ Head(jobs) # "Drain"
    /\ jobs' = IF codec.flushed THEN jobs ELSE Tail(jobs)
    /\ codec' = [codec EXCEPT !.inside = IF @ < MaxInside THEN @ + 1 ELSE @]
    /\ QueueEvent(Done(Head(jobs))) /\ at' = "output"
    /\ UNCHANGED <<failed, drain_state>>

\* The packet is taken, and a frame may come of it, or it is invalid; or it is refused
\* and stays the next job; or an error drops it.
SendPacket ==
    /\ jobs # <<>> /\ Head(jobs) # "Drain"
    /\ \/ /\ ~codec.flushed /\ codec.inside < MaxInside
          /\ \E k \in {0, 1} : codec' = [codec EXCEPT !.inside = @ + k]
          /\ QueueEvent(Done(Head(jobs))) /\ jobs' = Tail(jobs) /\ at' = "output"
          /\ UNCHANGED failed
       \/ /\ codec.flushed \/ codec.inside = MaxInside
          /\ at' = None
          /\ UNCHANGED <<codec, events, signalled, jobs, failed>>
       \/ /\ Failing
          /\ jobs' = Tail(jobs) /\ at' = None /\ failed' = TRUE
          /\ UNCHANGED <<codec, events, signalled>>
    /\ UNCHANGED drain_state

\* The loop ends when no step makes progress.
NoJob ==
    /\ jobs = <<>> /\ at' = None
    /\ UNCHANGED <<jobs, codec, drain_state, events, signalled, failed>>

TrySendInputJob ==
    /\ at = "send"
    /\ SendDrain \/ SendPacket \/ NoJob
    /\ UNCHANGED <<context, accepting_output_buffers, avframe, stream_format,
                   available_output_frames, owed, given>>

TryDecode == TryOutputFrame \/ TryReceiveFrame \/ TrySendInputJob

-----------------------------------------------------------------------------
\* decode: the context is created with the first input.  One call gives one job.
Decode(i) ==
    /\ at = None /\ i \notin owed
    /\ Len(jobs) < MaxJobs /\ Len(events) < MaxEvents
    /\ context' = TRUE /\ at' = "output"
    /\ jobs' = Append(jobs, i) /\ owed' = owed \cup {i}
    /\ UNCHANGED <<accepting_output_buffers, drain_state, avframe, codec, queueVars,
                   given, failed>>

\* drain: nothing happens when there is no context.
Drain ==
    /\ at = None /\ context /\ Len(jobs) < MaxJobs /\ Len(events) < MaxEvents
    /\ jobs' = Append(jobs, "Drain") /\ at' = "output"
    /\ UNCHANGED <<context, accepting_output_buffers, drain_state, avframe, codec,
                   queueVars, historyVars>>

\* use_as_output: a buffer that is not accepted is silently ignored.  Decoding does not
\* go on by itself.
UseAsOutput(b) ==
    /\ at = None /\ b \notin given
    /\ given' = given \cup {b}
    /\ available_output_frames' =
          IF accepting_output_buffers
          THEN Append(available_output_frames, b)
          ELSE available_output_frames
    /\ UNCHANGED <<contextVars, stream_format, events, signalled, at, owed, failed>>

\* The events that stay when the CAPTURE buffers are cleared, in their order: the nth of
\* them is at place[n] in the queue.
Retained ==
    LET stay == {k \in DOMAIN events : events[k].type # "FrameCompleted"}
        place == CHOOSE p \in [1 .. Cardinality(stay) -> stay] :
                    \A m, n \in DOMAIN p : m < n => p[m] < p[n]
    IN  [n \in DOMAIN place |-> events[place[n]]]

\* Faulty variants of ClearOutputBuffers: the eventfd stays readable; the frames stay.
ClearOutputBuffersSignals ==
    /\ at = None
    /\ available_output_frames' = <<>> /\ given' = {}
    /\ events' = Retained
    /\ UNCHANGED <<contextVars, stream_format, signalled, at, owed, failed>>
ClearOutputBuffersKeeps ==
    /\ at = None
    /\ available_output_frames' = <<>> /\ given' = {}
    /\ UNCHANGED <<contextVars, stream_format, events, signalled, at, owed, failed>>

\* clear_output_buffers, with retain of the EventQueue.
ClearOutputBuffers ==
    /\ at = None
    /\ available_output_frames' = <<>> /\ given' = {}
    /\ events' = Retained
    /\ signalled' = (signalled /\ ~(events # <<>> /\ Retained = <<>>))
    /\ UNCHANGED <<contextVars, stream_format, at, owed, failed>>

\* streaming_state, of CAPTURE and TRUE
StreamingState ==
    /\ at = None /\ context
    /\ accepting_output_buffers' = TRUE
    /\ UNCHANGED <<context, jobs, drain_state, avframe, codec, queueVars, at, historyVars>>

\* next_event, with dequeue_event of the EventQueue
NextEvent ==
    /\ at = None /\ events # <<>>
    /\ LET e == Head(events)
       IN  /\ owed' = IF e.type = "InputBufferDone" THEN owed \ {e.id} ELSE owed
           /\ given' = IF e.type = "FrameCompleted" THEN given \ {e.id} ELSE given
    /\ events' = Tail(events)
    /\ signalled' = (signalled /\ Tail(events) # <<>>)
    /\ UNCHANGED <<contextVars, stream_format, available_output_frames, at, failed>>

Next ==
    \/ TryDecode \/ Drain \/ ClearOutputBuffers \/ StreamingState \/ NextEvent
    \/ \E i \in Input : Decode(i)
    \/ \E b \in Capture : UseAsOutput(b)

\* The thread in a call goes on, and the device takes events while the eventfd says so.
Fairness == WF_vars(TryDecode) /\ WF_vars(NextEvent)

Spec == Init /\ [][Next]_vars /\ Fairness

-----------------------------------------------------------------------------
\* The number of elements of s that satisfy Test.
Count(s, Test(_)) == Cardinality({k \in DOMAIN s : Test(s[k])})

\* An input the device waits for is in one place only: the next jobs, or the event
\* that returns it.  None is lost and none is returned twice, but after an error.
InputsConserved ==
    ~failed => \A i \in Input :
        LET n == Count(jobs, LAMBDA j : j = i) + Count(events, LAMBDA e : e = Done(i))
        IN  n = IF i \in owed THEN 1 ELSE 0

\* A CAPTURE buffer is with the backend at most once, only while the device has given
\* it, and no event for it outlives clear_output_buffers.
FramesConserved ==
    \A b \in Capture :
        LET n == Count(available_output_frames, LAMBDA f : f = b)
                 + Count(events, LAMBDA e : e.type = "FrameCompleted" /\ e.id = b)
        IN  n <= IF b \in given THEN 1 ELSE 0

\* When the backend waits to send the LAST frame, every frame of the stream has been
\* sent: libavcodec is empty, and no frame is left that try_output_frame would then
\* refuse for good.
DrainIsClean ==
    drain_state = "AwaitingFinalFrame" => codec.inside = 0 /\ avframe = None

\* The eventfd is readable exactly while there are events, so that the device neither
\* sleeps on an event nor is woken for none.
SignalFollows == signalled = (events # <<>>)

\* A call of decode or drain returns.
CallsEnd == at # None ~> at = None

\* "The backend will report a frame with the V4L2_BUF_FLAG_LAST once the drain process
\* is completed": when libavcodec is drained and a CAPTURE buffer is there, the frame is
\* sent, or the buffer is taken back.
DrainReported ==
    (drain_state = "AwaitingFinalFrame" /\ available_output_frames # <<>>)
        ~> (drain_state # "AwaitingFinalFrame" \/ available_output_frames = <<>>)
=============================================================================
