------------------------------ MODULE Commands ------------------------------
(***************************************************************************)
(* Commands from the ioctl, open, close, mmap and munmap entry points of   *)
(* the guest driver (driver/virtio_media_driver.c, virtio_media_ioctls.c)  *)
(* over the commandq to VirtioMediaDeviceRunner::handle_command            *)
(* (device/src/lib.rs) and virtio_media_dispatch_ioctl (device/src/ioctl.rs), *)
(* and the response back.  vlock lets one command at a time in; the device *)
(* may be removed, or answer too late, at any moment.                      *)
(*                                                                         *)
(* Data is reduced to what decides an outcome.  A descriptor chain has     *)
(* readable parts (1 = command header, 2 = command, 3 = payload) and room  *)
(* for a response (1 = header, 2 = header and payload); a payload is valid *)
(* or not.                                                                 *)
(***************************************************************************)
EXTENDS Integers, FiniteSets

CONSTANTS
    File,           \* files the application opens, each at most once
    MaxRefs,        \* bound on the VMAs that share a mapping
    MaxMaps,        \* bound on the mappings of a session the host has not removed
    SizeSpace,      \* the values of size_t, in parts of a response
    Implemented,    \* the ioctls the device overrides in VirtioMediaIoctlHandler
    Polls,          \* whether the device's sessions have a poll_fd
    None, Closed,   \* no file, session or command; the session of a file closed
    Unknown         \* the id of no session

ASSUME CommandsAssumption ==
    /\ IsFiniteSet(File) /\ MaxRefs \in Nat \ {0} /\ MaxMaps \in Nat
    /\ SizeSpace \in Nat /\ SizeSpace > 4
    /\ Polls \in BOOLEAN /\ None \notin File \cup Nat
    /\ {Closed, Unknown} \cap Nat = {} /\ Closed # None

-----------------------------------------------------------------------------
\* How virtio_media_dispatch_ioctl treats an ioctl: the shape of its payload ("wre"
\* is wr_ioctl_with_err_payload), and what happens to an input that is not valid:
\* it is refused ("field"; a buffer already while it is read), unwrapped ("unwrap"), or
\* nothing looks at it ("none").
As(shape, check) == [shape |-> shape, check |-> check]
Invalid == As("invalid", "none")
R == As("r", "none")
W == As("w", "none")
WR == As("wr", "none")
Wf == As("w", "field")
WRf == As("wr", "field")

DispatchBuffers ==
    [QUERYCAP |-> Invalid, ENUM_FMT |-> WRf, G_FMT |-> WRf, S_FMT |-> WRf,
     REQBUFS |-> WRf, QUERYBUF |-> WRf, G_FBUF |-> Invalid, S_FBUF |-> Invalid,
     OVERLAY |-> Invalid, QBUF |-> WRf, EXPBUF |-> Invalid, DQBUF |-> Invalid,
     STREAMON |-> Wf, STREAMOFF |-> Wf, G_PARM |-> WRf, S_PARM |-> WR]

\* Faulty variant: the response to S_INPUT has no payload.
DispatchInputsWriteOnly ==
    [G_STD |-> R, S_STD |-> W, ENUMSTD |-> WR, ENUMINPUT |-> WR, G_CTRL |-> WR,
     S_CTRL |-> WR, G_TUNER |-> WR, S_TUNER |-> Wf, G_AUDIO |-> R, S_AUDIO |-> W,
     QUERYCTRL |-> WR, QUERYMENU |-> WR, G_INPUT |-> R, S_INPUT |-> W,
     G_EDID |-> Invalid, S_EDID |-> Invalid, G_OUTPUT |-> R, S_OUTPUT |-> WR,
     ENUMOUTPUT |-> WR, G_AUDOUT |-> R, S_AUDOUT |-> W, G_MODULATOR |-> WR,
     S_MODULATOR |-> Wf, G_FREQUENCY |-> WR, S_FREQUENCY |-> Wf]

DispatchInputs ==
    [G_STD |-> R, S_STD |-> W, ENUMSTD |-> WR, ENUMINPUT |-> WR, G_CTRL |-> WR,
     S_CTRL |-> WR, G_TUNER |-> WR, S_TUNER |-> Wf, G_AUDIO |-> R, S_AUDIO |-> W,
     QUERYCTRL |-> WR, QUERYMENU |-> WR, G_INPUT |-> R, S_INPUT |-> WR,
     G_EDID |-> Invalid, S_EDID |-> Invalid, G_OUTPUT |-> R, S_OUTPUT |-> WR,
     ENUMOUTPUT |-> WR, G_AUDOUT |-> R, S_AUDOUT |-> W, G_MODULATOR |-> WR,
     S_MODULATOR |-> Wf, G_FREQUENCY |-> WR, S_FREQUENCY |-> Wf]

DispatchControls ==
    LET WREf == As("wre", "field")
    IN  [CROPCAP |-> Invalid, G_CROP |-> Invalid, S_CROP |-> Invalid,
         G_JPEGCOMP |-> Invalid, S_JPEGCOMP |-> Invalid, QUERYSTD |-> R,
         TRY_FMT |-> WRf, ENUMAUDIO |-> WR, ENUMAUDOUT |-> WR, G_PRIORITY |-> Invalid,
         S_PRIORITY |-> Invalid, G_SLICED_VBI_CAP |-> Invalid, LOG_STATUS |-> Invalid,
         G_EXT_CTRLS |-> WREf, S_EXT_CTRLS |-> WREf, TRY_EXT_CTRLS |-> WREf]

DispatchOthers ==
    [ENUM_FRAMESIZES |-> WR, ENUM_FRAMEINTERVALS |-> WR, G_ENC_INDEX |-> R,
     ENCODER_CMD |-> WR, TRY_ENCODER_CMD |-> WR, DBG_G_REGISTER |-> Invalid,
     DBG_S_REGISTER |-> Invalid, S_HW_FREQ_SEEK |-> Invalid, S_DV_TIMINGS |-> WR,
     G_DV_TIMINGS |-> WR, DQEVENT |-> Invalid, SUBSCRIBE_EVENT |-> As("w", "unwrap"),
     UNSUBSCRIBE_EVENT |-> W, CREATE_BUFS |-> WRf, PREPARE_BUF |-> WRf,
     G_SELECTION |-> WRf, S_SELECTION |-> WRf, DECODER_CMD |-> WR,
     TRY_DECODER_CMD |-> WR, ENUM_DV_TIMINGS |-> WR, QUERY_DV_TIMINGS |-> R,
     DV_TIMINGS_CAP |-> WR, ENUM_FREQ_BANDS |-> WRf, DBG_G_CHIP_INFO |-> Invalid,
     QUERY_EXT_CTRL |-> WR]

\* The codes V4l2Ioctl::n knows.
V4l2Ioctl ==
    DOMAIN DispatchBuffers \cup DOMAIN DispatchInputs \cup DOMAIN DispatchControls
    \cup DOMAIN DispatchOthers

ASSUME CodesAssumption == None \notin V4l2Ioctl

Dispatch ==
    [i \in V4l2Ioctl |->
        IF i \in DOMAIN DispatchBuffers THEN DispatchBuffers[i]
        ELSE IF i \in DOMAIN DispatchInputs THEN DispatchInputs[i]
        ELSE IF i \in DOMAIN DispatchControls THEN DispatchControls[i]
        ELSE DispatchOthers[i]]

\* Which of virtio_media_send_{r,w,wr,buffer,ext_controls}_ioctl the driver uses for
\* each ioctl it implements.
DriverR == {"QUERY_DV_TIMINGS", "G_AUDIO", "G_AUDOUT", "G_ENC_INDEX", "G_STD", "QUERYSTD"}
DriverW ==
    {"S_AUDIO", "S_AUDOUT", "S_MODULATOR", "S_TUNER", "S_FREQUENCY", "S_HW_FREQ_SEEK",
     "S_STD", "STREAMON", "STREAMOFF", "SUBSCRIBE_EVENT", "UNSUBSCRIBE_EVENT"}
DriverWR ==
    {"ENUM_FMT", "G_FMT", "S_FMT", "TRY_FMT", "ENUM_FRAMESIZES", "ENUM_FRAMEINTERVALS",
     "QUERYCTRL", "G_CTRL", "S_CTRL", "QUERY_EXT_CTRL", "S_DV_TIMINGS", "G_DV_TIMINGS",
     "ENUM_DV_TIMINGS", "DV_TIMINGS_CAP", "ENUMINPUT", "QUERYMENU", "ENUMOUTPUT",
     "ENUMAUDIO", "ENUMAUDOUT", "G_MODULATOR", "G_SELECTION", "S_SELECTION",
     "ENCODER_CMD", "TRY_ENCODER_CMD", "TRY_DECODER_CMD", "G_PARM", "S_PARM", "ENUMSTD",
     "G_TUNER", "G_FREQUENCY", "ENUM_FREQ_BANDS", "G_SLICED_VBI_CAP", "G_INPUT",
     "S_INPUT", "G_OUTPUT", "S_OUTPUT", "REQBUFS", "CREATE_BUFS", "DECODER_CMD"}
DriverBuffer == {"QUERYBUF", "QBUF", "PREPARE_BUF"}
ExtCtrls == {"G_EXT_CTRLS", "S_EXT_CTRLS", "TRY_EXT_CTRLS"}
DriverIoctl == DriverR \cup DriverW \cup DriverWR \cup DriverBuffer \cup ExtCtrls

\* The ioctls virtio_media_device_ioctl refuses while anything is mapped.
Reallocates == {"REQBUFS", "CREATE_BUFS", "S_FMT", "S_INPUT", "S_STD"}

Errno == {"EINVAL", "ENOTTY", "EBUSY", "EIO", "ENOMEM", "ENODEV", "ETIMEDOUT"}
Id == 0 .. Cardinality(File) - 1

VARIABLES
    \* VirtioMediaDeviceRunner: its table and counter; the poller's sessions
    sessions, session_id_counter, polled,
    \* the device (external): the sessions it has, the mappings it has made for
    \* each, and whether its worker has panicked
    dev_sessions, dev_maps, halted,
    \* the driver: the session of each open file, the references to each session's
    \* mapping, vv->disconnected
    session_id, refs, disconnected,
    \* the command under vlock with its file, and the response
    cmd, file, reply,
    \* history: what the handler returned, the last call that returned, sessions
    \* whose OPEN failed in the guest, MUNMAPs of a session that the host refused
    ran, last, orphans, stuck

runnerVars == <<sessions, session_id_counter, polled>>
hostVars == <<runnerVars, dev_sessions, dev_maps, halted>>
guestVars == <<session_id, refs, disconnected>>
historyVars == <<orphans, stuck>>
vars == <<hostVars, guestVars, cmd, file, reply, ran, last, historyVars>>

Command(c, s, code, valid, parts, room) ==
    [cmd |-> c, session |-> s, code |-> code, valid |-> valid, parts |-> parts,
     room |-> room]
NoCmd == Command("none", None, None, TRUE, 0, 0)
NoReply == [status |-> "none", len |-> 0, id |-> None]
NoCall == [code |-> None, ran |-> "none", ret |-> "none", len |-> 0]

Init ==
    /\ sessions = {} /\ session_id_counter = 0 /\ polled = {}
    /\ dev_sessions = {} /\ dev_maps = [i \in Id |-> 0] /\ halted = FALSE
    /\ session_id = [f \in File |-> None] /\ refs = [i \in Id |-> 0]
    /\ disconnected = FALSE
    /\ cmd = NoCmd /\ file = None /\ reply = NoReply
    /\ ran = "none" /\ last = NoCall /\ orphans = {} /\ stuck = [i \in Id |-> 0]

-----------------------------------------------------------------------------
\* The driver.  Every entry point takes vlock, which is held until it returns.
Idle == cmd = NoCmd
Mapped == {i \in Id : refs[i] > 0}

SendCommand(c, f) ==
    /\ cmd' = c /\ file' = f /\ reply' = NoReply
    /\ ran' = "none" /\ last' = NoCall
    /\ UNCHANGED <<hostVars, historyVars>>

\* virtio_media_device_open up to its command.
Open(f) ==
    /\ Idle /\ ~disconnected /\ session_id[f] = None
    /\ SendCommand(Command("open", None, None, TRUE, 1, 2), f)
    /\ UNCHANGED guestVars

\* virtio_media_device_close runs when nothing refers to the file any more, its
\* mappings included; without a device the session is only freed.
Close(f) ==
    /\ Idle /\ session_id[f] \in Id /\ refs[session_id[f]] = 0
    /\ IF disconnected
       THEN /\ session_id' = [session_id EXCEPT ![f] = Closed]
            /\ UNCHANGED <<hostVars, refs, disconnected, cmd, file, reply, ran, last,
                           historyVars>>
       ELSE /\ SendCommand(Command("close", session_id[f], None, TRUE, 2, 0), f)
            /\ UNCHANGED guestVars

\* The descriptors of an ioctl: payload to the device, and room for one back.
Chain(s, i, valid) ==
    Command("ioctl", s, i, valid, IF i \in DriverR THEN 2 ELSE 3,
            IF i \in DriverW THEN 1 ELSE 2)

\* Faulty variant: buffers are reallocated under the mappings of the guest.
IoctlAnytime(f, i, valid) ==
    /\ Idle /\ ~disconnected /\ session_id[f] \in Id /\ i \in DriverIoctl
    /\ valid \/ Dispatch[i].check # "none"
    /\ SendCommand(Chain(session_id[f], i, valid), f)
    /\ UNCHANGED guestVars

\* virtio_media_device_ioctl and the functions that send an ioctl, up to the command.
Ioctl(f, i, valid) ==
    /\ Idle /\ ~disconnected /\ session_id[f] \in Id /\ i \in DriverIoctl
    /\ Mapped = {} \/ i \notin Reallocates
    /\ valid \/ Dispatch[i].check # "none"
    /\ SendCommand(Chain(session_id[f], i, valid), f)
    /\ UNCHANGED guestVars

\* virtio_media_device_mmap up to its command, for a session without a mapping.
Mmap(f) ==
    /\ Idle /\ ~disconnected /\ session_id[f] \in Id /\ refs[session_id[f]] = 0
    /\ dev_maps[session_id[f]] < MaxMaps
    /\ SendCommand(Command("mmap", session_id[f], None, TRUE, 2, 2), f)
    /\ UNCHANGED guestVars

\* virtio_media_vma_open: a mapping is split or inherited.
VmaOpen(i) ==
    /\ refs[i] \in 1 .. MaxRefs - 1
    /\ refs' = [refs EXCEPT ![i] = @ + 1]
    /\ UNCHANGED <<hostVars, session_id, disconnected, cmd, file, reply, ran, last,
                   historyVars>>

\* virtio_media_munmap_locked.  The address it sends is that of the one mapping the
\* session has, for which the session stands.
Munmap(i) == Command("munmap", i, None, TRUE, 2, 2)

\* virtio_media_vma_close: the last reference to a mapping tells the host.
VmaClose(i) ==
    /\ refs[i] > 0 /\ (refs[i] > 1 \/ Idle)
    /\ refs' = [refs EXCEPT ![i] = @ - 1]
    /\ IF refs[i] = 1 /\ ~disconnected
       THEN SendCommand(Munmap(i), None)
       ELSE UNCHANGED <<hostVars, cmd, file, reply, ran, last, historyVars>>
    /\ UNCHANGED <<session_id, disconnected>>

\* A command some other driver might send: cut short, or about nothing that exists.
BadCommand ==
    /\ Idle /\ ~disconnected
    /\ \E c \in {"close", "ioctl", "mmap", "other"}, code \in {"G_FMT", "unknown"},
          parts \in 0 .. 2, room \in 1 .. 2 :
          SendCommand(Command(c, Unknown, code, TRUE, parts, room), None)
    /\ UNCHANGED guestVars

-----------------------------------------------------------------------------
\* VirtioMediaDeviceRunner::handle_command.  Respond is write_response or
\* write_err_response: what does not fit is not written.
Response(status, payload, id) ==
    LET len == 1 + payload
    IN  reply' = [status |-> status, len |-> IF len > cmd.room THEN cmd.room ELSE len,
                  id |-> id]

Respond(status, payload) == Response(status, payload, None)

Refuse(status) == Respond(status, 0) /\ UNCHANGED <<hostVars, ran>>

\* Whether the header and what the command needs besides can be read; EINVAL is the
\* answer if not.
Readable == cmd.parts >= IF cmd.cmd \in {"open", "other"} THEN 1 ELSE 2

\* Faulty variant: a session the poller refuses is not closed.
HandleOpenLeaks ==
    \/ Refuse("EIO")
    \/ /\ Polls /\ Respond("EIO", 0)
       /\ dev_sessions' = dev_sessions \cup {session_id_counter}
       /\ UNCHANGED <<runnerVars, dev_maps, halted, ran>>
    \/ /\ sessions' = sessions \cup {session_id_counter}
       /\ session_id_counter' = session_id_counter + 1
       /\ polled' = IF Polls THEN polled \cup {session_id_counter} ELSE polled
       /\ dev_sessions' = dev_sessions \cup {session_id_counter}
       /\ Response("ok", 1, session_id_counter)
       /\ UNCHANGED <<dev_maps, halted, ran>>

\* OPEN: the device may refuse a new session, and the poller its descriptor, in
\* which case the session is closed again.
HandleOpen ==
    \/ Refuse("EIO")
    \/ /\ sessions' = sessions \cup {session_id_counter}
       /\ session_id_counter' = session_id_counter + 1
       /\ polled' = IF Polls THEN polled \cup {session_id_counter} ELSE polled
       /\ dev_sessions' = dev_sessions \cup {session_id_counter}
       /\ Response("ok", 1, session_id_counter)
       /\ UNCHANGED <<dev_maps, halted, ran>>

\* CLOSE has no response.
HandleClose ==
    /\ reply' = [status |-> "ok", len |-> 0, id |-> None]
    /\ sessions' = sessions \ {cmd.session}
    /\ polled' = polled \ {cmd.session}
    /\ dev_sessions' = dev_sessions \ {cmd.session}
    /\ UNCHANGED <<session_id_counter, dev_maps, halted, ran>>

\* What the device's implementation of an ioctl may return; the default methods of
\* VirtioMediaIoctlHandler return ENOTTY.
HandlerResult(i) == IF i \in Implemented THEN {"ok", "EIO"} ELSE {"ENOTTY"}

\* Faulty variant: no error carries a payload.
PerformPlainErrors(i) ==
    \E res \in HandlerResult(i) :
        /\ ran' = res
        /\ Respond(res, IF res = "ok" /\ Dispatch[i].shape # "w" THEN 1 ELSE 0)
        /\ UNCHANGED hostVars

\* wr_ioctl_with_err_payload with a valid input; the other shapes are built on it.
Perform(i) ==
    \E res \in HandlerResult(i) :
        /\ ran' = res
        /\ Respond(res, IF \/ res = "ok" /\ Dispatch[i].shape # "w"
                           \/ Dispatch[i].shape = "wre"
                        THEN 1 ELSE 0)
        /\ UNCHANGED hostVars

\* The unwrap()s on the input of SUBSCRIBE_EVENT.
Panic ==
    /\ halted' = TRUE
    /\ UNCHANGED <<runnerVars, dev_sessions, dev_maps, reply, ran>>

\* virtio_media_dispatch_ioctl: the input is read, then checked, then used.
DispatchIoctl(i) ==
    LET d == Dispatch[i]
    IN  IF d.shape = "invalid" THEN Refuse("ENOTTY")
        ELSE IF d.shape # "r" /\ cmd.parts < 3 THEN Refuse("EINVAL")
        ELSE IF cmd.valid \/ d.check = "none" THEN Perform(i)
        ELSE IF d.check = "field" THEN Refuse("EINVAL")
        ELSE Panic

HandleIoctl ==
    IF cmd.session \notin sessions THEN Refuse("EINVAL")
    ELSE IF cmd.code \notin V4l2Ioctl THEN Refuse("ENOTTY")
    ELSE DispatchIoctl(cmd.code)

\* MMAP and MUNMAP: what the device does with them is the mmap manager's business;
\* MUNMAP is not checked against the sessions.
HandleMmap ==
    \/ Refuse("EINVAL")
    \/ /\ cmd.session \in sessions
       /\ dev_maps' = [dev_maps EXCEPT ![cmd.session] = @ + 1]
       /\ Respond("ok", 1)
       /\ UNCHANGED <<runnerVars, dev_sessions, halted, ran>>

HandleMunmap ==
    \/ Refuse("EIO")
    \/ /\ dev_maps[cmd.session] > 0
       /\ dev_maps' = [dev_maps EXCEPT ![cmd.session] = @ - 1]
       /\ Respond("ok", 1)
       /\ UNCHANGED <<runnerVars, dev_sessions, halted, ran>>

HandleCommand ==
    /\ ~Idle /\ reply = NoReply /\ ~halted /\ ~disconnected
    /\ \/ ~Readable /\ Refuse("EINVAL")
       \/ /\ Readable
          /\ CASE cmd.cmd = "open" -> HandleOpen
               [] cmd.cmd = "close" -> HandleClose
               [] cmd.cmd = "ioctl" -> HandleIoctl
               [] cmd.cmd = "mmap" -> HandleMmap
               [] cmd.cmd = "munmap" -> HandleMunmap
               [] cmd.cmd = "other" -> Refuse("ENOTTY")
    /\ UNCHANGED <<guestVars, cmd, file, last, historyVars>>

-----------------------------------------------------------------------------
\* virtio_media_kick_command: without a device there is no response.
Kick ==
    IF disconnected THEN {[ret |-> e, len |-> 0] : e \in {"ENODEV", "ETIMEDOUT"}}
    ELSE IF reply = NoReply THEN {}
    ELSE {[ret |-> IF cmd.room = 0 THEN "ok"
                   ELSE IF reply.len = 0 THEN "EINVAL" ELSE reply.status,
           len |-> reply.len]}

\* virtio_media_send_command: a success must come with the whole response.
SendResult(min) ==
    {IF r.ret = "ok" /\ r.len < min THEN [r EXCEPT !.ret = "EINVAL"] ELSE r : r \in Kick}

Return(r) ==
    /\ cmd' = NoCmd /\ file' = None /\ reply' = NoReply /\ ran' = "none"
    /\ last' = [code |-> cmd.code, ran |-> ran, ret |-> r.ret, len |-> r.len]
    /\ UNCHANGED hostVars

\* The end of virtio_media_device_open; virtio_media_session_alloc may fail.
OpenReturn ==
    /\ cmd.cmd = "open"
    /\ \E r \in SendResult(2), allocated \in BOOLEAN :
          /\ Return(r)
          /\ session_id' = [session_id EXCEPT ![file] =
                               IF r.ret = "ok" /\ allocated THEN reply.id ELSE Closed]
          /\ orphans' = IF r.ret = "ok" /\ ~allocated THEN orphans \cup {reply.id}
                        ELSE orphans
    /\ UNCHANGED <<refs, disconnected, stuck>>

\* The session is freed whatever became of the command.
CloseReturn ==
    /\ cmd.cmd = "close" /\ file # None
    /\ \E r \in SendResult(0) : Return(r)
    /\ session_id' = [session_id EXCEPT ![file] = Closed]
    /\ UNCHANGED <<refs, disconnected, historyVars>>

\* Faulty variant: a response of just the controls is taken for a short one.
ExtCtrlsResultAbove(r) ==
    IF r.ret # "ok" /\ r.len > 2 THEN r
    ELSE [r EXCEPT !.ret = IF (r.len - 1) % SizeSpace < 1 THEN "EINVAL" ELSE "ok"]

\* virtio_media_send_ext_controls_ioctl looks at the length before it looks at the
\* error, and takes the header's size off a size_t.
ExtCtrlsResult(r) ==
    IF r.ret # "ok" /\ r.len >= 2 THEN r
    ELSE [r EXCEPT !.ret = IF (r.len - 1) % SizeSpace < 1 THEN "EINVAL" ELSE "ok"]

\* The ends of virtio_media_send_{r,w,wr,buffer,ext_controls}_ioctl.
IoctlReturn ==
    /\ cmd.cmd = "ioctl" /\ file # None
    /\ \E r \in SendResult(IF cmd.code \in DriverW THEN 1 ELSE 2) :
          Return(IF cmd.code \in ExtCtrls THEN ExtCtrlsResult(r) ELSE r)
    /\ UNCHANGED <<guestVars, historyVars>>

\* Faulty variant: a mapping that cannot be used is forgotten.
MmapReturnForgets ==
    /\ cmd.cmd = "mmap" /\ file # None
    /\ \E r \in SendResult(2), usable \in BOOLEAN :
          /\ refs' = IF r.ret = "ok" /\ usable THEN [refs EXCEPT ![cmd.session] = 1] ELSE refs
          /\ Return(r)
    /\ UNCHANGED <<session_id, disconnected, historyVars>>

\* The end of virtio_media_device_mmap: a response that is out of range or too short
\* for the VMA, or a lack of memory, gives the mapping back.
MmapReturn ==
    /\ cmd.cmd = "mmap" /\ file # None
    /\ \E r \in SendResult(2) :
          \/ /\ Return(r)
             /\ refs' = IF r.ret = "ok" THEN [refs EXCEPT ![cmd.session] = 1] ELSE refs
             /\ UNCHANGED historyVars
          \/ /\ r.ret = "ok"
             /\ SendCommand(Munmap(cmd.session), None)
             /\ UNCHANGED refs
    /\ UNCHANGED <<session_id, disconnected>>

\* The end of virtio_media_munmap_locked: a failure is only logged.
MunmapReturn ==
    /\ cmd.cmd = "munmap"
    /\ \E r \in SendResult(1) :
          /\ Return(r)
          /\ stuck' = IF r.ret = "ok" \/ disconnected THEN stuck
                      ELSE [stuck EXCEPT ![cmd.session] = @ + 1]
    /\ UNCHANGED <<guestVars, orphans>>

BadReturn ==
    /\ ~Idle /\ file = None /\ cmd.cmd # "munmap"
    /\ \E r \in SendResult(0) : Return(r)
    /\ UNCHANGED <<guestVars, historyVars>>

\* virtio_media_stop_queues, after a timeout or when the device is removed.
StopQueues ==
    /\ ~disconnected
    /\ disconnected' = TRUE
    /\ UNCHANGED <<hostVars, session_id, refs, cmd, file, reply, ran, last, historyVars>>

Next ==
    \/ \E f \in File : Open(f) \/ Close(f) \/ Mmap(f)
    \/ \E f \in File, i \in DriverIoctl, valid \in BOOLEAN : Ioctl(f, i, valid)
    \/ \E i \in Id : VmaOpen(i) \/ VmaClose(i)
    \/ BadCommand \/ HandleCommand \/ StopQueues
    \/ OpenReturn \/ CloseReturn \/ IoctlReturn \/ MmapReturn \/ MunmapReturn \/ BadReturn

Spec == Init /\ [][Next]_vars

-----------------------------------------------------------------------------
\* The variables have the types of the fields they stand for.
TypeOK ==
    /\ sessions \subseteq Id /\ polled \subseteq Id /\ dev_sessions \subseteq Id
    /\ session_id_counter \in 0 .. Cardinality(File) /\ halted \in BOOLEAN
    /\ dev_maps \in [Id -> 0 .. MaxMaps] /\ stuck \in [Id -> 0 .. MaxMaps]
    /\ session_id \in [File -> Id \cup {None, Closed}]
    /\ refs \in [Id -> 0 .. MaxRefs] /\ disconnected \in BOOLEAN
    /\ file \in File \cup {None} /\ cmd.parts \in 0 .. 3 /\ cmd.room \in 0 .. 2
    /\ reply.status \in Errno \cup {"none", "ok"} /\ reply.len \in 0 .. cmd.room
    /\ ran \in Errno \cup {"none", "ok"} /\ last.ret \in Errno \cup {"none", "ok"}
    /\ orphans \subseteq Id

\* The runner's table, the poller and the device know the same sessions, whichever
\* step of OPEN fails (handle_command closes what it cannot register).  Between two
\* commands every open file has one of its own, and there are no others but those
\* whose OPEN succeeded and then ran out of memory in virtio_media_device_open, which
\* does not close them.
SessionsOwned ==
    LET open == {f \in File : session_id[f] \in Id}
    IN  /\ dev_sessions = sessions /\ polled = IF Polls THEN sessions ELSE {}
        /\ Idle /\ ~disconnected =>
            /\ sessions = {session_id[f] : f \in open} \cup orphans
            /\ \A f, g \in open : session_id[f] = session_id[g] => f = g
            /\ \A f \in open : session_id[f] \notin orphans

\* What an ioctl other than the extended controls returns is what the device's
\* handler returned: the tables of the driver and of virtio_media_dispatch_ioctl
\* agree on the payloads, and only a lost response hides an outcome.
OutcomeSeen ==
    last.code \in V4l2Ioctl \ ExtCtrls =>
        /\ last.ret = "ok" => last.ran = "ok"
        /\ last.ran # "none" => last.ret \in {last.ran, "ENODEV", "ETIMEDOUT"}

\* An error of an extended controls handler arrives with the controls that say which
\* one was wrong ("very important what we write back the updated input").
CtrlErrorsArrive ==
    last.code \in ExtCtrls /\ last.ran \notin {"none", "ok"} /\ last.len > 0 =>
        last.ret = last.ran /\ last.len = 2

\* Between two commands the host has one mapping for each one the guest has, and
\* those it has refused to remove.
MapsBalanced ==
    Idle /\ ~disconnected =>
        \A i \in Id : dev_maps[i] = stuck[i] + IF refs[i] > 0 THEN 1 ELSE 0

\* No ioctl that replaces buffers succeeds while the guest maps one ("Keep
\* mapped/exported slots owned until their last reference releases").
MapsPinned ==
    [][ran' = "ok" /\ ran # "ok" /\ cmd.code \in Reallocates => Mapped = {}]_vars

\* An ioctl that returns success was performed, whatever was lost or cut short on the
\* way.  There is one exception in the code: an extended-controls ioctl to which there
\* was no response, whose length of zero wraps when
\* virtio_media_send_ext_controls_ioctl takes the header off it.
SuccessButForNoResponse ==
    last.code \in V4l2Ioctl /\ last.ret = "ok" =>
        last.ran = "ok" \/ (last.code \in ExtCtrls /\ last.len = 0)
=============================================================================
