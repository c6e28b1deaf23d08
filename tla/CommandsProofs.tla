--------------------------- MODULE CommandsProofs ---------------------------
(***************************************************************************)
(* The invariants of the command channel, for any number of files and      *)
(* mappings and any device: the sessions and the mappings of guest and     *)
(* host agree between two commands, and an ioctl returns what the device's *)
(* handler returned.                                                       *)
(***************************************************************************)
EXTENDS Commands, FiniteSetTheorems, TLAPS

-----------------------------------------------------------------------------
(* The inductive invariant.                                                *)

Kind == {"none", "open", "close", "ioctl", "mmap", "munmap", "other"}
Status == Errno \cup {"none", "ok"}

HostTyped ==
    /\ sessions \subseteq Id /\ session_id_counter \in 0 .. Cardinality(File)
    /\ halted \in BOOLEAN
    /\ dev_maps \in [Id -> 0 .. MaxMaps] /\ stuck \in [Id -> 0 .. MaxMaps]
GuestTyped ==
    /\ session_id \in [File -> Id \cup {None, Closed}]
    /\ refs \in [Id -> 0 .. MaxRefs] /\ disconnected \in BOOLEAN
    /\ orphans \subseteq Id
CommandTyped ==
    /\ file \in File \cup {None} /\ cmd.cmd \in Kind
    /\ cmd.parts \in 0 .. 3 /\ cmd.room \in 0 .. 2
    /\ reply.status \in Status /\ reply.len \in 0 .. cmd.room
    /\ ran \in Status /\ last.ret \in Status
Typed == HostTyped /\ GuestTyped /\ CommandTyped

\* The command of each entry point: its session is that of the file, of which nothing is
\* mapped while it is closed, mapped or unmapped.
SentOpen ==
    cmd.cmd = "open" =>
        /\ file \in File /\ session_id[file] = None
        /\ cmd.code = None /\ cmd.parts = 1 /\ cmd.room = 2
SentClose ==
    cmd.cmd = "close" /\ file # None =>
        /\ session_id[file] \in Id /\ cmd.session = session_id[file]
        /\ cmd.code = None /\ cmd.parts = 2 /\ cmd.room = 0
SentIoctl ==
    cmd.cmd = "ioctl" /\ file # None =>
        /\ cmd.session \in Id /\ cmd.code \in DriverIoctl
        /\ cmd.room = IF cmd.code \in DriverW THEN 1 ELSE 2
        /\ cmd.code \in Reallocates => Mapped = {}
SentMmap ==
    cmd.cmd = "mmap" /\ file # None =>
        /\ cmd.session \in Id /\ refs[cmd.session] = 0
        /\ cmd.code = None /\ cmd.room = 2
        /\ reply.status = "none" => dev_maps[cmd.session] < MaxMaps
SentMunmap ==
    cmd.cmd = "munmap" =>
        /\ cmd.session \in Id /\ refs[cmd.session] = 0 /\ file = None
        /\ cmd.code = None /\ cmd.parts = 2 /\ cmd.room = 2
SentBad ==
    cmd.cmd # "none" /\ file = None /\ cmd.cmd # "munmap" =>
        /\ cmd.session = Unknown /\ cmd.room >= 1
        /\ cmd.code \notin Reallocates /\ cmd.code \notin ExtCtrls
SentOK ==
    /\ cmd.cmd = "none" <=> cmd = NoCmd
    /\ cmd.cmd = "none" => file = None /\ reply.status = "none"
    /\ SentOpen /\ SentClose /\ SentIoctl /\ SentMmap /\ SentMunmap /\ SentBad

\* The response to the command, and what the handler returned.
Performed ==
    /\ cmd.cmd = "ioctl" /\ file # None
    /\ reply.status = ran /\ reply.len >= 1
    /\ ran = "ok" => reply.len = cmd.room
    /\ cmd.code \in ExtCtrls => reply.len = 2
AnsweredOK ==
    /\ reply.status = "none" <=> reply = NoReply
    /\ ran # "none" => Performed
    /\ cmd.cmd \in {"open", "mmap", "munmap"} /\ reply.status = "ok" => reply.len = 2
    /\ cmd.cmd \in {"ioctl", "other"} /\ ran = "none" => reply.status # "ok"
    /\ file = None /\ cmd.cmd # "munmap" /\ reply.status = "ok" => reply.len = 0
    /\ cmd.cmd = "close" /\ file # None => reply.status \in {"none", "ok"}

\* The sessions: a table of the host, the files and the orphans of the guest, and the
\* one that the command under way has opened or closed.
Opened == cmd.cmd = "open" /\ reply.status = "ok"
Ended == cmd.cmd = "close" /\ file # None /\ reply.status = "ok"
Used == {f \in File : session_id[f] # None}
Owner(f, i) == session_id[f] = i /\ ~(Ended /\ f = file)
SessionsOK ==
    /\ dev_sessions = sessions /\ polled = IF Polls THEN sessions ELSE {}
    /\ \A i \in sessions \cup orphans : i < session_id_counter
    /\ \A f \in File : session_id[f] \in Id =>
          session_id[f] < session_id_counter /\ session_id[f] \notin orphans
    /\ \A f, g \in File : session_id[f] \in Id /\ session_id[f] = session_id[g] => f = g
    /\ session_id_counter <= Cardinality(Used) + IF Opened THEN 1 ELSE 0
    /\ Opened =>
          /\ reply.id \in Id /\ reply.id + 1 = session_id_counter
          /\ reply.id \notin orphans /\ \A f \in File : session_id[f] # reply.id
    /\ ~disconnected => \A i \in Id :
          i \in sessions <=> \/ \E f \in File : Owner(f, i)
                             \/ i \in orphans
                             \/ Opened /\ i = reply.id

\* The mappings: the host has one more while an MMAP it has performed is not recorded
\* yet, or a MUNMAP not yet performed.
Between(i) ==
    \/ cmd.cmd = "mmap" /\ cmd.session = i /\ reply.status = "ok"
    \/ cmd.cmd = "munmap" /\ cmd.session = i /\ reply.status # "ok"
MapsOK ==
    ~disconnected => \A i \in Id :
        dev_maps[i] = stuck[i] + IF refs[i] > 0 \/ Between(i) THEN 1 ELSE 0

\* The outcome of the last call; an extended-controls ioctl succeeds without having been
\* performed only if there was no response at all.
SuccessButNoResponse ==
    last.code \in ExtCtrls /\ last.ret = "ok" => last.ran = "ok" \/ last.len = 0
LastOK == OutcomeSeen /\ CtrlErrorsArrive /\ SuccessButNoResponse

Inv == Typed /\ SentOK /\ AnsweredOK /\ SessionsOK /\ MapsOK /\ LastOK

-----------------------------------------------------------------------------
(* The tables of ioctls.                                                   *)

\* virtio_media_dispatch_ioctl leaves the payload out of a response only for ioctls for
\* which the driver does not wait for one.
LEMMA WriteOnlyAgrees == \A i \in V4l2Ioctl : Dispatch[i].shape = "w" => i \in DriverW
<1>1. \A i \in DOMAIN DispatchBuffers : DispatchBuffers[i].shape = "w" => i \in DriverW
  BY DEF DispatchBuffers, As, Invalid, WR, Wf, WRf, DriverW
<1>2. \A i \in DOMAIN DispatchInputs : DispatchInputs[i].shape = "w" => i \in DriverW
  BY DEF DispatchInputs, As, Invalid, R, W, WR, Wf, DriverW
<1>3. \A i \in DOMAIN DispatchControls : DispatchControls[i].shape = "w" => i \in DriverW
  BY DEF DispatchControls, As, Invalid, R, WR, WRf, DriverW
<1>4. \A i \in DOMAIN DispatchOthers : DispatchOthers[i].shape = "w" => i \in DriverW
  BY DEF DispatchOthers, As, Invalid, R, W, WR, WRf, DriverW
<1> QED BY <1>1, <1>2, <1>3, <1>4 DEF Dispatch, V4l2Ioctl

\* The extended controls are answered with a payload even if they fail, and the driver
\* has room for it.
LEMMA ExtCtrlsAgree ==
    ASSUME NEW i \in ExtCtrls
    PROVE  i \in V4l2Ioctl /\ Dispatch[i].shape = "wre" /\ i \notin DriverW
<1>1. i \in DOMAIN DispatchControls /\ DispatchControls[i].shape = "wre"
  BY DEF ExtCtrls, DispatchControls, As
<1>2. i \notin DOMAIN DispatchBuffers /\ i \notin DOMAIN DispatchInputs
  BY DEF ExtCtrls, DispatchBuffers, DispatchInputs
<1>3. i \notin DriverW
  BY DEF ExtCtrls, DriverW
<1> QED BY <1>1, <1>2, <1>3 DEF Dispatch, V4l2Ioctl

\* The codes of other drivers' commands, and of commands that are no ioctl.
LEMMA OtherCodes ==
    /\ \A c \in {"G_FMT", "unknown"} : c \notin Reallocates /\ c \notin ExtCtrls
    /\ None \notin V4l2Ioctl /\ None \notin ExtCtrls
<1>1. \A c \in {"G_FMT", "unknown"} : c \notin Reallocates /\ c \notin ExtCtrls
  BY DEF Reallocates, ExtCtrls
<1>2. None \notin V4l2Ioctl
  BY CodesAssumption
<1> QED BY <1>1, <1>2, ExtCtrlsAgree

-----------------------------------------------------------------------------
(* Facts about the state.                                                  *)

\* The numbers of sessions, and what is none.
LEMMA Names ==
    /\ Cardinality(File) \in Nat /\ MaxMaps \in Nat /\ MaxRefs \in Nat /\ MaxRefs >= 1
    /\ \A i : i \in Id <=> i \in Nat /\ i < Cardinality(File)
    /\ None \notin Id /\ Closed \notin Id /\ Unknown \notin Id
    /\ None \notin File /\ Closed # None
<1>1. Cardinality(File) \in Nat
  BY FS_CardinalityType, CommandsAssumption
<1>2. \A i : i \in Id <=> i \in Nat /\ i < Cardinality(File)
  BY <1>1 DEF Id
<1>3. {Closed, Unknown} \cap Nat = {}
  BY CommandsAssumption
<1>4. None \notin Id /\ Closed \notin Id /\ Unknown \notin Id
  BY <1>2, <1>3, CommandsAssumption
<1> QED BY <1>1, <1>2, <1>4, CommandsAssumption

\* The files that have been opened are finitely many.
LEMMA UsedFinite ==
    ASSUME NEW S \in SUBSET File
    PROVE  IsFiniteSet(S) /\ Cardinality(S) \in Nat /\ Cardinality(S) <= Cardinality(File)
BY FS_Subset, FS_CardinalityType, CommandsAssumption

\* A file that has not been opened yet leaves an id for its session.
LEMMA IdLeft ==
    ASSUME NEW S \in SUBSET File, NEW f \in File, f \notin S
    PROVE  Cardinality(S) + 1 <= Cardinality(File) /\ Cardinality(S \cup {f}) = Cardinality(S) + 1
<1>1. IsFiniteSet(S) /\ Cardinality(S) \in Nat
  BY UsedFinite
<1>2. Cardinality(S \cup {f}) = Cardinality(S) + 1
  BY <1>1, FS_AddElement
<1>3. Cardinality(S \cup {f}) <= Cardinality(File)
  BY UsedFinite
<1> QED BY <1>2, <1>3

\* The fields of the constant records.
LEMMA Blank ==
    /\ NoCmd.cmd = "none" /\ NoCmd.parts = 0 /\ NoCmd.room = 0
    /\ NoReply.status = "none" /\ NoReply.len = 0
    /\ NoCall.code = None /\ NoCall.ret = "none" /\ NoCall.ran = "none"
BY DEF NoCmd, NoReply, NoCall, Command

\* A call that has just begun says nothing about the last one.
LEMMA BlankLast ==
    ASSUME last' = NoCall
    PROVE  LastOK' /\ last'.ret \in Status
<1>1. last'.code \notin V4l2Ioctl /\ last'.code \notin ExtCtrls /\ last'.ret = "none"
  BY Blank, OtherCodes
<1> QED BY <1>1 DEF LastOK, OutcomeSeen, CtrlErrorsArrive, SuccessButNoResponse, Status

\* A command that has just been sent has no answer.
LEMMA BlankAnswer ==
    ASSUME reply' = NoReply, ran' = "none"
    PROVE  AnsweredOK' /\ ~Opened' /\ ~Ended'
BY Blank DEF AnsweredOK, Opened, Ended

\* The sessions do not change where neither the table nor the files do.
LEMMA StillSessions ==
    ASSUME SessionsOK, ~Opened, ~Ended, ~Opened', ~Ended', UNCHANGED runnerVars,
           UNCHANGED <<dev_sessions, session_id, orphans>>, disconnected' = disconnected
    PROVE  SessionsOK'
<1>1. Used' = Used
  BY DEF Used
<1> QED BY <1>1 DEF SessionsOK, Owner, runnerVars

-----------------------------------------------------------------------------
(* Init.                                                                   *)

\* No session, mapping or command at the start.
LEMMA InitInv == Init => Inv
<1> SUFFICES ASSUME Init PROVE Inv
  OBVIOUS
<1>1. HostTyped
  <2>1. 0 \in 0 .. MaxMaps /\ 0 \in 0 .. Cardinality(File)
    BY Names
  <2> QED BY <2>1 DEF Init, HostTyped
<1>2. GuestTyped
  <2>1. 0 \in 0 .. MaxRefs
    BY Names
  <2> QED BY <2>1 DEF Init, GuestTyped
<1>3. CommandTyped
  BY Blank DEF Init, CommandTyped, Kind, Status
<1>4. SentOK
  BY Blank DEF Init, SentOK, SentOpen, SentClose, SentIoctl, SentMmap, SentMunmap, SentBad
<1>5. AnsweredOK
  BY Blank DEF Init, AnsweredOK
<1>6. SessionsOK
  <2>1. ~Opened /\ ~Ended
    BY Blank DEF Init, Opened, Ended
  <2>2. Used = {}
    BY DEF Init, Used
  <2>3. Cardinality(Used) = 0
    BY <2>2, FS_EmptySet
  <2>4. \A f \in File : session_id[f] \notin Id
    BY Names DEF Init
  <2>5. \A f \in File, i \in Id : ~Owner(f, i)
    BY <2>4 DEF Owner
  <2> QED BY <2>1, <2>3, <2>4, <2>5 DEF Init, SessionsOK
<1>7. MapsOK
  <2>1. \A i \in Id : ~Between(i)
    BY Blank DEF Init, Between
  <2> QED BY <2>1 DEF Init, MapsOK
<1>8. LastOK
  BY Blank, OtherCodes DEF Init, LastOK, OutcomeSeen, CtrlErrorsArrive, SuccessButNoResponse
<1> QED BY <1>1, <1>2, <1>3, <1>4, <1>5, <1>6, <1>7, <1>8 DEF Inv, Typed

-----------------------------------------------------------------------------
(* The entry points of the driver.                                         *)

\* Between two commands nothing is under way.
LEMMA IdleFacts ==
    ASSUME Inv, Idle
    PROVE  /\ cmd.cmd = "none" /\ file = None /\ reply.status = "none" /\ ran = "none"
           /\ ~Opened /\ ~Ended /\ \A i : ~Between(i)
<1>1. cmd.cmd = "none"
  BY Blank DEF Idle
<1>2. file = None /\ reply.status = "none"
  BY <1>1 DEF Inv, SentOK
<1>3. ran = "none"
  BY <1>1 DEF Inv, AnsweredOK, Performed
<1> QED BY <1>1, <1>2, <1>3 DEF Opened, Ended, Between

\* Sending a command c for a file f, or for none, leaves the host as it is.
LEMMA SendInv ==
    ASSUME Inv, ~Opened, ~Ended, NEW c, NEW f \in File \cup {None}, SendCommand(c, f),
           UNCHANGED <<session_id, disconnected>>, refs' \in [Id -> 0 .. MaxRefs],
           c.cmd \in Kind, c.cmd # "none", c.parts \in 0 .. 3, c.room \in 0 .. 2,
           SentOpen', SentClose', SentIoctl', SentMmap', SentMunmap', SentBad', MapsOK'
    PROVE  Inv'
<1>1. /\ cmd' = c /\ file' = f /\ reply' = NoReply /\ ran' = "none" /\ last' = NoCall
      /\ UNCHANGED runnerVars /\ UNCHANGED <<dev_sessions, dev_maps, halted, orphans, stuck>>
  BY DEF SendCommand, hostVars, historyVars
<1>2. HostTyped' /\ GuestTyped'
  BY <1>1 DEF Inv, Typed, HostTyped, GuestTyped, runnerVars
<1>3. CommandTyped'
  <2>1. 0 \in 0 .. c.room
    OBVIOUS
  <2> QED BY <1>1, <2>1, Blank, BlankLast DEF CommandTyped, Status
<1>4. SentOK'
  BY <1>1, Blank DEF SentOK
<1>5. AnsweredOK' /\ ~Opened' /\ ~Ended' /\ LastOK'
  BY <1>1, BlankAnswer, BlankLast
<1>6. SessionsOK'
  BY <1>1, <1>5, StillSessions DEF Inv
<1> QED BY <1>2, <1>3, <1>4, <1>5, <1>6 DEF Inv, Typed

\* Nor does it change the mappings, but for a MUNMAP.
LEMMA SendMaps ==
    ASSUME Inv, Idle, NEW c, NEW f, SendCommand(c, f), UNCHANGED <<refs, disconnected>>,
           c.cmd # "munmap"
    PROVE  MapsOK'
<1>1. \A i : ~Between(i)
  BY IdleFacts
<1>2. cmd' = c /\ reply' = NoReply /\ UNCHANGED <<dev_maps, stuck>>
  BY DEF SendCommand, hostVars, historyVars
<1>3. \A i : ~Between(i)'
  BY <1>2, Blank DEF Between
<1> QED BY <1>1, <1>2, <1>3 DEF Inv, MapsOK

\* virtio_media_device_open.
LEMMA OpenInv ==
    ASSUME Inv, NEW f \in File, Open(f)
    PROVE  Inv'
<1> DEFINE c == Command("open", None, None, TRUE, 1, 2)
<1>1. /\ c.cmd = "open" /\ c.code = None /\ c.parts = 1 /\ c.room = 2
  BY DEF Command
<1> HIDE DEF c
<1>2. Idle /\ SendCommand(c, f) /\ UNCHANGED guestVars /\ session_id[f] = None
  BY DEF Open, c
<1>3. ~Opened /\ ~Ended /\ cmd' = c /\ file' = f /\ UNCHANGED <<session_id, refs, disconnected>>
  BY <1>2, IdleFacts DEF SendCommand, guestVars
<1>4. MapsOK'
  BY <1>1, <1>2, <1>3, SendMaps
<1>5. SentOpen' /\ SentClose' /\ SentIoctl' /\ SentMmap' /\ SentMunmap' /\ SentBad'
  BY <1>1, <1>2, <1>3, Names DEF SentOpen, SentClose, SentIoctl, SentMmap, SentMunmap, SentBad
<1>6. refs' \in [Id -> 0 .. MaxRefs] /\ c.cmd \in Kind
  BY <1>1, <1>3 DEF Inv, Typed, GuestTyped, Kind
<1> QED BY <1>1, <1>2, <1>3, <1>4, <1>5, <1>6, SendInv

\* virtio_media_device_close.
LEMMA CloseInv ==
    ASSUME Inv, NEW f \in File, Close(f)
    PROVE  Inv'
<1>1. Idle /\ session_id[f] \in Id /\ refs[session_id[f]] = 0
  BY DEF Close
<1>2. CASE ~disconnected
  <2> DEFINE c == Command("close", session_id[f], None, TRUE, 2, 0)
  <2>1. /\ c.cmd = "close" /\ c.code = None /\ c.parts = 2 /\ c.room = 0
        /\ c.session = session_id[f]
    BY DEF Command
  <2> HIDE DEF c
  <2>2. SendCommand(c, f) /\ UNCHANGED guestVars
    BY <1>2 DEF Close, c
  <2>3. ~Opened /\ ~Ended /\ cmd' = c /\ file' = f /\ UNCHANGED <<session_id, refs, disconnected>>
    BY <1>1, <2>2, IdleFacts DEF SendCommand, guestVars
  <2>4. MapsOK'
    BY <1>1, <2>1, <2>2, <2>3, SendMaps
  <2>5. SentOpen' /\ SentClose' /\ SentIoctl' /\ SentMmap' /\ SentMunmap' /\ SentBad'
    BY <1>1, <2>1, <2>2, <2>3, Names
       DEF SentOpen, SentClose, SentIoctl, SentMmap, SentMunmap, SentBad
  <2>6. refs' \in [Id -> 0 .. MaxRefs] /\ c.cmd \in Kind
    BY <2>1, <2>3 DEF Inv, Typed, GuestTyped, Kind
  <2> QED BY <2>1, <2>2, <2>3, <2>4, <2>5, <2>6, SendInv
<1>3. CASE disconnected
  <2>1. /\ session_id' = [session_id EXCEPT ![f] = Closed]
        /\ UNCHANGED hostVars /\ UNCHANGED <<refs, disconnected, cmd, file, reply, ran, last>>
        /\ UNCHANGED historyVars
    BY <1>3 DEF Close
  <2>2. HostTyped' /\ CommandTyped'
    BY <2>1 DEF Inv, Typed, HostTyped, CommandTyped, hostVars, runnerVars, historyVars
  <2>3. GuestTyped'
    BY <2>1 DEF Inv, Typed, GuestTyped, historyVars
  <2>4. SentOK' /\ AnsweredOK' /\ LastOK' /\ MapsOK'
    <3>1. cmd'.cmd = "none" /\ disconnected'
      BY <1>1, <1>3, <2>1, IdleFacts
    <3>2. SentOK'
      BY <2>1, <3>1 DEF Inv, SentOK, SentOpen, SentClose, SentIoctl, SentMmap, SentMunmap, SentBad
    <3>3. AnsweredOK'
      BY <2>1 DEF Inv, AnsweredOK, Performed
    <3>4. LastOK'
      BY <2>1 DEF Inv, LastOK, OutcomeSeen, CtrlErrorsArrive, SuccessButNoResponse
    <3> QED BY <3>1, <3>2, <3>3, <3>4 DEF MapsOK
  <2>5. SessionsOK'
    <3>1. ~Opened /\ ~Ended /\ ~Opened' /\ ~Ended'
      BY <1>1, <2>1, IdleFacts DEF Opened, Ended
    <3>2. \A g \in File : session_id'[g] = IF g = f THEN Closed ELSE session_id[g]
      BY <2>1 DEF Inv, Typed, GuestTyped
    <3>3. Used' = Used
      BY <1>1, <3>2, Names DEF Used
    <3>4. /\ UNCHANGED <<sessions, session_id_counter, polled, dev_sessions, orphans>>
          /\ disconnected'
      BY <1>3, <2>1 DEF hostVars, runnerVars, historyVars
    <3> QED BY <3>1, <3>2, <3>3, <3>4, Names DEF Inv, SessionsOK
  <2> QED BY <2>2, <2>3, <2>4, <2>5 DEF Inv, Typed
<1> QED BY <1>2, <1>3

\* virtio_media_device_ioctl.
LEMMA IoctlInv ==
    ASSUME Inv, NEW f \in File, NEW i \in DriverIoctl, NEW valid \in BOOLEAN,
           Ioctl(f, i, valid)
    PROVE  Inv'
<1> DEFINE c == Chain(session_id[f], i, valid)
<1>1. /\ c.cmd = "ioctl" /\ c.code = i /\ c.parts \in 0 .. 3 /\ c.session = session_id[f]
      /\ c.room = IF i \in DriverW THEN 1 ELSE 2
  BY DEF Chain, Command
<1> HIDE DEF c
<1>2. /\ Idle /\ SendCommand(c, f) /\ UNCHANGED guestVars /\ session_id[f] \in Id
      /\ i \in Reallocates => Mapped = {}
  BY DEF Ioctl, c
<1>3. ~Opened /\ ~Ended /\ cmd' = c /\ file' = f /\ UNCHANGED <<session_id, refs, disconnected>>
  BY <1>2, IdleFacts DEF SendCommand, guestVars
<1>4. MapsOK'
  BY <1>1, <1>2, <1>3, SendMaps
<1>5. Mapped' = Mapped
  BY <1>3 DEF Mapped
<1>6. SentOpen' /\ SentClose' /\ SentIoctl' /\ SentMmap' /\ SentMunmap' /\ SentBad'
  BY <1>1, <1>2, <1>3, <1>5, Names
     DEF SentOpen, SentClose, SentIoctl, SentMmap, SentMunmap, SentBad
<1>7. refs' \in [Id -> 0 .. MaxRefs] /\ c.cmd \in Kind /\ c.room \in 0 .. 2
  BY <1>1, <1>3 DEF Inv, Typed, GuestTyped, Kind
<1> QED BY <1>1, <1>2, <1>3, <1>4, <1>6, <1>7, SendInv

\* virtio_media_device_mmap.
LEMMA MmapInv ==
    ASSUME Inv, NEW f \in File, Mmap(f)
    PROVE  Inv'
<1> DEFINE c == Command("mmap", session_id[f], None, TRUE, 2, 2)
<1>1. /\ c.cmd = "mmap" /\ c.code = None /\ c.parts = 2 /\ c.room = 2
      /\ c.session = session_id[f]
  BY DEF Command
<1> HIDE DEF c
<1>2. /\ Idle /\ SendCommand(c, f) /\ UNCHANGED guestVars
      /\ session_id[f] \in Id /\ refs[session_id[f]] = 0 /\ dev_maps[session_id[f]] < MaxMaps
  BY DEF Mmap, c
<1>3. /\ ~Opened /\ ~Ended /\ cmd' = c /\ file' = f /\ dev_maps' = dev_maps
      /\ UNCHANGED <<session_id, refs, disconnected>>
  BY <1>2, IdleFacts DEF SendCommand, guestVars, hostVars
<1>4. MapsOK'
  BY <1>1, <1>2, <1>3, SendMaps
<1>5. SentOpen' /\ SentClose' /\ SentIoctl' /\ SentMmap' /\ SentMunmap' /\ SentBad'
  BY <1>1, <1>2, <1>3, Names DEF SentOpen, SentClose, SentIoctl, SentMmap, SentMunmap, SentBad
<1>6. refs' \in [Id -> 0 .. MaxRefs] /\ c.cmd \in Kind
  BY <1>1, <1>3 DEF Inv, Typed, GuestTyped, Kind
<1> QED BY <1>1, <1>2, <1>3, <1>4, <1>5, <1>6, SendInv

\* A command of another driver.
LEMMA BadCommandInv ==
    ASSUME Inv, BadCommand
    PROVE  Inv'
<1>1. PICK k \in {"close", "ioctl", "mmap", "other"}, code \in {"G_FMT", "unknown"},
           parts \in 0 .. 2, room \in 1 .. 2 :
           SendCommand(Command(k, Unknown, code, TRUE, parts, room), None)
  BY DEF BadCommand
<1> DEFINE c == Command(k, Unknown, code, TRUE, parts, room)
<1>2. /\ c.cmd = k /\ c.code = code /\ c.parts = parts /\ c.room = room /\ c.session = Unknown
  BY DEF Command
<1>3. SendCommand(c, None)
  BY <1>1
<1> HIDE DEF c
<1>4. Idle /\ UNCHANGED guestVars
  BY DEF BadCommand
<1>5. ~Opened /\ ~Ended /\ cmd' = c /\ file' = None /\ UNCHANGED <<session_id, refs, disconnected>>
  BY <1>3, <1>4, IdleFacts DEF SendCommand, guestVars
<1>6. MapsOK'
  BY <1>2, <1>3, <1>4, <1>5, SendMaps
<1>7. SentOpen' /\ SentClose' /\ SentIoctl' /\ SentMmap' /\ SentMunmap'
  BY <1>2, <1>5 DEF SentOpen, SentClose, SentIoctl, SentMmap, SentMunmap
<1>8. SentBad'
  BY <1>2, <1>5, OtherCodes DEF SentBad
<1>9. /\ refs' \in [Id -> 0 .. MaxRefs] /\ c.cmd \in Kind /\ c.cmd # "none"
      /\ c.parts \in 0 .. 3 /\ c.room \in 0 .. 2
  BY <1>2, <1>5 DEF Inv, Typed, GuestTyped, Kind
<1> QED BY <1>3, <1>5, <1>6, <1>7, <1>8, <1>9, SendInv

\* A change of the references to the mapping of a session i that has some left.
LEMMA RefsInv ==
    ASSUME Inv, NEW i \in Id, refs[i] > 0, NEW n \in 0 .. MaxRefs, n > 0 \/ disconnected,
           refs' = [refs EXCEPT ![i] = n], UNCHANGED hostVars, UNCHANGED historyVars,
           UNCHANGED <<session_id, disconnected, cmd, file, reply, ran, last>>
    PROVE  Inv'
<1>1. UNCHANGED <<sessions, session_id_counter, polled, dev_sessions, dev_maps, halted,
                  orphans, stuck>>
  BY DEF hostVars, runnerVars, historyVars
<1>2. HostTyped' /\ CommandTyped' /\ GuestTyped'
  BY <1>1 DEF Inv, Typed, HostTyped, CommandTyped, GuestTyped
<1>3. \A j \in Id : refs'[j] = IF j = i THEN n ELSE refs[j]
  BY DEF Inv, Typed, GuestTyped
<1>4. Mapped = {} => Mapped' = {}
  BY DEF Mapped
<1>5. SentOK'
  <2>1. SentOpen' /\ SentClose' /\ SentIoctl' /\ SentBad'
    BY <1>4 DEF Inv, SentOK, SentOpen, SentClose, SentIoctl, SentBad
  <2>2. SentMmap' /\ SentMunmap'
    BY <1>1, <1>3 DEF Inv, SentOK, SentMmap, SentMunmap
  <2> QED BY <2>1, <2>2 DEF Inv, SentOK
<1>6. AnsweredOK'
  BY DEF Inv, AnsweredOK, Performed
<1>7. LastOK'
  BY DEF Inv, LastOK, OutcomeSeen, CtrlErrorsArrive, SuccessButNoResponse
<1>8. SessionsOK'
  <2>1. Used' = Used /\ Opened' = Opened /\ Ended' = Ended
    BY DEF Used, Opened, Ended
  <2> QED BY <1>1, <2>1 DEF Inv, SessionsOK, Owner
<1>9. MapsOK'
  <2>1. \A j : Between(j)' <=> Between(j)
    BY DEF Between
  <2> QED BY <1>1, <1>3, <2>1, Names DEF Inv, Typed, GuestTyped, MapsOK
<1> QED BY <1>2, <1>5, <1>6, <1>7, <1>8, <1>9 DEF Inv, Typed

\* virtio_media_vma_open.
LEMMA VmaOpenInv ==
    ASSUME Inv, NEW i \in Id, VmaOpen(i)
    PROVE  Inv'
<1>1. refs[i] \in 1 .. MaxRefs - 1 /\ refs' = [refs EXCEPT ![i] = refs[i] + 1]
  BY DEF VmaOpen
<1>2. refs[i] + 1 \in 0 .. MaxRefs /\ refs[i] > 0 /\ refs[i] + 1 > 0
  BY <1>1, Names
<1>3. /\ UNCHANGED hostVars /\ UNCHANGED historyVars
      /\ UNCHANGED <<session_id, disconnected, cmd, file, reply, ran, last>>
  BY DEF VmaOpen
<1> QED BY <1>1, <1>2, <1>3, RefsInv

\* virtio_media_vma_close: the last reference sends the MUNMAP of a mapping both have.
LEMMA VmaCloseInv ==
    ASSUME Inv, NEW i \in Id, VmaClose(i)
    PROVE  Inv'
<1>1. /\ refs[i] > 0 /\ (refs[i] > 1 \/ Idle) /\ refs' = [refs EXCEPT ![i] = refs[i] - 1]
      /\ UNCHANGED <<session_id, disconnected>>
  BY DEF VmaClose
<1>2. refs[i] \in 0 .. MaxRefs /\ refs[i] - 1 \in 0 .. MaxRefs
  BY <1>1, Names DEF Inv, Typed, GuestTyped
<1>3. CASE refs[i] = 1 /\ ~disconnected
  <2> DEFINE c == Munmap(i)
  <2>1. /\ c.cmd = "munmap" /\ c.code = None /\ c.parts = 2 /\ c.room = 2 /\ c.session = i
    BY DEF Munmap, Command
  <2> HIDE DEF c
  <2>2. Idle /\ SendCommand(c, None)
    BY <1>1, <1>3 DEF VmaClose, c
  <2>3. /\ ~Opened /\ ~Ended /\ cmd' = c /\ file' = None /\ reply' = NoReply
        /\ UNCHANGED <<dev_maps, stuck>> /\ \A j : ~Between(j)
    BY <2>2, IdleFacts DEF SendCommand, hostVars, historyVars
  <2>4. \A j \in Id : refs'[j] = IF j = i THEN 0 ELSE refs[j]
    BY <1>1, <1>3 DEF Inv, Typed, GuestTyped
  <2>5. MapsOK'
    <3>1. \A j : Between(j)' <=> j = i
      BY <2>1, <2>3, Blank DEF Between
    <3> QED BY <1>1, <1>3, <2>3, <2>4, <3>1 DEF Inv, MapsOK
  <2>6. SentOpen' /\ SentClose' /\ SentIoctl' /\ SentMmap' /\ SentMunmap' /\ SentBad'
    BY <2>1, <2>3, <2>4 DEF SentOpen, SentClose, SentIoctl, SentMmap, SentMunmap, SentBad
  <2>7. refs' \in [Id -> 0 .. MaxRefs] /\ c.cmd \in Kind
    BY <1>1, <1>2, <2>1 DEF Inv, Typed, GuestTyped, Kind
  <2> QED BY <1>1, <2>1, <2>2, <2>3, <2>5, <2>6, <2>7, SendInv
<1>4. CASE ~(refs[i] = 1 /\ ~disconnected)
  <2>1. /\ UNCHANGED hostVars /\ UNCHANGED historyVars
        /\ UNCHANGED <<cmd, file, reply, ran, last>>
    BY <1>4 DEF VmaClose
  <2>2. refs[i] - 1 > 0 \/ disconnected
    BY <1>1, <1>2, <1>4
  <2> QED BY <1>1, <1>2, <2>1, <2>2, RefsInv
<1> QED BY <1>3, <1>4

\* virtio_media_stop_queues: what the host has done since is not asked any more.
LEMMA StopQueuesInv ==
    ASSUME Inv, StopQueues
    PROVE  Inv'
<1>1. /\ disconnected'
      /\ UNCHANGED <<sessions, session_id_counter, polled, dev_sessions, dev_maps, halted,
                     session_id, refs, cmd, file, reply, ran, last, orphans, stuck>>
  BY DEF StopQueues, hostVars, runnerVars, historyVars
<1>2. Typed'
  BY <1>1 DEF Inv, Typed, HostTyped, CommandTyped, GuestTyped
<1>3. SentOK'
  <2>1. Mapped' = Mapped
    BY <1>1 DEF Mapped
  <2> QED BY <1>1, <2>1
          DEF Inv, SentOK, SentOpen, SentClose, SentIoctl, SentMmap, SentMunmap, SentBad
<1>4. AnsweredOK'
  BY <1>1 DEF Inv, AnsweredOK, Performed
<1>5. LastOK'
  BY <1>1 DEF Inv, LastOK, OutcomeSeen, CtrlErrorsArrive, SuccessButNoResponse
<1>6. SessionsOK' /\ MapsOK'
  <2>1. Used' = Used /\ Opened' = Opened
    BY <1>1 DEF Used, Opened
  <2> QED BY <1>1, <2>1 DEF Inv, SessionsOK, MapsOK
<1> QED BY <1>2, <1>3, <1>4, <1>5, <1>6 DEF Inv

-----------------------------------------------------------------------------
(* VirtioMediaDeviceRunner::handle_command.                                *)

\* What every command that is handled finds, and leaves alone.
Handling ==
    /\ Inv /\ cmd.cmd # "none" /\ reply = NoReply /\ ~disconnected
    /\ UNCHANGED <<session_id, refs, disconnected, cmd, file, last, orphans, stuck>>

\* The command has not been answered before.
LEMMA HandlingFacts ==
    ASSUME Handling
    PROVE  /\ reply.status = "none" /\ ran = "none" /\ ~Opened /\ ~Ended
           /\ \A i : Between(i) <=> cmd.cmd = "munmap" /\ cmd.session = i
           /\ Used' = Used /\ Mapped' = Mapped
<1>1. reply.status = "none"
  BY Blank DEF Handling
<1>2. ran = "none"
  BY <1>1 DEF Handling, Inv, AnsweredOK, Performed
<1>3. Used' = Used /\ Mapped' = Mapped
  BY DEF Handling, Used, Mapped
<1> QED BY <1>1, <1>2, <1>3 DEF Opened, Ended, Between

\* It is enough to look at what the handler changes.
LEMMA HandledInv ==
    ASSUME Handling, HostTyped', reply'.status \in Status, reply'.len \in 0 .. cmd.room,
           ran' \in Status, AnsweredOK', SessionsOK', MapsOK',
           dev_maps' = dev_maps \/ reply'.status # "none"
    PROVE  Inv'
<1>1. /\ Inv /\ UNCHANGED <<session_id, refs, disconnected, cmd, file, last, orphans, stuck>>
      /\ cmd.cmd # "none" /\ reply.status = "none" /\ Mapped' = Mapped
  BY HandlingFacts DEF Handling
<1>2. Typed'
  BY <1>1 DEF Inv, Typed, GuestTyped, CommandTyped
<1>3. SentOK'
  <2>1. SentOpen' /\ SentClose' /\ SentIoctl' /\ SentMunmap' /\ SentBad'
    BY <1>1 DEF Inv, SentOK, SentOpen, SentClose, SentIoctl, SentMunmap, SentBad
  <2>2. SentMmap'
    BY <1>1 DEF Inv, SentOK, SentMmap
  <2> QED BY <1>1, <2>1, <2>2 DEF Inv, SentOK
<1>4. LastOK'
  BY <1>1 DEF Inv, LastOK, OutcomeSeen, CtrlErrorsArrive, SuccessButNoResponse
<1> QED BY <1>2, <1>3, <1>4 DEF Inv

\* write_response and write_err_response.
LEMMA ResponseFacts ==
    ASSUME Handling, NEW status \in Status, NEW payload \in 0 .. 1, NEW id,
           Response(status, payload, id)
    PROVE  /\ reply'.status = status /\ reply'.id = id /\ reply'.len \in 0 .. cmd.room
           /\ cmd.room >= 1 => reply'.len >= 1
           /\ payload = 1 \/ cmd.room = 1 => reply'.len = cmd.room
           /\ status # "none" => reply' # NoReply
<1>1. cmd.room \in 0 .. 2
  BY DEF Handling, Inv, Typed, CommandTyped
<1>2. reply'.status = status /\ reply'.id = id
  BY DEF Response
<1>3. reply'.len = IF 1 + payload > cmd.room THEN cmd.room ELSE 1 + payload
  BY DEF Response
<1> QED BY <1>1, <1>2, <1>3, Blank

\* An error leaves everything as it is.
LEMMA RefuseInv ==
    ASSUME Handling, NEW status \in Errno, Refuse(status), cmd.cmd = "close" => file = None
    PROVE  Inv'
<1>1. /\ Response(status, 0, None)
      /\ UNCHANGED <<sessions, session_id_counter, polled, dev_sessions, dev_maps, halted, ran>>
  BY DEF Refuse, Respond, hostVars, runnerVars
<1>2. status \in Status /\ status # "none" /\ status # "ok"
  BY DEF Errno, Status
<1>3. /\ reply'.status = status /\ reply'.len \in 0 .. cmd.room /\ reply' # NoReply
  BY <1>1, <1>2, ResponseFacts
<1>4. /\ reply.status = "none" /\ ran = "none" /\ ~Opened /\ ~Ended
      /\ \A i : Between(i) <=> cmd.cmd = "munmap" /\ cmd.session = i
  BY HandlingFacts
<1>5. ~Opened' /\ ~Ended' /\ \A i : Between(i)' <=> Between(i)
  BY <1>2, <1>3, <1>4 DEF Opened, Ended, Between, Handling
<1>6. HostTyped'
  BY <1>1 DEF Handling, Inv, Typed, HostTyped
<1>7. AnsweredOK'
  BY <1>1, <1>2, <1>3, <1>4 DEF AnsweredOK, Handling
<1>8. SessionsOK'
  BY <1>1, <1>4, <1>5, StillSessions DEF Handling, Inv, runnerVars
<1>9. MapsOK'
  BY <1>1, <1>5 DEF Handling, Inv, MapsOK
<1>10. ran' \in Status
  BY <1>1, <1>4 DEF Status
<1> QED BY <1>1, <1>2, <1>3, <1>6, <1>7, <1>8, <1>9, <1>10, HandledInv

\* OPEN: a file that was not open before leaves an id, which nobody has.
LEMMA HandleOpenInv ==
    ASSUME Handling, cmd.cmd = "open", HandleOpen
    PROVE  Inv'
<1>1. CASE Refuse("EIO")
  BY <1>1, RefuseInv DEF Errno
<1>2. CASE ~Refuse("EIO")
  <2> DEFINE n == session_id_counter
  <2>1. /\ sessions' = sessions \cup {n} /\ session_id_counter' = n + 1
        /\ polled' = IF Polls THEN polled \cup {n} ELSE polled
        /\ dev_sessions' = dev_sessions \cup {n} /\ Response("ok", 1, n)
        /\ UNCHANGED <<dev_maps, halted, ran>>
    BY <1>2 DEF HandleOpen
  <2>2. cmd.room = 2 /\ file \in File /\ session_id[file] = None
    BY DEF Handling, Inv, SentOK, SentOpen
  <2>3. reply'.status = "ok" /\ reply'.id = n /\ reply'.len = 2 /\ reply' # NoReply
    BY <2>1, <2>2, ResponseFacts DEF Status
  <2>4. /\ reply.status = "none" /\ ran = "none" /\ ~Opened /\ ~Ended
        /\ \A i : ~Between(i) /\ Used' = Used
    BY HandlingFacts
  <2>5. Opened' /\ ~Ended' /\ \A i : ~Between(i)'
    BY <2>3 DEF Opened, Ended, Between, Handling
  <2>6. n \in Nat /\ n + 1 <= Cardinality(Used) + 1 /\ n + 1 <= Cardinality(File) /\ n \in Id
    <3>1. Used \subseteq File /\ file \notin Used
      BY <2>2 DEF Used
    <3>2. Cardinality(Used) + 1 <= Cardinality(File) /\ Cardinality(Used) \in Nat
      BY <2>2, <3>1, IdLeft, UsedFinite
    <3>3. n \in Nat /\ n <= Cardinality(Used)
      <4>1. n \in 0 .. Cardinality(File)
        BY DEF Handling, Inv, Typed, HostTyped
      <4>2. n <= Cardinality(Used) + 0
        BY <2>4 DEF Handling, Inv, SessionsOK
      <4> QED BY <3>2, <4>1, <4>2, Names
    <3> QED BY <3>2, <3>3, Names
  <2> HIDE DEF n
  <2>7. HostTyped'
    <3>1. n + 1 \in 0 .. Cardinality(File)
      BY <2>6, Names
    <3> QED BY <2>1, <2>6, <3>1 DEF Handling, Inv, Typed, HostTyped
  <2>8. AnsweredOK'
    BY <2>1, <2>2, <2>3, <2>4, Names DEF AnsweredOK, Handling
  <2>9. MapsOK'
    BY <2>1, <2>4, <2>5 DEF Handling, Inv, MapsOK
  <2>10. SessionsOK'
    <3>1. /\ SessionsOK /\ UNCHANGED <<session_id, orphans, disconnected>>
          /\ sessions \subseteq Id /\ orphans \subseteq Id
          /\ session_id \in [File -> Id \cup {None, Closed}]
      BY DEF Handling, Inv, Typed, HostTyped, GuestTyped
    <3>2. dev_sessions' = sessions' /\ polled' = IF Polls THEN sessions' ELSE {}
      BY <2>1, <3>1 DEF SessionsOK
    <3>3. \A i \in sessions' \cup orphans' : i < session_id_counter'
      BY <2>1, <2>6, <3>1, Names DEF SessionsOK, n
    <3>4. /\ n \notin orphans /\ \A f \in File : session_id[f] # n
      BY <2>6, <3>1, Names DEF SessionsOK, n
    <3>5. \A f \in File :
            session_id[f] \in Id => session_id[f] < n + 1 /\ session_id[f] \notin orphans
      BY <2>6, <3>1, Names DEF SessionsOK, n
    <3>6. session_id_counter' <= Cardinality(Used') + 1
      BY <2>1, <2>4, <2>6
    <3>7. \A i \in Id, f \in File : Owner(f, i)' <=> Owner(f, i)
      BY <2>4, <2>5, <3>1 DEF Owner
    <3>8. \A i \in Id : i \in sessions' <=> \/ \E f \in File : Owner(f, i)'
                                            \/ i \in orphans' \/ i = reply'.id
      BY <2>1, <2>3, <2>4, <3>1, <3>7 DEF SessionsOK, Handling
    <3> QED BY <2>1, <2>3, <2>5, <2>6, <3>1, <3>2, <3>3, <3>4, <3>5, <3>6, <3>8 DEF SessionsOK
  <2>11. reply'.status \in Status /\ reply'.len \in 0 .. cmd.room /\ ran' \in Status
    BY <2>1, <2>2, <2>3, <2>4 DEF Status
  <2> QED BY <2>1, <2>3, <2>7, <2>8, <2>9, <2>10, <2>11, HandledInv
<1> QED BY <1>1, <1>2

\* CLOSE: of the session of a file, or of none.
LEMMA HandleCloseInv ==
    ASSUME Handling, cmd.cmd = "close", HandleClose
    PROVE  Inv'
<1> DEFINE s == cmd.session
<1>1. /\ sessions' = sessions \ {s} /\ polled' = polled \ {s}
      /\ dev_sessions' = dev_sessions \ {s}
      /\ UNCHANGED <<session_id_counter, dev_maps, halted, ran>>
  BY DEF HandleClose
<1>2. reply'.status = "ok" /\ reply'.len = 0 /\ reply' # NoReply
  BY Blank DEF HandleClose
<1>3. /\ reply.status = "none" /\ ran = "none" /\ ~Opened /\ ~Ended
      /\ \A i : ~Between(i) /\ Used' = Used
  BY HandlingFacts
<1>4. ~Opened' /\ (Ended' <=> file # None) /\ \A i : ~Between(i)'
  BY <1>2 DEF Opened, Ended, Between, Handling
<1>5. HostTyped'
  BY <1>1 DEF Handling, Inv, Typed, HostTyped
<1>6. AnsweredOK'
  BY <1>1, <1>2, <1>3 DEF AnsweredOK, Handling
<1>7. MapsOK'
  BY <1>1, <1>3, <1>4 DEF Handling, Inv, MapsOK
<1>8. SessionsOK'
  <2>1. /\ SessionsOK /\ UNCHANGED <<session_id, orphans, disconnected, file>>
        /\ sessions \subseteq Id /\ ~disconnected /\ file \in File \cup {None}
    BY DEF Handling, Inv, Typed, HostTyped, CommandTyped
  <2>2. file # None => session_id[file] \in Id /\ s = session_id[file]
    BY DEF Handling, Inv, SentOK, SentClose
  <2>3. file = None => s \notin Id
    BY Names DEF Handling, Inv, SentOK, SentBad
  <2> HIDE DEF s
  <2>4. dev_sessions' = sessions' /\ polled' = IF Polls THEN sessions' ELSE {}
    BY <1>1, <2>1 DEF SessionsOK
  <2>5. ASSUME NEW i \in Id
        PROVE  i \in sessions' <=> (\E f \in File : Owner(f, i)') \/ i \in orphans
    <3>1. i \in sessions <=> (\E f \in File : session_id[f] = i) \/ i \in orphans
      BY <1>3, <2>1 DEF SessionsOK, Owner
    <3>2. \A f \in File : Owner(f, i)' <=> session_id[f] = i /\ ~(file # None /\ f = file)
      BY <1>4, <2>1 DEF Owner
    <3>3. CASE file = None
      BY <1>1, <2>3, <3>1, <3>2, <3>3
    <3>4. CASE file # None
      <4>1. session_id[file] \notin orphans /\ \A f \in File : session_id[f] = s => f = file
        BY <2>1, <2>2, <3>4 DEF SessionsOK
      <4> QED BY <1>1, <2>1, <2>2, <3>1, <3>2, <3>4, <4>1
    <3> QED BY <3>3, <3>4
  <2> QED BY <1>1, <1>3, <1>4, <2>1, <2>4, <2>5 DEF SessionsOK
<1>9. reply'.status \in Status /\ reply'.len \in 0 .. cmd.room /\ ran' \in Status
  <2>1. cmd.room \in 0 .. 2
    BY DEF Handling, Inv, Typed, CommandTyped
  <2> QED BY <1>1, <1>2, <1>3, <2>1 DEF Status
<1> QED BY <1>1, <1>2, <1>5, <1>6, <1>7, <1>8, <1>9, HandledInv

\* An ioctl that is performed is that of a file, and its response is as long as the
\* driver expects: the tables of the two sides agree.
LEMMA PerformInv ==
    ASSUME Handling, cmd.cmd = "ioctl", cmd.session \in sessions, cmd.code \in V4l2Ioctl,
           Perform(cmd.code)
    PROVE  Inv'
<1> DEFINE d == Dispatch[cmd.code].shape
<1>1. PICK res \in HandlerResult(cmd.code) :
         /\ ran' = res
         /\ Respond(res, IF (res = "ok" /\ d # "w") \/ d = "wre" THEN 1 ELSE 0)
         /\ UNCHANGED hostVars
  BY DEF Perform
<1>2. res \in {"ok", "EIO", "ENOTTY"}
  BY DEF HandlerResult
<1>3. file # None
  BY Names DEF Handling, Inv, SentOK, SentBad, Typed, HostTyped
<1>4. cmd.room = IF cmd.code \in DriverW THEN 1 ELSE 2
  BY <1>3 DEF Handling, Inv, SentOK, SentIoctl
<1>5. PICK p \in 0 .. 1 : /\ Response(res, p, None)
                          /\ p = IF (res = "ok" /\ d # "w") \/ d = "wre" THEN 1 ELSE 0
  BY <1>1 DEF Respond
<1>6. /\ reply'.status = res /\ reply'.len \in 0 .. cmd.room /\ reply'.len >= 1
      /\ p = 1 \/ cmd.room = 1 => reply'.len = cmd.room
      /\ reply' # NoReply
  BY <1>2, <1>4, <1>5, ResponseFacts DEF Status, Errno
<1>7. res = "ok" => reply'.len = cmd.room
  BY <1>4, <1>5, <1>6, WriteOnlyAgrees
<1>8. cmd.code \in ExtCtrls => reply'.len = 2
  BY <1>4, <1>5, <1>6, ExtCtrlsAgree
<1>9. UNCHANGED <<sessions, session_id_counter, polled, dev_sessions, dev_maps, halted>>
  BY <1>1 DEF hostVars, runnerVars
<1>10. AnsweredOK'
  <2>1. Performed'
    BY <1>1, <1>3, <1>6, <1>7, <1>8 DEF Performed, Handling
  <2> QED BY <1>1, <1>2, <1>3, <1>6, <2>1 DEF AnsweredOK, Handling
<1>11. ~Opened /\ ~Ended /\ ~Opened' /\ ~Ended' /\ \A i : ~Between(i) /\ ~Between(i)'
  BY DEF Handling, Opened, Ended, Between
<1>12. SessionsOK'
  BY <1>9, <1>11, StillSessions DEF Handling, Inv, runnerVars
<1>13. MapsOK' /\ HostTyped'
  BY <1>9, <1>11 DEF Handling, Inv, MapsOK, Typed, HostTyped
<1>14. ran' \in Status /\ res \in Status
  BY <1>1, <1>2 DEF Status, Errno
<1> QED BY <1>6, <1>9, <1>10, <1>12, <1>13, <1>14, HandledInv

\* The worker's panic leaves the command without an answer.
LEMMA PanicInv ==
    ASSUME Handling, cmd.cmd = "ioctl", Panic
    PROVE  Inv'
<1>1. /\ UNCHANGED <<sessions, session_id_counter, polled, dev_sessions, dev_maps, reply, ran>>
      /\ halted' = TRUE
  BY DEF Panic, runnerVars
<1>2. ~Opened /\ ~Ended /\ ~Opened' /\ ~Ended' /\ \A i : ~Between(i) /\ ~Between(i)'
  BY DEF Handling, Opened, Ended, Between
<1>3. SessionsOK'
  BY <1>1, <1>2, StillSessions DEF Handling, Inv, runnerVars
<1>4. MapsOK' /\ HostTyped'
  BY <1>1, <1>2 DEF Handling, Inv, MapsOK, Typed, HostTyped
<1>5. AnsweredOK'
  BY <1>1 DEF Handling, Inv, AnsweredOK, Performed
<1>6. reply'.status \in Status /\ reply'.len \in 0 .. cmd.room /\ ran' \in Status
  BY <1>1 DEF Handling, Inv, Typed, CommandTyped
<1> QED BY <1>1, <1>3, <1>4, <1>5, <1>6, HandledInv

\* IOCTL: virtio_media_dispatch_ioctl.
LEMMA HandleIoctlInv ==
    ASSUME Handling, cmd.cmd = "ioctl", HandleIoctl
    PROVE  Inv'
<1>1. \/ Refuse("EINVAL") \/ Refuse("ENOTTY") \/ Panic
      \/ cmd.session \in sessions /\ cmd.code \in V4l2Ioctl /\ Perform(cmd.code)
  BY DEF HandleIoctl, DispatchIoctl
<1>2. "EINVAL" \in Errno /\ "ENOTTY" \in Errno
  BY DEF Errno
<1> QED BY <1>1, <1>2, RefuseInv, PanicInv, PerformInv

\* MMAP and MUNMAP change the mappings of a session i, by one.
LEMMA RemapInv ==
    ASSUME Handling, NEW i \in Id, NEW n \in 0 .. MaxMaps, cmd.session = i,
           cmd.cmd \in {"mmap", "munmap"}, refs[i] = 0, cmd.room = 2,
           file = None => cmd.cmd = "munmap",
           n = IF cmd.cmd = "mmap" THEN dev_maps[i] + 1 ELSE dev_maps[i] - 1,
           dev_maps' = [dev_maps EXCEPT ![i] = n],
           Respond("ok", 1), UNCHANGED runnerVars, UNCHANGED <<dev_sessions, halted, ran>>
    PROVE  Inv'
<1>1. reply'.status = "ok" /\ reply'.len = 2 /\ reply' # NoReply
  BY ResponseFacts DEF Respond, Status
<1>2. /\ ~Opened /\ ~Ended /\ ran = "none"
      /\ \A j : Between(j) <=> cmd.cmd = "munmap" /\ cmd.session = j
  BY HandlingFacts
<1>3. ~Opened' /\ ~Ended' /\ \A j : Between(j)' <=> cmd.cmd = "mmap" /\ cmd.session = j
  BY <1>1 DEF Handling, Opened, Ended, Between
<1>4. HostTyped'
  BY DEF Handling, Inv, Typed, HostTyped, runnerVars
<1>5. SessionsOK'
  BY <1>2, <1>3, StillSessions DEF Handling, Inv
<1>6. AnsweredOK'
  BY <1>1, <1>2 DEF AnsweredOK, Handling
<1>7. MapsOK'
  <2>1. \A j \in Id : dev_maps'[j] = IF j = i THEN n ELSE dev_maps[j]
    BY DEF Handling, Inv, Typed, HostTyped
  <2>2. dev_maps[i] = stuck[i] + IF cmd.cmd = "munmap" THEN 1 ELSE 0
    BY <1>2 DEF Handling, Inv, MapsOK
  <2>3. stuck[i] \in Nat /\ dev_maps[i] \in Nat
    BY Names DEF Handling, Inv, Typed, HostTyped
  <2>4. n = stuck[i] + IF Between(i)' THEN 1 ELSE 0
    BY <1>3, <2>2, <2>3
  <2> QED BY <1>2, <1>3, <2>1, <2>4 DEF Handling, Inv, MapsOK
<1>8. reply'.status \in Status /\ reply'.len \in 0 .. cmd.room /\ ran' \in Status
  BY <1>1, <1>2 DEF Status
<1> QED BY <1>1, <1>4, <1>5, <1>6, <1>7, <1>8, HandledInv

\* MMAP, for a session that exists.
LEMMA HandleMmapInv ==
    ASSUME Handling, cmd.cmd = "mmap", HandleMmap
    PROVE  Inv'
<1>1. CASE Refuse("EINVAL")
  BY <1>1, RefuseInv DEF Errno
<1>2. CASE ~Refuse("EINVAL")
  <2>1. PICK i : i = cmd.session
    OBVIOUS
  <2>2. /\ i \in sessions /\ dev_maps' = [dev_maps EXCEPT ![i] = dev_maps[i] + 1]
        /\ Respond("ok", 1) /\ UNCHANGED runnerVars /\ UNCHANGED <<dev_sessions, halted, ran>>
    BY <1>2, <2>1 DEF HandleMmap
  <2>3. i \in Id /\ file # None
    BY <2>1, <2>2, Names DEF Handling, Inv, SentOK, SentBad, Typed, HostTyped
  <2>4. refs[i] = 0 /\ cmd.room = 2 /\ dev_maps[i] < MaxMaps
    BY <2>1, <2>3, HandlingFacts DEF Handling, Inv, SentOK, SentMmap
  <2>5. dev_maps[i] + 1 \in 0 .. MaxMaps
    BY <2>3, <2>4, Names DEF Handling, Inv, Typed, HostTyped
  <2> QED BY <2>1, <2>2, <2>3, <2>4, <2>5, RemapInv
<1> QED BY <1>1, <1>2

\* MUNMAP, which is not checked against the sessions.
LEMMA HandleMunmapInv ==
    ASSUME Handling, cmd.cmd = "munmap", HandleMunmap
    PROVE  Inv'
<1>1. CASE Refuse("EIO")
  BY <1>1, RefuseInv DEF Errno
<1>2. CASE ~Refuse("EIO")
  <2>1. PICK i : i = cmd.session
    OBVIOUS
  <2>2. /\ dev_maps[i] > 0 /\ dev_maps' = [dev_maps EXCEPT ![i] = dev_maps[i] - 1]
        /\ Respond("ok", 1) /\ UNCHANGED runnerVars /\ UNCHANGED <<dev_sessions, halted, ran>>
    BY <1>2, <2>1 DEF HandleMunmap
  <2>3. i \in Id /\ refs[i] = 0 /\ cmd.room = 2
    BY <2>1 DEF Handling, Inv, SentOK, SentMunmap
  <2>4. dev_maps[i] - 1 \in 0 .. MaxMaps
    BY <2>2, <2>3, Names DEF Handling, Inv, Typed, HostTyped
  <2> QED BY <2>1, <2>2, <2>3, <2>4, RemapInv
<1> QED BY <1>1, <1>2

\* handle_command.
LEMMA HandleCommandInv ==
    ASSUME Inv, HandleCommand
    PROVE  Inv'
<1>1. Handling
  <2>1. ~Idle /\ reply = NoReply /\ ~disconnected /\ UNCHANGED <<cmd, file, last>>
        /\ UNCHANGED guestVars /\ UNCHANGED historyVars
    BY DEF HandleCommand
  <2>2. cmd.cmd # "none"
    BY <2>1 DEF Inv, SentOK, Idle
  <2> QED BY <2>1, <2>2 DEF Handling, guestVars, historyVars
<1>2. CASE ~Readable
  <2>1. cmd.cmd = "close" => file = None
    BY <1>2 DEF Inv, SentOK, SentClose, Readable
  <2> QED BY <1>1, <1>2, <2>1, RefuseInv DEF HandleCommand, Errno
<1>3. CASE Readable
  <2>1. CASE cmd.cmd = "open"
    BY <1>1, <1>3, <2>1, HandleOpenInv DEF HandleCommand
  <2>2. CASE cmd.cmd = "close"
    BY <1>1, <1>3, <2>2, HandleCloseInv DEF HandleCommand
  <2>3. CASE cmd.cmd = "ioctl"
    BY <1>1, <1>3, <2>3, HandleIoctlInv DEF HandleCommand
  <2>4. CASE cmd.cmd = "mmap"
    BY <1>1, <1>3, <2>4, HandleMmapInv DEF HandleCommand
  <2>5. CASE cmd.cmd = "munmap"
    BY <1>1, <1>3, <2>5, HandleMunmapInv DEF HandleCommand
  <2>6. CASE cmd.cmd = "other"
    BY <1>1, <1>3, <2>6, RefuseInv DEF HandleCommand, Errno
  <2> QED BY <1>1, <2>1, <2>2, <2>3, <2>4, <2>5, <2>6
          DEF Handling, Inv, Typed, CommandTyped, Kind
<1> QED BY <1>2, <1>3

-----------------------------------------------------------------------------
(* What the entry points do with the response.                             *)

\* virtio_media_kick_command and virtio_media_send_command: without a device the result
\* says so; else it is that of the response, if it is as long as it must be.
LEMMA ResultFacts ==
    ASSUME Inv, NEW min \in 0 .. 2, NEW r \in SendResult(min)
    PROVE  /\ r.ret \in Status
           /\ \/ disconnected /\ r.ret \in {"ENODEV", "ETIMEDOUT"} /\ r.len = 0
              \/ /\ ~disconnected /\ reply.status # "none" /\ r.len = reply.len
                 /\ cmd.room >= 1 /\ r.ret = "ok" => reply.status = "ok" /\ reply.len >= 1
                 /\ reply.len >= 1 /\ cmd.room >= 1
                    /\ (reply.status = "ok" => reply.len >= min) => r.ret = reply.status
<1>1. PICK k \in Kick : r = IF k.ret = "ok" /\ k.len < min THEN [k EXCEPT !.ret = "EINVAL"] ELSE k
  BY DEF SendResult
<1>2. /\ reply.status \in Status /\ reply.len \in 0 .. cmd.room /\ cmd.room \in 0 .. 2
      /\ reply.status = "none" => reply = NoReply
  BY DEF Inv, Typed, CommandTyped, AnsweredOK
<1>3. CASE disconnected
  <2>1. PICK e \in {"ENODEV", "ETIMEDOUT"} : k = [ret |-> e, len |-> 0]
    BY <1>3 DEF Kick
  <2>2. k.ret = e /\ k.len = 0
    BY <2>1
  <2> QED BY <1>1, <1>3, <2>2 DEF Status, Errno
<1>4. CASE ~disconnected
  <2>1. /\ reply # NoReply
        /\ k = [ret |-> IF cmd.room = 0 THEN "ok"
                        ELSE IF reply.len = 0 THEN "EINVAL" ELSE reply.status,
                len |-> reply.len]
    BY <1>4 DEF Kick
  <2>2. /\ k.ret = IF cmd.room = 0 THEN "ok" ELSE IF reply.len = 0 THEN "EINVAL" ELSE reply.status
        /\ k.len = reply.len
    BY <2>1
  <2>3. /\ r.len = k.len
        /\ r.ret = IF k.ret = "ok" /\ k.len < min THEN "EINVAL" ELSE k.ret
    BY <1>1, <2>1
  <2>4. r.ret \in Status
    BY <1>2, <2>2, <2>3 DEF Status, Errno
  <2> QED BY <1>2, <1>4, <2>1, <2>2, <2>3, <2>4
<1> QED BY <1>3, <1>4

\* The channel is free again after a call has returned.
LEMMA ReturnInv ==
    ASSUME Inv, NEW r, Return(r), r.ret \in Status, stuck' \in [Id -> 0 .. MaxMaps],
           GuestTyped', SessionsOK', MapsOK', LastOK'
    PROVE  Inv'
<1>1. /\ cmd' = NoCmd /\ file' = None /\ reply' = NoReply /\ ran' = "none"
      /\ UNCHANGED <<sessions, session_id_counter, polled, dev_sessions, dev_maps, halted>>
      /\ last'.ret = r.ret
  BY DEF Return, hostVars, runnerVars
<1>2. HostTyped'
  BY <1>1 DEF Inv, Typed, HostTyped
<1>3. CommandTyped'
  BY <1>1, Blank DEF CommandTyped, Kind, Status
<1>4. SentOK'
  BY <1>1, Blank DEF SentOK, SentOpen, SentClose, SentIoctl, SentMmap, SentMunmap, SentBad
<1>5. AnsweredOK'
  BY <1>1, BlankAnswer
<1> QED BY <1>2, <1>3, <1>4, <1>5 DEF Inv, Typed

\* What is left of the call.
LEMMA ReturnFacts ==
    ASSUME NEW r, Return(r)
    PROVE  /\ ~Opened' /\ ~Ended' /\ \A i : ~Between(i)'
           /\ UNCHANGED runnerVars /\ UNCHANGED <<dev_sessions, dev_maps>>
           /\ last'.code = cmd.code /\ last'.ran = ran /\ last'.ret = r.ret /\ last'.len = r.len
<1>1. cmd' = NoCmd /\ reply' = NoReply /\ UNCHANGED hostVars
  BY DEF Return
<1>2. last'.code = cmd.code /\ last'.ran = ran /\ last'.ret = r.ret /\ last'.len = r.len
  BY DEF Return
<1> QED BY <1>1, <1>2, Blank DEF Opened, Ended, Between, hostVars

\* A call that is no ioctl is none of those the properties of outcomes are about.
LEMMA OtherLast ==
    ASSUME NEW r, Return(r), cmd.code = None
    PROVE  LastOK'
<1>1. last'.code = None
  BY ReturnFacts
<1> QED BY <1>1, OtherCodes DEF LastOK, OutcomeSeen, CtrlErrorsArrive, SuccessButNoResponse

\* Calls that change neither the references nor a mapping under way.
LEMMA OtherMaps ==
    ASSUME Inv, NEW r, Return(r), cmd.cmd \notin {"mmap", "munmap"},
           UNCHANGED <<refs, disconnected, stuck>>
    PROVE  MapsOK'
<1>1. \A i : ~Between(i) /\ ~Between(i)' /\ UNCHANGED <<dev_maps>>
  BY ReturnFacts DEF Between
<1> QED BY <1>1 DEF Inv, MapsOK

\* The end of virtio_media_device_open.
LEMMA OpenReturnInv ==
    ASSUME Inv, OpenReturn
    PROVE  Inv'
<1>1. PICK r \in SendResult(2), allocated \in BOOLEAN :
         /\ Return(r)
         /\ session_id' = [session_id EXCEPT ![file] =
                              IF r.ret = "ok" /\ allocated THEN reply.id ELSE Closed]
         /\ orphans' = IF r.ret = "ok" /\ ~allocated THEN orphans \cup {reply.id} ELSE orphans
  BY DEF OpenReturn
<1>2. cmd.cmd = "open" /\ UNCHANGED <<refs, disconnected, stuck>>
  BY DEF OpenReturn
<1>3. file \in File /\ session_id[file] = None /\ cmd.code = None /\ cmd.room = 2
  BY <1>2 DEF Inv, SentOK, SentOpen
<1>4. /\ r.ret \in Status
      /\ r.ret = "ok" => Opened /\ ~disconnected
      /\ r.ret # "ok" => ~Opened \/ disconnected
  <2>1. Opened => reply.len = 2
    BY DEF Opened, Inv, AnsweredOK
  <2>2. reply.status = "ok" <=> Opened
    BY <1>2 DEF Opened
  <2> QED BY <1>3, <2>1, <2>2, ResultFacts
<1>5. Opened => /\ reply.id \in Id /\ reply.id + 1 = session_id_counter
                /\ reply.id \notin orphans /\ \A f \in File : session_id[f] # reply.id
  BY DEF Inv, SessionsOK
<1>6. PICK s : s = IF r.ret = "ok" /\ allocated THEN reply.id ELSE Closed
  OBVIOUS
<1>7. s \in Id \cup {Closed} /\ s # None /\ (s \in Id => Opened /\ s = reply.id)
  BY <1>4, <1>5, <1>6, Names
<1>8. /\ session_id \in [File -> Id \cup {None, Closed}] /\ orphans \subseteq Id
      /\ session_id' = [session_id EXCEPT ![file] = s]
  BY <1>1, <1>6 DEF Inv, Typed, GuestTyped
<1>9. \A f \in File : session_id'[f] = IF f = file THEN s ELSE session_id[f]
  BY <1>8
<1>10. GuestTyped'
  <2>1. session_id' \in [File -> Id \cup {None, Closed}]
    BY <1>3, <1>7, <1>8
  <2>2. orphans' \subseteq Id
    BY <1>1, <1>4, <1>5, <1>8
  <2> QED BY <1>2, <2>1, <2>2 DEF Inv, Typed, GuestTyped
<1>11. SessionsOK'
  <2>1. ~Opened' /\ ~Ended' /\ ~Ended /\ SessionsOK
    BY <1>1, <1>2, ReturnFacts DEF Inv, Ended
  <2>2. UNCHANGED <<sessions, session_id_counter, polled, dev_sessions>>
    BY <1>1, ReturnFacts DEF runnerVars
  <2>3. dev_sessions' = sessions' /\ polled' = IF Polls THEN sessions' ELSE {}
    BY <2>1, <2>2 DEF SessionsOK
  <2>4. session_id_counter' <= Cardinality(Used')
    <3>1. Used \subseteq File /\ file \notin Used /\ Used' = Used \cup {file}
      BY <1>3, <1>7, <1>9 DEF Used
    <3>2. Cardinality(Used') = Cardinality(Used) + 1 /\ Cardinality(Used) \in Nat
      BY <1>3, <3>1, IdLeft, UsedFinite
    <3>3. session_id_counter \in Nat
      BY Names DEF Inv, Typed, HostTyped
    <3>4. session_id_counter <= Cardinality(Used) + 0 \/ session_id_counter <= Cardinality(Used) + 1
      BY <2>1 DEF SessionsOK
    <3> QED BY <2>2, <3>2, <3>3, <3>4
  <2>5. session_id_counter \in Nat /\ \A i \in Id : i \in Nat
    BY Names DEF Inv, Typed, HostTyped
  <2>6. \A i \in sessions' \cup orphans' : i < session_id_counter'
    BY <1>1, <1>4, <1>5, <2>1, <2>2, <2>5 DEF SessionsOK
  <2>7. \A f \in File : session_id'[f] \in Id =>
           session_id'[f] < session_id_counter' /\ session_id'[f] \notin orphans'
    <3>1. CASE s \in Id
      <4>1. orphans' = orphans
        BY <1>1, <1>6, <3>1, Names
      <4> QED BY <1>5, <1>7, <1>9, <2>1, <2>2, <2>5, <3>1, <4>1 DEF SessionsOK
    <3>2. CASE s \notin Id
      BY <1>1, <1>4, <1>5, <1>9, <2>1, <2>2, <3>2 DEF SessionsOK
    <3> QED BY <3>1, <3>2
  <2>8. \A f, g \in File : session_id'[f] \in Id /\ session_id'[f] = session_id'[g] => f = g
    BY <1>5, <1>7, <1>9, <2>1 DEF SessionsOK
  <2>9. ASSUME ~disconnected, NEW i \in Id
        PROVE  i \in sessions <=> (\E f \in File : session_id'[f] = i) \/ i \in orphans'
    <3>1. i \in sessions <=> \/ \E f \in File : session_id[f] = i
                             \/ i \in orphans \/ (Opened /\ i = reply.id)
      <4>1. \A f \in File : Owner(f, i) <=> session_id[f] = i
        BY <2>1 DEF Owner
      <4>2. i \in sessions <=> \/ \E f \in File : Owner(f, i)
                               \/ i \in orphans
                               \/ Opened /\ i = reply.id
        BY <2>1, <2>9, Zenon DEF SessionsOK
      <4> QED BY <4>1, <4>2
    <3>2. (\E f \in File : session_id'[f] = i) <=> (\E f \in File : session_id[f] = i) \/ s = i
      BY <1>3, <1>9, Names
    <3>3. s = i \/ i \in orphans' <=> i \in orphans \/ (Opened /\ i = reply.id)
      <4>1. CASE ~(r.ret = "ok")
        <5>1. orphans' = orphans /\ s = Closed /\ ~Opened
          BY <1>1, <1>4, <1>6, <2>9, <4>1
        <5> QED BY <5>1, Names
      <4>2. CASE r.ret = "ok" /\ allocated
        <5>1. orphans' = orphans /\ s = reply.id /\ Opened
          BY <1>1, <1>4, <1>6, <4>2
        <5> QED BY <5>1
      <4>3. CASE r.ret = "ok" /\ ~allocated
        <5>1. orphans' = orphans \cup {reply.id} /\ s = Closed /\ Opened
          BY <1>1, <1>4, <1>6, <4>3
        <5> QED BY <5>1, Names
      <4> QED BY <4>1, <4>2, <4>3
    <3> QED BY <3>1, <3>2, <3>3
  <2>10. \A f \in File, i \in Id : Owner(f, i)' <=> session_id'[f] = i
    BY <2>1 DEF Owner
  <2>11. ~disconnected' => \A i \in Id :
            i \in sessions' <=> \/ \E f \in File : Owner(f, i)'
                                \/ i \in orphans' \/ (Opened' /\ i = reply'.id)
    BY <1>2, <2>1, <2>2, <2>9, <2>10
  <2>12. session_id_counter' <= Cardinality(Used') + 0
    <3>1. Cardinality(Used') \in Nat
      BY UsedFinite DEF Used
    <3> QED BY <2>4, <3>1
  <2> QED BY <2>1, <2>3, <2>6, <2>7, <2>8, <2>11, <2>12 DEF SessionsOK
<1>12. MapsOK' /\ LastOK' /\ stuck' \in [Id -> 0 .. MaxMaps]
  BY <1>1, <1>2, <1>3, OtherMaps, OtherLast DEF Inv, Typed, HostTyped
<1> QED BY <1>1, <1>4, <1>10, <1>11, <1>12, ReturnInv

\* The end of virtio_media_device_close.
LEMMA CloseReturnInv ==
    ASSUME Inv, CloseReturn
    PROVE  Inv'
<1>1. PICK r \in SendResult(0) : Return(r)
  BY DEF CloseReturn
<1>2. /\ cmd.cmd = "close" /\ file # None /\ session_id' = [session_id EXCEPT ![file] = Closed]
      /\ UNCHANGED <<refs, disconnected, orphans, stuck>>
  BY DEF CloseReturn, historyVars
<1>3. file \in File /\ session_id[file] \in Id /\ cmd.code = None /\ cmd.room = 0
  BY <1>2 DEF Inv, SentOK, SentClose, Typed, CommandTyped
<1>4. r.ret \in Status /\ (disconnected \/ Ended)
  <2>1. r.ret \in Status /\ (disconnected \/ reply.status # "none")
    BY <1>1, ResultFacts
  <2>2. reply.status \in {"none", "ok"}
    BY <1>2 DEF Inv, AnsweredOK
  <2> QED BY <1>2, <2>1, <2>2 DEF Ended
<1>5. /\ session_id \in [File -> Id \cup {None, Closed}]
      /\ \A f \in File : session_id'[f] = IF f = file THEN Closed ELSE session_id[f]
  BY <1>2 DEF Inv, Typed, GuestTyped
<1>6. GuestTyped'
  BY <1>2, <1>3, <1>5 DEF Inv, Typed, GuestTyped
<1>7. SessionsOK'
  <2>1. ~Opened' /\ ~Ended' /\ ~Opened /\ SessionsOK
    BY <1>1, <1>2, ReturnFacts DEF Inv, Opened
  <2>2. UNCHANGED <<sessions, session_id_counter, polled, dev_sessions>>
    BY <1>1, ReturnFacts DEF runnerVars
  <2>3. Used' = Used
    BY <1>3, <1>5, Names DEF Used
  <2>4. ASSUME ~disconnected, NEW i \in Id
        PROVE  i \in sessions <=> (\E f \in File : Owner(f, i)') \/ i \in orphans
    <3>1. i \in sessions <=> (\E f \in File : Owner(f, i)) \/ i \in orphans
      BY <2>1, <2>4 DEF SessionsOK
    <3>2. \A f \in File : Owner(f, i) <=> session_id[f] = i /\ f # file
      BY <1>4, <2>4 DEF Owner
    <3>3. \A f \in File : Owner(f, i)' <=> session_id'[f] = i
      BY <2>1 DEF Owner
    <3>4. \A f \in File : session_id'[f] = i <=> session_id[f] = i /\ f # file
      BY <1>5, Names
    <3> QED BY <3>1, <3>2, <3>3, <3>4
  <2>5. \A f, g \in File : session_id'[f] \in Id /\ session_id'[f] = session_id'[g] => f = g
    BY <1>5, <2>1, Names DEF SessionsOK
  <2>6. \A f \in File : session_id'[f] \in Id =>
           session_id'[f] < session_id_counter' /\ session_id'[f] \notin orphans'
    BY <1>2, <1>5, <2>1, <2>2, Names DEF SessionsOK
  <2> QED BY <1>2, <2>1, <2>2, <2>3, <2>4, <2>5, <2>6 DEF SessionsOK
<1>8. MapsOK' /\ LastOK' /\ stuck' \in [Id -> 0 .. MaxMaps]
  BY <1>1, <1>2, <1>3, OtherMaps, OtherLast DEF Inv, Typed, HostTyped
<1> QED BY <1>1, <1>4, <1>6, <1>7, <1>8, ReturnInv

\* Calls that leave the files and the sessions alone.
LEMMA OtherSessions ==
    ASSUME Inv, NEW r, Return(r), cmd.cmd # "open", cmd.cmd # "close" \/ file = None,
           UNCHANGED <<session_id, disconnected, orphans>>
    PROVE  SessionsOK'
<1>1. ~Opened /\ ~Ended /\ ~Opened' /\ ~Ended'
  BY ReturnFacts DEF Opened, Ended
<1> QED BY <1>1, ReturnFacts, StillSessions DEF Inv

\* The extended controls: the error of a response with its payload is passed on, and a
\* response without one is taken for a failure.
LEMMA ExtCtrlsFacts ==
    ASSUME NEW r, r.ret \in Status, r.len \in 0 .. 2, NEW q, q = ExtCtrlsResult(r),
           DOMAIN r = {"ret", "len"}, r = [x \in {"ret", "len"} |-> r[x]]
    PROVE  /\ q.len = r.len /\ q.ret \in Status
           /\ r.len = 2 /\ r.ret # "ok" => q.ret = r.ret
           /\ r.len = 1 => q.ret = "EINVAL"
<1>1. CASE r.ret # "ok" /\ r.len >= 2
  BY <1>1 DEF ExtCtrlsResult
<1>2. CASE ~(r.ret # "ok" /\ r.len >= 2)
  <2>1. q = [r EXCEPT !.ret = IF (r.len - 1) % SizeSpace < 1 THEN "EINVAL" ELSE "ok"]
    BY <1>2 DEF ExtCtrlsResult
  <2>2. q.len = r.len /\ q.ret = IF (r.len - 1) % SizeSpace < 1 THEN "EINVAL" ELSE "ok"
    BY <2>1
  <2>3. r.len = 1 => (r.len - 1) % SizeSpace = 0
    BY CommandsAssumption
  <2> QED BY <1>2, <2>2, <2>3 DEF Status, Errno
<1> QED BY <1>1, <1>2

\* The results are records.
LEMMA ResultShape ==
    ASSUME Inv, NEW min, NEW r \in SendResult(min)
    PROVE  DOMAIN r = {"ret", "len"} /\ r = [x \in {"ret", "len"} |-> r[x]] /\ r.len \in 0 .. 2
<1>1. PICK k \in Kick : r = IF k.ret = "ok" /\ k.len < min THEN [k EXCEPT !.ret = "EINVAL"] ELSE k
  BY DEF SendResult
<1>2. reply.len \in 0 .. 2 /\ reply.status \in Status
  BY DEF Inv, Typed, CommandTyped
<1>3. PICK e \in Status, n \in 0 .. 2 : k = [ret |-> e, len |-> n]
  <2>1. CASE disconnected
    <3>1. PICK e \in {"ENODEV", "ETIMEDOUT"} : k = [ret |-> e, len |-> 0]
      BY <2>1 DEF Kick
    <3>2. 0 \in 0 .. 2 /\ e \in Status
      BY DEF Status, Errno
    <3> QED BY <3>1, <3>2, Zenon
  <2>2. CASE ~disconnected
    <3>1. PICK e \in Status : k = [ret |-> e, len |-> reply.len]
      BY <1>2, <2>2 DEF Kick, Status, Errno
    <3> QED BY <1>2, <3>1, Zenon
  <2> QED BY <2>1, <2>2
<1> QED BY <1>1, <1>3

\* What an ioctl returns.
LEMMA IoctlReturnInv ==
    ASSUME Inv, IoctlReturn
    PROVE  Inv'
<1>1. PICK r \in SendResult(IF cmd.code \in DriverW THEN 1 ELSE 2) :
         Return(IF cmd.code \in ExtCtrls THEN ExtCtrlsResult(r) ELSE r)
  BY DEF IoctlReturn
<1>2. /\ cmd.cmd = "ioctl" /\ file # None /\ UNCHANGED guestVars
      /\ UNCHANGED <<refs, disconnected, session_id, orphans, stuck>>
  BY DEF IoctlReturn, historyVars, guestVars
<1>3. cmd.room = IF cmd.code \in DriverW THEN 1 ELSE 2
  BY <1>2 DEF Inv, SentOK, SentIoctl
<1>4. /\ r.ret \in Status
      /\ \/ disconnected /\ r.ret \in {"ENODEV", "ETIMEDOUT"} /\ r.len = 0
         \/ /\ ~disconnected /\ reply.status # "none" /\ r.len = reply.len
            /\ r.ret = "ok" => reply.status = "ok" /\ reply.len >= 1
            /\ reply.len >= 1 /\ (reply.status = "ok" => reply.len >= cmd.room)
               => r.ret = reply.status
  <2>1. PICK min \in 0 .. 2 : min = cmd.room /\ cmd.room >= 1 /\ r \in SendResult(min)
    BY <1>1, <1>3
  <2> QED BY <2>1, ResultFacts
<1>5. /\ ran # "none" => /\ reply.status = ran /\ reply.len >= 1
                         /\ ran = "ok" => reply.len = cmd.room
                         /\ cmd.code \in ExtCtrls => reply.len = 2
      /\ ran = "none" => reply.status # "ok"
  BY <1>2 DEF Inv, AnsweredOK, Performed
<1>6. PICK q : q = IF cmd.code \in ExtCtrls THEN ExtCtrlsResult(r) ELSE r
  OBVIOUS
<1>7. Return(q)
  BY <1>1, <1>6
<1>8. cmd.room \in 1 .. 2 /\ r.len \in 0 .. 2 /\ reply.len \in 0 .. 2
  BY <1>1, <1>3, ResultShape DEF Inv, Typed, CommandTyped
<1>9. /\ last'.code = cmd.code /\ last'.ran = ran /\ last'.ret = q.ret /\ last'.len = q.len
  BY <1>7, ReturnFacts
<1>10. ASSUME cmd.code \notin ExtCtrls PROVE q.ret \in Status /\ LastOK'
  <2>1. q = r
    BY <1>6, <1>10
  <2>2. LastOK'
    BY <1>4, <1>5, <1>8, <1>9, <1>10, <2>1
       DEF LastOK, OutcomeSeen, CtrlErrorsArrive, SuccessButNoResponse
  <2> QED BY <1>4, <2>1, <2>2
<1>11. ASSUME cmd.code \in ExtCtrls PROVE q.ret \in Status /\ LastOK'
  <2>1. /\ q.len = r.len /\ q.ret \in Status
        /\ r.len = 2 /\ r.ret # "ok" => q.ret = r.ret
        /\ r.len = 1 => q.ret = "EINVAL"
    BY <1>1, <1>4, <1>6, <1>8, <1>11, ResultShape, ExtCtrlsFacts
  <2>2. OutcomeSeen'
    BY <1>9, <1>11 DEF OutcomeSeen
  <2>3. CtrlErrorsArrive'
    BY <1>4, <1>5, <1>8, <1>9, <1>11, <2>1 DEF CtrlErrorsArrive
  <2>4. SuccessButNoResponse'
    BY <1>4, <1>5, <1>8, <1>9, <1>11, <2>1 DEF SuccessButNoResponse
  <2> QED BY <2>1, <2>2, <2>3, <2>4 DEF LastOK
<1>12. q.ret \in Status /\ LastOK'
  BY <1>10, <1>11
<1>13. MapsOK' /\ SessionsOK'
  BY <1>2, <1>7, OtherMaps, OtherSessions
<1>14. GuestTyped' /\ stuck' \in [Id -> 0 .. MaxMaps]
  BY <1>2 DEF Inv, Typed, HostTyped, GuestTyped
<1> QED BY <1>7, <1>12, <1>13, <1>14, ReturnInv

\* The end of virtio_media_device_mmap: the mapping is recorded, or given back.
LEMMA MmapReturnInv ==
    ASSUME Inv, MmapReturn
    PROVE  Inv'
<1>1. PICK r \in SendResult(2) :
         \/ /\ Return(r)
            /\ refs' = IF r.ret = "ok" THEN [refs EXCEPT ![cmd.session] = 1] ELSE refs
            /\ UNCHANGED historyVars
         \/ /\ r.ret = "ok"
            /\ SendCommand(Munmap(cmd.session), None)
            /\ UNCHANGED refs
  BY DEF MmapReturn
<1>2. cmd.cmd = "mmap" /\ file # None /\ UNCHANGED <<session_id, disconnected>>
  BY DEF MmapReturn
<1>3. PICK i \in Id : i = cmd.session
  BY <1>2 DEF Inv, SentOK, SentMmap
<1>4. refs[i] = 0 /\ cmd.code = None /\ cmd.room = 2
  BY <1>2, <1>3 DEF Inv, SentOK, SentMmap
<1>5. /\ r.ret \in Status /\ (r.ret = "ok" => reply.status = "ok" /\ ~disconnected)
      /\ r.ret # "ok" => reply.status # "ok" \/ disconnected
  <2>1. reply.status = "ok" => reply.len = 2
    BY <1>2 DEF Inv, AnsweredOK
  <2> QED BY <1>1, <1>4, <2>1, ResultFacts
<1>6. \A j : Between(j) <=> j = i /\ reply.status = "ok"
  BY <1>2, <1>3 DEF Between
<1>7. ~Opened /\ ~Ended
  BY <1>2 DEF Opened, Ended
<1>8. CASE /\ Return(r) /\ UNCHANGED historyVars
           /\ refs' = IF r.ret = "ok" THEN [refs EXCEPT ![cmd.session] = 1] ELSE refs
  <2>1. 1 \in 0 .. MaxRefs /\ refs \in [Id -> 0 .. MaxRefs]
    BY Names DEF Inv, Typed, GuestTyped
  <2>2. refs' \in [Id -> 0 .. MaxRefs] /\ UNCHANGED <<orphans, stuck>>
    BY <1>3, <1>8, <2>1 DEF historyVars
  <2>3. GuestTyped' /\ stuck' \in [Id -> 0 .. MaxMaps]
    BY <1>2, <2>2 DEF Inv, Typed, HostTyped, GuestTyped
  <2>4. SessionsOK' /\ LastOK'
    BY <1>2, <1>4, <1>8, <2>2, OtherSessions, OtherLast
  <2>5. MapsOK'
    <3>1. UNCHANGED <<dev_maps>> /\ \A j : ~Between(j)'
      BY <1>8, ReturnFacts
    <3>2. \A j \in Id : refs'[j] = IF j = i /\ r.ret = "ok" THEN 1 ELSE refs[j]
      BY <1>3, <1>8, <2>1
    <3> QED BY <1>2, <1>4, <1>5, <1>6, <2>2, <3>1, <3>2 DEF Inv, MapsOK
  <2> QED BY <1>5, <1>8, <2>3, <2>4, <2>5, ReturnInv
<1>9. CASE r.ret = "ok" /\ SendCommand(Munmap(cmd.session), None) /\ UNCHANGED refs
  <2> DEFINE c == Munmap(cmd.session)
  <2>1. /\ c.cmd = "munmap" /\ c.code = None /\ c.parts = 2 /\ c.room = 2 /\ c.session = i
    BY <1>3 DEF Munmap, Command
  <2>2. SendCommand(c, None)
    BY <1>9
  <2> HIDE DEF c
  <2>3. cmd' = c /\ file' = None /\ reply' = NoReply /\ UNCHANGED <<dev_maps, stuck, refs>>
    BY <1>9, <2>2 DEF SendCommand, hostVars, historyVars
  <2>4. MapsOK'
    <3>1. \A j : Between(j)' <=> j = i
      BY <2>1, <2>3, Blank DEF Between
    <3> QED BY <1>2, <1>5, <1>6, <1>9, <2>3, <3>1 DEF Inv, MapsOK
  <2>5. SentOpen' /\ SentClose' /\ SentIoctl' /\ SentMmap' /\ SentMunmap' /\ SentBad'
    BY <1>4, <2>1, <2>3 DEF SentOpen, SentClose, SentIoctl, SentMmap, SentMunmap, SentBad
  <2>6. refs' \in [Id -> 0 .. MaxRefs] /\ c.cmd \in Kind
    BY <2>1, <2>3 DEF Inv, Typed, GuestTyped, Kind
  <2> QED BY <1>2, <1>7, <2>1, <2>2, <2>4, <2>5, <2>6, SendInv
<1> QED BY <1>1, <1>8, <1>9

\* The end of virtio_media_munmap_locked.
LEMMA MunmapReturnInv ==
    ASSUME Inv, MunmapReturn
    PROVE  Inv'
<1>1. PICK r \in SendResult(1) :
         /\ Return(r)
         /\ stuck' = IF r.ret = "ok" \/ disconnected THEN stuck
                     ELSE [stuck EXCEPT ![cmd.session] = stuck[cmd.session] + 1]
  BY DEF MunmapReturn
<1>2. cmd.cmd = "munmap" /\ UNCHANGED <<session_id, refs, disconnected, orphans>>
  BY DEF MunmapReturn, guestVars
<1>3. PICK i \in Id : i = cmd.session
  BY <1>2 DEF Inv, SentOK, SentMunmap
<1>4. refs[i] = 0 /\ cmd.code = None /\ cmd.room = 2
  BY <1>2, <1>3 DEF Inv, SentOK, SentMunmap
<1>5. /\ r.ret \in Status /\ (disconnected \/ (r.ret = "ok" <=> reply.status = "ok"))
  <2>1. reply.status = "ok" => reply.len = 2
    BY <1>2 DEF Inv, AnsweredOK
  <2> QED BY <1>1, <1>4, <2>1, ResultFacts
<1>6. \A j : Between(j) <=> j = i /\ reply.status # "ok"
  BY <1>2, <1>3 DEF Between
<1>7. UNCHANGED <<dev_maps>> /\ \A j : ~Between(j)'
  BY <1>1, ReturnFacts
<1>8. /\ dev_maps \in [Id -> 0 .. MaxMaps] /\ stuck \in [Id -> 0 .. MaxMaps]
      /\ ~disconnected => \A j \in Id :
            dev_maps[j] = stuck[j] + IF refs[j] > 0 \/ Between(j) THEN 1 ELSE 0
  BY DEF Inv, MapsOK, Typed, HostTyped
<1>9. CASE r.ret = "ok" \/ disconnected
  <2>1. stuck' = stuck
    BY <1>1, <1>9
  <2>2. MapsOK'
    BY <1>2, <1>4, <1>5, <1>6, <1>7, <1>8, <1>9, <2>1 DEF MapsOK
  <2>3. GuestTyped' /\ stuck' \in [Id -> 0 .. MaxMaps]
    BY <1>2, <2>1 DEF Inv, Typed, HostTyped, GuestTyped
  <2> QED BY <1>1, <1>2, <1>4, <1>5, <2>2, <2>3, OtherSessions, OtherLast, ReturnInv
<1>10. CASE ~(r.ret = "ok" \/ disconnected)
  <2>1. stuck' = [stuck EXCEPT ![i] = stuck[i] + 1]
    BY <1>1, <1>3, <1>10
  <2>2. dev_maps[i] = stuck[i] + 1
    BY <1>5, <1>6, <1>8, <1>10
  <2>3. stuck[i] + 1 \in 0 .. MaxMaps
    BY <1>8, <2>2
  <2>4. \A j \in Id : stuck'[j] = IF j = i THEN stuck[i] + 1 ELSE stuck[j]
    BY <1>8, <2>1
  <2>5. MapsOK'
    BY <1>2, <1>4, <1>5, <1>6, <1>7, <1>8, <1>10, <2>2, <2>3, <2>4 DEF MapsOK
  <2>6. GuestTyped' /\ stuck' \in [Id -> 0 .. MaxMaps]
    BY <1>2, <1>8, <2>1, <2>3 DEF Inv, Typed, HostTyped, GuestTyped
  <2> QED BY <1>1, <1>2, <1>4, <1>5, <2>5, <2>6, OtherSessions, OtherLast, ReturnInv
<1> QED BY <1>9, <1>10

\* Another driver's command is never reported as a success, nor has it been performed.
LEMMA BadReturnInv ==
    ASSUME Inv, BadReturn
    PROVE  Inv'
<1>1. PICK r \in SendResult(0) : Return(r)
  BY DEF BadReturn
<1>2. /\ ~Idle /\ file = None /\ cmd.cmd # "munmap"
      /\ UNCHANGED <<session_id, refs, disconnected, orphans, stuck>>
  BY DEF BadReturn, guestVars, historyVars
<1>3. cmd.cmd # "none" /\ cmd.cmd # "open"
  BY <1>2, Names DEF Inv, SentOK, SentOpen, Idle
<1>4. cmd.session \notin Id /\ cmd.room >= 1 /\ cmd.code \notin ExtCtrls
  BY <1>2, <1>3, Names DEF Inv, SentOK, SentBad
<1>5. ran = "none" /\ (reply.status = "ok" => reply.len = 0)
  BY <1>2 DEF Inv, AnsweredOK, Performed
<1>6. r.ret \in Status /\ r.ret # "ok"
  <2>1. reply.len \in 0 .. 2
    BY DEF Inv, Typed, CommandTyped
  <2> QED BY <1>1, <1>4, <1>5, <2>1, ResultFacts
<1>7. LastOK'
  <2>1. last'.code = cmd.code /\ last'.ran = ran /\ last'.ret = r.ret
    BY <1>1, ReturnFacts
  <2> QED BY <1>4, <1>5, <1>6, <2>1
          DEF LastOK, OutcomeSeen, CtrlErrorsArrive, SuccessButNoResponse
<1>8. MapsOK'
  <2>1. UNCHANGED <<dev_maps>> /\ \A j \in Id : ~Between(j) /\ ~Between(j)'
    BY <1>1, <1>2, <1>4, ReturnFacts DEF Between
  <2> QED BY <1>2, <2>1 DEF Inv, MapsOK
<1>9. SessionsOK'
  BY <1>1, <1>2, <1>3, OtherSessions
<1>10. GuestTyped' /\ stuck' \in [Id -> 0 .. MaxMaps]
  BY <1>2 DEF Inv, Typed, HostTyped, GuestTyped
<1> QED BY <1>1, <1>6, <1>7, <1>8, <1>9, <1>10, ReturnInv

-----------------------------------------------------------------------------
(* The theorems.                                                           *)

\* Every step preserves the invariant.
LEMMA NextInv == Inv /\ [Next]_vars => Inv'
<1> SUFFICES ASSUME Inv, [Next]_vars PROVE Inv'
  OBVIOUS
<1>1. ASSUME NEW f \in File, Open(f) \/ Close(f) \/ Mmap(f) PROVE Inv'
  BY <1>1, OpenInv, CloseInv, MmapInv
<1>2. ASSUME NEW f \in File, NEW i \in DriverIoctl, NEW valid \in BOOLEAN, Ioctl(f, i, valid)
      PROVE  Inv'
  BY <1>2, IoctlInv
<1>3. ASSUME NEW i \in Id, VmaOpen(i) \/ VmaClose(i) PROVE Inv'
  BY <1>3, VmaOpenInv, VmaCloseInv
<1>4. CASE BadCommand \/ HandleCommand \/ StopQueues
  BY <1>4, BadCommandInv, HandleCommandInv, StopQueuesInv
<1>5. CASE OpenReturn \/ CloseReturn \/ IoctlReturn \/ MmapReturn \/ MunmapReturn \/ BadReturn
  BY <1>5, OpenReturnInv, CloseReturnInv, IoctlReturnInv, MmapReturnInv, MunmapReturnInv,
     BadReturnInv
<1>6. CASE UNCHANGED vars
  <2>1. UNCHANGED <<sessions, session_id_counter, polled, dev_sessions, dev_maps, halted,
                    session_id, refs, disconnected, cmd, file, reply, ran, last, orphans, stuck>>
    BY <1>6 DEF vars, hostVars, runnerVars, guestVars, historyVars
  <2>2. Typed' /\ AnsweredOK' /\ LastOK'
    BY <2>1 DEF Inv, Typed, HostTyped, GuestTyped, CommandTyped, AnsweredOK, Performed, LastOK,
                OutcomeSeen, CtrlErrorsArrive, SuccessButNoResponse
  <2>3. SentOK'
    BY <2>1 DEF Inv, SentOK, SentOpen, SentClose, SentIoctl, SentMmap, SentMunmap, SentBad, Mapped
  <2>4. Used' = Used /\ Opened' = Opened /\ Ended' = Ended /\ \A i : Between(i)' <=> Between(i)
    BY <2>1 DEF Used, Opened, Ended, Between
  <2>5. SessionsOK' /\ MapsOK'
    BY <2>1, <2>4 DEF Inv, SessionsOK, MapsOK, Owner
  <2> QED BY <2>2, <2>3, <2>5 DEF Inv
<1> QED BY <1>1, <1>2, <1>3, <1>4, <1>5, <1>6 DEF Next

\* The invariant holds for every number of files, mappings and references, whichever ioctls
\* the device implements, and whenever the device is removed.
THEOREM CommandsInvariant == Spec => []Inv
BY InitInv, NextInv, PTL DEF Spec

\* The variables keep the types of the fields they stand for; in particular every session
\* has an id, as session_id_counter does not exceed the number of files.
THEOREM CommandsTypeCorrect == Spec => []TypeOK
<1>1. ASSUME Inv PROVE TypeOK
  <2>1. polled \subseteq Id /\ dev_sessions \subseteq Id
    BY <1>1 DEF Inv, SessionsOK, Typed, HostTyped
  <2> QED BY <1>1, <2>1 DEF Inv, Typed, HostTyped, GuestTyped, CommandTyped, Status, TypeOK
<1> QED BY <1>1, CommandsInvariant, PTL

\* The runner's table, the poller and the device know the same sessions, and between two
\* commands they are those of the open files and the orphans (handle_command,
\* virtio_media_device_open and virtio_media_device_close).
THEOREM SessionsAlwaysOwned == Spec => []SessionsOwned
<1>1. ASSUME Inv PROVE SessionsOwned
  <2>1. dev_sessions = sessions /\ polled = IF Polls THEN sessions ELSE {}
    BY <1>1 DEF Inv, SessionsOK
  <2> DEFINE open == {f \in File : session_id[f] \in Id}
  <2>2. ASSUME Idle, ~disconnected
        PROVE  /\ sessions = {session_id[f] : f \in open} \cup orphans
               /\ \A f, g \in open : session_id[f] = session_id[g] => f = g
               /\ \A f \in open : session_id[f] \notin orphans
    <3>1. ~Opened /\ ~Ended
      BY <1>1, <2>2, IdleFacts
    <3>2. \A i \in Id : i \in sessions <=> (\E f \in File : session_id[f] = i) \/ i \in orphans
      BY <1>1, <2>2, <3>1 DEF Inv, SessionsOK, Owner
    <3>3. sessions \subseteq Id /\ orphans \subseteq Id
      BY <1>1 DEF Inv, Typed, HostTyped, GuestTyped
    <3>4. sessions = {session_id[f] : f \in open} \cup orphans
      BY <3>2, <3>3
    <3>5. /\ \A f, g \in open : session_id[f] = session_id[g] => f = g
          /\ \A f \in open : session_id[f] \notin orphans
      BY <1>1 DEF Inv, SessionsOK
    <3> QED BY <3>4, <3>5
  <2> QED BY <2>1, <2>2 DEF SessionsOwned
<1> QED BY <1>1, CommandsInvariant, PTL

\* Between two commands the host has one mapping for each one the guest has, and those
\* it has refused to remove (virtio_media_device_mmap, virtio_media_vma_close).
THEOREM MapsAlwaysBalanced == Spec => []MapsBalanced
<1>1. ASSUME Inv PROVE MapsBalanced
  <2>1. ASSUME Idle PROVE \A i : ~Between(i)
    BY <1>1, <2>1, IdleFacts
  <2> QED BY <1>1, <2>1 DEF Inv, MapsOK, MapsBalanced
<1> QED BY <1>1, CommandsInvariant, PTL

\* An ioctl returns what the device's handler returned, unless the response is lost: the
\* shapes of the payloads in the driver and in virtio_media_dispatch_ioctl agree.
THEOREM OutcomesAlwaysSeen == Spec => []OutcomeSeen
<1>1. Inv => OutcomeSeen
  BY DEF Inv, LastOK
<1> QED BY <1>1, CommandsInvariant, PTL

\* An error of an extended-controls handler arrives with the controls.
THEOREM CtrlErrorsAlwaysArrive == Spec => []CtrlErrorsArrive
<1>1. Inv => CtrlErrorsArrive
  BY DEF Inv, LastOK
<1> QED BY <1>1, CommandsInvariant, PTL

\* An ioctl that returns success was performed, but for an extended-controls ioctl to which
\* there was no response (virtio_media_send_ext_controls_ioctl).
THEOREM SuccessAlwaysReal == Spec => []SuccessButForNoResponse
<1>1. Inv => SuccessButForNoResponse
  BY DEF Inv, LastOK, OutcomeSeen, SuccessButNoResponse, SuccessButForNoResponse
<1> QED BY <1>1, CommandsInvariant, PTL

\* No ioctl that replaces buffers succeeds while the guest maps one: nothing is mapped when
\* virtio_media_device_ioctl sends it, and no mapping is made until it returns.
THEOREM MapsAlwaysPinned == Spec => MapsPinned
<1>1. ASSUME Inv, Next, ran' = "ok", ran # "ok", cmd.code \in Reallocates
      PROVE  Mapped = {}
  <2>1. HandleCommand
    BY <1>1 DEF Next, Open, Close, Mmap, Ioctl, VmaOpen, VmaClose, BadCommand, StopQueues,
                OpenReturn, CloseReturn, IoctlReturn, MmapReturn, MunmapReturn, BadReturn,
                SendCommand, Return
  <2>2. Inv'
    BY <1>1, NextInv
  <2>3. cmd'.cmd = "ioctl" /\ file' # None /\ UNCHANGED <<cmd, file>>
    BY <1>1, <2>1, <2>2 DEF Inv, AnsweredOK, Performed, HandleCommand
  <2> QED BY <1>1, <2>3 DEF Inv, SentOK, SentIoctl
<1>2. Inv /\ [Next]_vars
        => [ran' = "ok" /\ ran # "ok" /\ cmd.code \in Reallocates => Mapped = {}]_vars
  BY <1>1
<1> QED BY <1>2, CommandsInvariant, PTL DEF Spec, MapsPinned
=============================================================================
